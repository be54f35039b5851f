------------------------------- MODULE SlotRpc -------------------------------
(***************************************************************************)
(* Remote calls of the host to the slaves, end to end: staging a command   *)
(* in the bus controller (on_bus_msg, kbapp_on_echo_to), its two carriers  *)
(* (the per-slot arbiter of bus_control_task and the command path of       *)
(* bus_run_cycle with its correlation table), the slave's responder        *)
(* (core/bus_node.c, node/node_role.c), and the way the reply takes back   *)
(* to the host.  The bus loses frames; nothing is ever retransmitted.      *)
(*                                                                         *)
(* Actors: the uplink task (host commands), core1 of the controller        *)
(* (originated commands), the bus task, and each slave's application       *)
(* engine with its reply pump.  One step is one hold of g_lock or          *)
(* g_pool_cs, or one bus_send with what the slave does about it.           *)
(*                                                                         *)
(* A request is known by its number; its wire id is what frames carry, and *)
(* `of', which no code reads, is the number of the request a frame is      *)
(* about.  A definition marked faulty is a mutant of the one below it.     *)
(***************************************************************************)
EXTENDS Integers, Sequences, FiniteSets

CONSTANTS
    NSlaves,       \* the slaves have the addresses 1..NSlaves, in roster order
    HostBase,      \* the host numbers its commands HostBase + 1, + 2, ...
    Kinds,         \* what the host asks: "sync", "app" (a slave's engine), "orig"
    CMDCORR_MAX,   \* entries of g_corr
    OrigLen,       \* length of g_orig_q
    NODE_TXQ_LEN,  \* replies a slave holds
    CollectTries,  \* CMD_COLLECT_TRIES
    MaxReqs,       \* bound: requests of the host
    MaxLoss,       \* bound: lost frames
    MaxAdmin       \* bound: mode switches, re-attachments, roster reloads

ASSUME SlotRpcAssumption ==
    /\ HostBase \in Nat /\ Kinds \subseteq {"sync", "app", "orig"}
    /\ {NSlaves, CMDCORR_MAX, OrigLen, NODE_TXQ_LEN, CollectTries} \subseteq Nat \ {0}
    /\ {MaxReqs, MaxLoss, MaxAdmin} \subseteq Nat

VARIABLES
    reqs,       \* what the host asked so far: [to, kind]
    pending,    \* g_cmd_pending
    cmd,        \* g_cmd_slave, g_cmd_req_id, g_cmd_is_orig, g_cmd_host_req
    origQ,      \* g_orig_q
    origSeq,    \* g_orig_seq
    eng,        \* core1 between its corr_add and its bus_msg_send
    cycleMode,  \* g_cycle_mode
    dirty,      \* g_nodes_dirty
    corr,       \* g_corr
    outbox,     \* the passive lists: messages for the next cycle
    st,         \* state of the per-slot arbiter
    job,        \* the command it copied, and its collect_tries
    cyc,        \* where bus_run_cycle is
    sending,    \* the active lists: messages of this cycle
    marked,     \* marked[]: the slaves sent to in this cycle
    cursor,     \* g_cursor, or the index of the cycle's sweep
    rx,         \* the frames of the polled window not handled yet
    appq,       \* per slave, what waits for its engine
    txq,        \* per slave, g_txq
    ran,        \* how often a request was executed, and by whom
    told,       \* the frames the host got: acks and replies
    budget

hostVars == <<reqs, told>>
cmdVars  == <<pending, cmd, origQ, origSeq>>
corrVars == <<corr, eng>>
busVars  == <<st, job, cyc, sending, marked, cursor, rx>>
nodeVars == <<appq, txq, ran>>
vars == <<hostVars, cmdVars, corrVars, busVars, nodeVars, cycleMode, dirty, outbox, budget>>

-----------------------------------------------------------------------------
Slaves == 1..NSlaves
App == 0                              \* BUS_ADDR_APPCORE
Free == [id |-> 0, addr |-> App, orig |-> FALSE, host |-> 0]
HostId(n) == HostBase + n
NoCmd == [to |-> App, id |-> 0, orig |-> FALSE, host |-> 0, of |-> 0, app |-> FALSE]
NoJob == [c |-> NoCmd, tries |-> 0, heard |-> FALSE]

Init ==
    /\ reqs = << >> /\ told = {}
    /\ pending = FALSE /\ cmd = NoCmd /\ origQ = << >> /\ origSeq = 0
    /\ eng = NoCmd /\ corr = [i \in 1..CMDCORR_MAX |-> Free]
    /\ cycleMode = TRUE /\ dirty = FALSE /\ outbox = << >>
    /\ st = "top" /\ job = NoJob /\ cyc = "idle" /\ sending = << >> /\ marked = {}
    /\ cursor = 1 /\ rx = << >>
    /\ appq = [a \in Slaves |-> << >>] /\ txq = [a \in Slaves |-> << >>] /\ ran = << >>
    /\ budget = [loss |-> MaxLoss, admin |-> MaxAdmin]

(* corr_add takes the first free entry and drops the correlation when there *)
(* is none; corr_take frees the first entry of this reply id and address.   *)
CorrAdd(c, tbl) == [i \in DOMAIN tbl |->
    IF tbl[i] = Free /\ \A j \in 1..(i - 1) : tbl[j] # Free
    THEN [id |-> c.id, addr |-> c.to, orig |-> c.orig, host |-> c.host] ELSE tbl[i]]
MatchAny(id, a) == {i \in DOMAIN corr : corr[i] # Free /\ corr[i].addr = a}   \* faulty
Match(id, a) ==
    {i \in DOMAIN corr : /\ corr[i].id = id /\ corr[i].addr = a /\ corr[i] # Free
                         /\ \A j \in 1..(i - 1) : corr[j].id # id \/ corr[j].addr # a}

-----------------------------------------------------------------------------
(* The host, through the uplink task and core1.                            *)

(* on_bus_msg to a slave: dropped while a command is pending.              *)
HostCommand(a, k) ==
    /\ Len(reqs) < MaxReqs
    /\ reqs' = Append(reqs, [to |-> a, kind |-> k]) /\ ran' = Append(ran, 0)
    /\ LET n == Len(reqs) + 1 IN
       IF pending THEN UNCHANGED <<cmd, pending>>
       ELSE /\ cmd' = [to |-> a, id |-> HostId(n), orig |-> FALSE, host |-> HostId(n),
                       of |-> n, app |-> k = "app"]
            /\ pending' = TRUE
    /\ UNCHANGED <<told, origQ, origSeq, corrVars, busVars, appq, txq, cycleMode, dirty,
                   outbox, budget>>

(* on_bus_msg to APPCORE, carried through the engine to kbapp_on_echo_to:  *)
(* with the cyclic engine core1 correlates and then sends, otherwise the   *)
(* request waits in g_orig_q (dropped when full).                          *)
HostOriginate(a) ==
    /\ "orig" \in Kinds
    /\ Len(reqs) < MaxReqs /\ eng = NoCmd
    /\ reqs' = Append(reqs, [to |-> a, kind |-> "orig"]) /\ ran' = Append(ran, 0)
    /\ LET n == Len(reqs) + 1
           c == [to |-> a, id |-> origSeq + 1, orig |-> TRUE, host |-> HostId(n),
                 of |-> n, app |-> TRUE]
       IN IF cycleMode
          THEN /\ eng' = c
               /\ corr' = CorrAdd(c, corr)
               /\ origSeq' = origSeq + 1
               /\ UNCHANGED <<origQ, outbox>>
          ELSE /\ origQ' = IF Len(origQ) < OrigLen THEN Append(origQ, c) ELSE origQ
               /\ UNCHANGED <<origSeq, corrVars, outbox>>
    /\ UNCHANGED <<told, pending, cmd, busVars, appq, txq, cycleMode, dirty, budget>>

EngineSend ==
    /\ eng # NoCmd
    /\ outbox' = <<eng>> \o outbox
    /\ eng' = NoCmd
    /\ UNCHANGED <<corr, hostVars, cmdVars, busVars, nodeVars, cycleMode, dirty, budget>>

(* What the host may do meanwhile: switch the mode (CMD_BUS_CYCLE_MODE),   *)
(* re-attach (uplink_enter drops the pending command), clear and register  *)
(* the roster again (the next cycle rebuilds the node table).              *)
Admin == budget.admin > 0 /\ budget' = [budget EXCEPT !.admin = @ - 1]
SwitchMode ==
    /\ Admin
    /\ cycleMode' = ~cycleMode
    /\ UNCHANGED <<hostVars, cmdVars, corrVars, busVars, nodeVars, dirty, outbox>>
UplinkEnter ==
    /\ Admin
    /\ pending' = FALSE
    /\ UNCHANGED <<hostVars, cmd, origQ, origSeq, corrVars, busVars, nodeVars, cycleMode,
                   dirty, outbox>>
ReloadRoster ==
    /\ Admin
    /\ pending' = FALSE /\ dirty' = TRUE
    /\ UNCHANGED <<hostVars, cmd, origQ, origSeq, corrVars, busVars, nodeVars, cycleMode, outbox>>

-----------------------------------------------------------------------------
(* The slave: bus_node_on_data answers at once or hands the command to the *)
(* slave's engine; a reply that finds g_txq full is lost.                  *)
QueueAlways(q, r) == Append(q, r)                                           \* faulty
Queue(q, r) == IF Len(q) < NODE_TXQ_LEN THEN Append(q, r) ELSE q
ReplyTo(c) == [id |-> c.id, of |-> c.of]
ToEngine(c) == c.app       \* node_engine_try_route; its queue of 8 outlasts MaxReqs
OnData(c) ==
    /\ ran' = [ran EXCEPT ![c.of] = @ + 1]
    /\ IF ToEngine(c)
       THEN appq' = [appq EXCEPT ![c.to] = Append(@, ReplyTo(c))] /\ UNCHANGED txq
       ELSE txq' = [txq EXCEPT ![c.to] = Queue(@, ReplyTo(c))] /\ UNCHANGED appq

(* The engine's tick (kbapp_on_echo), then node_reply_pump_task.           *)
NodeEngine(a) ==
    /\ appq[a] # << >>
    /\ appq' = [appq EXCEPT ![a] = Tail(@)]
    /\ txq' = [txq EXCEPT ![a] = Queue(@, Head(appq[a]))]
    /\ UNCHANGED <<hostVars, cmdVars, corrVars, busVars, ran, cycleMode, dirty, outbox, budget>>

(* A frame is lost on the bus.                                             *)
Lose == budget.loss > 0 /\ budget' = [budget EXCEPT !.loss = @ - 1]

(* node_emit_window: everything queued, in order.                          *)
Window(a) == [i \in DOMAIN txq[a] |-> [from |-> a, r |-> txq[a][i]]]

(* bus_send of DATA: the slave hears it and acknowledges it, or not.       *)
SendData(c) == \/ OnData(c) /\ UNCHANGED budget
               \/ Lose /\ UNCHANGED nodeVars

-----------------------------------------------------------------------------
(* The bus task, per-slot arbiter (the top of its loop looks at the mode). *)
AtTop == cyc = "idle" /\ rx = << >> /\ ~cycleMode

Next1(a) == IF a + 1 \in Slaves THEN a + 1 ELSE 1

(* BS_SWEEP: promote an originated request into the pending command ...    *)
TakeOrig ==
    /\ AtTop /\ st = "top"
    /\ ~pending /\ origQ # << >>
    /\ origSeq' = origSeq + 1
    /\ cmd' = [Head(origQ) EXCEPT !.id = origSeq + 1]
    /\ origQ' = Tail(origQ)
    /\ pending' = TRUE /\ st' = "copy"
    /\ UNCHANGED <<hostVars, corrVars, job, cyc, sending, marked, cursor, rx, nodeVars,
                   cycleMode, dirty, outbox, budget>>

(* ... and copy the pending command, or poll the next slave.               *)
CopyCmd ==
    /\ \/ AtTop /\ st = "top" /\ (pending \/ origQ = << >>)
       \/ st = "copy"
    /\ IF pending THEN st' = "inject" /\ job' = [job EXCEPT !.c = cmd]
                  ELSE st' = "sweep" /\ UNCHANGED job
    /\ UNCHANGED <<hostVars, cmdVars, corrVars, cyc, sending, marked, cursor, rx, nodeVars,
                   cycleMode, dirty, outbox, budget>>

(* BS_CMD_INJECT: one transmission, then wait for the acknowledgement.     *)
InjectSend ==
    /\ st = "inject"
    /\ SendData(job.c)
    /\ job' = [job EXCEPT !.heard = (ran' # ran)]
    /\ st' = "ack"
    /\ UNCHANGED <<hostVars, cmdVars, corrVars, cyc, sending, marked, cursor, rx, cycleMode,
                   dirty, outbox>>

(* The acknowledgement arrived (or did not): the host's frame is built     *)
(* from g_cmd_req_id as it is now, and the pending flag is dropped.        *)
KeepPending == UNCHANGED pending                                             \* faulty
Served == pending' = FALSE
Acked ==
    /\ st = "ack"
    /\ \/ /\ job.heard
          /\ told' = IF job.c.orig THEN told
                     ELSE told \cup {[via |-> "ack", from |-> job.c.to, id |-> cmd.id,
                                      of |-> job.c.of]}
          /\ UNCHANGED budget
       \/ ~job.heard /\ UNCHANGED <<told, budget>>
       \/ job.heard /\ Lose /\ UNCHANGED told
    /\ Served
    /\ job' = [job EXCEPT !.tries = CollectTries, !.heard = FALSE]
    /\ st' = "collect"
    /\ UNCHANGED <<reqs, cmd, origQ, origSeq, corrVars, cyc, sending, marked, cursor, rx,
                   nodeVars, cycleMode, dirty, outbox>>

(* BS_CMD_COLLECT: poll the slave; the first frame of its window is taken  *)
(* as the reply of this command, the rest is flushed by the next send.     *)
(* An originated command's reply is re-tagged for its requester.           *)
NeverLast == FALSE                                                           \* faulty
LastTry == job.tries = 1
Missed == /\ job' = [job EXCEPT !.tries = IF @ = 1 THEN CollectTries ELSE @ - 1]
          /\ st' = IF LastTry THEN "top" ELSE "collect"
          /\ UNCHANGED told
Collect ==
    /\ AtTop /\ st = "collect"
    /\ LET a == job.c.to
           Got(r) == [via |-> "collect", from |-> IF job.c.orig THEN App ELSE a,
                      id |-> IF job.c.orig THEN job.c.host ELSE r.id, of |-> r.of]
       IN \/ /\ txq[a] # << >>
             /\ told' = told \cup {Got(Head(txq[a]))}
             /\ txq' = [txq EXCEPT ![a] = << >>]
             /\ st' = "top" /\ job' = NoJob
             /\ UNCHANGED budget
          \/ txq[a] = << >> /\ Missed /\ UNCHANGED <<txq, budget>>
          \/ Lose /\ Missed /\ UNCHANGED txq                       \* the poll is lost
          \/ /\ Lose /\ txq[a] # << >> /\ Missed                   \* the window is lost
             /\ txq' = [txq EXCEPT ![a] = << >>]
    /\ UNCHANGED <<reqs, cmdVars, corrVars, cyc, sending, marked, cursor, rx, appq, ran,
                   cycleMode, dirty, outbox>>

(* bus_poll_slot: the window of slave a, to be handled frame by frame.     *)
PollSlot(a) ==
    \/ /\ rx' = Window(a)
       /\ txq' = [txq EXCEPT ![a] = << >>]
       /\ UNCHANGED budget
    \/ Lose /\ UNCHANGED <<rx, txq>>
    \/ /\ txq[a] # << >> /\ Lose
       /\ txq' = [txq EXCEPT ![a] = << >>] /\ UNCHANGED rx

Sweep ==
    /\ st = "sweep"
    /\ PollSlot(cursor)
    /\ cursor' = Next1(cursor)
    /\ st' = "top"
    /\ UNCHANGED <<hostVars, cmdVars, corrVars, job, cyc, sending, marked, appq, ran,
                   cycleMode, dirty, outbox>>

(* handle_slot_frame: a correlated reply goes to its requester, another    *)
(* one into the cycle's feedback or, per slot, to the host as it is.       *)
KeepEntry(i) == corr' = corr                                                 \* faulty
FreeEntry(i) == corr' = [corr EXCEPT ![i] = Free]
HandleFrame ==
    /\ rx # << >>
    /\ LET f == Head(rx)
           m == Match(f.r.id, f.from)
       IN \/ \E i \in m :
               /\ told' = told \cup {[via |-> "corr", from |-> IF corr[i].orig THEN App ELSE f.from,
                                      id |-> IF corr[i].orig THEN corr[i].host ELSE f.r.id,
                                      of |-> f.r.of]}
               /\ FreeEntry(i)
          \/ /\ m = {}
             /\ told' = told \cup {[via |-> IF cyc = "idle" THEN "sweep" ELSE "feedback",
                                    from |-> f.from, id |-> f.r.id, of |-> f.r.of]}
             /\ UNCHANGED corr
    /\ rx' = Tail(rx)
    /\ UNCHANGED <<reqs, cmdVars, eng, st, job, cyc, sending, marked, cursor, nodeVars,
                   cycleMode, dirty, outbox, budget>>

-----------------------------------------------------------------------------
(* The bus task, cyclic engine: rebuild if the roster changed (queued      *)
(* messages and correlations are dropped), drain the pending command into  *)
(* the lists, swap.                                                        *)
FreshCorr == [i \in DOMAIN corr |-> Free]
CycleStart ==
    /\ cyc = "idle" /\ rx = << >> /\ cycleMode
    /\ st \in {"top", "collect"}
    /\ LET q == IF dirty THEN << >> ELSE outbox
           t == IF dirty THEN FreshCorr ELSE corr
       IN /\ sending' = IF pending THEN <<cmd>> \o q ELSE q
          /\ corr' = IF pending THEN CorrAdd([cmd EXCEPT !.orig = FALSE, !.host = cmd.id], t)
                     ELSE t
    /\ outbox' = << >> /\ dirty' = FALSE
    /\ Served
    /\ cyc' = "send" /\ marked' = {} /\ cursor' = 1
    /\ UNCHANGED <<hostVars, cmd, origQ, origSeq, eng, st, job, rx, nodeVars, cycleMode, budget>>

(* The message pass, one bus_send after the other; no acknowledgement is   *)
(* waited for.                                                             *)
CycleSend ==
    /\ cyc = "send" /\ sending # << >>
    /\ SendData(Head(sending))
    /\ sending' = Tail(sending)
    /\ marked' = marked \cup {Head(sending).to}
    /\ UNCHANGED <<hostVars, cmdVars, corrVars, st, job, cyc, cursor, rx, cycleMode, dirty, outbox>>

(* The sweep polls the slaves that were not sent to.                       *)
SkipFirst(a) == a = 1                                                        \* faulty
SkipMarked(a) == a \in marked
CyclePoll ==
    /\ \/ cyc = "send" /\ sending = << >>
       \/ cyc = "poll"
    /\ rx = << >>
    /\ IF SkipMarked(cursor) THEN UNCHANGED <<rx, txq, budget>> ELSE PollSlot(cursor)
    /\ cyc' = IF cursor + 1 \in Slaves THEN "poll" ELSE "end"
    /\ cursor' = Next1(cursor)
    /\ UNCHANGED <<hostVars, cmdVars, corrVars, st, job, sending, marked, appq, ran, cycleMode,
                   dirty, outbox>>

CycleEnd ==
    /\ cyc = "end" /\ rx = << >>
    /\ cyc' = "idle"
    /\ UNCHANGED <<hostVars, cmdVars, corrVars, st, job, sending, marked, cursor, rx, nodeVars,
                   cycleMode, dirty, outbox, budget>>

-----------------------------------------------------------------------------
BusStep == TakeOrig \/ CopyCmd \/ InjectSend \/ Acked \/ Collect \/ Sweep \/ HandleFrame
           \/ CycleStart \/ CycleSend \/ CyclePoll \/ CycleEnd

Next ==
    \/ \E a \in Slaves, k \in Kinds \ {"orig"} : HostCommand(a, k)
    \/ \E a \in Slaves : HostOriginate(a)
    \/ EngineSend
    \/ SwitchMode \/ UplinkEnter \/ ReloadRoster
    \/ \E a \in Slaves : NodeEngine(a)
    \/ BusStep

Spec == Init /\ [][Next]_vars

(* Every task runs on: the bus task and core1 never block for good, and a  *)
(* slave's engine ticks.                                                   *)
FairSpec == /\ Spec
            /\ WF_vars(BusStep) /\ WF_vars(EngineSend)
            /\ \A a \in Slaves : WF_vars(NodeEngine(a))

-----------------------------------------------------------------------------
Command == [to : Slaves, id : Nat, orig : BOOLEAN, host : Nat, of : 1..MaxReqs, app : BOOLEAN]
Reply == [id : Nat, of : 1..MaxReqs]
TypeOK ==
    /\ reqs \in Seq([to : Slaves, kind : Kinds]) /\ Len(reqs) <= MaxReqs
    /\ Len(ran) = Len(reqs)
    /\ \A t \in told : t.from \in Slaves \cup {App} /\ t.of \in DOMAIN reqs
    /\ cmd \in Command \cup {NoCmd} /\ eng \in Command \cup {NoCmd}
    /\ (pending => cmd # NoCmd)
    /\ \A q \in {origQ, outbox, sending} : q \in Seq(Command)
    /\ Len(origQ) <= OrigLen /\ origSeq \in 0..MaxReqs
    /\ st \in {"top", "copy", "inject", "ack", "collect", "sweep"}
    /\ cyc \in {"idle", "send", "poll", "end"} /\ cursor \in Slaves
    /\ job.c \in Command \cup {NoCmd} /\ job.tries \in 0..CollectTries
    /\ \A a \in Slaves : txq[a] \in Seq(Reply) /\ Len(txq[a]) <= NODE_TXQ_LEN

(* A slave executes a command at most once, whichever carrier takes it and *)
(* whatever is lost: the controller transmits a staged command once and    *)
(* leaves retries to the host.                                             *)
AtMostOnce == \A n \in DOMAIN ran : ran[n] <= 1

(* A reply that handle_slot_frame relays through the correlation table     *)
(* reaches the requester of the command it answers, under the id this      *)
(* requester used (the host numbering its commands apart from g_orig_seq). *)
RightRequester(t) == /\ t.id = HostId(t.of)
                     /\ (t.from = App) = (reqs[t.of].kind = "orig")
RelayMatches == \A t \in told : t.via = "corr" => RightRequester(t)

(* An entry of the correlation table waits for a reply that handle_slot_-  *)
(* frame has not seen: core1 enters the correlation before it sends, so    *)
(* that no sweep of the bus task can overtake it, and a relayed reply      *)
(* frees its entry.                                                        *)
EntryOutstanding ==
    \A i \in DOMAIN corr : corr[i] # Free =>
        \A t \in told : t.via \in {"corr", "feedback", "sweep"} => HostId(t.of) # corr[i].host

(* A command is run once and its reply goes to the requester it belongs to,  *)
(* over both paths and through switches between them.                        *)
RpcSound == TypeOK /\ AtMostOnce /\ RelayMatches /\ EntryOutstanding

(* The staged command does not block the next one for good: it is sent, or *)
(* withdrawn, and COLLECT gives up after its tries.                        *)
CommandServed == pending ~> ~pending

(* An originated request is taken from g_orig_q while the per-slot arbiter *)
(* runs, even though host commands have precedence over it.                *)
OrigServed == (origQ # << >> /\ ~cycleMode) ~> (origQ = << >> \/ cycleMode)

(* No reply stays in a slave's queue: some window fetches it.              *)
RepliesFetched == \A a \in Slaves : txq[a] # << >> ~> txq[a] = << >>

(* No command waits for ever, from the host or from core1, and no reply is   *)
(* left at a slave.                                                          *)
CallsServed == CommandServed /\ OrigServed /\ RepliesFetched

(* Every relayed reply, COLLECT's too, answers the command of its          *)
(* requester: `re-tag the slave's reply to the host's req_id'.             *)
ReplyMatches == \A t \in told : t.via \in {"corr", "collect"} => RightRequester(t)

(* The acknowledgement the host gets carries the id of the command that    *)
(* was acknowledged: BS_CMD_INJECT reads g_cmd_req_id after the wait, when *)
(* it may be that of a command staged meanwhile.                           *)
AckMatches == \A t \in told : t.via = "ack" => t.id = HostId(t.of)
=============================================================================
