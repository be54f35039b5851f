------------------------------ MODULE ChainTree ------------------------------
(***************************************************************************)
(* Core 1 as a process: app_engine_task brings the engine up and runs      *)
(* cfl_runtime_run, which every tick takes the commands core 0 queued      *)
(* (cfl_embed_pre_tick), gives each active KB its timer events and drains  *)
(* the event rings.  Core 0 queues commands and takes replies at any time. *)
(*                                                                         *)
(* One step is one command taken from g_down_q, one KB started on, or one  *)
(* event popped and executed to its end: core 1 is the only thread that    *)
(* touches the handle, so nothing can be seen in between.                  *)
(***************************************************************************)
EXTENDS CflEngine

CONSTANTS
    Cmds,       \* the commands core 0 sends, by name
    DownCap,    \* length of g_down_q
    MaxReq      \* bound: requests sent between two resets

VARIABLES
    h,       \* the runtime handle and core 1's globals (see CflEngine)
    down,    \* g_down_q
    pc,      \* where cfl_runtime_run is: pre, kb, drain, exit
    kb,      \* kb_idx of the loop over the KBs
    loop,    \* loop_flag
    sec,     \* this tick's changed_mask has CFL_CHANGED_SECOND
    stream,  \* g_stream_on
    sent     \* commands core 1 accepted since boot: request r is sent[r]

vars == <<h, down, pc, kb, loop, sec, stream, sent>>

-----------------------------------------------------------------------------
(* The image the firmware carries: kb0, kb1 and kbapp, each a gate over    *)
(* columns [wait for a command, run its handler, reset the column].        *)

Node(parent, kids, main, init, term, aux, arg) ==
    [parent |-> parent, kids |-> kids, auto |-> FALSE, main |-> main, init |-> init,
     term |-> term, aux |-> aux, arg |-> arg]

NoArg == [none |-> TRUE]

Gate(kids) == Node(NoNode, kids, "GATE", "GATE_INIT", "none", "none", NoArg)

(* Mutant: a wait that times out ends its column instead of resetting it.  *)
column_once(root, c, event, handler, timeout) ==
    <<[Node(root, <<c + 1, c + 2, c + 3>>, "COLUMN", "COLUMN_INIT", "none", "none", NoArg)
          EXCEPT !.auto = TRUE],
      Node(c, <<>>, "WAIT", "WAIT_INIT", "none", "WAIT_FOR_EVENT",
           [event |-> event, count |-> 1, timeout |-> timeout, tevent |-> "SECOND",
            reset |-> FALSE]),
      Node(c, <<>>, "DISABLE", handler, "none", "none", NoArg),
      Node(c, <<>>, "RESET", "none", "none", "none", NoArg)>>

(* The four nodes of a command column whose column is node c.              *)
command_column(root, c, event, handler, timeout) ==
    <<[Node(root, <<c + 1, c + 2, c + 3>>, "COLUMN", "COLUMN_INIT", "none", "none", NoArg)
          EXCEPT !.auto = TRUE],
      Node(c, <<>>, "WAIT", "WAIT_INIT", "none", "WAIT_FOR_EVENT",
           [event |-> event, count |-> 1, timeout |-> timeout, tevent |-> "SECOND",
            reset |-> TRUE]),
      Node(c, <<>>, "DISABLE", handler, "none", "none", NoArg),
      Node(c, <<>>, "RESET", "none", "none", "none", NoArg)>>

(* Node tables are written as sequences and numbered from 0.               *)
NodeTable(nodes) == [n \in 0..Len(nodes) - 1 |-> nodes[n + 1]]

kb0_nodes(t) == <<Gate(<<1, 5>>)>> \o command_column(0, 1, "MON_PING", "MON_PING_REPLY", t)
                                   \o command_column(0, 5, "MON_SNAPSHOT", "MON_SNAPSHOT", t)
kb1_nodes(t) == <<Gate(<<10>>)>> \o command_column(9, 10, "ADC_READ", "ADC_READ", t)
kbapp_nodes(t) == <<Gate(<<15, 19, 23, 27>>)>>
                  \o command_column(14, 15, "APP_ECHO", "APP_ECHO", t)
                  \o command_column(14, 19, "APP_ECHO_TO", "APP_ECHO_TO", t)
                  \o command_column(14, 23, "APP_IL_CLEAR", "APP_IL_CLEAR", t)
                  \o command_column(14, 27, "APP_OP", "APP_OP", t)

(* t is the timeout of the waits: an hour in the firmware.                 *)
FirmwareImage(t) ==
    [kbs  |-> <<[start |-> 0,  count |-> 9,  depth |-> 2],
                [start |-> 9,  count |-> 5,  depth |-> 2],
                [start |-> 14, count |-> 17, depth |-> 2]>>,
     node |-> NodeTable(kb0_nodes(t) \o kb1_nodes(t) \o kbapp_nodes(t))]

-----------------------------------------------------------------------------
(* Bring-up.                                                               *)

cfl_runtime_create(img) ==
    [img |-> img, en |-> {}, ini |-> {}, arenas |-> {0}, nextid |-> 1, high |-> <<>>, low |-> <<>>,
     mem  |-> [n \in DOMAIN Images[img].node |-> NoMem],
     heap |-> [n \in DOMAIN Images[img].node |-> 0],
     aid  |-> [n \in DOMAIN Images[img].node |-> 0],
     kbid |-> [k \in DOMAIN Images[img].kbs |-> NoArena],
     act |-> {}, win |-> 1, bits |-> {}, shadow |-> {}, ev |-> NullEvent, from |-> NoNode,
     flag |-> FALSE, panic |-> FALSE, slot |-> [i \in 0..Slots - 1 |-> 0], head |-> 0,
     up |-> 0, ans |-> <<>>, inp |-> {}]

(* All of the image's KBs are started.                                     *)
engine_runtime_bringup(img) ==
    LET r == cfl_runtime_create(img)
    IN  FoldLeft(cfl_add_test_by_index, r, [k \in 1..Len(Images[img].kbs) |-> k])

(* The runtime waits twice before its first drain, once for its time       *)
(* reference: both waits take the commands queued so far, so they are one. *)
Init ==
    /\ \E img \in DOMAIN Images : h = engine_runtime_bringup(img)
    /\ down = <<>> /\ pc = "pre" /\ kb = 1 /\ loop = FALSE /\ stream = FALSE /\ sent = <<>>
    /\ sec \in BOOLEAN

Running == ~h.panic

-----------------------------------------------------------------------------
(* Core 0.                                                                 *)

(* on_bus_msg for the application core: queued without waiting, dropped    *)
(* when g_down_q is full.                                                  *)
on_bus_msg(c) ==
    /\ h.img = "firmware"
    /\ Len(sent) < MaxReq
    /\ Len(down) < DownCap
    /\ down' = Append(down, [req |-> Len(sent) + 1, cmd |-> c])
    /\ sent' = Append(sent, c)
    /\ UNCHANGED <<h, pc, kb, loop, sec, stream>>

(* Core 0 takes one reply off g_up_q.                                      *)
TakeReply ==
    /\ h.up > 0
    /\ h' = [h EXCEPT !.up = @ - 1]
    /\ UNCHANGED <<down, pc, kb, loop, sec, stream, sent>>

-----------------------------------------------------------------------------
(* Core 1.                                                                 *)

KbNode(c) == CASE c \in {"MON_PING", "MON_SNAPSHOT"} -> 0
               [] c = "ADC_READ" -> 9
               [] OTHER -> 14

(* Mutant: the head of the ring is not advanced.                           *)
AppRequestSameSlot(r, c) ==
    cfl_send_data_event([h EXCEPT !.slot[h.head] = r], "LOW", KbNode(c), c, h.head)

(* A kbapp command is stored in the next slot of g_app_req and announced   *)
(* by a low event that carries the slot.                                   *)
AppRequest(r, c) ==
    cfl_send_data_event([h EXCEPT !.slot[h.head] = r, !.head = (@ + 1) % Slots],
                        "LOW", KbNode(c), c, h.head)

Urgent  == {"MON_PING", "MON_SNAPSHOT", "ADC_READ"}
ViaSlot == {"APP_ECHO", "APP_ECHO_TO", "APP_IL_CLEAR", "APP_OP"}

(* Commands with no node of their own are dispatched at once; a stream     *)
(* command with too few arguments changes nothing.                         *)
cfl_embed_pre_tick ==
    /\ pc = "pre" /\ Running /\ down # <<>>
    /\ LET q == Head(down)
       IN  /\ h' = CASE q.cmd \in Urgent ->
                           cfl_send_integer_event(h, "HIGH", KbNode(q.cmd), q.cmd, q.req)
                     [] q.cmd \in ViaSlot -> AppRequest(q.req, q.cmd)
                     [] OTHER -> Answer(h, q.req, q.cmd)
           /\ stream' \in IF q.cmd = "MON_STREAM" THEN BOOLEAN ELSE {stream}
    /\ down' = Tail(down)
    /\ UNCHANGED <<pc, kb, loop, sec, sent>>

(* g_down_q is empty: the reports are sent if they are due, and the tick   *)
(* begins with the first KB.                                               *)
PreTickDone ==
    /\ pc = "pre" /\ Running /\ down = <<>>
    /\ h' \in {h} \cup IF stream THEN {kb0_emit_reports(h)} ELSE {}
    /\ pc' = "kb" /\ kb' = 1 /\ loop' = FALSE
    /\ UNCHANGED <<down, sec, stream, sent>>

cfl_send_system_event_to_test(r, k, id) ==
    IF Img(r).kbs[k].start \notin r.en THEN r
    ELSE cfl_send_event(r, "LOW", Img(r).kbs[k].start, "PTR", id, 0)

(* The port's timer only ever reports a change of second.                  *)
cfl_generate_timer_events(r, k) ==
    LET t == cfl_send_system_event_to_test(r, k, "TIMER")
    IN  IF sec THEN cfl_send_system_event_to_test(t, k, "SECOND") ELSE t

(* The next KB of the loop: an inactive one is passed over.                *)
NextKb ==
    /\ pc = "kb" /\ Running /\ kb \in KBs(h)
    /\ IF kb \in h.act
       THEN /\ h' = [cfl_generate_timer_events([h EXCEPT !.win = kb], kb) EXCEPT !.bits = h.shadow]
            /\ loop' = TRUE /\ pc' = "drain" /\ kb' = kb
       ELSE kb' = kb + 1 /\ UNCHANGED <<h, loop, pc>>
    /\ UNCHANGED <<down, sec, stream, sent>>

Owner(r, n) == {k \in r.act : n \in KbNodes(r, k)}

(* Timestamps are kept as the time left, so a tick takes one off.          *)
TimePasses(r) ==
    [r EXCEPT !.mem = [n \in DOMAIN @ |->
        CASE "left" \in DOMAIN @[n] -> [@[n] EXCEPT !.left = Max({@ - 1, -1})]
          [] "aux" \in DOMAIN @[n] /\ ~@[n].aux.null /\ "left" \in DOMAIN @[n].aux ->
                [@[n] EXCEPT !.aux.left = Max({@ - 1, 0})]
          [] OTHER -> @[n]]]

(* What is left of the event once its walk has ended.                      *)
Settle(r) == [r EXCEPT !.ev = NullEvent, !.from = NoNode, !.inp = {}, !.flag = FALSE]

(* One event popped.  It goes to the active KB that owns its node, whose   *)
(* window is set for the walk, and is dropped when no active KB does; a KB *)
(* that reports failure is stopped.                                        *)
AfterWalk(x, k) == Settle(IF x.panic \/ x.flag THEN x ELSE cfl_delete_test_by_index(x, k))

Dispatch(p, owner) ==
    IF owner # {} THEN AfterWalk(cfl_execute_event([p EXCEPT !.win = Min(owner)]), Min(owner))
    ELSE Settle(IF p.ev.n \in NodesOf(p) THEN p ELSE cfl_exception_handler(p))

DrainEvent ==
    /\ pc = "drain" /\ Running /\ cfl_total_event_count(h) > 0
    /\ \E S \in SUBSET {n \in h.en : Nd(h, n).aux = "USER"} :
         LET p == [cfl_pop_event(h) EXCEPT !.inp = S]
         IN  IF p.ev.id = "TERMINATE_SYSTEM" THEN h' = Settle(p) /\ pc' = "exit"
             ELSE h' = Dispatch(p, Owner(p, p.ev.n)) /\ pc' = pc
    /\ UNCHANGED <<down, kb, loop, sec, stream, sent>>

(* The rings are empty: a KB whose root has ended is stopped.              *)
KbDone ==
    /\ pc = "drain" /\ Running /\ cfl_total_event_count(h) = 0
    /\ h' = IF Img(h).kbs[kb].start \in h.en THEN h ELSE cfl_delete_test_by_index(h, kb)
    /\ pc' = "kb" /\ kb' = kb + 1
    /\ UNCHANGED <<down, loop, sec, stream, sent>>

(* The end of a tick: cfl_timer_wait sleeps to the next one, or the loop   *)
(* is left when no KB was active.                                          *)
cfl_timer_wait ==
    /\ pc = "kb" /\ Running /\ kb \notin KBs(h)
    /\ pc' = IF loop THEN "pre" ELSE "exit"
    /\ h' = TimePasses(h)
    /\ sec' \in BOOLEAN
    /\ UNCHANGED <<down, kb, loop, stream, sent>>

(* A core that spins in the exception handler, or a task that left         *)
(* cfl_runtime_run, stops its heartbeat: the watchdog resets the chip.     *)
WatchdogReset ==
    /\ h.panic \/ pc = "exit"
    /\ h' = engine_runtime_bringup(h.img)
    /\ down' = <<>> /\ sent' = <<>> /\ pc' = "pre" /\ kb' = 1 /\ loop' = FALSE
    /\ stream' = FALSE /\ UNCHANGED sec

Core1 == \/ cfl_embed_pre_tick \/ PreTickDone \/ NextKb \/ DrainEvent \/ KbDone
         \/ cfl_timer_wait

Next == (\E c \in Cmds : on_bus_msg(c)) \/ TakeReply \/ Core1 \/ WatchdogReset

Spec == Init /\ [][Next]_vars

-----------------------------------------------------------------------------
Roots       == {n \in NodesOf(h) : Nd(h, n).parent = NoNode}
MallocKinds == {"WAIT_FOR_EVENT", "VERIFY_TIME_OUT"}

TypeOK ==
    /\ h.en \subseteq NodesOf(h) /\ h.ini \subseteq NodesOf(h)
    /\ h.arenas \subseteq 0..MaxArenas - 1 /\ h.act \subseteq KBs(h)
    /\ h.heap \in [NodesOf(h) -> Nat] /\ h.panic \in BOOLEAN
    /\ Len(down) <= DownCap /\ h.up \in 0..UpCap
    /\ pc \in {"pre", "kb", "drain", "exit"} /\ kb \in 1..Len(Img(h).kbs) + 1

(* Between two events no node is enabled below a node that is not running: *)
(* however resets, timeouts, state changes and KB stops cross, tearing a   *)
(* node down (cfl_terminate_node_tree) reaches everything it had enabled.  *)
NoOrphans ==
    Running => \A n \in h.en \ Roots : Nd(h, n).parent \in h.en \cap h.ini

(* Every aux record that wait_for_event and verify_time_out malloc is      *)
(* freed exactly once, when its node ends, whoever ends it: a running node *)
(* has one record on the heap and any other node has none.                 *)
HeapPaired ==
    Running => \A n \in NodesOf(h) : Nd(h, n).aux \in MallocKinds =>
        h.heap[n] = IF n \in h.ini THEN 1 ELSE 0

LocalArenas == {n \in NodesOf(h) : Nd(h, n).main = "LOCAL_ARENA" /\ h.mem[n] # NoMem}

(* The arenas in use are allocator 0's, one for each active KB and one for *)
(* each running local-arena node, all different: none leaks over a reset   *)
(* or a stop, none is shared.                                              *)
ArenasPaired ==
    Running => /\ h.arenas = {0} \cup {h.kbid[k] : k \in h.act}
                                 \cup {h.mem[n].id : n \in LocalArenas}
               /\ Cardinality(h.arenas) = 1 + Cardinality(h.act) + Cardinality(LocalArenas)

(* A KB that was stopped, by a command or because it failed in the middle  *)
(* of a walk, leaves no node enabled and no node memory behind.            *)
StoppedIsClean ==
    Running => \A k \in KBs(h) \ h.act : \A n \in KbNodes(h, k) :
        n \notin h.en /\ h.mem[n] = NoMem /\ h.aid[n] = NoArena

(* The firmware's KBs never stop and its engine task never leaves its      *)
(* loop: no sequence of commands, timeouts and column resets ends a root   *)
(* or raises an exception.                                                 *)
KBsStayUp == h.img = "firmware" => Running /\ h.act = KBs(h) /\ pc # "exit"

(* A running state machine has one enabled state, between any two events.  *)
OneState ==
    Running => \A n \in h.ini : Nd(h, n).main = "STATE_MACHINE" =>
        Cardinality(ToSet(Kids(h, n)) \cap h.en) = 1

ClassOf(c) == CASE c \in Urgent -> "high" [] c \in ViaSlot -> "low" [] OTHER -> "inline"
Server == INSTANCE CommandServer WITH sent <- sent, ans <- h.ans,
                                      Class <- [c \in Cmds |-> ClassOf(c)]

(* Core 1 implements the command server: a command taken off g_down_q is   *)
(* handled once, by its own handler and in order within its class, however *)
(* its column is timing out, resetting or serving the command before it    *)
(* when the event is popped.                                               *)
ServesCommands == Server!Spec

(* A command is handled in the tick that takes it off g_down_q: when the   *)
(* last KB of a tick has been run, whatever left g_down_q is answered.     *)
ServedThisTick ==
    Running /\ pc = "kb" /\ kb \notin KBs(h) =>
        \A r \in DOMAIN sent : \/ \E i \in DOMAIN h.ans : h.ans[i].req = r
                               \/ \E i \in DOMAIN down : down[i].req = r

(* The tree at every step between events: enabled nodes hang below enabled   *)
(* ones, a state machine is in one state, the firmware's KBs stay up, and a  *)
(* command taken in a tick is answered in it.                                *)
TreeSound == TypeOK /\ NoOrphans /\ OneState /\ KBsStayUp /\ ServedThisTick

(* What a node, a local arena or a KB took it gives back when it ends, and   *)
(* only then, whatever ended it.                                             *)
MemoryPaired == HeapPaired /\ ArenasPaired /\ StoppedIsClean
=============================================================================
