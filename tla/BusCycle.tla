------------------------------ MODULE BusCycle ------------------------------
(***************************************************************************)
(* The cyclic bus engine of the bus controller (app/bus_controller/main.c, *)
(* bus_run_cycle) with everything it shares with the other tasks.          *)
(*                                                                         *)
(*  - the bus task (core0) rebuilds the node table, drains the pending     *)
(*    host command, swaps the ping-pong lists, transmits the queued        *)
(*    buffers, sweeps and probes the nodes, and reports liveness edges;    *)
(*    while the host has switched to the per-slot rotation it polls the    *)
(*    roster's entries instead and leaves the node table alone (the        *)
(*    commands of that mode are SlotRpc's; here they mark who answered);   *)
(*  - the uplink task (core0, same priority, time-sliced) runs the host's  *)
(*    commands: register, clear, inject, stage a command, re-attach;       *)
(*  - the application engine (core1) is a second producer.                 *)
(*                                                                         *)
(* A definition marked faulty is a mutant of the one below it; nothing     *)
(* uses it.                                                                *)
(*                                                                         *)
(* One step is what runs under one hold of the hardware spinlock g_pool_cs *)
(* or of the mutex g_lock.  Every linked list of the program is named by   *)
(* its head pointer and modelled by the sequence of its buffers.           *)
(***************************************************************************)
EXTENDS Integers, Sequences, FiniteSets

CONSTANTS
    Bufs,          \* the tx_buf_t carved at boot (BUS_POOL_N of them)
    Addrs,         \* bus addresses of slaves
    UpAtBoot,      \* the slaves that answer when the controller starts
    CfgRoster,     \* the commissioned roster: a sequence of [addr, enabled]
    ROSTER_MAX,    \* capacity of g_roster and of g_nodes
    MaxMisses,     \* g_poll_max_misses
    MissTop,       \* where a miss counter stops (0xFF)
    SlowDiv,       \* g_dead_slowpoll_div
    Summaries,     \* the summary bytes a slave may report
    RegFlags,      \* the values of FLAG_ENABLED the host registers with
    HostChecksDup, \* TRUE: the host never registers an address twice
    MaxMsgs,       \* bound: bus_msg_send calls
    MaxAdmin,      \* bound: register and clear commands of the host
    MaxReattach,   \* bound: uplink_enter calls and lost WiFi links
    MaxModes,      \* bound: CMD_BUS_CYCLE_MODE commands of the host
    MaxFlaps       \* bound: slaves going silent, coming back, changing summary

ASSUME BusCycleAssumption ==
    /\ IsFiniteSet(Bufs) /\ Addrs \subseteq Nat /\ UpAtBoot \subseteq Addrs
    /\ ROSTER_MAX \in Nat \ {0}
    /\ CfgRoster \in Seq([addr : Addrs, enabled : BOOLEAN])
    /\ MissTop \in Nat /\ MaxMisses \in 1..MissTop /\ SlowDiv \in Nat \ {0}
    /\ Summaries \subseteq Nat /\ 0 \in Summaries
    /\ RegFlags \subseteq BOOLEAN /\ HostChecksDup \in BOOLEAN
    /\ MaxMsgs \in Nat /\ MaxAdmin \in Nat /\ MaxReattach \in Nat
    /\ MaxModes \in Nat /\ MaxFlaps \in Nat

VARIABLES
    chain,         \* every buffer list, by its head
    avail,         \* g_pool_avail
    exhausted,     \* g_pool_exhausted
    seenEx,        \* s_seen_ex: the exhaustions the host was notified of
    buf,           \* what a buffer holds: the address it was filled for, its number
    accepted,      \* how many messages were attached to a node's list so far
    job,           \* per producer, the bus_msg_send in progress
    active,        \* g_active_idx
    nodes,         \* g_nodes[0..g_nodes_n-1]
    roster,        \* g_roster[0..g_roster_n-1]
    dirty,         \* g_nodes_dirty
    cmd,           \* the staged host command: g_cmd_pending, g_cmd_slave
    up,            \* the uplink task's handler in progress; it holds g_lock then
    linked,        \* g_uplink_mode # UPL_STANDALONE: a pump takes frames to the host
    uplinkActive,  \* g_uplink_active
    pc,            \* where the bus task is in its cycle
    idx,           \* the node index of the running pass
    marked,        \* marked[]: the nodes sent to in this cycle
    sr,            \* the slot_result_t of the poll in progress
    deadTick,      \* g_dead_tick
    deadCursor,    \* g_dead_cursor
    ilNodesDead,   \* g_il_nodes_dead, read by the interlock on core1
    wire,          \* the DATA frames of the message passes
    cycleMode,     \* g_cycle_mode: the cyclic engine, or the per-slot rotation
    slot,          \* the rotation's address; whether it collects a command's reply
    revived,       \* history: addresses only the rotation heard since the table was
                   \* built or the cycle heard them
    notice,        \* history: what became of the last exhaustion
    host,          \* what the host was last told of each address
    slave,         \* the slaves: whether they answer, and the summary they report
    budget         \* what is left of the environment's bounds

poolVars == <<chain, avail, exhausted, buf, accepted, job, wire>>
tableVars == <<active, nodes, roster, dirty, ilNodesDead>>
cycVars  == <<pc, idx, marked, sr, deadTick, deadCursor, seenEx>>
upVars   == <<cmd, up, linked, uplinkActive>>
envVars  == <<host, slave, budget>>
modeVars == <<cycleMode, slot>>
vars == <<poolVars, tableVars, cycVars, upVars, envVars, modeVars, revived, notice>>

-----------------------------------------------------------------------------
(* The list heads: g_pool_free; the chain the message pass has grabbed;    *)
(* the buffer a producer holds between pool_grab and attach;               *)
(* g_nodes[i].list[k]; and what the rebuild detached from that list.       *)
Producers == {"bus", "uplink", "core1"}
Slots == 1..ROSTER_MAX
Free == <<"free">>
Drain == <<"drain">>
Hold(p) == <<"hold", p>>
List(i, k) == <<"list", i, k>>
Orphan(i, k) == <<"orphan", i, k>>
Heads == {Free, Drain} \cup {Hold(p) : p \in Producers}
         \cup {List(i, k) : i \in Slots, k \in {0, 1}}
         \cup {Orphan(i, k) : i \in Slots, k \in {0, 1}}

(* b->next = head; head = b                                                *)
Push(b, s) == <<b>> \o s

NoAddr == -1
NoJob == [st |-> "none", to |-> NoAddr, ex |-> 0]
NewJob(a) == [st |-> "grab", to |-> a, ex |-> 0]
Idle == [op |-> "idle", left |-> 0, act |-> FALSE]
NoSlot == [to |-> NoAddr, collect |-> FALSE]
RosterEntry(a, e) == [addr |-> a, enabled |-> e, state |-> "UNKNOWN", misses |-> 0,
                      announced |-> "UNKNOWN", summary |-> 0, annSummary |-> 0]
NodeEntry(r) == [addr |-> r.addr, enabled |-> r.enabled, dead |-> FALSE, miss |-> 0]

(* g_lock is held by the uplink task while one of its handlers runs.       *)
LockFree == up.op = "idle"

(* roster_find and node_index_of: the first entry with this address.       *)
RosterIdx(a) == {i \in DOMAIN roster : /\ roster[i].addr = a
                                       /\ \A j \in 1..(i - 1) : roster[j].addr # a}
NodeIdx(a) == {i \in DOMAIN nodes : /\ nodes[i].addr = a
                                    /\ \A j \in 1..(i - 1) : nodes[j].addr # a}

(* bus_nodetable_build: the roster's entries in stable address order.      *)
SortOrder(r) ==
    {p \in [DOMAIN r -> DOMAIN r] : \A i, j \in DOMAIN r : i < j =>
        \/ r[p[i]].addr < r[p[j]].addr
        \/ r[p[i]].addr = r[p[j]].addr /\ p[i] < p[j]}
TableOf(r, p) == [i \in DOMAIN r |-> NodeEntry(r[p[i]])]

(* bc_load_cfg_roster keeps the first ROSTER_MAX commissioned slaves.      *)
Commissioned == [i \in 1..(IF Len(CfgRoster) < ROSTER_MAX THEN Len(CfgRoster) ELSE ROSTER_MAX) |->
                    RosterEntry(CfgRoster[i].addr, CfgRoster[i].enabled)]

Silent == [live |-> "NONE", sum |-> 0]

Init ==
    \E f \in [1..Cardinality(Bufs) -> Bufs], p \in SortOrder(Commissioned) :
        /\ \A b \in Bufs : \E i \in DOMAIN f : f[i] = b
        /\ \A i, j \in DOMAIN f : f[i] = f[j] => i = j
        /\ chain = [h \in Heads |-> IF h = Free THEN f ELSE << >>]
        /\ avail = Cardinality(Bufs)
        /\ exhausted = 0 /\ seenEx = 0
        /\ buf = [b \in Bufs |-> [to |-> NoAddr, id |-> 0]]
        /\ accepted = 0
        /\ job = [q \in Producers |-> NoJob]
        /\ active = 1          \* bus_pp_selftest has swapped once
        /\ roster = Commissioned
        /\ nodes = TableOf(Commissioned, p)
        /\ dirty = FALSE
        /\ cmd = NoAddr
        /\ up = Idle           \* the host may have attached while the pool was carved
        /\ linked \in BOOLEAN /\ uplinkActive = linked
        /\ pc = "top" /\ idx = 1 /\ marked = {} /\ sr = "none"
        /\ deadTick = 0 /\ deadCursor = 0 /\ ilNodesDead = 0
        /\ wire = << >>
        /\ cycleMode = TRUE /\ slot = NoSlot
        /\ revived = {} /\ notice = "none"
        /\ host = [a \in Addrs |-> Silent]
        /\ slave = [a \in Addrs |-> [up |-> a \in UpAtBoot, sum |-> 0]]
        /\ budget = [msgs |-> MaxMsgs, admin |-> MaxAdmin,
                     reattach |-> MaxReattach, modes |-> MaxModes, flaps |-> MaxFlaps]

-----------------------------------------------------------------------------
(* bus_msg_send, the one producer path: pool_grab, then fill and attach    *)
(* under the spinlock, then (unknown node) pool_recover.                   *)

(* What the caller does with the result.  MSG_INJECT loops until its count *)
(* is reached or a send fails, holding g_lock throughout.                  *)
Return(p, ok) ==
    LET again == p = "uplink" /\ ok /\ up.left > 1 IN
    /\ job' = [job EXCEPT ![p] = IF again THEN [job[p] EXCEPT !.st = "grab"] ELSE NoJob]
    /\ up' = IF p # "uplink" THEN up
             ELSE IF again THEN [up EXCEPT !.left = @ - 1] ELSE Idle
    /\ pc' = IF p = "bus" THEN "swap" ELSE pc

PoolGrab(p) ==
    /\ job[p].st = "grab"
    /\ chain[Free] # << >>
    /\ chain' = [chain EXCEPT ![Free] = Tail(@), ![Hold(p)] = <<Head(chain[Free])>>]
    /\ avail' = avail - 1
    /\ buf' = [buf EXCEPT ![Head(chain[Free])] = [to |-> job[p].to, id |-> 0]]
    /\ job' = [job EXCEPT ![p].st = "attach"]
    /\ UNCHANGED <<exhausted, accepted, wire, tableVars, cycVars, upVars, envVars, modeVars, revived, notice>>

(* The pool is empty: g_pool_exhausted++ outside every lock, a load and a  *)
(* store that another producer's may come between.                         *)
PoolExhausted(p) ==
    /\ job[p].st = "grab"
    /\ chain[Free] = << >>
    /\ job' = [job EXCEPT ![p].st = "count", ![p].ex = exhausted]
    /\ UNCHANGED <<chain, avail, exhausted, buf, accepted, wire, tableVars, cycVars, upVars, envVars, modeVars, revived, notice>>

CountExhausted(p) ==
    /\ job[p].st = "count"
    /\ exhausted' = job[p].ex + 1
    /\ notice' = IF exhausted' = seenEx THEN "merged" ELSE "due"
    /\ Return(p, FALSE)
    /\ UNCHANGED <<chain, avail, buf, accepted, wire, tableVars, idx, marked, sr, deadTick,
                   deadCursor, seenEx, cmd, linked, uplinkActive, envVars, modeVars, revived>>

Attach(p) ==
    /\ job[p].st = "attach"
    /\ \E i \in NodeIdx(job[p].to) :
         LET b == Head(chain[Hold(p)])
             l == List(i, 1 - active)
         IN /\ chain' = [chain EXCEPT ![Hold(p)] = << >>, ![l] = Push(b, @)]
            /\ buf' = [buf EXCEPT ![b].id = accepted + 1]
    /\ accepted' = accepted + 1
    /\ Return(p, TRUE)
    /\ UNCHANGED <<avail, exhausted, wire, tableVars, idx, marked, sr, deadTick, deadCursor,
                   seenEx, cmd, linked, uplinkActive, envVars, modeVars, revived, notice>>

AttachUnknown(p) ==
    /\ job[p].st = "attach"
    /\ NodeIdx(job[p].to) = {}
    /\ job' = [job EXCEPT ![p].st = "recover"]
    /\ UNCHANGED <<chain, avail, exhausted, buf, accepted, wire, tableVars, cycVars,
                   upVars, envVars, modeVars, revived, notice>>

SendRecover(p) ==
    /\ job[p].st = "recover"
    /\ chain' = [chain EXCEPT ![Hold(p)] = << >>, ![Free] = Push(Head(chain[Hold(p)]), @)]
    /\ avail' = avail + 1
    /\ Return(p, FALSE)
    /\ UNCHANGED <<exhausted, buf, accepted, wire, tableVars, idx, marked, sr, deadTick,
                   deadCursor, seenEx, cmd, linked, uplinkActive, envVars, modeVars, revived, notice>>

ProducerStep(p) == \/ PoolGrab(p) \/ PoolExhausted(p) \/ CountExhausted(p) \/ Attach(p)
                   \/ AttachUnknown(p) \/ SendRecover(p)

(* core1: kbapp_on_echo_to; in the per-slot mode it queues for SlotOrig.   *)
EngineSend(a) ==
    /\ job["core1"] = NoJob /\ cycleMode
    /\ budget.msgs > 0
    /\ budget' = [budget EXCEPT !.msgs = @ - 1]
    /\ job' = [job EXCEPT !["core1"] = NewJob(a)]
    /\ UNCHANGED <<chain, avail, exhausted, buf, accepted, wire, tableVars, cycVars,
                   upVars, host, slave, modeVars, revived, notice>>

-----------------------------------------------------------------------------
(* The uplink task's handlers (on_bus_msg, on_local_shell, uplink_enter).  *)

(* on_bus_msg: stage one command for the cycle; refused while one pends.   *)
StageCmd(a) ==
    /\ LockFree /\ linked
    /\ cmd = NoAddr /\ budget.msgs > 0
    /\ cmd' = a
    /\ budget' = [budget EXCEPT !.msgs = @ - 1]
    /\ UNCHANGED <<poolVars, tableVars, cycVars, up, linked, uplinkActive, host, slave, modeVars, revived, notice>>

(* CMD_BUS_MSG_INJECT of n copies.                                         *)
Inject(a, n) ==
    /\ LockFree /\ linked
    /\ n <= budget.msgs
    /\ budget' = [budget EXCEPT !.msgs = @ - n]
    /\ up' = [op |-> "inject", left |-> n, act |-> FALSE]
    /\ job' = [job EXCEPT !["uplink"] = NewJob(a)]
    /\ UNCHANGED <<chain, avail, exhausted, buf, accepted, wire, tableVars, cycVars,
                   cmd, linked, uplinkActive, host, slave, modeVars, revived, notice>>

ClearRoster ==
    /\ LockFree /\ linked
    /\ budget.admin > 0
    /\ budget' = [budget EXCEPT !.admin = @ - 1]
    /\ roster' = << >>
    /\ dirty' = TRUE
    /\ cmd' = NoAddr
    /\ host' = [a \in Addrs |-> Silent]      \* the host forgets what it cleared
    /\ UNCHANGED <<poolVars, active, nodes, ilNodesDead, cycVars, up, linked,
                   uplinkActive, slave, modeVars, revived, notice>>

MarkNothing == UNCHANGED dirty                                             \* faulty
MarkDirty == dirty' = TRUE
(* CMD_BUS_REGISTER_SLAVE: a full roster ignores it and still replies OK.  *)
RegisterSlave(a, e) ==
    /\ LockFree /\ linked
    /\ budget.admin > 0
    /\ HostChecksDup => RosterIdx(a) = {}
    /\ budget' = [budget EXCEPT !.admin = @ - 1]
    /\ IF Len(roster) < ROSTER_MAX
       THEN roster' = Append(roster, RosterEntry(a, e)) /\ MarkDirty
       ELSE UNCHANGED <<roster, dirty>>
    /\ UNCHANGED <<poolVars, active, nodes, ilNodesDead, cycVars, upVars, host, slave, modeVars, revived, notice>>

(* CMD_BUS_CYCLE_MODE: the table is not marked for a rebuild.              *)
CycleMode ==
    /\ LockFree /\ linked
    /\ budget.modes > 0
    /\ budget' = [budget EXCEPT !.modes = @ - 1]
    /\ cycleMode' = ~cycleMode
    /\ UNCHANGED <<poolVars, tableVars, cycVars, upVars, host, slave, slot, revived, notice>>

(* uplink_enter(active): reset, then copy the commissioned roster entry by *)
(* entry (bc_load_cfg_roster takes g_lock but not the spinlock, so the     *)
(* rebuild can run between two entries, or between the new length and the  *)
(* entry's contents), then publish the new condition.                      *)
EnterBegin(act) ==
    /\ LockFree
    /\ act \/ linked           \* the supervisor calls it when the mode changes
    /\ budget.reattach > 0
    /\ budget' = [budget EXCEPT !.reattach = @ - 1]
    /\ up' = [op |-> "enter", left |-> 1, act |-> act]
    /\ linked' = act
    /\ cmd' = NoAddr
    /\ roster' = << >>
    /\ host' = [a \in Addrs |-> Silent]
    /\ UNCHANGED <<poolVars, active, nodes, dirty, ilNodesDead, cycVars, uplinkActive, slave, modeVars, revived, notice>>

(* g_roster_n++ and memset: an entry without an address                    *)
EnterGrow ==
    /\ up.op = "enter"
    /\ up.left <= Len(Commissioned) /\ Len(roster) < up.left
    /\ roster' = Append(roster, RosterEntry(NoAddr, FALSE))
    /\ UNCHANGED <<poolVars, active, nodes, dirty, ilNodesDead, cycVars, upVars, envVars,
                   modeVars, revived, notice>>

EnterCopy ==
    /\ up.op = "enter"
    /\ up.left = Len(roster)
    /\ roster' = [roster EXCEPT ![up.left] = Commissioned[up.left]]
    /\ up' = [up EXCEPT !.left = @ + 1]
    /\ UNCHANGED <<poolVars, active, nodes, dirty, ilNodesDead, cycVars, cmd, linked,
                   uplinkActive, envVars, modeVars, revived, notice>>

EnterEnd ==
    /\ up.op = "enter"
    /\ up.left > Len(Commissioned)
    /\ up' = Idle
    /\ uplinkActive' = up.act
    /\ UNCHANGED <<poolVars, tableVars, cycVars, cmd, linked, envVars, modeVars, revived, notice>>

(* wifi_pump fails: the supervisor falls to standalone without resetting.  *)
WifiLost ==
    /\ LockFree /\ linked
    /\ budget.reattach > 0
    /\ budget' = [budget EXCEPT !.reattach = @ - 1]
    /\ linked' = FALSE /\ uplinkActive' = FALSE
    /\ UNCHANGED <<poolVars, tableVars, cycVars, cmd, up, host, slave, modeVars, revived, notice>>

-----------------------------------------------------------------------------
(* The bus task.                                                           *)

(* (-1) rebuild the node table when the roster changed.                    *)
(* Detached: the lists are handed to the orphan lists of their places.     *)
LeakedLists == [h \in Heads |-> IF h[1] = "list" THEN << >> ELSE chain[h]]   \* faulty
KeptLists == chain                                                         \* faulty
Detached ==
    [h \in Heads |->
       IF h \in {List(i, k) : i \in DOMAIN nodes, k \in {0, 1}} THEN << >>
       ELSE IF h \in {Orphan(i, k) : i \in DOMAIN nodes, k \in {0, 1}}
            THEN chain[List(h[2], h[3])] ELSE chain[h]]
Rebuild ==
    /\ pc = "top" /\ cycleMode /\ dirty
    /\ dirty' = FALSE
    /\ chain' = Detached
    /\ \E p \in SortOrder(roster) : nodes' = TableOf(roster, p)
    /\ revived' = {}
    /\ pc' = "orphans"
    /\ UNCHANGED <<avail, exhausted, buf, accepted, job, wire, active, roster, ilNodesDead,
                   idx, marked, sr, deadTick, deadCursor, seenEx, upVars, envVars, modeVars, notice>>
NoRebuild ==
    /\ pc = "top" /\ cycleMode /\ ~dirty
    /\ pc' = "drain"
    /\ UNCHANGED <<poolVars, tableVars, idx, marked, sr, deadTick, deadCursor, seenEx, upVars, envVars, modeVars, revived, notice>>

Orphaned == {h \in {Orphan(i, k) : i \in Slots, k \in {0, 1}} : chain[h] # << >>}

RecoverOrphan ==
    /\ pc = "orphans"
    /\ \E h \in Orphaned :
         /\ chain' = [chain EXCEPT ![h] = Tail(@), ![Free] = Push(Head(chain[h]), @)]
         /\ avail' = avail + 1
    /\ UNCHANGED <<exhausted, buf, accepted, job, wire, tableVars, cycVars, upVars, envVars, modeVars, revived, notice>>

OrphansDone ==
    /\ pc = "orphans" /\ Orphaned = {}
    /\ pc' = "drain"
    /\ UNCHANGED <<poolVars, tableVars, idx, marked, sr, deadTick, deadCursor, seenEx, upVars, envVars, modeVars, revived, notice>>

(* (0) take the staged host command and send it as any producer would.     *)
DrainCmd ==
    /\ pc = "drain" /\ LockFree
    /\ IF cmd = NoAddr
       THEN pc' = "swap" /\ UNCHANGED job
       ELSE pc' = "cmd" /\ job' = [job EXCEPT !["bus"] = NewJob(cmd)]
    /\ cmd' = NoAddr
    /\ UNCHANGED <<chain, avail, exhausted, buf, accepted, wire, tableVars, idx, marked, sr,
                   deadTick, deadCursor, seenEx, up, linked, uplinkActive, envVars, modeVars, revived, notice>>

(* bus_pingpong_swap                                                       *)
Swap ==
    /\ pc = "swap"
    /\ active' = 1 - active
    /\ pc' = "send" /\ idx' = 1 /\ marked' = {}
    /\ UNCHANGED <<poolVars, nodes, roster, dirty, ilNodesDead, sr, deadTick, deadCursor,
                   seenEx, upVars, envVars, modeVars, revived, notice>>

(* (1) message pass: grab a node's list head, then send chain by buffer.   *)
NotReset == [chain EXCEPT ![Drain] = chain[List(idx, active)]]              \* faulty
Grabbed == [chain EXCEPT ![Drain] = chain[List(idx, active)], ![List(idx, active)] = << >>]
TakeList ==
    /\ pc = "send" /\ idx \in DOMAIN nodes
    /\ chain[List(idx, active)] # << >>
    /\ chain' = Grabbed
    /\ pc' = "transmit"
    /\ UNCHANGED <<avail, exhausted, buf, accepted, job, wire, tableVars, idx, marked, sr,
                   deadTick, deadCursor, seenEx, upVars, envVars, modeVars, revived, notice>>

OneEarly == idx < Len(nodes)                                               \* faulty
MoreNodes == idx \in DOMAIN nodes
EmptyOrDead == chain[List(idx, active)] = << >> \/ nodes[idx].dead         \* faulty
NothingQueued == chain[List(idx, active)] = << >>
SkipList ==
    /\ pc = "send"
    /\ IF MoreNodes THEN NothingQueued /\ idx' = idx + 1 /\ UNCHANGED pc
       ELSE idx' = 1 /\ pc' = "sweep"
    /\ UNCHANGED <<poolVars, tableVars, marked, sr, deadTick, deadCursor, seenEx, upVars, envVars, modeVars, revived, notice>>

FirstOnly(i) == ~nodes[i].dead /\ i \notin marked                          \* faulty
SendTo(i) == ~nodes[i].dead
Transmit ==
    /\ pc = "transmit"
    /\ LET b == Head(chain[Drain]) IN
       /\ IF SendTo(idx)
          THEN /\ wire' = Append(wire, [at |-> nodes[idx].addr, id |-> buf[b].id, to |-> buf[b].to])
               /\ marked' = marked \cup {idx}
          ELSE UNCHANGED <<wire, marked>>
       /\ chain' = [chain EXCEPT ![Drain] = Tail(@), ![Free] = Push(b, @)]
       /\ avail' = avail + 1
       /\ IF Tail(chain[Drain]) = << >> THEN pc' = "send" /\ idx' = idx + 1
          ELSE UNCHANGED <<pc, idx>>
    /\ UNCHANGED <<exhausted, buf, accepted, job, tableVars, sr, deadTick, deadCursor,
                   seenEx, upVars, envVars, modeVars, revived, notice>>

(* bus_poll_slot: the slave stays silent, or it answers.  A NO_MESSAGE     *)
(* carries its summary, which handle_slot_frame records under g_lock; a    *)
(* DATA frame does not.                                                    *)
Recorded(a) == [i \in DOMAIN roster |-> IF i \in RosterIdx(a)
                  THEN [roster[i] EXCEPT !.summary = slave[a].sum] ELSE roster[i]]
Answers(a) == a \in Addrs /\ slave[a].up
PollSlot(a) ==
    \/ ~Answers(a) /\ sr' = "silent" /\ UNCHANGED roster
    \/ /\ Answers(a) /\ LockFree
       /\ sr' = "answered"
       /\ roster' = Recorded(a) \/ UNCHANGED roster

(* mark_alive and mark_miss.                                               *)
MarkAlive(a) ==
    roster' = [i \in DOMAIN roster |-> IF i \in RosterIdx(a)
                 THEN [roster[i] EXCEPT !.misses = 0, !.state = "ALIVE"] ELSE roster[i]]
TooManyMore(m) == m > MaxMisses                                            \* faulty
TooMany(m) == m >= MaxMisses
Missed(r) ==
    LET m == IF r.misses < MissTop THEN r.misses + 1 ELSE r.misses IN
    [r EXCEPT !.misses = m, !.state = IF TooMany(m) THEN "DEAD" ELSE @]
MarkMiss(a) ==
    roster' = [i \in DOMAIN roster |-> IF i \in RosterIdx(a) THEN Missed(roster[i]) ELSE roster[i]]

(* (2) NO_MSG sweep: poll each node that is neither dead nor marked, then  *)
(* mark it alive or missed under g_lock.                                   *)
SweepMiss(n) ==
    LET m == IF n.miss < MissTop THEN n.miss + 1 ELSE n.miss IN
    [n EXCEPT !.miss = m, !.dead = n.miss < MissTop /\ m >= MaxMisses]
SweepSkip ==
    /\ pc = "sweep"
    /\ IF idx \in DOMAIN nodes
       THEN (nodes[idx].dead \/ idx \in marked) /\ idx' = idx + 1 /\ UNCHANGED pc
       ELSE idx' = 1 /\ pc' = "probe"
    /\ UNCHANGED <<poolVars, tableVars, marked, sr, deadTick, deadCursor, seenEx, upVars, envVars, modeVars, revived, notice>>
SweepPoll ==
    /\ pc = "sweep"
    /\ idx \in DOMAIN nodes /\ ~nodes[idx].dead /\ idx \notin marked
    /\ PollSlot(nodes[idx].addr)
    /\ pc' = "swept"
    /\ UNCHANGED <<poolVars, active, nodes, dirty, ilNodesDead, idx, marked, deadTick, deadCursor,
                   seenEx, upVars, envVars, modeVars, revived, notice>>
SweepMark ==
    /\ pc = "swept" /\ LockFree
    /\ IF sr = "silent"
       THEN /\ MarkMiss(nodes[idx].addr) /\ nodes' = [nodes EXCEPT ![idx] = SweepMiss(@)]
            /\ UNCHANGED revived
       ELSE /\ MarkAlive(nodes[idx].addr) /\ nodes' = [nodes EXCEPT ![idx].miss = 0]
            /\ revived' = revived \ {nodes[idx].addr}
    /\ sr' = "none"
    /\ idx' = idx + 1 /\ pc' = "sweep"
    /\ UNCHANGED <<poolVars, active, dirty, ilNodesDead, marked, deadTick, deadCursor,
                   seenEx, upVars, envVars, modeVars, notice>>

(* (2a) every SlowDiv-th cycle probe one dead node, round-robin; then      *)
(* publish the number of dead nodes to the interlock.                      *)
FromFirst(i) == i                                                          \* faulty
DeadDist(i) == (i - 1 + Len(nodes) - (deadCursor % Len(nodes))) % Len(nodes)
NextDead == {i \in DOMAIN nodes : /\ nodes[i].dead
                                  /\ \A j \in DOMAIN nodes : nodes[j].dead => DeadDist(i) <= DeadDist(j)}
DeadCount(t) == Cardinality({i \in DOMAIN t : t[i].dead})
NoWrap(i) == i                                                             \* faulty
NextCursor(i) == i % Len(nodes)
ProbeTime == deadTick + 1 >= SlowDiv
ProbeNone ==
    /\ pc = "probe"
    /\ ProbeTime => NextDead = {}
    /\ deadTick' = IF ProbeTime THEN 0 ELSE deadTick + 1
    /\ ilNodesDead' = DeadCount(nodes)
    /\ pc' = "notify"
    /\ UNCHANGED <<poolVars, active, nodes, roster, dirty, idx, marked, sr, deadCursor, seenEx,
                   upVars, envVars, modeVars, revived, notice>>
ProbePoll ==
    /\ pc = "probe" /\ ProbeTime
    /\ \E i \in NextDead :
         /\ deadCursor' = NextCursor(i)
         /\ idx' = i
         /\ PollSlot(nodes[i].addr)
    /\ deadTick' = 0
    /\ pc' = "probed"
    /\ UNCHANGED <<poolVars, active, nodes, dirty, ilNodesDead, marked, seenEx, upVars, envVars, modeVars, revived, notice>>
ProbeMark ==
    /\ pc = "probed" /\ LockFree
    /\ IF sr = "silent" THEN UNCHANGED <<nodes, roster, revived>>
       ELSE /\ nodes' = [nodes EXCEPT ![idx].dead = FALSE, ![idx].miss = 0]
            /\ MarkAlive(nodes[idx].addr)
            /\ revived' = revived \ {nodes[idx].addr}
    /\ sr' = "none"
    /\ ilNodesDead' = DeadCount(nodes')
    /\ pc' = "notify"
    /\ UNCHANGED <<poolVars, active, dirty, idx, marked, deadTick, deadCursor, seenEx, upVars, envVars, modeVars, notice>>

(* (2b) the deferred exhaustion notice, at most ten a second; the result   *)
(* of host_link_s2m is ignored, so a full TX ring loses it.                *)
Unseen2 == exhausted > seenEx + 1                                          \* faulty
Unseen == exhausted # seenEx
Notify ==
    /\ pc = "notify" /\ LockFree
    /\ \/ uplinkActive /\ Unseen /\ seenEx' = exhausted /\ notice' \in {"told", "refused"}
       \/ UNCHANGED <<seenEx, notice>>
    /\ pc' = "edges"
    /\ UNCHANGED <<poolVars, tableVars, idx, marked, sr, deadTick, deadCursor, upVars, envVars, modeVars, revived>>

(* emit_liveness_edges: the silent UNKNOWN->ALIVE edges up to the first    *)
(* edge worth a frame, and that one if the TX ring takes it.               *)
LoudEdge(r) == \/ r.state # r.announced /\ (r.state = "DEAD" \/ r.announced = "DEAD")
               \/ r.summary # r.annSummary
Shadow(r) == [r EXCEPT !.announced = r.state]
Told(r) == IF r.state # r.announced /\ r.state = "DEAD" THEN "DOWN"
           ELSE IF r.state # r.announced /\ r.announced = "DEAD" THEN "UP" ELSE "FLAGGED"
Announce(r) == IF Told(r) = "FLAGGED" THEN [Shadow(r) EXCEPT !.annSummary = r.summary]
               ELSE Shadow(r)
Dropped(r) == [Shadow(r) EXCEPT !.annSummary = r.summary]                   \* faulty
Deferred(r) == IF Told(r) = "FLAGGED" THEN Shadow(r) ELSE r
FirstLoud == {i \in DOMAIN roster : /\ LoudEdge(roster[i])
                                    /\ \A j \in 1..(i - 1) : ~LoudEdge(roster[j])}
AfterEdges(i, room) ==
    IF i \in FirstLoud THEN IF room THEN Announce(roster[i]) ELSE Deferred(roster[i])
    ELSE IF \A j \in FirstLoud : i < j THEN Shadow(roster[i]) ELSE roster[i]
Hears(h, r) == IF Told(r) = "FLAGGED" THEN [h EXCEPT !.sum = r.summary]
               ELSE [h EXCEPT !.live = Told(r)]
EmitEdges(room) ==
    /\ pc = "edges" /\ LockFree
    /\ roster' = [i \in DOMAIN roster |-> AfterEdges(i, room)]
    /\ \/ /\ FirstLoud = {} \/ ~room \/ ~linked
          /\ UNCHANGED host
       \/ \E i \in FirstLoud :
            /\ room /\ linked
            /\ host' = [host EXCEPT ![roster[i].addr] = Hears(@, roster[i])]
    /\ pc' = "top"
    /\ UNCHANGED <<poolVars, active, nodes, dirty, ilNodesDead, idx, marked, sr, deadTick,
                   deadCursor, seenEx, upVars, slave, budget, modeVars, revived, notice>>

(* The per-slot rotation of bus_control_task.  Which enabled entry is next *)
(* (g_cursor), whether polling is enabled and how often a reply is asked   *)
(* for are left open.                                                      *)
AtTop == pc = "top" /\ ~cycleMode

(* A request of the engine takes the command slot.                         *)
SlotOrig(a) ==
    /\ AtTop /\ LockFree /\ ~slot.collect
    /\ cmd = NoAddr /\ budget.msgs > 0
    /\ cmd' = a
    /\ budget' = [budget EXCEPT !.msgs = @ - 1]
    /\ UNCHANGED <<poolVars, tableVars, cycVars, up, linked, uplinkActive, host, slave,
                   modeVars, revived, notice>>

(* BS_CMD_INJECT: send it, wait for the ACK, free the slot.                *)
SlotCmd ==
    /\ AtTop /\ LockFree /\ ~slot.collect
    /\ cmd # NoAddr
    /\ slot' = [slot EXCEPT !.to = cmd]
    /\ pc' = "inject"
    /\ UNCHANGED <<poolVars, tableVars, idx, marked, sr, deadTick, deadCursor, seenEx, upVars,
                   envVars, cycleMode, revived, notice>>
SlotInject ==
    /\ pc = "inject" /\ LockFree
    /\ \/ Answers(slot.to) /\ MarkAlive(slot.to) /\ revived' = revived \cup {slot.to}
       \/ UNCHANGED <<roster, revived>>
    /\ cmd' = NoAddr
    /\ slot' = [slot EXCEPT !.collect = TRUE]
    /\ pc' = "edges"
    /\ UNCHANGED <<poolVars, active, nodes, dirty, ilNodesDead, idx, marked, sr, deadTick,
                   deadCursor, seenEx, up, linked, uplinkActive, envVars, cycleMode, notice>>

(* BS_CMD_COLLECT: poll for the reply; a NO_MESSAGE brings the summary.    *)
MarkHeard(a) ==
    roster' = [i \in DOMAIN roster |-> IF i \in RosterIdx(a)
                 THEN [roster[i] EXCEPT !.misses = 0, !.state = "ALIVE", !.summary = slave[a].sum]
                 ELSE roster[i]]
SlotCollect ==
    /\ AtTop /\ slot.collect
    /\ \/ /\ Answers(slot.to) /\ LockFree
          /\ MarkAlive(slot.to) \/ MarkHeard(slot.to)
          /\ revived' = revived \cup {slot.to}
       \/ UNCHANGED <<roster, revived>>
    /\ slot' \in {slot, NoSlot}
    /\ pc' = "edges"
    /\ UNCHANGED <<poolVars, active, nodes, dirty, ilNodesDead, idx, marked, sr, deadTick,
                   deadCursor, seenEx, upVars, envVars, cycleMode, notice>>

(* BS_SWEEP: the next enabled entry is polled and marked, in the roster    *)
(* alone; or there is none to poll.                                        *)
SlotNext ==
    /\ AtTop /\ LockFree /\ ~slot.collect
    /\ cmd = NoAddr
    /\ \E i \in DOMAIN roster : roster[i].enabled /\ slot' = [slot EXCEPT !.to = roster[i].addr]
    /\ pc' = "slot"
    /\ UNCHANGED <<poolVars, tableVars, idx, marked, sr, deadTick, deadCursor, seenEx, upVars,
                   envVars, cycleMode, revived, notice>>
SlotNone ==
    /\ AtTop /\ ~slot.collect
    /\ cmd = NoAddr
    /\ pc' = "edges"
    /\ UNCHANGED <<poolVars, tableVars, idx, marked, sr, deadTick, deadCursor, seenEx, upVars,
                   envVars, modeVars, revived, notice>>
SlotPoll ==
    /\ pc = "slot"
    /\ PollSlot(slot.to)
    /\ pc' = "slotted"
    /\ UNCHANGED <<poolVars, active, nodes, dirty, ilNodesDead, idx, marked, deadTick, deadCursor,
                   seenEx, upVars, envVars, modeVars, revived, notice>>
SlotMark ==
    /\ pc = "slotted" /\ LockFree
    /\ IF sr = "silent" THEN MarkMiss(slot.to) /\ UNCHANGED revived
       ELSE MarkAlive(slot.to) /\ revived' = revived \cup {slot.to}
    /\ sr' = "none" /\ slot' = NoSlot
    /\ pc' = "edges"
    /\ UNCHANGED <<poolVars, active, nodes, dirty, ilNodesDead, idx, marked, deadTick, deadCursor,
                   seenEx, upVars, envVars, cycleMode, notice>>

(* The slaves: one goes silent, comes back, or has another summary.        *)
SlaveChange(a, s) ==
    /\ budget.flaps > 0 /\ s # slave[a]
    /\ slave' = [slave EXCEPT ![a] = s]
    /\ budget' = [budget EXCEPT !.flaps = @ - 1]
    /\ UNCHANGED <<poolVars, tableVars, cycVars, upVars, host, modeVars, revived, notice>>

SlotStep == \/ \E a \in Addrs : SlotOrig(a)
            \/ SlotCmd \/ SlotInject \/ SlotCollect \/ SlotNext \/ SlotNone \/ SlotPoll \/ SlotMark
BusStep == \/ Rebuild \/ NoRebuild \/ RecoverOrphan \/ OrphansDone \/ DrainCmd \/ Swap
           \/ TakeList \/ SkipList \/ Transmit \/ SweepSkip \/ SweepPoll \/ SweepMark
           \/ ProbeNone \/ ProbePoll \/ ProbeMark \/ Notify \/ SlotStep
           \/ \E room \in BOOLEAN : EmitEdges(room)
UplinkStep == \/ \E a \in Addrs : StageCmd(a)
              \/ \E a \in Addrs, n \in 1..2 : Inject(a, n)
              \/ ClearRoster
              \/ \E a \in Addrs, e \in RegFlags : RegisterSlave(a, e)
              \/ \E act \in BOOLEAN : EnterBegin(act)
              \/ EnterGrow \/ EnterCopy \/ EnterEnd \/ WifiLost \/ CycleMode
Next == \/ BusStep
        \/ UplinkStep
        \/ \E p \in Producers : ProducerStep(p)
        \/ \E a \in Addrs : EngineSend(a)
        \/ \E a \in Addrs, u \in BOOLEAN, s \in Summaries : SlaveChange(a, [up |-> u, sum |-> s])

Spec == Init /\ [][Next]_vars

(* Fairness: both tasks and core1 are always scheduled (equal priorities are *)
(* time-sliced); the pump keeps draining the TX ring, so it has room again   *)
(* and again; the 100 ms between two exhaustion notices pass.                *)
FairSpec ==
    /\ Spec
    /\ WF_vars(BusStep)
    /\ \A p \in Producers : WF_vars(ProducerStep(p))
    /\ WF_vars(EnterGrow \/ EnterCopy \/ EnterEnd)
    /\ SF_vars(EmitEdges(TRUE))
    /\ SF_vars(Notify /\ seenEx' = exhausted)

-----------------------------------------------------------------------------
(* Properties.                                                             *)

PoolType ==
    /\ chain \in [Heads -> Seq(Bufs)]
    /\ avail \in Nat /\ exhausted \in Nat /\ accepted \in Nat
    /\ buf \in [Bufs -> [to : Addrs \cup {NoAddr}, id : Nat]]
    /\ job \in [Producers -> [st : {"none", "grab", "count", "attach", "recover"},
                              to : Addrs \cup {NoAddr}, ex : Nat]]
    /\ wire \in Seq([at : Addrs \cup {NoAddr}, id : Nat, to : Addrs \cup {NoAddr}])
NodeType == [addr : Addrs \cup {NoAddr}, enabled : BOOLEAN, dead : BOOLEAN, miss : 0..MissTop]
Liveness == {"UNKNOWN", "ALIVE", "DEAD"}
RosterType == [addr : Addrs \cup {NoAddr}, enabled : BOOLEAN, state : Liveness, misses : 0..MissTop,
               announced : Liveness, summary : Summaries, annSummary : Summaries]
TableType ==
    /\ active \in {0, 1} /\ dirty \in BOOLEAN /\ ilNodesDead \in 0..ROSTER_MAX
    /\ nodes \in Seq(NodeType) /\ Len(nodes) <= ROSTER_MAX
    /\ roster \in Seq(RosterType) /\ Len(roster) <= ROSTER_MAX
CycType ==
    /\ pc \in {"top", "orphans", "drain", "cmd", "swap", "send", "transmit", "sweep", "swept",
               "probe", "probed", "notify", "edges", "inject", "slot", "slotted"}
    /\ sr \in {"none", "silent", "answered"}
    /\ idx \in Nat \ {0} /\ marked \subseteq Slots
    /\ deadTick \in 0..(SlowDiv - 1) /\ deadCursor \in 0..(ROSTER_MAX - 1) /\ seenEx \in Nat
UpType ==
    /\ cmd \in Addrs \cup {NoAddr}
    /\ up \in [op : {"idle", "inject", "enter"}, left : Nat, act : BOOLEAN]
    /\ linked \in BOOLEAN /\ uplinkActive \in BOOLEAN
EnvType ==
    /\ host \in [Addrs -> [live : {"NONE", "DOWN", "UP"}, sum : Summaries]]
    /\ slave \in [Addrs -> [up : BOOLEAN, sum : Summaries]]
    /\ budget \in [msgs : Nat, admin : Nat, reattach : Nat, modes : Nat, flaps : Nat]

ModeType ==
    /\ cycleMode \in BOOLEAN
    /\ slot \in [to : Addrs \cup {NoAddr}, collect : BOOLEAN]
    /\ revived \subseteq Addrs \cup {NoAddr}
    /\ notice \in {"none", "due", "told", "refused", "merged"}

(* Every variable keeps its type; the counters the table indexes with stay   *)
(* inside it (g_dead_cursor, g_il_nodes_dead, the node and roster lengths).  *)
BusTypes == PoolType /\ TableType /\ CycType /\ UpType /\ EnvType
TypeOK == BusTypes /\ ModeType

(* Where the tasks are determines which private lists hold buffers and who   *)
(* owns them: the control part of the inductive invariant.                   *)
HoldsMatch == \A p \in Producers :
    IF job[p].st \in {"attach", "recover"} THEN Len(chain[Hold(p)]) = 1
    ELSE chain[Hold(p)] = << >>
DrainMatches == IF pc = "transmit" THEN chain[Drain] # << >> /\ idx \in DOMAIN nodes
                ELSE chain[Drain] = << >>
OrphansMatch == pc # "orphans" => \A i \in Slots, k \in {0, 1} : chain[Orphan(i, k)] = << >>
JobsMatch == /\ job["bus"].st # "none" <=> pc = "cmd"
             /\ job["uplink"].st # "none" <=> up.op = "inject"
EnterMatches == up.op = "enter" => /\ Len(roster) \in {up.left - 1, up.left}
                                   /\ up.left <= Len(Commissioned) + 1
                                   /\ Len(roster) <= Len(Commissioned)
ControlInv == HoldsMatch /\ DrainMatches /\ OrphansMatch /\ JobsMatch /\ EnterMatches

(* Every buffer of the pool is on exactly one list, at one place of it, and  *)
(* g_pool_avail counts the free list: whatever the two cores, the rebuild    *)
(* and the message pass do between each other's critical sections, no buffer *)
(* leaks and none is on two lists (pool_grab, pool_recover, bus_msg_send,    *)
(* the orphan recovery of bus_run_cycle).                                    *)
PoolConserved ==
    /\ \A b \in Bufs : \E h \in Heads : \E i \in DOMAIN chain[h] : chain[h][i] = b
    /\ \A h, g \in Heads : \A i \in DOMAIN chain[h], j \in DOMAIN chain[g] :
           chain[h][i] = chain[g][j] => h = g /\ i = j
    /\ avail = Len(chain[Free])

(* A buffer queued for a node was filled for that node's address, and a list *)
(* beyond the table's end is empty: a rebuild that renumbers g_nodes never   *)
(* leaves a message on another node's list (the reason node_index_of is      *)
(* taken under the spinlock).                                                *)
QueuedForOwner ==
    \A i \in Slots, k \in {0, 1} : \A j \in DOMAIN chain[List(i, k)] :
        i \in DOMAIN nodes /\ buf[chain[List(i, k)][j]].to = nodes[i].addr

(* On the wire every frame goes to the address its producer asked for, and   *)
(* no message is sent twice.                                                 *)
SentOnceToOwner ==
    /\ \A i \in DOMAIN wire : wire[i].at = wire[i].to
    /\ \A i, j \in DOMAIN wire : wire[i].id = wire[j].id => i = j

(* Outside the message pass the active lists are empty: a swap hands the     *)
(* producers a set of lists the cycle has drained, so no message is older    *)
(* than one cycle (bus_pingpong_swap).                                       *)
ActiveDrained ==
    pc \notin {"send", "transmit"} =>
        \A i \in Slots : chain[List(i, active)] = << >>

(* Messages of the cycle, the uplink and core1 reach the node they are for,  *)
(* once: a buffer waits on the list of the node it was filled for, is sent   *)
(* to that node once, and the list handed out for filling is empty.          *)
DeliveredToOwner == QueuedForOwner /\ SentOnceToOwner /\ ActiveDrained

(* With no roster change outstanding, the node table the cycle works from    *)
(* has the addresses and flags of the roster, in address order.              *)
TableFollowsRoster ==
    ~dirty /\ LockFree =>
        /\ Len(nodes) = Len(roster)
        /\ \E p \in SortOrder(roster) : \A i \in DOMAIN roster :
               nodes[i].addr = roster[p[i]].addr /\ nodes[i].enabled = roster[p[i]].enabled

(* A node the cycle has given up on is DEAD in the roster too, so that the   *)
(* host hears of it (mark_miss and g_nodes[i].dead are separate counters of  *)
(* the same misses).  Excepted is a node the per-slot rotation heard since   *)
(* the table was built or the cycle last heard it: that mode marks only the  *)
(* roster alive (main.c:850, 868, 916), and after CMD_BUS_CYCLE_MODE the     *)
(* table's count goes on from where it was.                                  *)
DeadInBoth ==
    ~dirty /\ LockFree => \A i \in DOMAIN nodes : nodes[i].dead /\ nodes[i].addr \notin revived =>
        \A r \in RosterIdx(nodes[i].addr) : roster[r].state = "DEAD"

(* What the announced shadow says was reported really was the last liveness  *)
(* event the attached host got (emit_liveness_edges).                        *)
ShadowIsTold ==
    linked => \A a \in Addrs : \A i \in RosterIdx(a) :
        /\ roster[i].announced = "DEAD" <=> host[a].live = "DOWN"
        /\ roster[i].annSummary = host[a].sum

(* A message leaves its node's list only by being put on the wire, by its    *)
(* node being dead, or by a roster rebuild: nothing accepted is dropped      *)
(* otherwise.                                                                *)
Queued == {b \in Bufs : \E h \in Heads \ {Free} : \E i \in DOMAIN chain[h] :
                            chain[h][i] = b /\ h \notin {Hold(p) : p \in Producers}}
LostOnlyToDeadOrRebuild ==
    [][\A b \in Queued \ Queued' :
          \/ \E i \in DOMAIN wire' : wire'[i].id = buf[b].id
          \/ pc = "orphans"
          \/ pc = "transmit" /\ nodes[idx].dead]_vars

(* Every buffer taken from the pool comes back to it: an exhausted pool is   *)
(* never exhausted for good, whichever nodes die while messages are queued,  *)
(* as long as the cyclic engine runs (the rotation drains no list).          *)
PoolRefills == \A b \in Bufs : []<>(~cycleMode \/ \E i \in DOMAIN chain[Free] : chain[Free][i] = b)

(* A dead node that answers again is taken back into the rotation by the     *)
(* slow poll, as long as the cyclic engine runs.                             *)
DeadRevived == \A a \in Addrs :
    (cycleMode /\ \E i \in NodeIdx(a) : nodes[i].dead /\ slave[a].up) ~>
        (~cycleMode \/ \A i \in NodeIdx(a) : ~nodes[i].dead \/ ~slave[a].up)

(* The host of a live uplink hears of every slave that stays DEAD, although  *)
(* only one edge is sent per cycle and the TX ring may be full.              *)
DeadReported == \A a \in Addrs :
    (linked /\ \E i \in RosterIdx(a) : roster[i].state = "DEAD") ~>
        (~linked \/ host[a].live = "DOWN" \/ \A i \in RosterIdx(a) : roster[i].state # "DEAD")

(* After a pool exhaustion with a host attached the cycle makes the notice,  *)
(* although producers only count.  It is made once: the host hears of it     *)
(* unless the TX ring was full just then (main.c:1418 ignores the result) or *)
(* two producers' unlocked increments met (main.c:1253) and the count is     *)
(* again the one the host was told.                                          *)
ExhaustionNotified ==
    (uplinkActive /\ cycleMode /\ notice = "due") ~>
        (~uplinkActive \/ ~cycleMode \/ notice \in {"told", "refused", "merged"})

(* What the documents say and the code does not do; each is violated.       *)

(* main.c:1249, "exhaustion is an exception -> COUNT ONLY (no silent drop)": *)
(* the attached host is told.                                                *)
NoSilentDrop == (uplinkActive /\ notice = "due") ~> (~uplinkActive \/ notice = "told")

(* The dead flag of the table and the roster's state agree in both modes.    *)
DeadAgrees ==
    ~dirty /\ LockFree => \A i \in DOMAIN nodes : nodes[i].dead =>
        \A r \in RosterIdx(nodes[i].addr) : roster[r].state = "DEAD"

(* docs/bus-arbiter-spec.md: two commands for one node are two buffers on    *)
(* its list, sent in order.  bus_msg_send pushes at the head.                *)
SentInOrder ==
    \A i, j \in DOMAIN wire : i < j /\ wire[i].at = wire[j].at => wire[i].id < wire[j].id

(* uplink_enter: drop the host-registered slaves, restore the commissioned   *)
(* roster.  Outside a handler and with no rebuild outstanding, a table no    *)
(* command of this session changed has the commissioned addresses.           *)
ReattachRestores ==
    LockFree /\ ~dirty /\ roster = Commissioned =>
        {nodes[i].addr : i \in DOMAIN nodes} = {Commissioned[i].addr : i \in DOMAIN Commissioned}
=============================================================================
