------------------------------ MODULE CflEngine ------------------------------
(***************************************************************************)
(* The chain-tree engine that runs the knowledge bases (KBs) on core 1.    *)
(* The C functions all take the runtime handle and change it in place;     *)
(* here each of them is an operator from a handle record h to the handle   *)
(* it leaves behind, under the name it has in the C code.  The fields of h *)
(*                                                                         *)
(*   img      the name of the program image being run                      *)
(*   en, ini  nodes flagged CT_FLAG_USER3 (enabled), CT_FLAG_USER2         *)
(*   mem      a node's arena record, NoMem while its index is 0xFFFF       *)
(*   aid      a node's allocator id (NoArena is 0xff)                      *)
(*   arenas   the allocator ids in use;  kbid  the arena of each KB        *)
(*   nextid   next_allocator_id                                            *)
(*   heap     per node, aux records malloc'ed on the heap and not freed    *)
(*   high,low the two event rings                                          *)
(*   act      active KBs;  win  the KB whose window is set                 *)
(*   bits, shadow   the bitmask and its shadow, as sets of bits            *)
(*   ev, from the event being executed and the node its walk starts at     *)
(*   flag     cfl_engine_flag                                              *)
(*   panic    EXCEPTION was raised: the core spins until the watchdog      *)
(*   slot,head  g_app_req and g_app_req_head                               *)
(*   up       how many frames wait in g_up_q                               *)
(*   ans      the requests handed to a handler so far, in order            *)
(*   inp      the nodes whose user predicate answers true to this event    *)
(*                                                                         *)
(* An image is [kbs, node]: kbs a sequence of [start, count, depth] and    *)
(* node a function from node numbers to records [parent, kids, auto, main, *)
(* init, term, aux, arg], functions given by name and arg the node's JSON  *)
(* data already decoded.  Timestamps are kept as the time left (a deadline *)
(* minus now, in ticks), which is all the code ever compares.              *)
(***************************************************************************)
EXTENDS Integers, Sequences, FiniteSets, SequencesExt, FiniteSetsExt

CONSTANTS
    Images,      \* image name -> image
    HighSize,    \* event_queue_high_priority_size
    LowSize,     \* event_queue_low_priority_size
    UpCap,       \* length of g_up_q
    Slots,       \* APP_REQ_SLOTS
    MaxArenas    \* max_allocator_count (allocator 0 included)

NoNode  == 65535
NoArena == 255
NoMem   == [none |-> TRUE]

Img(h)     == Images[h.img]
Nd(h, n)   == Img(h).node[n]
NodesOf(h) == DOMAIN Img(h).node
KBs(h)     == DOMAIN Img(h).kbs
KbNodes(h, k) == LET b == Img(h).kbs[k] IN b.start .. b.start + b.count - 1
Arg(h, n)  == Nd(h, n).arg

(* EXCEPTION: record the fault, mask interrupts and spin.                  *)
cfl_exception_handler(h) == [h EXCEPT !.panic = TRUE]

-----------------------------------------------------------------------------
(* The event rings.                                                        *)

round_up_power_of_2(size) ==
    CASE size < 2     -> 2
      [] size > 32768 -> 32768
      [] OTHER -> CHOOSE p \in {2^k : k \in 0..15} : p >= size /\ p < 2 * size

(* One slot of a ring stays empty: head + 1 = tail means full.             *)
ring_is_full(ring, size) == Len(ring) = round_up_power_of_2(size) - 1

Event(n, typ, id, dat) == [n |-> n, typ |-> typ, id |-> id, dat |-> dat]
NullEvent == Event(NoNode, "NULL", "none", 0)

cfl_send_event(h, prio, n, typ, id, dat) ==
    IF prio = "HIGH"
    THEN IF ring_is_full(h.high, HighSize) THEN cfl_exception_handler(h)
         ELSE [h EXCEPT !.high = Append(@, Event(n, typ, id, dat))]
    ELSE IF ring_is_full(h.low, LowSize) THEN cfl_exception_handler(h)
         ELSE [h EXCEPT !.low = Append(@, Event(n, typ, id, dat))]

(* The typed senders only choose the event type.                           *)
cfl_send_integer_event(h, prio, n, id, v) == cfl_send_event(h, prio, n, "INT", id, v)
cfl_send_data_event(h, prio, n, id, ptr)  == cfl_send_event(h, prio, n, "PTR", id, ptr)
cfl_send_null_event(h, prio, n, id)       == cfl_send_event(h, prio, n, "NULL", id, 0)
cfl_send_node_id_event(h, prio, n, id, m) == cfl_send_event(h, prio, n, "NODE_ID", id, m)

(* Mutant: only the high ring is counted.                                  *)
high_event_count(h) == Len(h.high)

cfl_total_event_count(h) == Len(h.high) + Len(h.low)

(* The high ring is emptied first.                                         *)
cfl_peek_event(h) == IF h.high # <<>> THEN Head(h.high) ELSE Head(h.low)
cfl_pop_event(h)  ==
    IF h.high # <<>> THEN [h EXCEPT !.high = Tail(@), !.ev = Head(h.high)]
    ELSE [h EXCEPT !.low = Tail(@), !.ev = Head(h.low)]

-----------------------------------------------------------------------------
(* Node flags and links.                                                   *)

cfl_engine_node_is_enabled(h, n)     == n \in h.en
cfl_engine_node_is_initialized(h, n) == n \in h.en /\ n \in h.ini

(* All user flags are cleared before USER3 is set: enabling a node that is *)
(* initialised makes it forget that it is.                                 *)
cfl_enable_node(h, n)       == [h EXCEPT !.en = @ \cup {n}, !.ini = @ \ {n}]
cfl_disable_node_flag(h, n) == [h EXCEPT !.en = @ \ {n}, !.ini = @ \ {n}]
cfl_set_node_initialization_flag(h, n) == [h EXCEPT !.ini = @ \cup {n}]

Kids(h, n) == Nd(h, n).kids

cfl_enable_all_nodes(h, n) == FoldLeft(cfl_enable_node, h, Kids(h, n))

cfl_enable_auto_start_nodes(h, n) ==
    FoldLeft(cfl_enable_node, h, SelectSeq(Kids(h, n), LAMBDA c : Nd(h, c).auto))

cfl_verify_active_children(h, n) ==
    IF \E c \in ToSet(Kids(h, n)) : cfl_engine_node_is_enabled(h, c)
    THEN "CONTINUE" ELSE "DISABLE"

(* The nodes the nested walk reaches from n: its marker never stops it.    *)
Subtree(h, n) ==
    LET level[d \in Nat] == IF d = 0 THEN {n}
                            ELSE UNION {ToSet(Kids(h, m)) : m \in level[d - 1]}
    IN  UNION {level[d] : d \in 0..Cardinality(NodesOf(h))}

-----------------------------------------------------------------------------
(* Node memory: one record per node in the arena of its allocator id.      *)

cfl_allocate_state(h, n) == h.mem[n] # NoMem

cfl_smart_arena_alloc(h, n, m) ==
    IF cfl_allocate_state(h, n) THEN h
    ELSE IF h.aid[n] \notin h.arenas THEN cfl_exception_handler(h)
    ELSE [h EXCEPT !.mem[n] = m]

SetMem(h, n, f(_)) == [h EXCEPT !.mem[n] = f(@)]

(* Allocator ids are given out round robin from next_allocator_id.         *)
NewArena(h) ==
    (h.nextid + Min({i \in 0..MaxArenas - 1 : (h.nextid + i) % MaxArenas \notin h.arenas}))
        % MaxArenas

cfl_memory_allocator_assignment(h, n, id) ==
    [h EXCEPT !.aid = [m \in DOMAIN @ |-> IF m \in Subtree(h, n) THEN id ELSE @[m]],
              !.mem = [m \in DOMAIN @ |-> IF m \in Subtree(h, n) THEN NoMem ELSE @[m]]]

(* Mutant: the nodes keep the memory they had in the arena.                *)
arena_destroy_only(h, id) ==
    [h EXCEPT !.arenas = @ \ {id},
              !.aid = [m \in DOMAIN @ |-> IF @[m] = id THEN 0 ELSE @[m]]]

(* Destroying an arena sends its nodes back to allocator 0, unallocated.   *)
cfl_heap_arena_destroy(h, id) ==
    [h EXCEPT !.arenas = @ \ {id},
              !.mem = [m \in DOMAIN @ |-> IF h.aid[m] = id THEN NoMem ELSE @[m]],
              !.aid = [m \in DOMAIN @ |-> IF @[m] = id THEN 0 ELSE @[m]]]

(* The aux record of a waiting node lives on the heap, not in the arena.   *)
MallocAux(h, n, a) == [h EXCEPT !.heap[n] = @ + 1, !.mem[n].aux = a]
FreeAux(h, n)      == IF h.mem[n].aux.live
                      THEN [h EXCEPT !.heap[n] = @ - 1, !.mem[n].aux.live = FALSE]
                      ELSE cfl_exception_handler(h)
NullAux            == [live |-> FALSE, null |-> TRUE]

-----------------------------------------------------------------------------
(* Replies: the handlers of kb0, kb1 and kbapp push onto g_up_q without    *)
(* waiting, so a reply that finds it full is dropped.                      *)

(* Mutant: frames are pushed whether or not the queue is full.             *)
PushUpUnbounded(h) == [h EXCEPT !.up = @ + 1]

PushUp(h) == IF h.up < UpCap THEN [h EXCEPT !.up = @ + 1] ELSE h

Answer(h, r, f) == PushUp([h EXCEPT !.ans = Append(@, [req |-> r, fn |-> f])])

kb0_on_ping(h) == Answer(h, h.ev.dat, "MON_PING")

(* The reply is followed by the five report frames and the end frame.      *)
kb0_emit_reports(h) == [h EXCEPT !.up = Min({@ + 6, UpCap})]
kb0_on_snapshot(h)  == kb0_emit_reports(Answer(h, h.ev.dat, "MON_SNAPSHOT"))

kb1_on_adc(h) == Answer(h, h.ev.dat, "ADC_READ")

(* kbapp's requests ride in g_app_req; the event carries the slot.         *)
kbapp_on_echo(h)     == Answer(h, h.slot[h.ev.dat], "APP_ECHO")
kbapp_on_il_clear(h) == Answer(h, h.slot[h.ev.dat], "APP_IL_CLEAR")
kbapp_on_op(h)       == Answer(h, h.slot[h.ev.dat], "APP_OP")
kbapp_on_echo_to(h)  == Answer(h, h.slot[h.ev.dat], "APP_ECHO_TO")

-----------------------------------------------------------------------------
(* The boolean (aux) functions.  A node calls its own with INIT when it    *)
(* starts and with TERMINATE when it is torn down (the two operators       *)
(* AuxInit and AuxTerminate gather what the functions do with those), and  *)
(* with every event in between.                                            *)

Ret(h, b) == [h |-> h, r |-> b]

AuxMem == {"VERIFY_TIME_OUT", "WAIT_FOR_EVENT", "SM_EVENT_SYNC", "VERIFY_BITMASK",
           "WAIT_FOR_BITMASK", "VERIFY_TESTS", "WAIT_TESTS"}
AuxLost(h, n) == h.panic \/ (Nd(h, n).aux \in AuxMem /\ h.mem[n] = NoMem)

(* The mask record is malloc'ed once per life of the arena record and is   *)
(* not freed on TERMINATE.                                                 *)
AuxInit(h, n) ==
    LET f == Nd(h, n).aux IN
    CASE AuxLost(h, n) -> cfl_exception_handler(h)
      [] ~AuxLost(h, n) /\ f = "VERIFY_TIME_OUT" ->
            MallocAux(h, n, [live |-> TRUE, null |-> FALSE, left |-> Arg(h, n).time])
      [] ~AuxLost(h, n) /\ f = "WAIT_FOR_EVENT" ->
            MallocAux(h, n, [live |-> TRUE, null |-> FALSE, count |-> Arg(h, n).count])
      [] /\ ~AuxLost(h, n) /\ f \in {"VERIFY_BITMASK", "WAIT_FOR_BITMASK"}
         /\ h.mem[n].aux.null ->
            MallocAux(h, n, [live |-> TRUE, null |-> FALSE])
      [] OTHER -> h

(* Mutant: the TERMINATE call frees nothing.                               *)
AuxKept(h, n) == h

AuxTerminate(h, n) ==
    CASE AuxLost(h, n) -> cfl_exception_handler(h)
      [] /\ ~AuxLost(h, n) /\ Nd(h, n).aux \in {"VERIFY_TIME_OUT", "WAIT_FOR_EVENT"}
         /\ ~h.mem[n].aux.null -> FreeAux(h, n)
      [] OTHER -> h

cfl_verify_time_out_boolean_fn(h, n, id) == Ret(h, id = "TIMER" => h.mem[n].aux.left > 0)

cfl_wait_for_event_boolean_fn(h, n, id) ==
    CASE h.mem[n].aux.null -> Ret(cfl_exception_handler(h), FALSE)
      [] ~h.mem[n].aux.null /\ id # Arg(h, n).event -> Ret(h, FALSE)
      [] OTHER -> Ret([h EXCEPT !.mem[n].aux.count = @ - 1], h.mem[n].aux.count = 1)

cfl_sm_event_sync_boolean_fn(h, n, id) ==
    IF h.mem[n].sync = "none" THEN Ret(h, FALSE)
    ELSE Ret(IF id = h.mem[n].sync THEN [h EXCEPT !.mem[n].sync = "none"] ELSE h, TRUE)

(* The masks are looked at on the timer event; a verify passes any other.  *)
MaskMet(h, a) == a.required \subseteq h.bits /\ a.excluded \cap h.bits = {}
cfl_verify_bitmask_boolean_fn(h, n, id)   == Ret(h, id = "TIMER" => MaskMet(h, Arg(h, n)))
cfl_wait_for_bitmask_boolean_fn(h, n, id) == Ret(h, id = "TIMER" /\ MaskMet(h, Arg(h, n)))

TestsActive(h, n) == Arg(h, n).tests \subseteq h.act
cfl_verify_tests_active_boolean_fn(h, n, id) == Ret(h, id = "TIMER" => TestsActive(h, n))
(* It waits until all of the tests are active, whatever its name says.     *)
cfl_wait_for_tests_complete_boolean_fn(h, n, id) == Ret(h, id = "TIMER" /\ TestsActive(h, n))

Boolean(h, n, id) ==
    LET f == Nd(h, n).aux IN
    CASE AuxLost(h, n)           -> Ret(cfl_exception_handler(h), FALSE)
      [] ~AuxLost(h, n) /\ f = "VERIFY_TIME_OUT"  -> cfl_verify_time_out_boolean_fn(h, n, id)
      [] ~AuxLost(h, n) /\ f = "WAIT_FOR_EVENT"   -> cfl_wait_for_event_boolean_fn(h, n, id)
      [] ~AuxLost(h, n) /\ f = "SM_EVENT_SYNC"    -> cfl_sm_event_sync_boolean_fn(h, n, id)
      [] ~AuxLost(h, n) /\ f = "VERIFY_BITMASK"   -> cfl_verify_bitmask_boolean_fn(h, n, id)
      [] ~AuxLost(h, n) /\ f = "WAIT_FOR_BITMASK" -> cfl_wait_for_bitmask_boolean_fn(h, n, id)
      [] ~AuxLost(h, n) /\ f = "VERIFY_TESTS" -> cfl_verify_tests_active_boolean_fn(h, n, id)
      [] ~AuxLost(h, n) /\ f = "WAIT_TESTS" -> cfl_wait_for_tests_complete_boolean_fn(h, n, id)
      [] OTHER -> Ret(h, f = "USER" /\ n \in h.inp)

-----------------------------------------------------------------------------
(* Tearing nodes down, and the one-shot functions that a node's start, its *)
(* end, an error or a KB command runs.                                     *)

(* The one-shots that images name as a node's termination function; the    *)
(* other ones have an empty body.                                          *)
RECURSIVE TermShot(_, _, _)

cfl_disable_node(h, n) ==
    IF ~cfl_engine_node_is_initialized(h, n) THEN cfl_disable_node_flag(h, n)
    ELSE cfl_disable_node_flag(TermShot(AuxTerminate(h, n), Nd(h, n).term, n), n)

Downwards(h, S) ==
    LET N == Cardinality(NodesOf(h))
    IN  SelectSeq([i \in 1..N |-> N - i], LAMBDA m : m \in S)

(* Mutant: the nodes below the node are not torn down.                     *)
terminate_top_node(h, n) ==
    IF n \in h.ini THEN cfl_disable_node(h, n) ELSE h

(* A node that was never initialised is left as it is, even when enabled.  *)
(* Otherwise the enabled nodes below it are marked by a nested walk and    *)
(* disabled from the end of the KB back to the node itself.                *)
cfl_terminate_node_tree(h, n) ==
    CASE n \notin NodesOf(h) -> cfl_exception_handler(h)
      [] n \in NodesOf(h) /\ n \notin h.ini -> h
      [] OTHER ->
            IF Kids(h, n) # <<>> /\ n < Img(h).kbs[h.win].start THEN cfl_exception_handler(h)
            ELSE FoldLeft(cfl_disable_node, h,
                          IF Kids(h, n) = <<>> THEN <<n>>
                          ELSE Downwards(h, {m \in Subtree(h, n) \cap h.en :
                                               m >= n /\ m \in KbNodes(h, h.win)}))

(* Mutant: the arena is not given back.                                    *)
local_arena_kept(h, n) == h

cfl_local_arena_term_one_shot_fn(h, n) ==
    IF h.mem[n] = NoMem THEN cfl_exception_handler(h)
    ELSE cfl_heap_arena_destroy(h, h.mem[n].id)

cfl_state_machine_term_one_shot_fn(h, n) ==
    FoldLeft(cfl_terminate_node_tree, h, Kids(h, n))

TermShot(h, f, n) ==
    CASE h.panic -> h
      [] ~h.panic /\ f = "LOCAL_ARENA_TERM" -> cfl_local_arena_term_one_shot_fn(h, n)
      [] ~h.panic /\ f = "SM_TERM" -> cfl_state_machine_term_one_shot_fn(h, n)
      [] OTHER -> h

cfl_terminate_all_nodes_in_kb(h, k) ==
    FoldLeft(cfl_disable_node, h, Downwards(h, KbNodes(h, k)))

cfl_engine_init_test(h, k) ==
    cfl_enable_node([h EXCEPT !.en = @ \ KbNodes(h, k), !.ini = @ \ KbNodes(h, k)],
                    Img(h).kbs[k].start)

(* Starting a KB: an arena for its nodes, then only its root enabled.      *)
cfl_add_test_by_index(h, k) ==
    CASE k \notin KBs(h) -> cfl_exception_handler(h)
      [] k \in h.act -> h
      [] k \in KBs(h) \ h.act /\ (1..MaxArenas - 1) \subseteq h.arenas ->
            cfl_exception_handler(h)
      [] OTHER ->
            cfl_engine_init_test(
                [h EXCEPT !.arenas = @ \cup {NewArena(h)},
                          !.nextid = (NewArena(h) + 1) % MaxArenas,
                          !.kbid[k] = NewArena(h),
                          !.act = @ \cup {k},
                          !.aid = [n \in DOMAIN @ |-> IF n \in KbNodes(h, k)
                                                      THEN NewArena(h) ELSE @[n]]], k)

(* Stopping a KB: every node torn down, then its arena destroyed.          *)
Stopped(h, k) ==
    [h EXCEPT !.act = @ \ {k}, !.kbid[k] = NoArena,
              !.aid = [n \in DOMAIN @ |-> IF n \in KbNodes(h, k) THEN NoArena ELSE @[n]]]
cfl_delete_test_by_index(h, k) ==
    IF k \notin h.act THEN h
    ELSE Stopped(cfl_heap_arena_destroy(cfl_terminate_all_nodes_in_kb(h, k), h.kbid[k]), k)

(* Stops first, then starts, in the order the node's data lists them.      *)
cfl_start_stop_tests_one_shot_fn(h, n) ==
    FoldLeft(cfl_add_test_by_index,
             FoldLeft(cfl_delete_test_by_index, h, Arg(h, n).stop), Arg(h, n).start)

cfl_send_named_event_one_shot_fn(h, n) ==
    cfl_send_node_id_event(h, "LOW", Arg(h, n).to, Arg(h, n).event, n)

cfl_verify_init_one_shot_fn(h, n) == cfl_smart_arena_alloc(h, n, [aux |-> NullAux])

(* A record already in the arena is kept as it is, event_count included.   *)
cfl_wait_init_one_shot_fn(h, n) == cfl_smart_arena_alloc(h, n, [aux |-> NullAux, cnt |-> 0])

cfl_wait_time_init_one_shot_fn(h, n) ==
    [cfl_smart_arena_alloc(h, n, [left |-> 0]) EXCEPT !.mem[n].left = Arg(h, n).delay]

cfl_disable_nodes_one_shot_fn(h, n) == FoldLeft(cfl_terminate_node_tree, h, Arg(h, n).nodes)
cfl_enable_nodes_one_shot_fn(h, n)  == FoldLeft(cfl_enable_node, h, Arg(h, n).nodes)

(* A sequence starts at its first element; the others are terminated.      *)
cfl_sequence_pass_init_one_shot_fn(h, n) ==
    LET k  == Kids(h, n)
        a  == [cfl_smart_arena_alloc(h, n, NoMem) EXCEPT
                 !.mem[n] = [cur |-> 0, rec |-> -1, final |-> FALSE,
                             ok |-> [i \in 1..Len(k) |-> FALSE]]]
    IN  FoldLeft(cfl_terminate_node_tree, cfl_enable_node(a, Head(k)), Tail(k))

cfl_mark_sequence_one_shot_fn(h, n) ==
    LET s == Arg(h, n).seq IN
    IF h.mem[s] = NoMem THEN cfl_exception_handler(h)
    ELSE [h EXCEPT !.mem[s].ok[h.mem[s].cur + 1] = Arg(h, n).result,
                   !.mem[s].rec = h.mem[s].cur]

cfl_join_init_one_shot_fn(h, n) == cfl_smart_arena_alloc(h, n, [of |-> Arg(h, n).of])

cfl_watch_dog_init_one_shot_fn(h, n) ==
    [cfl_smart_arena_alloc(h, n, NoMem) EXCEPT !.mem[n] = [cnt |-> 0, on |-> FALSE]]

LoopInit(h, n) ==
    cfl_enable_node([cfl_smart_arena_alloc(h, n, NoMem) EXCEPT !.mem[n] = [cnt |-> 0]],
                    Head(Kids(h, n)))
cfl_while_init_one_shot_fn(h, n) == LoopInit(h, n)
cfl_for_init_one_shot_fn(h, n)   == LoopInit(h, n)

SetWatchDog(h, w, m) == IF h.mem[w] = NoMem THEN cfl_exception_handler(h)
                        ELSE [h EXCEPT !.mem[w] = m]
cfl_pat_watch_dog_one_shot_fn(h, n) ==
    LET w == Arg(h, n).of IN SetWatchDog(h, w, [h.mem[w] EXCEPT !.cnt = 0])
cfl_enable_watch_dog_one_shot_fn(h, n)  == SetWatchDog(h, Arg(h, n).of, [cnt |-> 0, on |-> TRUE])
cfl_disable_watch_dog_one_shot_fn(h, n) == SetWatchDog(h, Arg(h, n).of, [cnt |-> 0, on |-> FALSE])

cfl_set_bitmask_one_shot_fn(h, n)   == [h EXCEPT !.shadow = @ \cup Arg(h, n).mask]
cfl_clear_bitmask_one_shot_fn(h, n) == [h EXCEPT !.shadow = @ \ Arg(h, n).mask]

cfl_df_mask_init_one_shot_fn(h, n) ==
    [cfl_smart_arena_alloc(h, n, NoMem) EXCEPT !.mem[n] = [on |-> FALSE]]

(* A local arena takes over the allocator id of the whole subtree and is   *)
(* given back when the node ends.                                          *)
cfl_local_arena_init_one_shot_fn(h, n) ==
    CASE cfl_allocate_state(h, n) -> cfl_enable_all_nodes(h, n)
      [] ~cfl_allocate_state(h, n) /\ (1..MaxArenas - 1) \subseteq h.arenas ->
            cfl_exception_handler(h)
      [] OTHER ->
            LET id == NewArena(h)
                a  == cfl_memory_allocator_assignment(
                        [h EXCEPT !.arenas = @ \cup {id}, !.nextid = (id + 1) % MaxArenas], n, id)
            IN  cfl_enable_all_nodes(cfl_smart_arena_alloc(a, n, [id |-> id]), n)

IsStateMachine(h, n) == n \in NodesOf(h) /\ Nd(h, n).main = "STATE_MACHINE"

cfl_terminate_state_machine(h, sm) ==
    IF ~IsStateMachine(h, sm) THEN cfl_exception_handler(h) ELSE cfl_terminate_node_tree(h, sm)

cfl_reset_state_machine(h, sm) ==
    IF ~IsStateMachine(h, sm) THEN cfl_exception_handler(h)
    ELSE cfl_enable_node(cfl_terminate_node_tree(h, sm), sm)

(* The new state is only recorded here; the state machine's own main       *)
(* function switches over.  With a sync event the states are held back     *)
(* until that event comes round the low ring.                              *)
cfl_change_state(h, sm, state, sync) ==
    LET at == {i \in DOMAIN Arg(h, sm).names : Arg(h, sm).names[i] = state}
        s  == [h EXCEPT !.mem[sm].new = Min(at) - 1, !.mem[sm].sync = sync]
    IN  CASE ~IsStateMachine(h, sm) \/ h.mem[sm] = NoMem -> cfl_exception_handler(h)
          [] IsStateMachine(h, sm) /\ h.mem[sm] # NoMem /\ at = {} -> cfl_exception_handler(h)
          [] OTHER -> IF sync = "none" THEN s ELSE cfl_send_null_event(s, "LOW", sm, sync)

cfl_change_state_one_shot_fn(h, n) ==
    cfl_change_state(h, Arg(h, n).sm, Arg(h, n).state, Arg(h, n).sync)

cfl_state_machine_init_one_shot_fn(h, n) ==
    LET i == Arg(h, n).initial
        a == [cfl_smart_arena_alloc(h, n, NoMem) EXCEPT
                !.mem[n] = [cur |-> i, new |-> i, sync |-> "none"]]
    IN  cfl_enable_node(FoldLeft(cfl_terminate_node_tree, a, Kids(h, n)), Kids(h, n)[i + 1])

(* The table of one-shot functions.  Functions that only log, and the term *)
(* functions with an empty body, leave the handle alone.                   *)
OneShot(h, f, n) ==
    IF h.panic THEN h ELSE
    CASE f \in {"COLUMN_INIT", "FORK_INIT"} -> cfl_enable_all_nodes(h, n)
      [] f = "GATE_INIT"           -> cfl_enable_auto_start_nodes(h, n)
      [] f = "SEND_NAMED_EVENT"    -> cfl_send_named_event_one_shot_fn(h, n)
      [] f = "VERIFY_INIT"         -> cfl_verify_init_one_shot_fn(h, n)
      [] f = "WAIT_INIT"           -> cfl_wait_init_one_shot_fn(h, n)
      [] f = "WAIT_TIME_INIT"      -> cfl_wait_time_init_one_shot_fn(h, n)
      [] f = "DISABLE_NODES"       -> cfl_disable_nodes_one_shot_fn(h, n)
      [] f = "ENABLE_NODES"        -> cfl_enable_nodes_one_shot_fn(h, n)
      [] f = "SEQUENCE_INIT"       -> cfl_sequence_pass_init_one_shot_fn(h, n)
      [] f = "MARK_SEQUENCE"       -> cfl_mark_sequence_one_shot_fn(h, n)
      [] f = "JOIN_INIT"           -> cfl_join_init_one_shot_fn(h, n)
      [] f = "WATCH_DOG_INIT"      -> cfl_watch_dog_init_one_shot_fn(h, n)
      [] f = "WHILE_INIT"          -> cfl_while_init_one_shot_fn(h, n)
      [] f = "FOR_INIT"            -> cfl_for_init_one_shot_fn(h, n)
      [] f = "PAT_WATCH_DOG"       -> cfl_pat_watch_dog_one_shot_fn(h, n)
      [] f = "ENABLE_WATCH_DOG"    -> cfl_enable_watch_dog_one_shot_fn(h, n)
      [] f = "DISABLE_WATCH_DOG"   -> cfl_disable_watch_dog_one_shot_fn(h, n)
      [] f = "SET_BITMASK"         -> cfl_set_bitmask_one_shot_fn(h, n)
      [] f = "CLEAR_BITMASK"       -> cfl_clear_bitmask_one_shot_fn(h, n)
      [] f = "DF_MASK_INIT"        -> cfl_df_mask_init_one_shot_fn(h, n)
      [] f = "START_STOP_TESTS"    -> cfl_start_stop_tests_one_shot_fn(h, n)
      [] f = "LOCAL_ARENA_INIT"    -> cfl_local_arena_init_one_shot_fn(h, n)
      [] f = "CHANGE_STATE"        -> cfl_change_state_one_shot_fn(h, n)
      [] f = "RESET_SM"            -> cfl_reset_state_machine(h, Arg(h, n).sm)
      [] f = "TERMINATE_SM"        -> cfl_terminate_state_machine(h, Arg(h, n).sm)
      [] f = "SM_INIT"             -> cfl_state_machine_init_one_shot_fn(h, n)
      [] f = "MON_PING_REPLY"      -> kb0_on_ping(h)
      [] f = "MON_SNAPSHOT"        -> kb0_on_snapshot(h)
      [] f = "ADC_READ"            -> kb1_on_adc(h)
      [] f = "APP_ECHO"            -> kbapp_on_echo(h)
      [] f = "APP_ECHO_TO"         -> kbapp_on_echo_to(h)
      [] f = "APP_IL_CLEAR"        -> kbapp_on_il_clear(h)
      [] f = "APP_OP"              -> kbapp_on_op(h)
      [] OTHER                     -> h

-----------------------------------------------------------------------------
(* The main functions: what a node does with an event, and the return code *)
(* that tells the engine what to do with the node.                         *)

Code(h, rc) == [h |-> h, rc |-> rc]

(* In these b is what the node's aux function answers to the event, with   *)
(* the handle it leaves; a function that returns before calling it ignores *)
(* b.                                                                      *)
cfl_column_main_main_fn(h, b, n) ==
    CASE h.ev.id # "TIMER" -> Code(h, "CONTINUE")
      [] h.ev.id = "TIMER" /\ b.r -> Code(b.h, "DISABLE")
      [] OTHER -> Code(b.h, cfl_verify_active_children(b.h, n))

(* A check that fails runs its error function (one that reports the error, *)
(* in every image) and resets or ends its parent.                          *)
Fail(h, n) == Code(h, IF Arg(h, n).reset THEN "RESET" ELSE "TERMINATE")

cfl_verify_main_fn(b, n) == IF b.r THEN Code(b.h, "CONTINUE") ELSE Fail(b.h, n)

(* The count of timeout events stops mattering at the timeout, where it is *)
(* capped here.                                                            *)
cfl_wait_main_fn(b, n) ==
    LET t == Arg(b.h, n).timeout
        c == Min({b.h.mem[n].cnt + 1, t})
        s == [b.h EXCEPT !.mem[n].cnt = c]
    IN  CASE b.r -> Code(b.h, "DISABLE")
          [] ~b.r /\ (t = 0 \/ b.h.ev.id # Arg(b.h, n).tevent) -> Code(b.h, "HALT")
          [] OTHER -> IF c >= t THEN Fail(s, n) ELSE Code(s, "HALT")

cfl_wait_time_main_fn(b, n) ==
    Code(b.h, IF ~b.r /\ (b.h.ev.id # "TIMER" \/ b.h.mem[n].left >= 0)
              THEN "HALT" ELSE "DISABLE")

cfl_event_logger_main_fn(h, n) ==
    Code(h, IF Arg(h, n).events = <<>> THEN "DISABLE" ELSE "CONTINUE")

cfl_join_main_main_fn(h, n) ==
    Code(h, IF cfl_engine_node_is_enabled(h, h.mem[n].of) THEN "HALT" ELSE "DISABLE")

(* A sequence moves to its next element when the current one has ended     *)
(* with the result on, and ends otherwise.                                 *)
NextElement(h, n, m) ==
    cfl_enable_node([cfl_terminate_node_tree(h, Kids(h, n)[m.cur + 1])
                        EXCEPT !.mem[n].cur = m.cur + 1, !.mem[n].final = m.ok[m.cur + 1]],
                    Kids(h, n)[m.cur + 2])
SequenceMain(b, n, m, on) ==
    CASE b.r -> Code(b.h, "DISABLE")
      [] ~b.r /\ (\/ b.h.ev.id # "TIMER"
                  \/ cfl_engine_node_is_enabled(b.h, Kids(b.h, n)[m.cur + 1])) ->
            Code(b.h, "CONTINUE")
      [] OTHER ->
            CASE m.rec # m.cur -> Code(cfl_exception_handler(b.h), "TERMINATE_SYSTEM")
              [] m.rec = m.cur /\ (m.cur + 1 >= Len(Kids(b.h, n)) \/ m.ok[m.cur + 1] # on) ->
                    Code([b.h EXCEPT !.mem[n].final = m.ok[m.cur + 1]], "DISABLE")
              [] OTHER -> Code(NextElement(b.h, n, m), "CONTINUE")
cfl_sequence_pass_main_main_fn(b, n) == SequenceMain(b, n, b.h.mem[n], FALSE)
cfl_sequence_fail_main_main_fn(b, n) == SequenceMain(b, n, b.h.mem[n], TRUE)

cfl_for_main_main_fn(b, n) ==
    LET c == Head(Kids(b.h, n))
        s == [b.h EXCEPT !.mem[n].cnt = @ + 1]
    IN  CASE b.r -> Code(b.h, "DISABLE")
          [] ~b.r /\ cfl_engine_node_is_enabled(b.h, c) -> Code(b.h, "CONTINUE")
          [] OTHER -> IF s.mem[n].cnt >= Arg(b.h, n).times THEN Code(s, "DISABLE")
                      ELSE Code(cfl_enable_node(s, c), "CONTINUE")

(* current_iteration is counted by the code but read by nothing.           *)
cfl_while_main_main_fn(h, b, n) ==
    LET c == Head(Kids(h, n))
    IN  CASE cfl_engine_node_is_enabled(h, c) -> Code(h, "CONTINUE")
          [] ~cfl_engine_node_is_enabled(h, c) /\ ~b.r -> Code(b.h, "DISABLE")
          [] OTHER -> Code(cfl_enable_node(b.h, c), "CONTINUE")

cfl_watch_dog_main_main_fn(b, n) ==
    LET s == [b.h EXCEPT !.mem[n].cnt = @ + 1]
    IN  CASE b.r -> Code(b.h, "DISABLE")
          [] ~b.r /\ (~b.h.mem[n].on \/ b.h.ev.id # "TIMER") -> Code(b.h, "CONTINUE")
          [] OTHER -> IF s.mem[n].cnt >= Arg(b.h, n).time THEN Fail(s, n)
                      ELSE Code(s, "CONTINUE")

(* Children run only while the bitmask conditions hold, looked at on the   *)
(* timer event.                                                            *)
MaskSwitch(h, n, met) ==
    CASE h.ev.id = "TIMER" /\ ~h.mem[n].on /\ met ->
            [cfl_enable_all_nodes(h, n) EXCEPT !.mem[n].on = TRUE]
      [] h.ev.id = "TIMER" /\ h.mem[n].on /\ ~met ->
            [FoldLeft(cfl_terminate_node_tree, h, Kids(h, n)) EXCEPT !.mem[n].on = FALSE]
      [] OTHER -> h
Masked(h, n) == Code(h, IF h.mem[n].on THEN "CONTINUE" ELSE "SKIP_CONTINUE")
cfl_df_mask_main_main_fn(b, n) ==
    IF b.r THEN Code(b.h, "DISABLE")
    ELSE Masked(MaskSwitch(b.h, n, MaskMet(b.h, Arg(b.h, n))), n)

(* Mutant: the state that is left is not terminated.                       *)
SwitchOnly(h, n, m) ==
    IF m.cur = m.new THEN h
    ELSE [cfl_enable_node(h, Kids(h, n)[m.new + 1]) EXCEPT !.mem[n].cur = m.new]

(* The switch to a requested state happens before the sync test, so a      *)
(* state machine holding its states back has already switched.             *)
SwitchState(h, n, m) ==
    IF m.cur = m.new THEN h
    ELSE [cfl_enable_node(cfl_terminate_node_tree(h, Kids(h, n)[m.cur + 1]), Kids(h, n)[m.new + 1])
            EXCEPT !.mem[n].cur = m.new]
Held(b, n) ==
    Code(b.h, CASE cfl_verify_active_children(b.h, n) = "DISABLE" -> "DISABLE"
                [] OTHER -> IF b.r THEN "SKIP_CONTINUE" ELSE "CONTINUE")
cfl_state_machine_main_main_fn(h, n) ==
    Held(Boolean(SwitchState(h, n, h.mem[n]), n, h.ev.id), n)

UsesMem == {"VERIFY", "WAIT", "WAIT_TIME", "EVENT_LOGGER", "JOIN", "SEQUENCE_PASS",
            "SEQUENCE_FAIL", "FOR", "WATCH_DOG", "WHILE", "DF_MASK", "STATE_MACHINE"}

Main(h, b, n) ==
    LET f == Nd(h, n).main IN
    IF h.panic \/ (f \in UsesMem /\ h.mem[n] = NoMem)
    THEN Code(cfl_exception_handler(h), "TERMINATE_SYSTEM") ELSE
    CASE f \in {"COLUMN", "GATE", "FORK", "LOCAL_ARENA", "SEQUENCE_START"} ->
                                 cfl_column_main_main_fn(h, b, n)
      [] f = "VERIFY"         -> cfl_verify_main_fn(b, n)
      [] f = "WAIT"           -> cfl_wait_main_fn(b, n)
      [] f = "WAIT_TIME"      -> cfl_wait_time_main_fn(b, n)
      [] f = "EVENT_LOGGER"   -> cfl_event_logger_main_fn(h, n)
      [] f = "JOIN"           -> cfl_join_main_main_fn(h, n)
      [] f = "SEQUENCE_PASS"  -> cfl_sequence_pass_main_main_fn(b, n)
      [] f = "SEQUENCE_FAIL"  -> cfl_sequence_fail_main_main_fn(b, n)
      [] f = "FOR"            -> cfl_for_main_main_fn(b, n)
      [] f = "WHILE"          -> cfl_while_main_main_fn(h, b, n)
      [] f = "WATCH_DOG"      -> cfl_watch_dog_main_main_fn(b, n)
      [] f = "DF_MASK"        -> cfl_df_mask_main_main_fn(b, n)
      [] f = "STATE_MACHINE"  -> cfl_state_machine_main_main_fn(h, n)
      [] OTHER                -> Code(h, f)     \* HALT, RESET, DISABLE, TERMINATE...

-----------------------------------------------------------------------------
(* Executing one node, and the walk that visits the tree with an event.    *)

(* A node that is not initialised yet runs its init one-shot and its aux   *)
(* function before its main function sees the event.                       *)
StartNode(h, n) ==
    IF cfl_engine_node_is_initialized(h, n) THEN h
    ELSE cfl_set_node_initialization_flag(
            AuxInit(OneShot(h, Nd(h, n).init, n), n), n)

(* The return code of a main function names the node to tear down, itself, *)
(* its parent or the node the walk began at, and how the walk goes on.     *)
Doomed(h, rc, n) == CASE rc \in {"RESET", "TERMINATE"} -> Nd(h, n).parent
                      [] rc = "DISABLE" -> n
                      [] OTHER -> h.from
ReturnCode(h, torn, rc, n) ==
    LET p == Nd(h, n).parent IN
    CASE h.panic -> Code(h, "STOP_ALL")
      [] ~h.panic /\ rc = "CONTINUE" -> Code(h, "CONTINUE")
      [] ~h.panic /\ rc = "HALT" -> Code(h, "STOP_SIBLINGS")
      [] ~h.panic /\ rc = "SKIP_CONTINUE" -> Code(h, "SKIP_CHILDREN")
      [] ~h.panic /\ rc = "RESET" ->
            IF p = NoNode THEN Code(cfl_exception_handler(h), "STOP_ALL")
            ELSE Code(cfl_enable_node(torn, p), "CONTINUE")
      [] ~h.panic /\ rc = "DISABLE" -> Code(torn, "SKIP_CHILDREN")
      [] ~h.panic /\ rc = "TERMINATE" ->
            IF p = NoNode THEN Code(cfl_disable_node(h, n), "STOP_ALL")
            ELSE Code(torn, "SKIP_CHILDREN")
      [] ~h.panic /\ rc = "TERMINATE_SYSTEM" -> Code([torn EXCEPT !.flag = FALSE], "STOP_ALL")
      [] OTHER -> Code(cfl_exception_handler(h), "STOP_ALL")

RunMain(h, n)  == Main(h, Boolean(h, n, h.ev.id), n)
EndNode(h, rc, n) == ReturnCode(h, cfl_terminate_node_tree(h, Doomed(h, rc, n)), rc, n)
AfterMain(m, n)   == EndNode([m.h EXCEPT !.flag = TRUE], m.rc, n)
cfl_execute_node(h, n) ==
    IF ~cfl_engine_node_is_enabled(h, n) THEN Code(h, "SKIP_CHILDREN")
    ELSE AfterMain(RunMain(StartNode(h, n), n), n)

cfl_calculate_max_level(h) == 1 + Max({Img(h).kbs[k].depth : k \in KBs(h)})

(* Depth first with an explicit stack of [n, c], c the next child to try;  *)
(* the nodes in vis carry CT_FLAG_VISITED.  The stack has max_level        *)
(* entries and overflowing it is an exception.                             *)
RECURSIVE walk_iterative(_, _, _)

NextChild(h, stack, vis) ==
    LET top == Last(stack)
        up  == Append(Front(stack), [top EXCEPT !.c = @ + 1])
        c   == Kids(h, top.n)[top.c]
    IN  CASE top.c > Len(Kids(h, top.n)) -> walk_iterative(h, Front(stack), vis)
          [] top.c <= Len(Kids(h, top.n)) /\ c \in vis -> walk_iterative(h, up, vis)
          [] OTHER -> IF Len(stack) >= cfl_calculate_max_level(h) THEN cfl_exception_handler(h)
                      ELSE walk_iterative(h, Append(up, [n |-> c, c |-> 1]), vis)

Visited(r, stack, vis) ==
    CASE r.rc = "STOP_ALL"      -> r.h
      [] r.rc = "STOP_SIBLINGS" -> walk_iterative(r.h, SubSeq(stack, 1, Len(stack) - 2), vis)
      [] r.rc = "SKIP_CHILDREN" -> walk_iterative(r.h, Front(stack), vis)
      [] OTHER                  -> NextChild(r.h, stack, vis)

walk_iterative(h, stack, vis) ==
    IF stack = <<>> \/ h.panic THEN h
    ELSE LET top == Last(stack)
         IN  CASE top.n \in vis /\ top.c = 1 -> walk_iterative(h, Front(stack), vis)
               [] top.n \in vis /\ top.c > 1 -> NextChild(h, stack, vis)
               [] OTHER -> Visited(cfl_execute_node(h, top.n), stack, vis \cup {top.n})

(* The result is in flag: false tells the runtime to stop the KB.          *)
cfl_execute_event(h) ==
    IF ~cfl_engine_node_is_enabled(h, h.ev.n) THEN [h EXCEPT !.flag = FALSE]
    ELSE walk_iterative([h EXCEPT !.flag = TRUE, !.from = h.ev.n],
                        <<[n |-> h.ev.n, c |-> 1]>>, {})
=============================================================================
