------------------------------ MODULE ClientLoop ------------------------------
(***************************************************************************)
(* The main loop of the SAMD21 client (app/samd21_client/main.c) as the    *)
(* USB host sees it: commands are answered, the interlock tick announces   *)
(* every change of a slot as a numbered event, and all of it goes through  *)
(* one ring of bytes into the FIFO of the USB stack, which takes as many   *)
(* bytes as it has room for.                                               *)
(*                                                                         *)
(* A frame is a record with its length in bytes; byte i of it is           *)
(* <<frame, i>>.  What the interlock slots do is module SamdInterlock, the *)
(* store commit and the offline reboot are ConfigStore: here a slot is a   *)
(* state and a verdict, and a reset may come at the end of a pass (the     *)
(* deferred reboot) or at any step (the watchdog, a panic).  A definition  *)
(* marked faulty is a mutant of the one below it.                          *)
(***************************************************************************)
EXTENDS Integers, Sequences, FiniteSets

CONSTANTS
    ClSlots,       \* INTERLOCK_MAX_SLOTS
    SeqWidth,      \* 2^16, the range of status_seq
    TxRingSize,    \* TX_RING_SIZE, in bytes
    FifoSize,      \* the CDC FIFO, in bytes
    Chunk,         \* bytes moved in one pass, 64
    EventLen, ReplyLen, LogLen,    \* bytes of a frame of each kind
    ClMaxEvents,   \* bound: transitions
    ClMaxCmds,     \* bound: commands
    ClMaxResets,   \* bound: resets
    ClMaxCloses    \* bound: times the host closes the port

ASSUME ClientLoopAssumption ==
    /\ {ClSlots, TxRingSize, FifoSize, Chunk, EventLen, ReplyLen, LogLen} \subseteq Nat \ {0}
    /\ {ClMaxEvents, ClMaxCmds, ClMaxResets, ClMaxCloses} \subseteq Nat
    /\ SeqWidth \in Nat /\ SeqWidth > ClMaxEvents

VARIABLES
    clSlot,    \* the slots: state and tf_state
    clStat,    \* g_il_status_buffer: slots and status_seq
    clRing,    \* g_tx_ring
    clFifo,    \* bytes the USB stack holds for the host
    clOpen,    \* tud_cdc_connected()
    clPc,      \* where the pass is
    clHost,    \* the host: bytes of the frame it is reading, its view of the slots, the
               \* number of the last event, whether one is missing, whether a frame came
               \* with bytes missing
    clLeft
clVars == <<clSlot, clStat, clRing, clFifo, clOpen, clPc, clHost, clLeft>>

-----------------------------------------------------------------------------
ClIds == 1..ClSlots
Nothing == [state |-> "EMPTY", tf |-> "UNEVALUATED"]
Unheard == [part |-> <<>>, view |-> [s \in ClIds |-> Nothing], last |-> 0, gap |-> FALSE,
            torn |-> FALSE]

LogFrame == [kind |-> "log", len |-> LogLen]
ReplyFrame == [kind |-> "reply", len |-> ReplyLen]
EventFrame(seq, s, v) == [kind |-> "event", seq |-> seq, slot |-> s, now |-> v, len |-> EventLen]

(* frame_encode_s2m puts the whole frame into the ring or leaves it alone. *)
TxBytes(f) == [i \in 1..f.len |-> <<f, i>>]
Encode(ring, f) == IF Len(ring) + f.len <= TxRingSize THEN ring \o TxBytes(f) ELSE ring

(* Two lines of the boot banner wait in the ring for the host.             *)
BootRing == Encode(Encode(<<>>, LogFrame), LogFrame)

ClInit ==
    /\ clSlot \in [ClIds -> {Nothing, [state |-> "ARMED", tf |-> "FALSE"]}]
    /\ clStat = [slots |-> [s \in ClIds |-> Nothing], seq |-> 0]
    /\ clRing = BootRing /\ clFifo = <<>> /\ clOpen = FALSE
    /\ clPc = "poll" /\ clHost = Unheard
    /\ clLeft = [events |-> ClMaxEvents, cmds |-> ClMaxCmds, resets |-> ClMaxResets,
                 closes |-> ClMaxCloses]

-----------------------------------------------------------------------------
(* usb_cmd_poll: every command of a read is executed at once and its reply *)
(* staged; CMD_INTERLOCK_SET and CMD_INTERLOCK_DISARM change a slot.       *)
UsbCommand ==
    /\ clPc = "poll" /\ clOpen /\ clLeft.cmds > 0
    /\ \/ UNCHANGED clSlot
       \/ \E s \in ClIds : clSlot' = [clSlot EXCEPT ![s] =
             IF @.state = "ARMED" THEN Nothing ELSE [state |-> "ARMED", tf |-> "UNEVALUATED"]]
    /\ clRing' = Encode(clRing, ReplyFrame)
    /\ clLeft' = [clLeft EXCEPT !.cmds = @ - 1]
    /\ UNCHANGED <<clStat, clFifo, clOpen, clPc, clHost>>

PollDone ==
    /\ clPc = "poll" /\ clPc' = "tick"
    /\ UNCHANGED <<clSlot, clStat, clRing, clFifo, clOpen, clHost, clLeft>>

(* Phase 3 of interlock_tick_all: a slot that changed since the last tick  *)
(* takes the next number and is announced.                                 *)
Reported(v) == [state |-> v.state, tf |-> IF v.state = "ARMED" THEN v.tf ELSE "UNEVALUATED"]
Bump(seq) == (seq + 1) % SeqWidth
BumpOncePerTick(seq, slots, s) ==                                        \* faulty
    IF \A t \in 1..(s - 1) : Reported(slots[t]) = clStat.slots[t] THEN Bump(seq) ELSE seq
BumpFor(seq, slots, s) == Bump(seq)
Announce(r, slots, s) ==
    IF Reported(slots[s]) = clStat.slots[s] THEN r
    ELSE LET q == BumpFor(r.seq, slots, s)
         IN [seq |-> q, ring |-> Encode(r.ring, EventFrame(q, s, Reported(slots[s])))]
Phase3(slots) ==
    LET r[s \in 0..ClSlots] == IF s = 0 THEN [seq |-> clStat.seq, ring |-> clRing]
                               ELSE Announce(r[s - 1], slots, s)
    IN r[ClSlots]

(* The verdict of an armed slot is the outcome of eval_slot.               *)
Evaluations == {v \in [ClIds -> [state : {"EMPTY", "ARMED"}, tf : {"UNEVALUATED", "TRUE", "FALSE"}]] :
                   \A s \in ClIds : IF clSlot[s].state = "ARMED"
                                    THEN v[s].state = "ARMED" /\ v[s].tf # "UNEVALUATED"
                                    ELSE v[s] = clSlot[s]}
Changed(slots) == {s \in ClIds : Reported(slots[s]) # clStat.slots[s]}
ClTickAll ==
    /\ clPc = "tick" /\ clPc' = "drain"
    /\ \E v \in Evaluations :
          /\ Cardinality(Changed(v)) <= clLeft.events
          /\ clSlot' = v
          /\ clStat' = [slots |-> [s \in ClIds |-> Reported(v[s])], seq |-> Phase3(v).seq]
          /\ clRing' = Phase3(v).ring
          /\ clLeft' = [clLeft EXCEPT !.events = @ - Cardinality(Changed(v))]
    /\ UNCHANGED <<clFifo, clOpen, clHost>>

TickNotDue ==
    /\ clPc = "tick" /\ clPc' = "drain"
    /\ UNCHANGED <<clSlot, clStat, clRing, clFifo, clOpen, clHost, clLeft>>

(* The drain takes from the ring no more than the FIFO has room for.       *)
Least2(a, b) == IF a <= b THEN a ELSE b
DrainChunk(room) == Least2(Chunk, Len(clRing))                           \* faulty
DrainCount(room) == Least2(room, Least2(Chunk, Len(clRing)))
Drain ==
    /\ clPc = "drain" /\ clPc' = "poll"
    /\ LET room == FifoSize - Len(clFifo)
           n == IF clOpen THEN DrainCount(room) ELSE 0
       IN /\ clFifo' = clFifo \o SubSeq(clRing, 1, Least2(n, room))
          /\ clRing' = SubSeq(clRing, n + 1, Len(clRing))
    /\ UNCHANGED <<clSlot, clStat, clOpen, clHost, clLeft>>

-----------------------------------------------------------------------------
(* A reset keeps the slots and nothing else; USB enumerates again and the  *)
(* host begins anew.                                                       *)
ClReset ==
    /\ clLeft.resets > 0
    /\ clLeft' = [clLeft EXCEPT !.resets = @ - 1]
    /\ clStat' = [slots |-> [s \in ClIds |-> Nothing], seq |-> 0]
    /\ clRing' = BootRing /\ clFifo' = <<>> /\ clOpen' = FALSE
    /\ clPc' = "poll" /\ clHost' = Unheard
    /\ UNCHANGED clSlot

(* The host.  A frame it joined in the middle is skipped; an event counts  *)
(* if its number follows the last one.                                     *)
HearFrame(h, f) ==
    IF f.kind # "event" THEN h
    ELSE [h EXCEPT !.view[f.slot] = f.now, !.last = f.seq,
                   !.gap = @ \/ f.seq # (h.last + 1) % SeqWidth]
Feed(h, b) ==
    LET follows == IF h.part = <<>> THEN b[2] = 1 ELSE h.part[Len(h.part)] = <<b[1], b[2] - 1>>
        part == Append(h.part, b)
    IN IF ~follows THEN [h EXCEPT !.torn = @ \/ h.part # <<>>, !.part = IF b[2] = 1 THEN <<b>> ELSE <<>>]
       ELSE IF b[2] < b[1].len THEN [h EXCEPT !.part = part]
       ELSE [HearFrame(h, b[1]) EXCEPT !.part = <<>>]

(* A read of several bytes is as many reads of one.                        *)
HostReads ==
    /\ clOpen /\ clFifo # <<>>
    /\ clHost' = Feed(clHost, Head(clFifo))
    /\ clFifo' = Tail(clFifo)
    /\ UNCHANGED <<clSlot, clStat, clRing, clOpen, clPc, clLeft>>

HostOpens ==
    /\ ~clOpen /\ clOpen' = TRUE
    /\ UNCHANGED <<clSlot, clStat, clRing, clFifo, clPc, clHost, clLeft>>

(* What the FIFO holds is lost with the port; the ring is kept.            *)
HostCloses ==
    /\ clOpen /\ clLeft.closes > 0
    /\ clOpen' = FALSE /\ clFifo' = <<>>
    /\ clHost' = [clHost EXCEPT !.part = <<>>]
    /\ clLeft' = [clLeft EXCEPT !.closes = @ - 1]
    /\ UNCHANGED <<clSlot, clStat, clRing, clPc>>

ClNext ==
    \/ UsbCommand \/ PollDone \/ ClTickAll \/ TickNotDue \/ Drain \/ ClReset
    \/ HostReads \/ HostOpens \/ HostCloses

ClSpec == ClInit /\ [][ClNext]_clVars

-----------------------------------------------------------------------------
(* However full the ring and the FIFO are, frames reach the host whole and *)
(* in one piece, apart from one cut by closing the port: a full FIFO never *)
(* shreds a frame (main.c, the drain at the end of the loop).              *)
FramesWhole == ~clHost.torn /\ Len(clRing) <= TxRingSize

(* status_seq tells the host what it missed: one that has seen the current *)
(* number and no gap since it attached knows every slot, although events   *)
(* are dropped when the ring is full and lost when the port is closed.     *)
SeqTellsAll ==
    (~clHost.gap /\ clHost.last = clStat.seq) => clHost.view = clStat.slots

(* The client's ring and event numbers: a full FIFO never shreds a frame,  *)
(* and status_seq shows the host every event that was dropped.             *)
LoopSound == FramesWhole /\ SeqTellsAll
=============================================================================
