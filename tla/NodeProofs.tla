----------------------------- MODULE NodeProofs -----------------------------
(***************************************************************************)
(* Proofs about three parts of the node that share no state: the uplink    *)
(* supervisor (Uplink), boot and its watchdog (Boot) and the I/O services  *)
(* (NodeIo), each for every value of its constants.                        *)
(*                                                                         *)
(* SessionSound is not inductive.  That a frame of an earlier session      *)
(* never reaches the host needs what the ring may hold: a frame older than *)
(* the session is a reply of the engine (QueuesFresh).  That the flags     *)
(* agree with the mode when the loop starts over needs that they agree     *)
(* always (Attached), since the pumps do not set them.                     *)
(*                                                                         *)
(* BootSound rests on what the parsers compute, by induction over the      *)
(* fields of a file: the last field of a key decides, and a refused file   *)
(* leaves the defaults.                                                    *)
(*                                                                         *)
(* IoExact rests on IoInv: the accumulators hold the samples of the open   *)
(* window, a copied statistic is of a window between the first one read    *)
(* and the current one, a shift register ends in the streak of its last    *)
(* level, the words of a frame are those of the widths it was built from,  *)
(* and the ids of I2C requests rise over the answers, the replies and the  *)
(* requests.  The bitwise root and the insertion sort are proved to be a   *)
(* root and a sort by induction over their rounds.                         *)
(***************************************************************************)
EXTENDS Uplink, Boot, NodeIo, FiniteSetTheorems, SequenceTheorems, Induction, TLAPS

(* A frame the ring may hold, and one g_up_q may hold.                     *)
RingFrame == {f \in Frame : f.old => f.k = "REPLY"}
ReplyFrame == {f \in Frame : f.k = "REPLY"}
Answers == {"REGISTER_ACK", "GET_MANIFEST", "OPERATIONAL_BEGIN"}

QueuesFresh == ring \in Seq(RingFrame) /\ upQ \in Seq(ReplyFrame) /\ toDev \in Seq(Answers)
Attached == active = (mode # "STANDALONE")
BudgetOK == budget \in [{"env", "noise"} -> Nat]

(* The inductive invariant.                                                *)
IInv == TypeOK /\ BudgetOK /\ QueuesFresh /\ SessionClean /\ NoSocketLeak /\ Attached

-----------------------------------------------------------------------------
(* What the operators of the queues return.                                *)

LEMMA FrameSets == RingFrame \subseteq Frame /\ ReplyFrame \subseteq RingFrame
  BY DEF RingFrame, ReplyFrame

(* emit_s2m adds a frame of this session or nothing, and never overfills.  *)
LEMMA EmitProps ==
    ASSUME NEW r \in Seq(RingFrame), Len(r) <= RingLen, NEW k \in Kinds
    PROVE  Emit(r, k) \in Seq(RingFrame) /\ Len(Emit(r, k)) <= RingLen
  <1>1. [k |-> k, old |-> FALSE] \in RingFrame
    BY DEF RingFrame, Frame
  <1>2. RingLen \in Nat
    BY UplinkAssumption
  <1> QED BY <1>1, <1>2 DEF Emit

(* The replies that fit, behind what the ring holds.                       *)
LEMMA RepliesProps ==
    ASSUME NEW r \in Seq(RingFrame), Len(r) <= RingLen, upQ \in Seq(ReplyFrame)
    PROVE  WithReplies(r) \in Seq(RingFrame) /\ Len(WithReplies(r)) <= RingLen
  <1>1. RingLen \in Nat /\ Len(r) \in Nat /\ Len(upQ) \in Nat
    BY UplinkAssumption
  <1>2. Room(r) \in 0..Len(upQ) /\ Room(r) <= RingLen - Len(r)
    BY <1>1 DEF Room
  <1>3. SubSeq(upQ, 1, Room(r)) \in Seq(ReplyFrame) /\ Len(SubSeq(upQ, 1, Room(r))) = Room(r)
    BY <1>1, <1>2
  <1>4. SubSeq(upQ, 1, Room(r)) \in Seq(RingFrame)
    BY <1>3, FrameSets, SeqMonotonic
  <1> HIDE DEF Room
  <1> QED BY <1>1, <1>2, <1>3, <1>4 DEF WithReplies

(* A queue of replies that ages stays a queue of replies.                  *)
LEMMA AgedProps ==
    ASSUME NEW q \in Seq(ReplyFrame)
    PROVE  AgedQueue(q) \in Seq(ReplyFrame)
  <1>1. \A i \in 1..Len(q) : [q[i] EXCEPT !.old = TRUE] \in ReplyFrame
    <2> SUFFICES ASSUME NEW i \in 1..Len(q) PROVE [q[i] EXCEPT !.old = TRUE] \in ReplyFrame
      OBVIOUS
    <2>1. q[i] \in ReplyFrame
      OBVIOUS
    <2> QED BY <2>1 DEF ReplyFrame, Frame
  <1>2. DOMAIN q = 1..Len(q) /\ Len(q) \in Nat
    OBVIOUS
  <1>3. AgedQueue(q) = [i \in 1..Len(q) |-> [q[i] EXCEPT !.old = TRUE]]
    BY <1>2 DEF AgedQueue
  <1> QED BY <1>1, <1>2, <1>3

(* What one pump step does to the queues, whatever it read.                *)
LEMMA ExchangeProps ==
    ASSUME NEW r \in Seq(RingFrame), Len(r) <= RingLen, NEW q \in Seq(Answers),
           NEW c \in BOOLEAN, SessionClean, Exchange(r, q, c)
    PROVE  /\ QueuesFresh' /\ Len(ring') <= RingLen /\ SessionClean'
           /\ ring' \in Seq(Frame) /\ upQ' \in Seq(Frame) /\ leaked' \in BOOLEAN
  <1>1. ring' \in Seq(RingFrame) /\ Len(ring') <= RingLen
    BY UplinkAssumption DEF Exchange
  <1>2. r # << >> => Head(r) \in RingFrame
    OBVIOUS
  <1>3. leaked' = FALSE
    BY <1>2 DEF Exchange, SessionClean, RingFrame
  <1>4. \A k : HostAnswer(k) \in Seq(Answers)
    <2>1. /\ "REGISTER_ACK" \in Answers /\ "GET_MANIFEST" \in Answers
          /\ "OPERATIONAL_BEGIN" \in Answers
      BY DEF Answers
    <2>2. \A k : HostAnswer(k) \in {<<"REGISTER_ACK", "GET_MANIFEST">>,
                                  <<"OPERATIONAL_BEGIN">>, << >>}
      BY DEF HostAnswer
    <2>3. /\ <<"REGISTER_ACK", "GET_MANIFEST">> \in Seq(Answers)
          /\ <<"OPERATIONAL_BEGIN">> \in Seq(Answers) /\ << >> \in Seq(Answers)
      BY <2>1
    <2> QED BY <2>2, <2>3
  <1>5. toDev' \in Seq(Answers)
    BY <1>4 DEF Exchange, Answered
  <1>6. upQ' = << >>
    BY DEF Exchange
  <1>7. ring' \in Seq(Frame)
    BY <1>1, FrameSets, SeqMonotonic
  <1>8. upQ' \in Seq(ReplyFrame) /\ upQ' \in Seq(Frame)
    BY <1>6
  <1>9. QueuesFresh'
    BY <1>1, <1>5, <1>8 DEF QueuesFresh
  <1>10. SessionClean' /\ leaked' \in BOOLEAN
    BY <1>3 DEF SessionClean
  <1> QED BY <1>1, <1>7, <1>8, <1>9, <1>10

(* host_link_feed with the tick, the replies and the frame sent.           *)
LEMMA FeedProps ==
    ASSUME IInv, NEW c \in BOOLEAN, Feed(c)
    PROVE  /\ QueuesFresh' /\ Len(ring') <= RingLen /\ SessionClean'
           /\ ring' \in Seq(Frame) /\ upQ' \in Seq(Frame) /\ leaked' \in BOOLEAN
           /\ hl' \in {"BOOT", "L1_ACKED", "MANIFEST", "OPERATIONAL"}
  <1>0. /\ ring \in Seq(RingFrame) /\ Len(ring) <= RingLen /\ upQ \in Seq(ReplyFrame)
        /\ toDev \in Seq(Answers) /\ SessionClean
        /\ hl \in {"BOOT", "L1_ACKED", "MANIFEST", "OPERATIONAL"}
    BY DEF IInv, TypeOK, QueuesFresh
  <1>1. CASE toDev = << >>
    <2>1. Tick(ring) \in Seq(RingFrame) /\ Len(Tick(ring)) <= RingLen
      BY <1>0, EmitProps DEF Tick, Kinds
    <2>2. /\ WithReplies(Tick(ring)) \in Seq(RingFrame)
          /\ Len(WithReplies(Tick(ring))) <= RingLen
      BY <2>1, <1>0, RepliesProps
    <2>3. Exchange(WithReplies(Tick(ring)), toDev, c) /\ hl' = hl
      BY <1>1 DEF Feed
    <2> QED BY <2>2, <2>3, <1>0, ExchangeProps
  <1>2. CASE toDev # << >>
    <2>0. Tail(toDev) \in Seq(Answers)
      BY <1>0, <1>2
    <2>1. \A k : Received(k, ring) \in Seq(RingFrame) /\ Len(Received(k, ring)) <= RingLen
      BY <1>0, EmitProps DEF Received, Kinds
    <2>2. \A k : /\ WithReplies(Received(k, ring)) \in Seq(RingFrame)
                 /\ Len(WithReplies(Received(k, ring))) <= RingLen
      BY <2>1, <1>0, RepliesProps
    <2>3. /\ Exchange(WithReplies(Received(Head(toDev), ring)), Tail(toDev), c)
          /\ hl' = NextState(Head(toDev))
      BY <1>2 DEF Feed
    <2>4. hl' \in {"BOOT", "L1_ACKED", "MANIFEST", "OPERATIONAL"}
      BY <2>3, <1>0 DEF NextState
    <2> QED BY <2>0, <2>2, <2>3, <2>4, <1>0, ExchangeProps
  <1> QED BY <1>1, <1>2

-----------------------------------------------------------------------------
(* Groups of variables a step leaves alone.                                *)
HlOK == /\ hl \in {"BOOT", "L1_ACKED", "MANIFEST", "OPERATIONAL"}
        /\ ring \in Seq(Frame) /\ Len(ring) <= RingLen /\ upQ \in Seq(Frame)
        /\ leaked \in BOOLEAN /\ QueuesFresh /\ SessionClean
JoinOK == /\ fd \in BOOLEAN /\ sockets \in Nat /\ NoSocketLeak
          /\ joinPending \in BOOLEAN /\ apIdx \in 1..NAp /\ joinFails \in 0..(Rounds * NAp - 1)
ModeOK == /\ want \in Modes /\ wantN \in 0..(Debounce - 1) /\ mode \in Modes
          /\ active \in BOOLEAN /\ force \in Modes \cup {"none"} /\ expired \in BOOLEAN
          /\ Attached
RadioOK == /\ usb \in BOOLEAN /\ reach \subseteq 1..NAp
           /\ link \in {"off", "idle", "joining", "up"}
PcOK == pc \in {"join", "decide", "pump"}

LEMMA IInvParts == IInv <=> HlOK /\ JoinOK /\ ModeOK /\ RadioOK /\ PcOK /\ BudgetOK
  BY DEF IInv, TypeOK, HlOK, JoinOK, ModeOK, RadioOK, PcOK
LEMMA PartsIInv == HlOK' /\ JoinOK' /\ ModeOK' /\ RadioOK' /\ PcOK' /\ BudgetOK' => IInv'
  BY DEF IInv, TypeOK, HlOK, JoinOK, ModeOK, RadioOK, PcOK

LEMMA HlFrame == HlOK /\ UNCHANGED hlVars => HlOK'
  BY DEF HlOK, hlVars, QueuesFresh, SessionClean
LEMMA JoinFrame == JoinOK /\ UNCHANGED joinVars => JoinOK'
  BY DEF JoinOK, joinVars, NoSocketLeak
LEMMA ModeFrame == ModeOK /\ UNCHANGED modeVars => ModeOK'
  BY DEF ModeOK, modeVars, Attached
LEMMA RadioFrame == RadioOK /\ UNCHANGED radioVars => RadioOK'
  BY DEF RadioOK, radioVars
LEMMA BudgetFrame == BudgetOK /\ UNCHANGED budget => BudgetOK'
  BY DEF BudgetOK
LEMMA SpendProps ==
    ASSUME BudgetOK, NEW w \in {"env", "noise"}, Spend(w)
    PROVE  BudgetOK'
  BY DEF BudgetOK, Spend

(* Rounds * NAp failures before a reset: a bound that is never zero.       *)
LEMMA RoundsPositive == Rounds * NAp \in Nat \ {0}
  <1>1. \A a, b \in Nat \ {0} : a * b \in Nat \ {0}
    OBVIOUS
  <1> QED BY <1>1, UplinkAssumption

(* Closing the socket keeps the account with lwIP.                         *)
LEMMA CloseProps ==
    ASSUME NoSocketLeak, fd \in BOOLEAN, CloseFd
    PROVE  NoSocketLeak' /\ fd' \in BOOLEAN /\ sockets' \in Nat
  <1>1. fd' = FALSE /\ sockets' = 0
    BY DEF NoSocketLeak, CloseFd
  <1> QED BY <1>1 DEF NoSocketLeak

-----------------------------------------------------------------------------
LEMMA IInvInit == Init => IInv
  <1> SUFFICES ASSUME Init PROVE HlOK /\ JoinOK /\ ModeOK /\ RadioOK /\ PcOK /\ BudgetOK
    BY IInvParts
  <1>1. HlOK
    <2>1. ring = << >> /\ upQ = << >> /\ toDev = << >> /\ leaked = FALSE /\ hl = "BOOT"
      BY DEF Init
    <2>2. QueuesFresh
      BY <2>1 DEF QueuesFresh
    <2>3. SessionClean /\ leaked \in BOOLEAN
      BY <2>1 DEF SessionClean
    <2>4. ring \in Seq(Frame) /\ Len(ring) <= RingLen /\ upQ \in Seq(Frame)
      BY <2>1, UplinkAssumption
    <2> QED BY <2>1, <2>2, <2>3, <2>4 DEF HlOK
  <1>2. JoinOK
    <2>1. fd = FALSE /\ sockets = 0 /\ joinPending = FALSE /\ apIdx = 1 /\ joinFails = 0
      BY DEF Init
    <2>2. apIdx \in 1..NAp /\ joinFails \in 0..(Rounds * NAp - 1)
      BY <2>1, RoundsPositive, UplinkAssumption
    <2>3. NoSocketLeak
      BY <2>1 DEF NoSocketLeak
    <2> QED BY <2>1, <2>2, <2>3 DEF JoinOK
  <1>3. ModeOK
    <2>1. /\ want = "STANDALONE" /\ wantN = 0 /\ mode = "STANDALONE" /\ active = FALSE
          /\ force = "none" /\ expired = FALSE
      BY DEF Init
    <2>2. wantN \in 0..(Debounce - 1)
      BY <2>1, UplinkAssumption
    <2>3. Attached
      BY <2>1 DEF Attached
    <2> QED BY <2>1, <2>2, <2>3 DEF ModeOK, Modes
  <1>4. RadioOK /\ PcOK
    BY DEF Init, RadioOK, PcOK
  <1>5. BudgetOK
    BY UplinkAssumption DEF Init, BudgetOK
  <1> QED BY <1>1, <1>2, <1>3, <1>4, <1>5

(* The steps around the supervisor.                                        *)
LEMMA AroundStep ==
    ASSUME IInv,
           \/ Environment \/ Associate \/ ForceExpires \/ BusEvent \/ EngineReply
           \/ DatagramLost \/ \E m \in Modes : HostForce(m)
    PROVE  IInv'
  <1>0. HlOK /\ JoinOK /\ ModeOK /\ RadioOK /\ PcOK /\ BudgetOK
    BY IInvParts
  <1>1. CASE Environment
    <2>1. RadioOK'
      BY <1>1, <1>0 DEF Environment, RadioOK
    <2> QED BY <1>1, <2>1, <1>0, SpendProps, HlFrame, JoinFrame, ModeFrame, PartsIInv
            DEF Environment, PcOK
  <1>2. CASE Associate
    <2>1. RadioOK' /\ PcOK'
      BY <1>2, <1>0 DEF Associate, RadioOK, PcOK
    <2> QED BY <1>2, <2>1, <1>0, HlFrame, JoinFrame, ModeFrame, BudgetFrame, PartsIInv
            DEF Associate
  <1>3. CASE ForceExpires
    <2>1. ModeOK' /\ PcOK'
      BY <1>3, <1>0 DEF ForceExpires, ModeOK, PcOK, Attached
    <2> QED BY <1>3, <2>1, <1>0, HlFrame, JoinFrame, RadioFrame, BudgetFrame, PartsIInv
            DEF ForceExpires
  <1>4. CASE BusEvent
    <2>1. ring' = Emit(ring, "EVENT") /\ UNCHANGED <<hl, upQ, toDev, leaked>>
      BY <1>4 DEF BusEvent
    <2>2. ring' \in Seq(RingFrame) /\ Len(ring') <= RingLen
      BY <2>1, <1>0, EmitProps DEF HlOK, QueuesFresh, Kinds
    <2>3. ring' \in Seq(Frame)
      BY <2>2, FrameSets, SeqMonotonic
    <2>4. HlOK'
      BY <2>1, <2>2, <2>3, <1>0 DEF HlOK, QueuesFresh, SessionClean
    <2> QED BY <1>4, <2>4, <1>0, SpendProps, JoinFrame, ModeFrame, RadioFrame, PartsIInv
            DEF BusEvent, PcOK
  <1>5. CASE EngineReply
    <2>1. [k |-> "REPLY", old |-> FALSE] \in ReplyFrame
      BY DEF ReplyFrame, Frame, Kinds
    <2>2. upQ' \in Seq(ReplyFrame) /\ UNCHANGED <<hl, ring, toDev, leaked>>
      BY <1>5, <2>1, <1>0 DEF EngineReply, HlOK, QueuesFresh
    <2>3. upQ' \in Seq(Frame)
      BY <2>2, FrameSets, SeqMonotonic
    <2>4. HlOK'
      BY <2>2, <2>3, <1>0 DEF HlOK, QueuesFresh, SessionClean
    <2> QED BY <1>5, <2>4, <1>0, SpendProps, JoinFrame, ModeFrame, RadioFrame, PartsIInv
            DEF EngineReply, PcOK
  <1>6. CASE DatagramLost
    <2>1. HlOK'
      BY <1>6, <1>0 DEF DatagramLost, HlOK, QueuesFresh, SessionClean
    <2> QED BY <1>6, <2>1, <1>0, SpendProps, JoinFrame, ModeFrame, RadioFrame, PartsIInv
            DEF DatagramLost, PcOK
  <1>7. CASE \E m \in Modes : HostForce(m)
    <2>1. PICK m \in Modes : HostForce(m)
      BY <1>7
    <2>2. ModeOK'
      BY <2>1, <1>0 DEF HostForce, ModeOK, Attached
    <2> QED BY <2>1, <2>2, <1>0, SpendProps, HlFrame, JoinFrame, RadioFrame, PartsIInv
            DEF HostForce, PcOK
  <1> QED BY <1>1, <1>2, <1>3, <1>4, <1>5, <1>6, <1>7

(* The WiFi part of the loop.                                              *)
LEMMA JoinStep ==
    ASSUME IInv, StartJoin \/ JoinFailed \/ JoinWaits \/ Joined \/ SkipJoin
    PROVE  IInv'
  <1>0. HlOK /\ JoinOK /\ ModeOK /\ RadioOK /\ PcOK /\ BudgetOK
    BY IInvParts
  <1>1. CASE StartJoin
    <2>1. JoinOK'
      <3>1. CloseFd /\ joinPending' = TRUE /\ UNCHANGED <<apIdx, joinFails>>
        BY <1>1 DEF StartJoin, CloseDead
      <3> QED BY <3>1, <1>0, CloseProps DEF JoinOK
    <2>2. RadioOK' /\ PcOK'
      BY <1>1, <1>0 DEF StartJoin, RadioOK, PcOK
    <2> QED BY <1>1, <2>1, <2>2, <1>0, HlFrame, ModeFrame, BudgetFrame, PartsIInv DEF StartJoin
  <1>2. CASE JoinFailed
    <2>1. apIdx' \in 1..NAp /\ joinPending' \in BOOLEAN
      <3>1. apIdx' = NextAp(apIdx) /\ joinPending' = FALSE
        BY <1>2 DEF JoinFailed
      <3>2. apIdx \in 1..NAp /\ NAp \in Nat \ {0}
        BY <1>0, UplinkAssumption DEF JoinOK
      <3>3. joinPending' \in BOOLEAN
        BY <3>1
      <3>4. apIdx' \in 1..NAp
        BY <3>1, <3>2 DEF NextAp
      <3> QED BY <3>3, <3>4
    <2>2. joinFails' \in 0..(Rounds * NAp - 1)
      <3>1. joinFails' = IF joinFails + 1 >= Rounds * NAp THEN 0 ELSE joinFails + 1
        BY <1>2 DEF JoinFailed
      <3> DEFINE N == Rounds * NAp
      <3>2. N \in Nat \ {0} /\ joinFails \in 0..(N - 1)
        BY RoundsPositive, <1>0 DEF JoinOK
      <3> HIDE DEF N
      <3>3. joinFails' = IF joinFails + 1 >= N THEN 0 ELSE joinFails + 1
        BY <3>1 DEF N
      <3>4. joinFails' \in 0..(N - 1)
        BY <3>2, <3>3
      <3> QED BY <3>4 DEF N
    <2>3. NoSocketLeak' /\ fd' \in BOOLEAN /\ sockets' \in Nat
      BY <1>2, <1>0, CloseProps DEF JoinFailed, CloseDead, JoinOK
    <2>4. JoinOK'
      BY <2>1, <2>2, <2>3 DEF JoinOK
    <2>5. RadioOK' /\ PcOK'
      BY <1>2, <1>0 DEF JoinFailed, RadioOK, PcOK
    <2>6. BudgetOK'
      BY <1>2, <1>0, SpendProps, BudgetFrame DEF JoinFailed
    <2> QED BY <1>2, <2>4, <2>5, <2>6, <1>0, HlFrame, ModeFrame, PartsIInv DEF JoinFailed
  <1>3. CASE JoinWaits
    <2>1. JoinOK'
      BY <1>3, <1>0, CloseProps DEF JoinWaits, CloseDead, JoinOK
    <2>2. RadioOK' /\ PcOK'
      BY <1>3, <1>0, RadioFrame DEF JoinWaits, PcOK
    <2> QED BY <1>3, <2>1, <2>2, <1>0, HlFrame, ModeFrame, BudgetFrame, PartsIInv DEF JoinWaits
  <1>4. CASE Joined
    <2>1. JoinOK'
      <3>1. /\ fd' = TRUE /\ sockets' = sockets + (IF fd THEN 0 ELSE 1)
            /\ joinPending' = FALSE /\ joinFails' = 0 /\ apIdx' = apIdx
        BY <1>4 DEF Joined
      <3>2. sockets' = 1
        BY <3>1, <1>0 DEF JoinOK, NoSocketLeak
      <3>3. NoSocketLeak'
        BY <3>1, <3>2 DEF NoSocketLeak
      <3>4. joinFails' \in 0..(Rounds * NAp - 1)
        BY <3>1, RoundsPositive
      <3>5. fd' \in BOOLEAN /\ sockets' \in Nat /\ joinPending' \in BOOLEAN /\ apIdx' \in 1..NAp
        <4>1. apIdx' \in 1..NAp
          BY <3>1, <1>0 DEF JoinOK
        <4>2. fd' \in BOOLEAN /\ joinPending' \in BOOLEAN
          BY <3>1
        <4>3. sockets' \in Nat
          BY <3>2
        <4> QED BY <4>1, <4>2, <4>3
      <3> QED BY <3>3, <3>4, <3>5 DEF JoinOK
    <2>2. RadioOK' /\ PcOK'
      BY <1>4, <1>0, RadioFrame DEF Joined, PcOK
    <2> QED BY <1>4, <2>1, <2>2, <1>0, HlFrame, ModeFrame, BudgetFrame, PartsIInv DEF Joined
  <1>5. CASE SkipJoin
    BY <1>5, <1>0, HlFrame, JoinFrame, ModeFrame, RadioFrame, BudgetFrame, PartsIInv
       DEF SkipJoin, PcOK
  <1> QED BY <1>1, <1>2, <1>3, <1>4, <1>5

(* The mode: stay, count, or hand over with a fresh session.               *)
LEMMA DecideStep == ASSUME IInv, Decide PROVE IInv'
  <1>0. HlOK /\ JoinOK /\ ModeOK /\ RadioOK /\ PcOK /\ BudgetOK
    BY IInvParts
  <1>1. Desired \in Modes /\ ForceNow \in Modes \cup {"none"}
    BY <1>0 DEF Desired, ForceNow, Available, Modes, ModeOK
  <1>2. /\ force' \in Modes \cup {"none"} /\ expired' \in BOOLEAN /\ want' \in Modes
        /\ wantN' \in 0..(Debounce - 1)
    BY <1>0, <1>1, UplinkAssumption DEF Decide, ModeOK
  <1>3. RadioOK' /\ PcOK' /\ BudgetOK'
    BY <1>0, RadioFrame, BudgetFrame DEF Decide, PcOK
  <1>4. CASE UNCHANGED <<mode, active, fd, sockets, hlVars>>
    <2>1. ModeOK'
      BY <1>4, <1>2, <1>0 DEF ModeOK, Attached
    <2>2. JoinOK'
      BY <1>4, <1>0 DEF Decide, JoinOK, NoSocketLeak
    <2> QED BY <1>4, <2>1, <2>2, <1>3, <1>0, HlFrame, PartsIInv
  <1>5. CASE /\ IF mode = "WIFI" THEN CloseFd ELSE UNCHANGED <<fd, sockets>>
             /\ mode' = Desired
             /\ UplinkEnter(Desired)
    <2>1. ModeOK'
      BY <1>5, <1>1, <1>2 DEF ModeOK, Attached, UplinkEnter
    <2>2. JoinOK'
      BY <1>5, <1>0, CloseProps DEF Decide, JoinOK, NoSocketLeak
    <2>3. ring' \in Seq(RingFrame) /\ Len(ring') <= RingLen
      <3>1. FreshRing \in Seq(RingFrame) /\ Len(FreshRing) <= RingLen
        BY UplinkAssumption DEF FreshRing
      <3> QED BY <1>5, <3>1, EmitProps DEF UplinkEnter, Kinds
    <2>4. upQ' \in Seq(ReplyFrame)
      BY <1>5, <1>0, AgedProps DEF UplinkEnter, HlOK, QueuesFresh
    <2>5. ring' \in Seq(Frame) /\ upQ' \in Seq(Frame)
      BY <2>3, <2>4, FrameSets, SeqMonotonic
    <2>6. HlOK'
      BY <1>5, <2>3, <2>4, <2>5, <1>0 DEF UplinkEnter, HlOK, QueuesFresh, SessionClean
    <2> QED BY <2>1, <2>2, <2>6, <1>3, PartsIInv
  <1> QED BY <1>4, <1>5 DEF Decide

(* The pumps.                                                              *)
LEMMA PumpStep ==
    ASSUME IInv, UsbPump \/ WifiPump \/ WifiDead \/ StandalonePump
    PROVE  IInv'
  <1>0. HlOK /\ JoinOK /\ ModeOK /\ RadioOK /\ PcOK /\ BudgetOK
    BY IInvParts
  <1>1. CASE UsbPump
    <2>1. usb \in BOOLEAN /\ Feed(usb)
      BY <1>1, <1>0 DEF UsbPump, RadioOK
    <2>2. HlOK'
      BY <2>1, FeedProps DEF HlOK
    <2> QED BY <1>1, <2>2, <1>0, JoinFrame, ModeFrame, RadioFrame, BudgetFrame, PartsIInv
            DEF UsbPump, PcOK
  <1>2. CASE WifiPump
    <2>1. Feed(TRUE) \/ Feed(FALSE)
      BY <1>2 DEF WifiPump
    <2>2. HlOK'
      BY <2>1, FeedProps DEF HlOK
    <2>3. BudgetOK'
      BY <1>2, <1>0, SpendProps, BudgetFrame DEF WifiPump
    <2> QED BY <1>2, <2>2, <2>3, <1>0, JoinFrame, ModeFrame, RadioFrame, PartsIInv
            DEF WifiPump, PcOK
  <1>3. CASE WifiDead
    <2>1. JoinOK'
      BY <1>3, <1>0, CloseProps DEF WifiDead, JoinOK
    <2>2. ModeOK'
      <3>1. /\ mode' = "STANDALONE" /\ active' = FALSE /\ want' = "STANDALONE" /\ wantN' = 0
            /\ UNCHANGED <<force, expired>>
        BY <1>3 DEF WifiDead, Inactive
      <3>2. Attached'
        BY <3>1 DEF Attached
      <3>3. wantN' \in 0..(Debounce - 1)
        BY <3>1, UplinkAssumption
      <3> QED BY <3>1, <3>2, <3>3, <1>0 DEF ModeOK, Modes
    <2> QED BY <1>3, <2>1, <2>2, <1>0, HlFrame, RadioFrame, BudgetFrame, PartsIInv
            DEF WifiDead, PcOK
  <1>4. CASE StandalonePump
    <2>1. /\ upQ' = << >> /\ ring' = (IF ring = << >> THEN ring ELSE Tail(ring))
          /\ UNCHANGED <<hl, toDev, leaked>>
      BY <1>4 DEF StandalonePump
    <2>2. ring' \in Seq(RingFrame) /\ ring' \in Seq(Frame) /\ Len(ring') <= RingLen
      BY <2>1, <1>0, UplinkAssumption DEF HlOK, QueuesFresh
    <2>3. HlOK'
      BY <2>1, <2>2, <1>0 DEF HlOK, QueuesFresh, SessionClean
    <2> QED BY <1>4, <2>3, <1>0, JoinFrame, ModeFrame, RadioFrame, BudgetFrame, PartsIInv
            DEF StandalonePump, PcOK
  <1> QED BY <1>1, <1>2, <1>3, <1>4

LEMMA IInvNext == IInv /\ [Next]_vars => IInv'
  <1> SUFFICES ASSUME IInv, [Next]_vars PROVE IInv'
    OBVIOUS
  <1>1. CASE Next
    BY <1>1, AroundStep, JoinStep, DecideStep, PumpStep DEF Next, Supervisor
  <1>2. CASE UNCHANGED vars
    <2>1. UNCHANGED <<radioVars, joinVars, modeVars, hlVars, pc, budget>>
      BY <1>2 DEF vars
    <2>2. HlOK /\ JoinOK /\ ModeOK /\ RadioOK /\ PcOK /\ BudgetOK
      BY IInvParts
    <2> QED BY <2>1, <2>2, PartsIInv, HlFrame, JoinFrame, ModeFrame, RadioFrame, BudgetFrame
            DEF PcOK
  <1> QED BY <1>1, <1>2

(* The uplink for any number of networks and any run of link losses,       *)
(* hand-overs, forced modes and lost datagrams: uplink_enter leaves no     *)
(* frame of an earlier session for the host, the supervisor never loses a  *)
(* socket of lwIP nor closes one twice, and g_uplink_active agrees with    *)
(* the mode.                                                               *)
THEOREM SessionSafety == Spec => []SessionSound
  <1>1. IInv => SessionSound
    BY DEF IInv, SessionSound, Attached, ActiveIsAttached
  <1> QED BY IInvInit, IInvNext, <1>1, PTL DEF Spec


-----------------------------------------------------------------------------
(***************************************************************************)
(* Proofs about Boot: BootSound for any files, any board and any limits.   *)
(*                                                                         *)
(* The files do not change while a unit runs, so what main() settled is at *)
(* any later time what it would settle again (Settled); what the parsers   *)
(* take from a document is proved by induction over its fields.  The crash *)
(* slot and the watchdog flag together know the last reset (SlotKnows),    *)
(* and a heartbeat is no older than the stale limit and the periods that   *)
(* passed without a feed (Fed).                                            *)
(***************************************************************************)
IdKeys == {"v", "ch", "vr", "ad", "id"}
IdState == [rc : {"ok", "format"}, got : [IdKeys -> Int]]
IdStep(s, f) == ReadField(s, f, IdField(s, f))

LEMMA IdStepType == ASSUME NEW s \in IdState, NEW f \in Fields PROVE IdStep(s, f) \in IdState
  <1>1. s.got \in [IdKeys -> Int] /\ DOMAIN s.got = IdKeys /\ f.n \in Int /\ f.bad \in BOOLEAN
    BY DEF IdState, Fields
  <1>2. IdField(s, f) \in IdState
    BY <1>1 DEF IdField, IdState
  <1> QED BY <1>2 DEF IdStep, ReadField, IdState

LEMMA IdRecursion ==
  ASSUME NEW d \in Seq(Fields)
  PROVE  \E g : /\ g[0] = IdStart
                /\ \A n \in 1..Len(d) : g[n] = IdStep(g[n - 1], d[n])
                /\ IdParsed(d) = g[Len(d)]
  <1> DEFINE m == Len(d)
             G == [a \in IdState \X (1..m) |-> IdStep(a[1], d[a[2]])]
             F(g) == g = [n \in 0..Len(d) |-> IF n = 0 THEN IdStart ELSE ReadField(g[n - 1], d[n], IdField(g[n - 1], d[n]))]
  <1>1. IdStart \in IdState
    BY DEF IdStart, IdState, IdKeys
  <1>2. m \in Nat /\ \A i \in 1..m : d[i] \in Fields
    OBVIOUS
  <1>3. \A x \in IdState, i \in 1..m : <<x, i>> \in IdState \X (1..m) /\ G[<<x, i>>] = IdStep(x, d[i])
    OBVIOUS
  <1>4. \A x \in IdState, i \in 1..m : G[<<x, i>>] \in IdState
    BY <1>2, <1>3, IdStepType
  <1> HIDE DEF G
  <1>5. PICK f \in [0..m -> IdState] : f[0] = IdStart /\ \A i \in 1..m : f[i] = G[<<f[i - 1], i>>]
    <2>1. StaysIn(IdState, m, G)
      BY <1>4 DEF StaysIn
    <2>2. Solvable(IdState, m, IdStart, G)
      BY <1>1, <1>2, <2>1, Recursion
    <2> QED BY <2>2 DEF Solvable
  <1>6. \A i \in 1..m : i - 1 \in 0..m
    OBVIOUS
  <1>7. \A i \in 1..m : f[i] = IdStep(f[i - 1], d[i])
    BY <1>3, <1>5, <1>6
  <1>8. F(f)
    <2>1. f = [n \in 0..m |-> f[n]]
      BY <1>5
    <2>2. \A n \in 0..m : n = 0 \/ n \in 1..m
      BY <1>2
    <2>3. \A n \in 0..m : f[n] = IF n = 0 THEN IdStart ELSE ReadField(f[n - 1], d[n], IdField(f[n - 1], d[n]))
      BY <1>5, <1>7, <2>2 DEF IdStep
    <2> QED BY <2>1, <2>3
  <1>9. PICK g : g = CHOOSE h : F(h)
    OBVIOUS
  <1>10. F(g)
    <2> HIDE DEF F
    <2> QED BY <1>8, <1>9
  <1>11. IdParsed(d) = g[Len(d)]
    BY <1>9 DEF IdParsed
  <1>12. g[0] = IdStart /\ \A n \in 1..m : g[n] = IdStep(g[n - 1], d[n])
    <2>1. 0 \in 0..m /\ \A n \in 1..m : n \in 0..m /\ n # 0
      BY <1>2
    <2>2. \A n \in 0..m : g[n] = IF n = 0 THEN IdStart ELSE ReadField(g[n - 1], d[n], IdField(g[n - 1], d[n]))
      BY <1>10
    <2> QED BY <2>1, <2>2 DEF IdStep
  <1> QED BY <1>11, <1>12

(* Field k is the last of its key among the first n.                       *)
LastUpTo(d, k, n) == \A j \in (k + 1)..n : d[j].key # d[k].key
LEMMA LastExtends ==
  ASSUME NEW d, NEW n \in Nat, NEW k \in 1..n
  PROVE  LastUpTo(d, k, n + 1) <=> LastUpTo(d, k, n) /\ d[n + 1].key # d[k].key
  <1>1. (k + 1)..(n + 1) = ((k + 1)..n) \cup {n + 1}
    OBVIOUS
  <1> QED BY <1>1 DEF LastUpTo
LEMMA LastIsLast == ASSUME NEW d, NEW n \in Nat PROVE LastUpTo(d, n, n)
  BY DEF LastUpTo

(* An identity that parses has no malformed field, and each of its values  *)
(* is that of the last field with its key.                                 *)
LEMMA IdValues ==
  ASSUME NEW d \in Seq(Fields)
  PROVE  /\ IdParsed(d) \in IdState
         /\ IdParsed(d).rc = "ok" =>
              /\ \A k \in 1..Len(d) : ~d[k].bad
              /\ \A key \in IdKeys : IdParsed(d).got[key] # -1 => Says(d, key, {IdParsed(d).got[key]})
  <1>1. PICK g : /\ g[0] = IdStart
                 /\ \A n \in 1..Len(d) : g[n] = IdStep(g[n - 1], d[n])
                 /\ IdParsed(d) = g[Len(d)]
    BY IdRecursion
  <1> DEFINE From(key, n) == \E k \in 1..n : d[k].key = key /\ LastUpTo(d, k, n) /\ d[k].n = g[n].got[key]
             J(n) == /\ g[n] \in IdState
                     /\ g[n].rc = "ok" => /\ \A k \in 1..n : ~d[k].bad
                                          /\ \A key \in IdKeys : g[n].got[key] # -1 => From(key, n)
             S == {n \in Nat : n <= Len(d) => J(n)}
  <1>2. J(0)
    BY <1>1 DEF IdStart, IdState, IdKeys
  <1>3. ASSUME NEW n \in Nat, n + 1 <= Len(d), J(n) PROVE J(n + 1)
    <2>1. n + 1 \in 1..Len(d) /\ d[n + 1] \in Fields /\ (n + 1) - 1 = n
      BY <1>3
    <2>2. g[n + 1] = IdStep(g[n], d[n + 1])
      BY <2>1, <1>1
    <2>3. g[n + 1] \in IdState
      BY <1>3, <2>1, <2>2, IdStepType
    <2>4. ASSUME g[n + 1].rc = "ok" PROVE g[n].rc = "ok" /\ ~d[n + 1].bad /\ g[n + 1] = IdField(g[n], d[n + 1])
      BY <1>3, <2>1, <2>2, <2>4 DEF IdStep, ReadField, IdState, Fields
    <2>5. 1..(n + 1) = (1..n) \cup {n + 1}
      OBVIOUS
    <2>6. ASSUME g[n + 1].rc = "ok", NEW key \in IdKeys, g[n + 1].got[key] # -1 PROVE From(key, n + 1)
      <3>1. g[n].got \in [IdKeys -> Int]
        BY <1>3 DEF IdState
      <3>2. CASE d[n + 1].key = key
        <4>1. g[n + 1].got[key] = d[n + 1].n
          BY <2>4, <2>6, <3>1, <3>2, <1>3 DEF IdField, IdState
        <4> QED BY <3>2, <4>1, <2>5, LastIsLast
      <3>3. CASE d[n + 1].key # key
        <4>1. g[n + 1].got[key] = g[n].got[key]
          BY <2>4, <2>6, <3>1, <3>3, <1>3 DEF IdField, IdState
        <4>2. PICK k \in 1..n : d[k].key = key /\ LastUpTo(d, k, n) /\ d[k].n = g[n].got[key]
          BY <1>3, <2>4, <2>6, <4>1
        <4>3. LastUpTo(d, k, n + 1)
          BY <3>3, <4>2, LastExtends
        <4> QED BY <2>5, <4>1, <4>2, <4>3
      <3> QED BY <3>2, <3>3
    <2> HIDE DEF From
    <2>7. g[n + 1].rc = "ok" => \A k \in 1..(n + 1) : ~d[k].bad
      BY <1>3, <2>4, <2>5
    <2> QED BY <2>3, <2>6, <2>7
  <1>4. J(Len(d))
    <2> HIDE DEF J
    <2>1. 0 \in S /\ \A n \in Nat : n \in S => n + 1 \in S
      BY <1>2, <1>3
    <2>2. Nat \subseteq S
      <3> HIDE DEF S
      <3> QED BY <2>1, Ind
    <2>3. Len(d) \in S
      BY <2>2
    <2> QED BY <2>3
  <1>5. ASSUME NEW key \in IdKeys, From(key, Len(d)) PROVE Says(d, key, {IdParsed(d).got[key]})
    BY <1>1, <1>5 DEF Says, LastOfKey, LastUpTo
  <1> HIDE DEF From
  <1> QED BY <1>1, <1>4, <1>5


(* The same for the hwio file.                                             *)
HwOuts == [mode : Int, pins : [1..HilPins -> Int]]
HwState == [rc : {"ok", "format", "role"}, v : Int, out : HwOuts]
HwStep(s, f) == ReadField(s, f, HwField(s, f))

(* What a field that is not refused does to the outcome.                   *)
HwTakes(s, f, q) ==
  /\ q.v = IF f.key = "v" THEN f.n ELSE s.v
  /\ q.out.mode = IF f.key = "m" THEN f.n ELSE s.out.mode
  /\ f.key = "io" => Len(f.xs) <= HilPins /\ \A p \in 1..Len(f.xs) : q.out.pins[p] = f.xs[p]
  /\ f.key # "io" => q.out.pins = s.out.pins

LEMMA HwFieldType ==
  ASSUME NEW s \in HwState, s.rc = "ok", NEW f \in Fields
  PROVE  HwField(s, f) \in HwState /\ (HwField(s, f).rc = "ok" => HwTakes(s, f, HwField(s, f)))
  <1>1. /\ s.v \in Int /\ s.out \in HwOuts /\ s.out.mode \in Int /\ s.out.pins \in [1..HilPins -> Int]
        /\ f.n \in Int /\ f.xs \in Seq(Int) /\ HilPins \in Nat
    BY BootAssumption DEF HwState, HwOuts, Fields
  <1>2. CASE f.key = "v"
    <2>1. HwField(s, f) = [s EXCEPT !.v = f.n]
      BY <1>2 DEF HwField
    <2> QED BY <1>1, <1>2, <2>1 DEF HwState, HwTakes
  <1>3. CASE f.key = "m"
    <2>1. HwField(s, f) = IF f.n >= ModeCount THEN [s EXCEPT !.rc = "role"] ELSE [s EXCEPT !.out.mode = f.n]
      BY <1>3 DEF HwField
    <2>2. [s EXCEPT !.rc = "role"] \in HwState /\ [s EXCEPT !.rc = "role"].rc = "role"
      BY DEF HwState
    <2>3. [s EXCEPT !.out.mode = f.n] \in HwState /\ HwTakes(s, f, [s EXCEPT !.out.mode = f.n])
      BY <1>1, <1>3 DEF HwState, HwOuts, HwTakes
    <2> QED BY <2>1, <2>2, <2>3
  <1>4. CASE f.key = "io"
    <2> DEFINE ps == [p \in 1..HilPins |-> IF p <= Len(f.xs) THEN f.xs[p] ELSE s.out.pins[p]]
    <2>1. HwField(s, f) = IF Len(f.xs) > HilPins \/ \E j \in 1..Len(f.xs) : f.xs[j] > 255 THEN [s EXCEPT !.rc = "role"]
                          ELSE [s EXCEPT !.out.pins = ps]
      BY <1>4 DEF HwField
    <2>2. [s EXCEPT !.rc = "role"] \in HwState /\ [s EXCEPT !.rc = "role"].rc = "role"
      BY DEF HwState
    <2>3. ASSUME Len(f.xs) <= HilPins
          PROVE  [s EXCEPT !.out.pins = ps] \in HwState /\ HwTakes(s, f, [s EXCEPT !.out.pins = ps])
      <3>1. ps \in [1..HilPins -> Int]
        BY <1>1
      <3>2. \A p \in 1..Len(f.xs) : ps[p] = f.xs[p]
        BY <1>1, <2>3
      <3> HIDE DEF ps
      <3>3. [s EXCEPT !.out.pins = ps] \in HwState
        BY <1>1, <3>1 DEF HwState, HwOuts
      <3>4. /\ [s EXCEPT !.out.pins = ps].out.pins = ps /\ [s EXCEPT !.out.pins = ps].out.mode = s.out.mode
            /\ [s EXCEPT !.out.pins = ps].v = s.v
        BY <1>1 DEF HwState, HwOuts
      <3> QED BY <1>4, <2>3, <3>2, <3>3, <3>4 DEF HwTakes
    <2>4. Len(f.xs) \in Nat
      BY <1>1
    <2> HIDE DEF ps
    <2> QED BY <1>1, <2>1, <2>2, <2>3, <2>4
  <1>5. CASE f.key \notin {"v", "m", "io"}
    <2>1. HwField(s, f) = s
      BY <1>5 DEF HwField
    <2> QED BY <1>5, <2>1 DEF HwTakes
  <1> QED BY <1>2, <1>3, <1>4, <1>5

LEMMA HwStepType ==
  ASSUME NEW s \in HwState, NEW f \in Fields
  PROVE  /\ HwStep(s, f) \in HwState
         /\ HwStep(s, f).rc = "ok" => s.rc = "ok" /\ ~f.bad /\ HwTakes(s, f, HwStep(s, f))
  <1>1. f.bad \in BOOLEAN /\ [s EXCEPT !.rc = "format"] \in HwState /\ [s EXCEPT !.rc = "format"].rc = "format"
    BY DEF Fields, HwState
  <1>2. HwStep(s, f) = IF s.rc # "ok" THEN s ELSE IF f.bad THEN [s EXCEPT !.rc = "format"] ELSE HwField(s, f)
    BY DEF HwStep, ReadField
  <1> QED BY <1>1, <1>2, HwFieldType

LEMMA HwStartType == HwStart \in HwState
  BY DEF HwStart, HwState, HwOuts, HwDefault

LEMMA HwRecursion ==
  ASSUME NEW d \in Seq(Fields)
  PROVE  \E g : /\ g[0] = HwStart
                /\ \A n \in 1..Len(d) : g[n] = HwStep(g[n - 1], d[n])
                /\ HwParsed(d) = g[Len(d)]
  <1> DEFINE m == Len(d)
             G == [a \in HwState \X (1..m) |-> HwStep(a[1], d[a[2]])]
             F(g) == g = [n \in 0..Len(d) |-> IF n = 0 THEN HwStart ELSE ReadField(g[n - 1], d[n], HwField(g[n - 1], d[n]))]
  <1>2. m \in Nat /\ \A i \in 1..m : d[i] \in Fields
    OBVIOUS
  <1>3. \A x \in HwState, i \in 1..m : <<x, i>> \in HwState \X (1..m) /\ G[<<x, i>>] = HwStep(x, d[i])
    OBVIOUS
  <1>4. \A x \in HwState, i \in 1..m : G[<<x, i>>] \in HwState
    BY <1>2, <1>3, HwStepType
  <1> HIDE DEF G
  <1>5. PICK f \in [0..m -> HwState] : f[0] = HwStart /\ \A i \in 1..m : f[i] = G[<<f[i - 1], i>>]
    <2>1. StaysIn(HwState, m, G)
      BY <1>4 DEF StaysIn
    <2>2. Solvable(HwState, m, HwStart, G)
      BY HwStartType, <1>2, <2>1, Recursion
    <2> QED BY <2>2 DEF Solvable
  <1>6. \A i \in 1..m : i - 1 \in 0..m
    OBVIOUS
  <1>7. \A i \in 1..m : f[i] = HwStep(f[i - 1], d[i])
    BY <1>3, <1>5, <1>6
  <1>8. F(f)
    <2>1. f = [n \in 0..m |-> f[n]]
      BY <1>5
    <2>2. \A n \in 0..m : n = 0 \/ n \in 1..m
      BY <1>2
    <2>3. \A n \in 0..m : f[n] = IF n = 0 THEN HwStart ELSE ReadField(f[n - 1], d[n], HwField(f[n - 1], d[n]))
      BY <1>5, <1>7, <2>2 DEF HwStep
    <2> QED BY <2>1, <2>3
  <1>9. PICK g : g = CHOOSE h : F(h)
    OBVIOUS
  <1>10. F(g)
    <2> HIDE DEF F
    <2> QED BY <1>8, <1>9
  <1>11. HwParsed(d) = g[Len(d)]
    BY <1>9 DEF HwParsed
  <1>12. g[0] = HwStart /\ \A n \in 1..m : g[n] = HwStep(g[n - 1], d[n])
    <2>1. 0 \in 0..m /\ \A n \in 1..m : n \in 0..m /\ n # 0
      BY <1>2
    <2>2. \A n \in 0..m : g[n] = IF n = 0 THEN HwStart ELSE ReadField(g[n - 1], d[n], HwField(g[n - 1], d[n]))
      BY <1>10
    <2> QED BY <2>1, <2>2 DEF HwStep
  <1> QED BY <1>11, <1>12

(* A pin file that parses: no field is malformed, the version, the mode    *)
(* and the pins are those of the last field of each.                       *)
LEMMA HwValues ==
  ASSUME NEW d \in Seq(Fields), HwParsed(d).rc = "ok", HwParsed(d).v = 2
  PROVE  /\ \A k \in 1..Len(d) : ~d[k].bad
         /\ Says(d, "v", {2})
         /\ \A k \in 1..Len(d) : LastOfKey(d, k) =>
              /\ d[k].key = "io" => \A p \in 1..Len(d[k].xs) : HwParsed(d).out.pins[p] = d[k].xs[p]
              /\ d[k].key = "m" => HwParsed(d).out.mode = d[k].n
  <1>1. PICK g : /\ g[0] = HwStart
                 /\ \A n \in 1..Len(d) : g[n] = HwStep(g[n - 1], d[n])
                 /\ HwParsed(d) = g[Len(d)]
    BY HwRecursion
  <1> DEFINE Held(k, n) == /\ d[k].key = "io" => \A p \in 1..Len(d[k].xs) : g[n].out.pins[p] = d[k].xs[p]
                           /\ d[k].key = "m" => g[n].out.mode = d[k].n
             From(n) == \E k \in 1..n : d[k].key = "v" /\ LastUpTo(d, k, n) /\ d[k].n = g[n].v
             J(n) == /\ g[n] \in HwState
                     /\ g[n].rc = "ok" => /\ \A k \in 1..n : ~d[k].bad
                                          /\ g[n].v # -1 => From(n)
                                          /\ \A k \in 1..n : LastUpTo(d, k, n) => Held(k, n)
             S == {n \in Nat : n <= Len(d) => J(n)}
  <1>2. J(0)
    <2>1. g[0].v = -1 /\ g[0] \in HwState
      BY <1>1, HwStartType DEF HwStart
    <2> QED BY <2>1
  <1>3. ASSUME NEW n \in Nat, n + 1 <= Len(d), J(n) PROVE J(n + 1)
    <2>1. n + 1 \in 1..Len(d) /\ d[n + 1] \in Fields /\ (n + 1) - 1 = n
      BY <1>3
    <2>2. g[n + 1] = HwStep(g[n], d[n + 1])
      BY <2>1, <1>1
    <2>3. g[n + 1] \in HwState
      BY <1>3, <2>1, <2>2, HwStepType
    <2>4. g[n + 1].rc = "ok" => g[n].rc = "ok" /\ ~d[n + 1].bad /\ HwTakes(g[n], d[n + 1], g[n + 1])
      BY <1>3, <2>1, <2>2, HwStepType
    <2>5. 1..(n + 1) = (1..n) \cup {n + 1}
      OBVIOUS
    <2>6. ASSUME g[n + 1].rc = "ok", g[n + 1].v # -1 PROVE From(n + 1)
      <3>1. CASE d[n + 1].key = "v"
        <4>1. g[n + 1].v = d[n + 1].n
          BY <2>4, <2>6, <3>1 DEF HwTakes
        <4> QED BY <3>1, <4>1, <2>5, LastIsLast
      <3>2. CASE d[n + 1].key # "v"
        <4>1. g[n + 1].v = g[n].v
          BY <2>4, <2>6, <3>2 DEF HwTakes
        <4>2. PICK k \in 1..n : d[k].key = "v" /\ LastUpTo(d, k, n) /\ d[k].n = g[n].v
          BY <1>3, <2>4, <2>6, <4>1
        <4>3. LastUpTo(d, k, n + 1)
          BY <3>2, <4>2, LastExtends
        <4> QED BY <2>5, <4>1, <4>2, <4>3
      <3> QED BY <3>1, <3>2
    <2>7. ASSUME g[n + 1].rc = "ok", NEW k \in 1..(n + 1), LastUpTo(d, k, n + 1) PROVE Held(k, n + 1)
      <3>1. CASE k = n + 1
        BY <2>4, <2>7, <3>1 DEF HwTakes
      <3>2. CASE k \in 1..n
        <4>1. LastUpTo(d, k, n) /\ d[n + 1].key # d[k].key
          BY <2>7, <3>2, LastExtends, SMTT(30)
        <4>2. Held(k, n)
          BY <1>3, <2>4, <2>7, <3>2, <4>1
        <4>3. d[k].key = "io" => g[n + 1].out.pins = g[n].out.pins
          BY <2>4, <2>7, <4>1 DEF HwTakes
        <4>4. d[k].key = "m" => g[n + 1].out.mode = g[n].out.mode
          BY <2>4, <2>7, <4>1 DEF HwTakes
        <4> QED BY <4>2, <4>3, <4>4
      <3> QED BY <2>5, <3>1, <3>2
    <2> HIDE DEF From, Held
    <2>8. g[n + 1].rc = "ok" => \A k \in 1..(n + 1) : ~d[k].bad
      BY <1>3, <2>4, <2>5
    <2> QED BY <2>3, <2>6, <2>7, <2>8
  <1>4. J(Len(d))
    <2> HIDE DEF J
    <2>1. 0 \in S /\ \A n \in Nat : n \in S => n + 1 \in S
      BY <1>2, <1>3
    <2>2. Nat \subseteq S
      <3> HIDE DEF S
      <3> QED BY <2>1, Ind
    <2>3. Len(d) \in S
      BY <2>2
    <2> QED BY <2>3
  <1>5. From(Len(d)) /\ \A k \in 1..Len(d) : ~d[k].bad /\ (LastUpTo(d, k, Len(d)) => Held(k, Len(d)))
    BY <1>1, <1>4
  <1>6. Says(d, "v", {2})
    BY <1>1, <1>5 DEF Says, LastOfKey, LastUpTo
  <1>7. \A k \in 1..Len(d) : LastOfKey(d, k) <=> LastUpTo(d, k, Len(d))
    BY DEF LastOfKey, LastUpTo
  <1> QED BY <1>1, <1>5, <1>6, <1>7


-----------------------------------------------------------------------------
(* cfg_load finds the newest valid row.                                    *)
Row(name) == [doc : BootDocs[name], ok : BOOLEAN]
RowsOK == DOMAIN rows = FileNames /\ rows = [name \in FileNames |-> rows[name]] /\ \A name \in FileNames : rows[name] \in Seq(Row(name))

LEMMA CfgLoad ==
  ASSUME RowsOK, NEW name \in FileNames
  PROVE  \/ cfg_load(name) = <<>> /\ \A k \in 1..Len(rows[name]) : ~rows[name][k].ok
         \/ \E d \in BootDocs[name] : cfg_load(name) = <<d>> /\ NewestOf(name, d)
  <1> DEFINE rs == rows[name]
             good == {k \in 1..Len(rs) : rs[k].ok}
  <1>1. rs \in Seq(Row(name)) /\ Len(rs) \in Nat
    BY DEF RowsOK
  <1>2. CASE good = {}
    BY <1>2 DEF cfg_load
  <1>3. CASE good # {}
    <2>1. good \subseteq 0..Len(rs)
      BY <1>1
    <2>2. \E x \in good : \A y \in good : y <= x
      <3> HIDE DEF good
      <3> QED BY <1>1, <1>3, <2>1, Greatest
    <2> DEFINE k == CHOOSE x \in good : \A y \in good : y <= x
    <2>3. k \in good /\ \A y \in good : y <= k
      <3> HIDE DEF good
      <3> QED BY <2>2
    <2>4. cfg_load(name) = <<rs[k].doc>>
      BY <1>3 DEF cfg_load
    <2> HIDE DEF k
    <2>5. k \in 1..Len(rs) /\ rs[k].ok
      BY <2>3
    <2>6. rs[k] \in Row(name)
      BY <1>1, <2>5
    <2>7. rs[k].doc \in BootDocs[name]
      BY <2>6 DEF Row
    <2>8. \A j \in (k + 1)..Len(rs) : ~rs[j].ok
      <3> SUFFICES ASSUME NEW j \in (k + 1)..Len(rs), rs[j].ok PROVE FALSE
        OBVIOUS
      <3>1. j \in good /\ ~(j <= k)
        BY <1>1, <2>5
      <3> QED BY <2>3, <3>1
    <2>9. NewestOf(name, rs[k].doc)
      BY <2>5, <2>8 DEF NewestOf
    <2> QED BY <2>4, <2>7, <2>9
  <1> QED BY <1>2, <1>3

LEMMA DocsTyped == ASSUME NEW name \in FileNames, NEW d \in BootDocs[name] PROVE d \in Seq(Fields)
  BY BootAssumption

(* The inductive invariant.                                                *)
Settled == run # "off" =>
  /\ unit.refused = Refuses(boot_read_identity.rc)
  /\ unit.hwio = boot_read_hwio
  /\ run = IF boot_read_identity.rc = "ok" /\ Variant(boot_read_identity.got["vr"]) \notin Masters THEN "slave" ELSE "master"
Named == unit.net # <<>> => unit.net[1] # 0
SlotKnows ==
  /\ crash = [valid |-> crash.valid, cause |-> crash.cause] /\ wdt \in BOOLEAN
  /\ run = "off" => Awake.cause = reason
  /\ run # "off" => crash.valid /\ ~wdt /\ crash.cause = reason
Fed ==
  /\ unfed \in 0..BiteTicks
  /\ beat \in [BootTasks -> Nat] /\ \A t \in BootTasks : beat[t] <= StaleTicks + unfed
BootInv == RowsOK /\ Settled /\ Named /\ SlotKnows /\ Fed

LEMMA Limits == StaleTicks \in Nat /\ BiteTicks \in Nat /\ HilPins \in Nat
  BY BootAssumption

LEMMA BootInitInv == ASSUME BootInit PROVE BootInv
  <1>1. RowsOK
    <2>1. rows = [name \in FileNames |-> <<>>]
      BY DEF BootInit
    <2>2. \A name \in FileNames : <<>> \in Seq(Row(name))
      OBVIOUS
    <2> QED BY <2>1, <2>2 DEF RowsOK
  <1>2. Settled /\ Named
    BY DEF BootInit, Settled, Named, NoUnit
  <1>3. SlotKnows
    BY DEF BootInit, SlotKnows, Awake
  <1>4. Fed
    BY Limits DEF BootInit, Fed
  <1> QED BY <1>1, <1>2, <1>3, <1>4 DEF BootInv

(* While a unit runs, its files and what it settled stay.                  *)
LEMMA RunningKeeps ==
  ASSUME BootInv, UNCHANGED <<rows, run, unit, crash, reason, wdt>>, Fed'
  PROVE  BootInv'
  <1>1. RowsOK'
    BY DEF BootInv, RowsOK, Row
  <1>2. boot_read_identity' = boot_read_identity /\ boot_read_hwio' = boot_read_hwio
    BY DEF boot_read_identity, boot_read_hwio, cfg_load
  <1>3. Settled' /\ Named'
    BY <1>2 DEF BootInv, Settled, Named
  <1>4. SlotKnows'
    BY DEF BootInv, SlotKnows, Awake
  <1> QED BY <1>1, <1>3, <1>4 DEF BootInv

LEMMA OffKeeps ==
  ASSUME BootInv, run = "off", UNCHANGED <<run, unit, crash, beat, unfed, reason, wdt>>, RowsOK'
  PROVE  BootInv'
  BY DEF BootInv, Settled, Named, SlotKnows, Awake, Fed

LEMMA CommissionStep ==
  ASSUME BootInv, NEW name \in FileNames, NEW d \in BootDocs[name], Commission(name, d)
  PROVE  BootInv'
  <1>1. RowsOK'
    <2>1. rows[name] \in Seq(Row(name)) /\ [doc |-> d, ok |-> TRUE] \in Row(name)
      BY DEF BootInv, RowsOK, Row
    <2>2. Append(rows[name], [doc |-> d, ok |-> TRUE]) \in Seq(Row(name))
      BY <2>1
    <2>3. rows' = [rows EXCEPT ![name] = Append(rows[name], [doc |-> d, ok |-> TRUE])]
      BY DEF Commission
    <2> QED BY <2>2, <2>3 DEF BootInv, RowsOK, Row
  <1> QED BY <1>1, OffKeeps DEF Commission

LEMMA RowRotsStep ==
  ASSUME BootInv, NEW name \in FileNames, NEW k \in 1..Len(rows[name]), RowRots(name, k)
  PROVE  BootInv'
  <1>1. RowsOK'
    <2> DEFINE rs == rows[name]
               new == [rs EXCEPT ![k].ok = FALSE]
    <2>1. rs \in Seq(Row(name))
      BY DEF BootInv, RowsOK
    <2>2. rs[k] \in Row(name)
      BY <2>1
    <2>3. [rs[k] EXCEPT !.ok = FALSE] \in Row(name)
      BY <2>2 DEF Row
    <2>4. new = [rs EXCEPT ![k] = [rs[k] EXCEPT !.ok = FALSE]]
      BY <2>1
    <2>5. new \in Seq(Row(name))
      BY <2>1, <2>3, <2>4
    <2>6. rows' = [rows EXCEPT ![name] = new]
      BY DEF RowRots, BootInv, RowsOK
    <2> HIDE DEF new
    <2> QED BY <2>5, <2>6 DEF BootInv, RowsOK, Row
  <1> QED BY <1>1, OffKeeps DEF RowRots

LEMMA NetNamed == boot_read_netcfg # <<>> => boot_read_netcfg[1] # 0
  <1> SUFFICES ASSUME NEW s, NetOf(s) # <<>> PROVE NetOf(s)[1] # 0
    BY DEF boot_read_netcfg
  <1>1. s.n \in 1..ApMax /\ s.ap[1] # 0 /\ NetOf(s) = NetAps(s)
    BY DEF NetOf
  <1>2. 1 \in 1..s.n
    BY <1>1, BootAssumption
  <1> QED BY <1>1, <1>2 DEF NetAps

LEMMA MainStep == ASSUME BootInv, main PROVE BootInv'
  <1>1. rows' = rows /\ run = "off" /\ crash' = Awake /\ wdt' = FALSE /\ reason' = reason
    BY DEF main
  <1>2. RowsOK'
    BY <1>1 DEF BootInv, RowsOK, Row
  <1>3. boot_read_identity' = boot_read_identity /\ boot_read_hwio' = boot_read_hwio
    BY <1>1 DEF boot_read_identity, boot_read_hwio, cfg_load
  <1>4. /\ unit'.refused = Refuses(boot_read_identity.rc) /\ unit'.hwio = boot_read_hwio /\ unit'.net = boot_read_netcfg
        /\ run' = IF boot_read_identity.rc = "ok" /\ Variant(boot_read_identity.got["vr"]) \notin Masters THEN "slave" ELSE "master"
    BY DEF main
  <1>5. Settled' /\ Named'
    BY <1>3, <1>4, NetNamed DEF Settled, Named, Refuses
  <1>6. SlotKnows'
    <2>1. Awake.valid = TRUE /\ Awake.cause = reason /\ Awake = [valid |-> Awake.valid, cause |-> Awake.cause]
      BY <1>1 DEF BootInv, SlotKnows, Awake
    <2>2. run' # "off"
      BY <1>4
    <2> QED BY <1>1, <2>1, <2>2 DEF SlotKnows
  <1>7. Fed'
    BY Limits DEF main, Fed
  <1> QED BY <1>2, <1>5, <1>6, <1>7 DEF BootInv

LEMMA WatchdogStep == ASSUME BootInv, watchdog_task PROVE BootInv'
  <1>1. /\ beat' = [t \in BootTasks |-> IF t \notin stalled THEN 0 ELSE IF beat[t] <= StaleTicks + BiteTicks + 1 THEN beat[t] + 1 ELSE beat[t]]
        /\ unfed' = (IF AllAlive THEN 0 ELSE unfed + 1) /\ unfed < BiteTicks
    BY DEF watchdog_task
  <1>2. unfed \in 0..BiteTicks /\ beat \in [BootTasks -> Nat] /\ \A t \in BootTasks : beat[t] <= StaleTicks + unfed
    BY DEF BootInv, Fed
  <1>3. unfed' \in 0..BiteTicks
    BY <1>1, <1>2, Limits
  <1>4. ASSUME NEW t \in BootTasks PROVE beat'[t] \in Nat /\ beat'[t] <= StaleTicks + unfed'
    <2>1. beat'[t] \in Nat /\ beat'[t] <= beat[t] + 1 /\ beat[t] \in Nat
      BY <1>1, <1>2
    <2>2. CASE AllAlive
      <3>1. beat'[t] <= StaleTicks
        BY <2>2 DEF AllAlive
      <3> QED BY <1>1, <2>1, <2>2, <3>1, Limits
    <2>3. CASE ~AllAlive
      BY <1>1, <1>2, <2>1, <2>3, Limits
    <2> QED BY <2>2, <2>3
  <1>5. beat' \in [BootTasks -> Nat]
    <2>1. beat' = [t \in BootTasks |-> beat'[t]]
      BY <1>1
    <2> QED BY <1>4, <2>1
  <1>6. Fed'
    BY <1>3, <1>4, <1>5 DEF Fed
  <1> QED BY <1>6, RunningKeeps DEF watchdog_task

(* The ways a run ends.                                                    *)
LEMMA StopsStep ==
  ASSUME BootInv, Stops, SlotKnows'
  PROVE  BootInv'
  <1>1. rows' = rows /\ run' = "off" /\ unit' = NoUnit /\ beat' = [t \in BootTasks |-> 0] /\ unfed' = 0
    BY DEF Stops
  <1>2. RowsOK'
    BY <1>1 DEF BootInv, RowsOK, Row
  <1>3. Settled' /\ Named'
    BY <1>1 DEF Settled, Named, NoUnit
  <1>4. Fed'
    BY <1>1, Limits DEF Fed
  <1> QED BY <1>2, <1>3, <1>4 DEF BootInv

LEMMA BitesStep == ASSUME BootInv, Bites PROVE BootInv'
  <1>1. SlotKnows'
    BY DEF BootInv, Bites, Stops, SlotKnows, Awake
  <1> QED BY <1>1, StopsStep DEF Bites
LEMMA PanicStep == ASSUME BootInv, NEW c \in {"panic", "stack", "malloc"}, chassis_panic(c) PROVE BootInv'
  <1>1. SlotKnows'
    BY DEF BootInv, chassis_panic, Stops, SlotKnows, Awake
  <1> QED BY <1>1, StopsStep DEF chassis_panic
LEMMA PowerLossStep == ASSUME BootInv, PowerLoss PROVE BootInv'
  <1>1. SlotKnows'
    BY DEF BootInv, PowerLoss, Stops, SlotKnows, Awake
  <1> QED BY <1>1, StopsStep DEF PowerLoss

LEMMA BootInvNext == ASSUME BootInv, [BootNext]_bootVars PROVE BootInv'
  <1>1. ASSUME NEW name \in FileNames, NEW d \in BootDocs[name], Commission(name, d) PROVE BootInv'
    BY <1>1, CommissionStep
  <1>2. ASSUME NEW name \in FileNames, NEW k \in 1..Len(rows[name]), RowRots(name, k) PROVE BootInv'
    BY <1>2, RowRotsStep
  <1>3. CASE main
    BY <1>3, MainStep
  <1>4. CASE Reload \/ HostRegisters(1)
    <2>1. UNCHANGED <<rows, run, unit, crash, reason, wdt, beat, unfed>>
      BY <1>4 DEF Reload, HostRegisters
    <2>2. Fed'
      BY <2>1 DEF BootInv, Fed
    <2> QED BY <2>1, <2>2, RunningKeeps
  <1>5. ASSUME NEW t \in BootTasks, ThreadStalls(t) PROVE BootInv'
    <2>1. UNCHANGED <<rows, run, unit, crash, reason, wdt, beat, unfed>>
      BY <1>5 DEF ThreadStalls
    <2>2. Fed'
      BY <2>1 DEF BootInv, Fed
    <2> QED BY <2>1, <2>2, RunningKeeps
  <1>6. CASE watchdog_task
    BY <1>6, WatchdogStep
  <1>7. CASE Bites
    BY <1>7, BitesStep
  <1>8. ASSUME NEW c \in {"panic", "stack", "malloc"}, chassis_panic(c) PROVE BootInv'
    BY <1>8, PanicStep
  <1>9. CASE PowerLoss
    BY <1>9, PowerLossStep
  <1>10. CASE UNCHANGED bootVars
    <2>1. UNCHANGED <<rows, run, unit, crash, reason, wdt, beat, unfed>>
      BY <1>10 DEF bootVars
    <2>2. Fed'
      BY <2>1 DEF BootInv, Fed
    <2> QED BY <2>1, <2>2, RunningKeeps
  <1> QED BY <1>1, <1>2, <1>3, <1>4, <1>5, <1>6, <1>7, <1>8, <1>9, <1>10 DEF BootNext

LEMMA BootInvSound == ASSUME BootInv PROVE BootSound
  <1>1. RowsOK /\ Settled /\ Named /\ SlotKnows /\ Fed
    BY DEF BootInv
  <1>2. ArbiterIsCommissioned
    <2> SUFFICES ASSUME run = "master", ~unit.refused, ~\A k \in 1..Len(rows["idnt"]) : ~rows["idnt"][k].ok
                 PROVE  \E d \in BootDocs["idnt"] :
                          /\ NewestOf("idnt", d) /\ \A k \in 1..Len(d) : ~d[k].bad
                          /\ Says(d, "id", {BoardUid}) /\ Says(d, "ch", {BoardChip}) /\ Says(d, "vr", {n \in Nat : Variant(n) \in Masters})
      BY DEF ArbiterIsCommissioned, Sends
    <2>1. "idnt" \in FileNames
      BY DEF FileNames
    <2>2. PICK d \in BootDocs["idnt"] : cfg_load("idnt") = <<d>> /\ NewestOf("idnt", d)
      BY <1>1, <2>1, CfgLoad
    <2>3. d \in Seq(Fields)
      BY <2>1, DocsTyped
    <2> DEFINE s == IdParsed(d)
    <2>4. boot_read_identity = [rc |-> IF s.rc # "ok" THEN s.rc ELSE IdChecks(s.got), got |-> s.got]
      <3>1. cfg_load("idnt") # <<>> /\ cfg_load("idnt")[1] = d
        BY <2>2
      <3> QED BY <3>1 DEF boot_read_identity, IdOf
    <2>5. /\ s \in IdState
          /\ s.rc = "ok" => /\ \A k \in 1..Len(d) : ~d[k].bad
                            /\ \A key \in IdKeys : s.got[key] # -1 => Says(d, key, {s.got[key]})
      BY <2>3, IdValues
    <2> HIDE DEF s
    <2>6. boot_read_identity.rc \in {"ok", "missing"} /\ (boot_read_identity.rc = "ok" => Variant(boot_read_identity.got["vr"]) \in Masters)
      BY <1>1 DEF Settled, Refuses
    <2>7. s.rc = "ok" /\ IdChecks(s.got) = "ok" /\ Variant(s.got["vr"]) \in Masters
      <3>1. s.rc \in {"ok", "format"} /\ IdChecks(s.got) # "missing"
        BY <2>5 DEF IdState, IdChecks
      <3> QED BY <2>4, <2>6, <3>1
    <2>8. s.got \in [IdKeys -> Int] /\ DOMAIN s.got = IdKeys
      BY <2>5 DEF IdState
    <2>9. \A key \in IdKeys : s.got[key] # -1
      BY <2>7, <2>8 DEF IdChecks
    <2>10. s.got["ch"] = BoardChip /\ s.got["id"] = BoardUid
      BY <2>7, <2>9 DEF IdChecks
    <2>11. Says(d, "id", {s.got["id"]}) /\ Says(d, "ch", {s.got["ch"]}) /\ Says(d, "vr", {s.got["vr"]})
      BY <2>5, <2>7, <2>9 DEF IdKeys
    <2>12. Says(d, "vr", {n \in Nat : Variant(n) \in Masters})
      <3>1. \A k \in 1..Len(d) : d[k].n \in Nat
        <4>1. \A k \in 1..Len(d) : d[k] \in Fields
          BY <2>3
        <4> QED BY <4>1 DEF Fields
      <3>2. PICK k \in 1..Len(d) : d[k].key = "vr" /\ LastOfKey(d, k) /\ d[k].n = s.got["vr"]
        BY <2>11 DEF Says
      <3> QED BY <2>7, <3>1, <3>2 DEF Says
    <2> QED BY <2>2, <2>5, <2>7, <2>10, <2>11, <2>12
  <1>3. HwioWhole
    <2> SUFFICES ASSUME run # "off", unit.hwio # HwDefault
                 PROVE  \E d \in BootDocs["hwio"] :
                          /\ NewestOf("hwio", d) /\ \A k \in 1..Len(d) : ~d[k].bad
                          /\ Says(d, "v", {2})
                          /\ \A k \in 1..Len(d) : LastOfKey(d, k) =>
                               /\ d[k].key = "io" => \A p \in 1..Len(d[k].xs) : unit.hwio.pins[p] = d[k].xs[p]
                               /\ d[k].key = "m" => unit.hwio.mode = d[k].n
      BY DEF HwioWhole
    <2>1. "hwio" \in FileNames /\ unit.hwio = boot_read_hwio
      BY <1>1 DEF FileNames, Settled
    <2>2. cfg_load("hwio") # <<>>
      BY <2>1 DEF boot_read_hwio
    <2>3. PICK d \in BootDocs["hwio"] : cfg_load("hwio") = <<d>> /\ NewestOf("hwio", d)
      BY <1>1, <2>1, <2>2, CfgLoad
    <2>4. d \in Seq(Fields)
      BY <2>1, DocsTyped
    <2>5. cfg_load("hwio")[1] = d
      BY <2>3
    <2>6. unit.hwio = HwOut(HwParsed(d))
      BY <2>1, <2>2, <2>5 DEF boot_read_hwio
    <2>7. HwChecks(HwParsed(d)) = "ok" /\ unit.hwio = HwParsed(d).out
      BY <2>6 DEF HwOut
    <2>8. HwParsed(d).rc = "ok" /\ HwParsed(d).v = 2
      BY <2>7 DEF HwChecks
    <2> QED BY <2>3, <2>4, <2>7, <2>8, HwValues
  <1>4. FirstApNamed
    BY <1>1 DEF Named, FirstApNamed
  <1>5. StallBounded
    <2>1. ASSUME NEW t \in BootTasks PROVE beat[t] <= StaleTicks + BiteTicks
      BY <1>1, Limits DEF Fed
    <2> QED BY <2>1 DEF StallBounded
  <1>6. CauseIsLast
    BY <1>1 DEF SlotKnows, CauseIsLast
  <1> QED BY <1>2, <1>3, <1>4, <1>5, <1>6 DEF BootSound

(* For any files on the flash, any board, any threads and any limits: only *)
(* a unit commissioned for it drives the bus, its pins come whole from one *)
(* file, WiFi starts with a name or not at all, a silent thread brings the *)
(* chip down in bounded time, and a run reports the last reset's reason.   *)
THEOREM BootSafety == BootSpec => []BootSound
  <1>1. BootInit => BootInv
    BY BootInitInv
  <1>2. BootInv /\ [BootNext]_bootVars => BootInv'
    BY BootInvNext
  <1>3. BootInv => BootSound
    BY BootInvSound
  <1> QED BY <1>1, <1>2, <1>3, PTL DEF BootSpec


-----------------------------------------------------------------------------
(* The I/O services (NodeIo).  Sums over a sequence.                       *)
SumsUp(t, xs, n) == t[0] = 0 /\ \A k \in 1..n : t[k] = t[k - 1] + xs[k]

LEMMA TotalIs ==
  ASSUME NEW xs \in Seq(Int)
  PROVE  \E t \in [0..Len(xs) -> Int] : SumsUp(t, xs, Len(xs)) /\ Total(xs) = t[Len(xs)]
  <1> DEFINE m == Len(xs)
             G == [a \in Int \X (1..m) |-> a[1] + xs[a[2]]]
             F(t) == t = [k \in 0..Len(xs) |-> IF k = 0 THEN 0 ELSE t[k - 1] + xs[k]]
  <1>1. m \in Nat /\ \A i \in 1..m : xs[i] \in Int
    OBVIOUS
  <1>2. \A x \in Int, i \in 1..m : <<x, i>> \in Int \X (1..m) /\ G[<<x, i>>] = x + xs[i]
    OBVIOUS
  <1> HIDE DEF G
  <1>3. ASSUME NEW x \in Int, NEW i \in 1..m PROVE G[<<x, i>>] \in Int
    <2>1. xs[i] \in Int /\ G[<<x, i>>] = x + xs[i]
      BY <1>1, <1>2
    <2> QED BY <2>1
  <1>4. PICK f \in [0..m -> Int] : f[0] = 0 /\ \A i \in 1..m : f[i] = G[<<f[i - 1], i>>]
    <2>1. StaysIn(Int, m, G)
      BY <1>3 DEF StaysIn
    <2>2. 0 \in Int
      OBVIOUS
    <2>3. Solvable(Int, m, 0, G)
      BY <1>1, <2>1, <2>2, Recursion
    <2> QED BY <2>3 DEF Solvable
  <1>5. \A i \in 1..m : i - 1 \in 0..m
    BY <1>1
  <1>6. \A i \in 1..m : f[i] = f[i - 1] + xs[i]
    BY <1>2, <1>4, <1>5
  <1>7. F(f)
    <2>1. f = [n \in 0..m |-> f[n]]
      BY <1>4
    <2>2. \A n \in 0..m : n = 0 \/ n \in 1..m
      BY <1>1
    <2>3. \A n \in 0..m : f[n] = IF n = 0 THEN 0 ELSE f[n - 1] + xs[n]
      BY <1>4, <1>6, <2>2
    <2> QED BY <2>1, <2>3
  <1>8. PICK g : g = CHOOSE h : F(h)
    OBVIOUS
  <1>9. F(g)
    <2> HIDE DEF F
    <2> QED BY <1>7, <1>8
  <1>10. Total(xs) = g[Len(xs)]
    BY <1>8 DEF Total
  <1>11. g[0] = 0 /\ \A n \in 1..m : g[n] = g[n - 1] + xs[n]
    <2>1. 0 \in 0..m /\ \A n \in 1..m : n \in 0..m /\ n # 0
      BY <1>1
    <2>2. \A n \in 0..m : g[n] = IF n = 0 THEN 0 ELSE g[n - 1] + xs[n]
      BY <1>9
    <2> QED BY <2>1, <2>2
  <1>12. g = f
    <2> DEFINE S == {n \in Nat : n <= m => g[n] = f[n]}
    <2>1. 0 \in S
      BY <1>4, <1>11
    <2>2. ASSUME NEW n \in Nat, n \in S PROVE n + 1 \in S
      <3>1. SUFFICES ASSUME n + 1 <= m PROVE g[n + 1] = f[n + 1]
        OBVIOUS
      <3>2. n + 1 \in 1..m /\ (n + 1) - 1 = n /\ g[n] = f[n]
        BY <1>1, <2>2, <3>1
      <3>3. f[n + 1] = f[n] + xs[n + 1] /\ g[n + 1] = g[n] + xs[n + 1]
        BY <1>6, <1>11, <3>2
      <3> QED BY <3>2, <3>3
    <2>3. Nat \subseteq S
      <3> HIDE DEF S
      <3> QED BY <2>1, <2>2, Ind
    <2>4. \A n \in 0..m : g[n] = f[n]
      BY <1>1, <2>3
    <2>5. f = [n \in 0..m |-> f[n]] /\ g = [n \in 0..m |-> g[n]]
      BY <1>4, <1>9
    <2> QED BY <2>4, <2>5
  <1> QED BY <1>4, <1>6, <1>10, <1>12 DEF SumsUp

LEMMA TotalEmpty == Total(<<>>) = 0
  <1>1. <<>> \in Seq(Int) /\ Len(<<>>) = 0
    OBVIOUS
  <1>2. PICK t \in [0..0 -> Int] : SumsUp(t, <<>>, 0) /\ Total(<<>>) = t[0]
    BY <1>1, TotalIs
  <1> QED BY <1>2 DEF SumsUp

LEMMA TotalAppend ==
  ASSUME NEW xs \in Seq(Int), NEW r \in Int
  PROVE  Total(Append(xs, r)) = Total(xs) + r /\ Total(xs) \in Int
  <1> DEFINE n == Len(xs)
             ys == Append(xs, r)
  <1>1. n \in Nat /\ ys \in Seq(Int) /\ Len(ys) = n + 1 /\ ys[n + 1] = r /\ \A k \in 1..n : ys[k] = xs[k]
    OBVIOUS
  <1>2. PICK t \in [0..n -> Int] : SumsUp(t, xs, n) /\ Total(xs) = t[n]
    BY TotalIs
  <1> HIDE DEF ys, n
  <1>3. PICK u \in [0..(n + 1) -> Int] : SumsUp(u, ys, n + 1) /\ Total(ys) = u[n + 1]
    BY <1>1, TotalIs
  <1> DEFINE S == {k \in Nat : k <= n => u[k] = t[k]}
  <1>4. 0 \in S
    BY <1>2, <1>3 DEF SumsUp
  <1>5. ASSUME NEW k \in Nat, k \in S PROVE k + 1 \in S
    <2>1. SUFFICES ASSUME k + 1 <= n PROVE u[k + 1] = t[k + 1]
      OBVIOUS
    <2>2. k + 1 \in 1..n /\ k + 1 \in 1..(n + 1) /\ (k + 1) - 1 = k /\ u[k] = t[k]
      BY <1>1, <1>5, <2>1
    <2>3. t[k + 1] = t[k] + xs[k + 1] /\ u[k + 1] = u[k] + ys[k + 1]
      BY <1>2, <1>3, <2>2 DEF SumsUp
    <2> QED BY <1>1, <2>2, <2>3
  <1>6. Nat \subseteq S
    <2> HIDE DEF S
    <2> QED BY <1>4, <1>5, Ind
  <1>7. u[n] = t[n] /\ t[n] \in Int
    BY <1>1, <1>2, <1>6
  <1>8. n + 1 \in 1..(n + 1) /\ (n + 1) - 1 = n
    BY <1>1
  <1>9. u[n + 1] = u[n] + ys[n + 1]
    BY <1>3, <1>8 DEF SumsUp
  <1> QED BY <1>1, <1>2, <1>3, <1>7, <1>9 DEF ys

LEMMA SquaresAppend ==
  ASSUME NEW xs \in Seq(Int), NEW r \in Int
  PROVE  Squares(xs) \in Seq(Int) /\ Squares(Append(xs, r)) = Append(Squares(xs), r * r)
  <1> DEFINE n == Len(xs)
             ys == Append(xs, r)
             q == Squares(xs)
             p == Squares(ys)
             a == Append(q, r * r)
  <1>1. n \in Nat /\ ys \in Seq(Int) /\ Len(ys) = n + 1 /\ ys[n + 1] = r /\ \A k \in 1..n : ys[k] = xs[k] /\ xs[k] \in Int
    OBVIOUS
  <1>2. q = [k \in 1..n |-> xs[k] * xs[k]]
    BY DEF Squares
  <1>3. \A k \in 1..n : xs[k] * xs[k] \in Int
    BY <1>1
  <1>4. q \in Seq(Int) /\ Len(q) = n
    BY <1>1, <1>2, <1>3
  <1>5. p = [k \in 1..(n + 1) |-> ys[k] * ys[k]]
    BY <1>1 DEF Squares
  <1>6. r * r \in Int
    OBVIOUS
  <1>7. a \in Seq(Int) /\ Len(a) = n + 1 /\ a[n + 1] = r * r /\ \A k \in 1..n : a[k] = q[k]
    BY <1>4, <1>6
  <1>8. \A k \in 1..(n + 1) : k \in 1..n \/ k = n + 1
    BY <1>1
  <1> HIDE DEF a, ys, n, p, q
  <1>9. \A k \in 1..(n + 1) : a[k] = ys[k] * ys[k]
    BY <1>1, <1>2, <1>7, <1>8
  <1>10. a = [k \in 1..(n + 1) |-> a[k]]
    BY <1>7
  <1>11. a = p
    BY <1>5, <1>9, <1>10
  <1> QED BY <1>4, <1>11 DEF a, p, q, ys


-----------------------------------------------------------------------------
(* The bitwise square root: R is the root found so far, b the next bit.    *)
Rooting(s, v, b) ==
  \E R \in Nat : /\ s = <<v - R * R, 2 * (R * b), b * b>>
                 /\ R * R <= v /\ v < (R + 2 * b) * (R + 2 * b)

LEMMA Binomial ==
  ASSUME NEW a \in Nat, NEW b \in Nat
  PROVE  /\ (a + b) * (a + b) = a * a + 2 * (a * b) + b * b
         /\ (a + b) * b = a * b + b * b
         /\ (a + 2 * b) * (a + 2 * b) = a * a + 4 * (a * b) + 4 * (b * b)
         /\ a * a \in Nat /\ a * b \in Nat /\ b * b \in Nat
  OBVIOUS

LEMMA RootFits ==
  ASSUME NEW s, NEW v \in Nat, NEW b \in Nat, b > 0, Rooting(s, v, b)
  PROVE  \E R \in Nat : /\ R * R <= v /\ v < (R + b) * (R + b)
                        /\ RootBit(s) = <<v - R * R, R * b, (b * b) \div 4>>
  <1>1. PICK R \in Nat : /\ s = <<v - R * R, 2 * (R * b), b * b>>
                         /\ R * R <= v /\ v < (R + 2 * b) * (R + 2 * b)
    BY DEF Rooting
  <1> DEFINE P == R * R
             Q == R * b
             B == b * b
             T == R + b
  <1>2. /\ T * T = P + 2 * Q + B /\ T * b = Q + B /\ (R + 2 * b) * (R + 2 * b) = P + 4 * Q + 4 * B
        /\ P \in Nat /\ Q \in Nat /\ B \in Nat /\ T \in Nat
    BY Binomial
  <1>3. s = <<v - P, 2 * Q, B>> /\ P <= v
    BY <1>1
  <1>4. (T + b) * (T + b) = (R + 2 * b) * (R + 2 * b)
    <2>1. T + b = R + 2 * b
      OBVIOUS
    <2> QED BY <2>1
  <1>5. CASE v - P >= 2 * Q + B
    <2> DEFINE sb == RootBit(s)
    <2> HIDE DEF P, Q, B, T
    <2>1. RootBit(s) = <<(v - P) - (2 * Q + B), (2 * Q + 2 * B) \div 2, B \div 4>>
      BY <1>3, <1>5 DEF RootBit
    <2>2. (v - P) - (2 * Q + B) = v - T * T /\ (2 * Q + 2 * B) \div 2 = T * b /\ T * T <= v
      BY <1>2, <1>5
    <2>3. v < (T + b) * (T + b)
      BY <1>1, <1>4
    <2> QED BY <1>2, <2>1, <2>2, <2>3 DEF B
  <1>6. CASE ~(v - P >= 2 * Q + B)
    <2> HIDE DEF P, Q, B, T
    <2>1. RootBit(s) = <<v - P, (2 * Q) \div 2, B \div 4>>
      BY <1>3, <1>6 DEF RootBit
    <2>2. (2 * Q) \div 2 = Q /\ v < T * T
      BY <1>2, <1>6
    <2> QED BY <1>1, <2>1, <2>2 DEF P, Q, B, T
  <1> QED BY <1>5, <1>6

LEMMA RootStep ==
  ASSUME NEW s, NEW v \in Nat, NEW c \in Nat, c > 0, Rooting(s, v, 2 * c)
  PROVE  Rooting(RootBit(s), v, c)
  <1>1. PICK R \in Nat : /\ R * R <= v /\ v < (R + 2 * c) * (R + 2 * c)
                         /\ RootBit(s) = <<v - R * R, R * (2 * c), ((2 * c) * (2 * c)) \div 4>>
    BY RootFits
  <1>2. R * (2 * c) = 2 * (R * c)
    OBVIOUS
  <1>3. ((2 * c) * (2 * c)) \div 4 = c * c
    <2>1. (2 * c) * (2 * c) = 4 * (c * c) /\ c * c \in Nat
      OBVIOUS
    <2> DEFINE C == c * c
    <2> HIDE DEF C
    <2>2. C \in Nat => (4 * C) \div 4 = C
      OBVIOUS
    <2> QED BY <2>1, <2>2 DEF C
  <1> QED BY <1>1, <1>2, <1>3 DEF Rooting

RootState == Int \X Int \X Int

RootRun(f, v) ==
  /\ f[0] = <<v, 0, ROOT_TOP>> /\ \A k \in 1..16 : f[k] = RootBit(f[k - 1])
  /\ isqrt32(v) = f[16][2]

LEMMA RootRecursion ==
  ASSUME NEW v \in Int
  PROVE  \E f : RootRun(f, v)
  <1> DEFINE base == <<v, 0, ROOT_TOP>>
             G == [a \in RootState \X (1..16) |-> RootBit(a[1])]
             F(f) == f = [k \in 0..16 |-> IF k = 0 THEN <<v, 0, ROOT_TOP>> ELSE RootBit(f[k - 1])]
  <1>0. ROOT_TOP \in Int
    BY SMT DEF ROOT_TOP
  <1>1. base \in RootState
    BY <1>0 DEF RootState
  <1>2. \A x \in RootState, i \in 1..16 : <<x, i>> \in RootState \X (1..16) /\ G[<<x, i>>] = RootBit(x)
    OBVIOUS
  <1>3. \A x \in RootState : RootBit(x) \in RootState
    BY DEF RootState, RootBit
  <1> HIDE DEF base, G
  <1>4. PICK f \in [0..16 -> RootState] : f[0] = base /\ \A i \in 1..16 : f[i] = G[<<f[i - 1], i>>]
    <2>1. StaysIn(RootState, 16, G)
      BY <1>2, <1>3 DEF StaysIn
    <2>2. Solvable(RootState, 16, base, G)
      BY <1>1, <2>1, Recursion
    <2> QED BY <2>2 DEF Solvable
  <1>5. \A i \in 1..16 : i - 1 \in 0..16
    OBVIOUS
  <1>6. \A i \in 1..16 : f[i] = RootBit(f[i - 1])
    BY <1>2, <1>4, <1>5
  <1>7. F(f)
    <2>1. f = [n \in 0..16 |-> f[n]]
      BY <1>4
    <2>2. \A n \in 0..16 : n = 0 \/ n \in 1..16
      OBVIOUS
    <2>3. \A n \in 0..16 : f[n] = IF n = 0 THEN <<v, 0, ROOT_TOP>> ELSE RootBit(f[n - 1])
      BY <1>4, <1>6, <2>2 DEF base
    <2> QED BY <2>1, <2>3
  <1>8. PICK g : g = CHOOSE h : F(h)
    OBVIOUS
  <1>9. F(g)
    <2> HIDE DEF F
    <2> QED BY <1>7, <1>8
  <1>10. isqrt32(v) = g[16][2]
    BY <1>8 DEF isqrt32
  <1>11. g[0] = <<v, 0, ROOT_TOP>> /\ \A n \in 1..16 : g[n] = RootBit(g[n - 1])
    <2>1. 0 \in 0..16 /\ \A n \in 1..16 : n \in 0..16 /\ n # 0
      OBVIOUS
    <2>2. \A n \in 0..16 : g[n] = IF n = 0 THEN <<v, 0, ROOT_TOP>> ELSE RootBit(g[n - 1])
      BY <1>9
    <2> QED BY <2>1, <2>2
  <1> QED BY <1>10, <1>11 DEF RootRun

Fits32(v) == v \in Nat /\ v < 65536 * 65536

(* isqrt32 is the root rounded down, for every 32-bit value.               *)
LEMMA Isqrt ==
  ASSUME NEW v, Fits32(v)
  PROVE  isqrt32(v) \in Nat /\ isqrt32(v) * isqrt32(v) <= v /\ v < (isqrt32(v) + 1) * (isqrt32(v) + 1)
  <1>00. v \in Nat /\ v < 65536 * 65536
    BY SMT DEF Fits32
  <1>0. PICK f : RootRun(f, v)
    <2>1. v \in Int
      BY <1>00, SMT
    <2> QED BY <2>1, RootRecursion
  <1>1. /\ f[0] = <<v, 0, ROOT_TOP>> /\ \A k \in 1..16 : f[k] = RootBit(f[k - 1])
        /\ isqrt32(v) = f[16][2]
    BY <1>0 DEF RootRun
  <1>2. Rooting(f[0], v, 32768)
    <2>1. f[0] = <<v - 0 * 0, 2 * (0 * 32768), 32768 * 32768>> /\ 0 * 0 <= v /\ v < (0 + 2 * 32768) * (0 + 2 * 32768)
      <3>1. ROOT_TOP = 32768 * 32768
        BY SMT DEF ROOT_TOP
      <3> QED BY <1>00, <1>1, <3>1, SMT
    <2>2. 0 \in Nat
      OBVIOUS
    <2> QED BY <1>00, <2>1, <2>2, SMT DEF Rooting
  <1> DEFINE H(k, c) == Rooting(f[k], v, 2 * c) => Rooting(f[k + 1], v, c)
  <1>3. ASSUME NEW k \in 0..14, NEW c \in Nat, c > 0 PROVE H(k, c)
    <2>1. k + 1 \in 1..16 /\ (k + 1) - 1 = k
      OBVIOUS
    <2>2. f[k + 1] = RootBit(f[k])
      BY <1>1, <2>1
    <2> QED BY <1>00, <1>3, <2>2, RootStep
  <1>4. \A k \in 0..14 : \A c \in Nat : c > 0 => H(k, c)
    BY <1>3
  <1> HIDE DEF H
  <1>5. H(0, 16384) /\ H(1, 8192) /\ H(2, 4096) /\ H(3, 2048) /\ H(4, 1024)
    BY <1>4, SMT
  <1>6. H(5, 512) /\ H(6, 256) /\ H(7, 128) /\ H(8, 64) /\ H(9, 32)
    BY <1>4, SMT
  <1>7. H(10, 16) /\ H(11, 8) /\ H(12, 4) /\ H(13, 2) /\ H(14, 1)
    BY <1>4, SMT
  <1>8. Rooting(f[5], v, 1024)
    <2>1. Rooting(f[1], v, 16384)
      BY <1>2, <1>5, SMT DEF H
    <2>2. Rooting(f[2], v, 8192)
      BY <2>1, <1>5, SMT DEF H
    <2>3. Rooting(f[3], v, 4096)
      BY <2>2, <1>5, SMT DEF H
    <2>4. Rooting(f[4], v, 2048)
      BY <2>3, <1>5, SMT DEF H
    <2> QED BY <2>4, <1>5, SMT DEF H
  <1>9. Rooting(f[10], v, 32)
    <2>1. Rooting(f[6], v, 512)
      BY <1>8, <1>6, SMT DEF H
    <2>2. Rooting(f[7], v, 256)
      BY <2>1, <1>6, SMT DEF H
    <2>3. Rooting(f[8], v, 128)
      BY <2>2, <1>6, SMT DEF H
    <2>4. Rooting(f[9], v, 64)
      BY <2>3, <1>6, SMT DEF H
    <2> QED BY <2>4, <1>6, SMT DEF H
  <1>10. Rooting(f[15], v, 1)
    <2>1. Rooting(f[11], v, 16)
      BY <1>9, <1>7, SMT DEF H
    <2>2. Rooting(f[12], v, 8)
      BY <2>1, <1>7, SMT DEF H
    <2>3. Rooting(f[13], v, 4)
      BY <2>2, <1>7, SMT DEF H
    <2>4. Rooting(f[14], v, 2)
      BY <2>3, <1>7, SMT DEF H
    <2> QED BY <2>4, <1>7, SMT DEF H
  <1>11. PICK R \in Nat : /\ R * R <= v /\ v < (R + 1) * (R + 1)
                          /\ RootBit(f[15]) = <<v - R * R, R * 1, (1 * 1) \div 4>>
    BY <1>00, <1>10, RootFits
  <1>12. f[16] = RootBit(f[15])
    <2>1. 16 \in 1..16 /\ 16 - 1 = 15
      OBVIOUS
    <2> QED BY <1>1, <2>1
  <1>13. isqrt32(v) = R
    BY <1>1, <1>11, <1>12
  <1> QED BY <1>11, <1>13


-----------------------------------------------------------------------------
(* The analog windows: an accumulator holds the count, the sums and the    *)
(* extremes of the samples it took.  The variance is not negative because  *)
(* the sum of the squares of xs[k] - r is not, for every r.                *)
Raws == 0..4095
AccType == [min : Int, max : Int, sum : Int, sumsq : Int, n : Nat]
Extremes(a, xs) ==
  /\ \E k \in 1..Len(xs) : xs[k] = a.min
  /\ \E k \in 1..Len(xs) : xs[k] = a.max
  /\ \A k \in 1..Len(xs) : a.min <= xs[k] /\ xs[k] <= a.max
Spread(n, S, Q) ==
  /\ S >= 0 /\ Q >= 0 /\ Q <= n * 16769025
  /\ n * Q >= S * S
  /\ \A r \in Int : Q + n * (r * r) >= 2 * (r * S)
AccOf(a, xs) ==
  /\ a \in AccType /\ xs \in Seq(Raws)
  /\ a.n = Len(xs) /\ a.sum = Total(xs) /\ a.sumsq = Total(Squares(xs))
  /\ a.n > 0 => Extremes(a, xs)
  /\ Spread(a.n, a.sum, a.sumsq)

LEMMA SpreadStart ==
  ASSUME NEW n \in Int, NEW S \in Int, NEW Q \in Int, n = 0, S = 0, Q = 0
  PROVE  Spread(n, S, Q)
  <1>1. ASSUME NEW r \in Int PROVE Q + n * (r * r) >= 2 * (r * S)
    <2> DEFINE R == r * r
    <2>1. R \in Int
      OBVIOUS
    <2> HIDE DEF R
    <2>2. n * R = 0 /\ r * S = 0
      BY <2>1, SMT
    <2> QED BY <2>2, SMT DEF R
  <1> QED BY <1>1, SMT DEF Spread

LEMMA SpreadTake ==
  ASSUME NEW n \in Nat, NEW S \in Int, NEW Q \in Int, NEW x \in Raws, Spread(n, S, Q)
  PROVE  Spread(n + 1, S + x, Q + x * x)
  <1>1. x \in Nat /\ x <= 4095 /\ x \in Int
    BY DEF Raws
  <1>2. x * x \in Nat /\ x * x <= 16769025
    BY <1>1, SMT
  <1>3. S + x >= 0 /\ Q + x * x >= 0
    BY <1>1, <1>2, SMT DEF Spread
  <1>4. Q + x * x <= (n + 1) * 16769025
    BY <1>2, SMT DEF Spread
  <1>5. (n + 1) * (Q + x * x) >= (S + x) * (S + x)
    <2> DEFINE X == x * x
               A == n * Q
               B == n * X
               C == S * S
               D == x * S
    <2>1. (n + 1) * (Q + X) = A + B + Q + X
      BY <1>1
    <2>2. (S + x) * (S + x) = C + 2 * D + X
      BY <1>1
    <2>3. A >= C /\ Q + B >= 2 * D
      BY <1>1 DEF Spread
    <2>4. A \in Int /\ B \in Int /\ C \in Int /\ D \in Int /\ X \in Int
      BY <1>1
    <2> HIDE DEF X, A, B, C, D
    <2>5. A + B + Q + X >= C + 2 * D + X
      BY <2>3, <2>4
    <2> QED BY <2>1, <2>2, <2>5 DEF X
  <1>6. ASSUME NEW r \in Int PROVE (Q + x * x) + (n + 1) * (r * r) >= 2 * (r * (S + x))
    <2> DEFINE X == x * x
               R == r * r
               A == n * R
               B == r * S
               D == r * x
               Z == x - r
    <2>1. (n + 1) * R = A + R /\ r * (S + x) = B + D
      BY <1>1
    <2>2. Q + A >= 2 * B
      BY DEF Spread
    <2>3. Z * Z = X + R - 2 * D /\ Z \in Int
      BY <1>1
    <2>4. A \in Int /\ B \in Int /\ D \in Int /\ R \in Int /\ X \in Int
      BY <1>1
    <2>5. \A z \in Int : z * z >= 0
      OBVIOUS
    <2>6. Z * Z >= 0
      BY <2>3, <2>5
    <2> HIDE DEF X, R, A, B, D, Z
    <2>7. (Q + X) + (A + R) >= 2 * (B + D)
      BY <2>2, <2>3, <2>4, <2>6
    <2> QED BY <2>1, <2>7 DEF X, R
  <1> QED BY <1>3, <1>4, <1>5, <1>6 DEF Spread

LEMMA Division ==
  ASSUME NEW D \in Nat, NEW N \in Nat, N > 0
  PROVE  D \div N \in Nat /\ N * (D \div N) <= D /\ D < N * ((D \div N) + 1)
  OBVIOUS

LEMMA DivisionBelow ==
  ASSUME NEW D \in Nat, NEW N \in Nat, N > 0, NEW M \in Nat, D <= N * M
  PROVE  D \div N <= M
  <1>1. D \div N \in Nat /\ N * (D \div N) <= D
    BY Division
  <1> DEFINE q == D \div N
  <1> HIDE DEF q
  <1>2. ASSUME q > M, q \in Nat, N * q <= D PROVE FALSE
    <2>1. q >= M + 1 /\ N * q >= N * (M + 1) /\ N * (M + 1) = N * M + N
      BY <1>2
    <2> QED BY <1>2, <2>1
  <1> QED BY <1>1, <1>2 DEF q

(* The variance of a window fits 32 bits, and is not negative.             *)
LEMMA VarianceFits ==
  ASSUME NEW n \in Nat, n > 0, NEW S \in Int, NEW Q \in Int, Spread(n, S, Q)
  PROVE  Fits32((n * Q - S * S) \div (n * n))
  <1> DEFINE D == n * Q - S * S
             N == n * n
             M == 16769025
  <1>1. D \in Nat
    BY DEF Spread
  <1>2. N \in Nat /\ N > 0
    OBVIOUS
  <1>3. D <= N * M
    <2>1. S * S >= 0
      OBVIOUS
    <2> DEFINE K == n * M
    <2>2. K \in Nat /\ Q <= K
      BY SMT DEF Spread
    <2>3. n * K = N * M
      BY SMT
    <2> HIDE DEF K, M
    <2>4. n * Q <= n * K
      BY <2>2
    <2>5. S * S \in Int /\ n * Q \in Int
      OBVIOUS
    <2> QED BY <2>1, <2>3, <2>4, <2>5, <2>2, SMT DEF D
  <1>4. M \in Nat /\ M < 65536 * 65536
    BY SMT
  <1> HIDE DEF D, N, M
  <1>5. D \div N \in Nat
    BY <1>1, <1>2, Division
  <1>6. D \div N <= M
    BY <1>1, <1>2, <1>3, <1>4, DivisionBelow
  <1>7. Fits32(D \div N)
    BY <1>4, <1>5, <1>6, SMT DEF Fits32
  <1> QED BY <1>7 DEF D, N


LEMMA RawsAreInts ==
  ASSUME NEW xs \in Seq(Raws)
  PROVE  xs \in Seq(Int) /\ Len(xs) \in Nat /\ \A k \in 1..Len(xs) : xs[k] \in Int
  <1>1. Raws \subseteq Int
    BY SMT DEF Raws
  <1>2. Len(xs) \in Nat /\ xs = [k \in 1..Len(xs) |-> xs[k]] /\ \A k \in 1..Len(xs) : xs[k] \in Raws
    OBVIOUS
  <1>3. \A k \in 1..Len(xs) : xs[k] \in Int
    BY <1>1, <1>2
  <1> QED BY <1>2, <1>3

LEMMA AccStart == AccOf(NoAcc, <<>>)
  <1>1. Len(<<>>) = 0 /\ <<>> \in Seq(Raws)
    OBVIOUS
  <1>2. Squares(<<>>) = <<>>
    BY <1>1 DEF Squares
  <1>3. NoAcc \in AccType /\ NoAcc.n = 0 /\ NoAcc.sum = 0 /\ NoAcc.sumsq = 0
    BY DEF NoAcc, AccType
  <1>4. Spread(NoAcc.n, NoAcc.sum, NoAcc.sumsq)
    BY <1>3, SpreadStart
  <1> QED BY <1>1, <1>2, <1>3, <1>4, TotalEmpty DEF AccOf

LEMMA ExtremesTake ==
  ASSUME NEW a, NEW xs, AccOf(a, xs), NEW x \in Raws
  PROVE  Extremes(IoTake(a, x), Append(xs, x))
  <1> DEFINE b == IoTake(a, x)
             n == Len(xs)
             ys == Append(xs, x)
  <1>1. xs \in Seq(Raws) /\ a \in AccType /\ a.n = n
    BY DEF AccOf
  <1>0. x \in Int
    BY SMT DEF Raws
  <1>2. n \in Nat /\ (\A k \in 1..n : xs[k] \in Int) /\ x \in Int
    BY <1>0, <1>1, RawsAreInts
  <1>3. Len(ys) = n + 1 /\ ys[n + 1] = x /\ \A k \in 1..n : ys[k] = xs[k]
    BY <1>1
  <1>4. \A k \in 1..(n + 1) : k \in 1..n \/ k = n + 1
    BY <1>2
  <1>5. n + 1 \in 1..(n + 1) /\ \A k \in 1..n : k \in 1..(n + 1)
    BY <1>2
  <1>6. a.min \in Int /\ a.max \in Int
    BY <1>1 DEF AccType
  <1>7. b.min = (IF a.n = 0 \/ x < a.min THEN x ELSE a.min) /\ b.max = (IF a.n = 0 \/ x > a.max THEN x ELSE a.max)
    BY DEF IoTake
  <1>8. CASE n = 0
    <2> HIDE DEF b, ys, n
    <2>1. b.min = x /\ b.max = x
      BY <1>1, <1>7, <1>8
    <2>2. \A k \in 1..(n + 1) : k = n + 1
      BY <1>8, <1>4
    <2>3. \A k \in 1..(n + 1) : ys[k] = x
      BY <2>2, <1>3
    <2>4. Extremes(b, ys)
      BY <1>2, <1>3, <1>5, <2>1, <2>3 DEF Extremes
    <2> QED BY <2>4 DEF b, ys
  <1>9. CASE n # 0
    <2>1. a.n > 0
      BY <1>1, <1>2, <1>9
    <2>2. Extremes(a, xs)
      BY <2>1 DEF AccOf
    <2> HIDE DEF b, ys
    <2>3. \E k \in 1..Len(ys) : ys[k] = b.min
      <3>1. CASE x < a.min
        BY <3>1, <1>3, <1>5, <1>7
      <3>2. CASE ~(x < a.min)
        <4>1. b.min = a.min
          BY <3>2, <2>1, <1>7, <1>2
        <4>2. PICK k \in 1..n : xs[k] = a.min
          BY <2>2 DEF Extremes
        <4> QED BY <4>1, <4>2, <1>3, <1>5
      <3> QED BY <3>1, <3>2
    <2>4. \E k \in 1..Len(ys) : ys[k] = b.max
      <3>1. CASE x > a.max
        BY <3>1, <1>3, <1>5, <1>7
      <3>2. CASE ~(x > a.max)
        <4>1. b.max = a.max
          BY <3>2, <2>1, <1>7, <1>2
        <4>2. PICK k \in 1..n : xs[k] = a.max
          BY <2>2 DEF Extremes
        <4> QED BY <4>1, <4>2, <1>3, <1>5
      <3> QED BY <3>1, <3>2
    <2>5. b.min <= a.min /\ b.min <= x /\ b.max >= a.max /\ b.max >= x /\ b.min \in Int /\ b.max \in Int
      BY <1>2, <1>6, <1>7, <2>1
    <2>6. ASSUME NEW k \in 1..Len(ys) PROVE b.min <= ys[k] /\ ys[k] <= b.max
      <3>1. CASE k = n + 1
        BY <3>1, <1>3, <2>5
      <3>2. CASE k \in 1..n
        <4>1. a.min <= xs[k] /\ xs[k] <= a.max /\ ys[k] = xs[k] /\ xs[k] \in Int
          BY <3>2, <2>2, <1>2, <1>3 DEF Extremes
        <4> QED BY <4>1, <2>5, <1>6
      <3> QED BY <3>1, <3>2, <1>3, <1>4
    <2>7. Extremes(b, ys)
      BY <2>3, <2>4, <2>6 DEF Extremes
    <2> QED BY <2>7 DEF b, ys
  <1> QED BY <1>8, <1>9

(* A sample taken is in the accumulator.                                   *)
LEMMA AccTake ==
  ASSUME NEW a, NEW xs, AccOf(a, xs), NEW x \in Raws
  PROVE  AccOf(IoTake(a, x), Append(xs, x))
  <1> DEFINE b == IoTake(a, x)
             ys == Append(xs, x)
  <1>1. /\ xs \in Seq(Raws) /\ a \in AccType /\ a.n = Len(xs) /\ a.sum = Total(xs) /\ a.sumsq = Total(Squares(xs))
        /\ Spread(a.n, a.sum, a.sumsq)
    BY DEF AccOf
  <1>0. x \in Int /\ x * x \in Int
    BY SMT DEF Raws
  <1>2. xs \in Seq(Int) /\ x \in Int /\ x * x \in Int
    BY <1>0, <1>1, RawsAreInts
  <1>3. Extremes(b, ys)
    BY ExtremesTake
  <1>4. ys \in Seq(Raws) /\ Len(ys) = Len(xs) + 1
    BY <1>1
  <1>5. b.sum = a.sum + x /\ b.sumsq = a.sumsq + x * x /\ b.n = a.n + 1
    BY DEF IoTake
  <1>6. Total(ys) = Total(xs) + x
    BY <1>2, TotalAppend
  <1>7. Squares(xs) \in Seq(Int) /\ Squares(ys) = Append(Squares(xs), x * x)
    BY <1>2, SquaresAppend
  <1>8. Total(Squares(ys)) = Total(Squares(xs)) + x * x
    BY <1>2, <1>7, TotalAppend
  <1>9. a.min \in Int /\ a.max \in Int /\ a.sum \in Int /\ a.sumsq \in Int /\ a.n \in Nat
    BY <1>1 DEF AccType
  <1>10. Spread(a.n + 1, a.sum + x, a.sumsq + x * x)
    BY <1>1, <1>9, SpreadTake
  <1>11. b \in AccType
    <2>1. a.sum + x \in Int /\ a.sumsq + x * x \in Int /\ a.n + 1 \in Nat
      BY <1>2, <1>9
    <2> QED BY <1>2, <1>9, <2>1 DEF IoTake, AccType
  <1> HIDE DEF b, ys
  <1>12. AccOf(b, ys)
    BY <1>1, <1>3, <1>4, <1>5, <1>6, <1>8, <1>10, <1>11 DEF AccOf
  <1> QED BY <1>12 DEF b, ys

StatType == [min : Int, max : Int, avg : Int, rms : Int, of : Nat]

(* What is published of a window are the figures of its samples.           *)
LEMMA StatFigures ==
  ASSUME NEW a, NEW xs, AccOf(a, xs), NEW k \in Nat
  PROVE  Stat(a, k) \in StatType /\ Stat(a, k).of = k /\ (xs # <<>> => Figures(xs, Stat(a, k)))
  <1> DEFINE s == Stat(a, k)
             n == a.n
             S == a.sum
             Q == a.sumsq
             var == (n * Q - S * S) \div (n * n)
  <1>1. /\ xs \in Seq(Raws) /\ a \in AccType /\ a.n = Len(xs) /\ a.sum = Total(xs) /\ a.sumsq = Total(Squares(xs))
        /\ Spread(n, S, Q) /\ (a.n > 0 => Extremes(a, xs))
    BY DEF AccOf
  <1>2. a.min \in Int /\ a.max \in Int /\ S \in Int /\ Q \in Int /\ n \in Nat
    BY <1>1 DEF AccType
  <1>3. s.of = k /\ s.min = a.min /\ s.max = a.max
    BY DEF Stat
  <1>4. CASE n = 0
    <2>1. xs = <<>>
      BY <1>1, <1>4, EmptySeq
    <2>2. s.avg = 0 /\ s.rms = 0
      BY <1>4 DEF Stat
    <2>3. s = [min |-> s.min, max |-> s.max, avg |-> s.avg, rms |-> s.rms, of |-> s.of]
      BY DEF Stat
    <2> HIDE DEF s
    <2>4. s \in StatType
      BY <1>2, <1>3, <2>2, <2>3 DEF StatType
    <2> QED BY <2>1, <2>4, <1>3 DEF s
  <1>5. CASE n # 0
    <2>1. n > 0
      BY <1>2, <1>5
    <2>2. s.avg = S \div n /\ s.rms = isqrt32(var)
      BY <1>5 DEF Stat
    <2>3. s = [min |-> s.min, max |-> s.max, avg |-> s.avg, rms |-> s.rms, of |-> s.of]
      BY DEF Stat
    <2>4. Fits32(var)
      BY <1>1, <1>2, <2>1, VarianceFits
    <2>5. S \in Nat
      BY <1>1, <1>2, SMT DEF Spread
    <2>6. S \div n \in Nat /\ n * (S \div n) <= S /\ S < n * ((S \div n) + 1)
      BY <1>2, <2>1, <2>5, Division
    <2>7. /\ var = (Len(xs) * Total(Squares(xs)) - Total(xs) * Total(xs)) \div (Len(xs) * Len(xs))
          /\ S = Total(xs) /\ n = Len(xs)
      BY <1>1
    <2> HIDE DEF s, var
    <2>8. isqrt32(var) \in Nat /\ isqrt32(var) * isqrt32(var) <= var /\ var < (isqrt32(var) + 1) * (isqrt32(var) + 1)
      BY <2>4, Isqrt
    <2>9. s \in StatType
      BY <1>2, <1>3, <2>2, <2>3, <2>6, <2>8 DEF StatType
    <2>10. Extremes(a, xs)
      BY <1>1, <2>1
    <2>11. Figures(xs, s)
      BY <1>3, <2>2, <2>6, <2>7, <2>8, <2>10 DEF Figures, Extremes
    <2> QED BY <2>9, <2>11, <1>3 DEF s
  <1> QED BY <1>4, <1>5


-----------------------------------------------------------------------------
(* The servo bank.  The insertion sort keeps a sorted list of the servos   *)
(* 0 .. k-1, each once.                                                    *)
Widths(n, us) == \A i \in 0..(n - 1) : us[i] \in Nat
SortedBy(q, us) == \A j, k \in 1..Len(q) : j <= k => us[q[j]] <= us[q[k]]
Lists(q, m) == /\ q \in Seq(0..(m - 1)) /\ Len(q) = m
               /\ \A i \in 0..(m - 1) : \E j \in 1..m : q[j] = i
               /\ \A j, k \in 1..m : q[j] = q[k] => j = k

InsertedAt(q, k, m) == SubSeq(q, 1, k) \o <<m>> \o SubSeq(q, k + 1, m)

(* The servos that are not wider are a prefix of the sorted list.          *)
LEMMA InsertAt ==
  ASSUME NEW m \in Nat, NEW us, Widths(m + 1, us), NEW q, Lists(q, m), SortedBy(q, us)
  PROVE  \E k \in 0..m : /\ Insert(q, m, us) = InsertedAt(q, k, m)
                         /\ \A j \in 1..m : us[q[j]] <= us[m] <=> j <= k
  <1> DEFINE T == {j \in 1..Len(q) : us[q[j]] <= us[m]}
             k == Cardinality(T)
  <1>1. Len(q) = m /\ (\A j \in 1..m : q[j] \in 0..(m - 1)) /\ q \in Seq(0..(m - 1))
    BY DEF Lists
  <1>2. us[m] \in Nat /\ \A j \in 1..m : us[q[j]] \in Nat
    <2>1. m \in 0..((m + 1) - 1) /\ \A i \in 0..(m - 1) : i \in 0..((m + 1) - 1)
      OBVIOUS
    <2> QED BY <1>1, <2>1 DEF Widths
  <1>3. ASSUME NEW i \in T, NEW j \in 1..m, j <= i PROVE j \in T
    <2>1. us[q[j]] <= us[q[i]] /\ us[q[i]] <= us[m] /\ i \in 1..m
      BY <1>1, <1>3 DEF SortedBy
    <2> QED BY <1>1, <1>2, <2>1
  <1>4. \E t \in 0..m : T = 1..t
    <2>1. CASE T = {}
      <3>1. T = 1..0 /\ 0 \in 0..m
        BY <2>1
      <3> QED BY <3>1
    <2>2. CASE T # {}
      <3>1. T \subseteq 0..m
        BY <1>1
      <3> HIDE DEF T
      <3>2. PICK t \in T : \A y \in T : y <= t
        BY <2>2, <3>1, Greatest
      <3>3. t \in 1..m
        BY <1>1, <3>2 DEF T
      <3>4. \A y \in T : y \in 1..t
        BY <1>1, <3>2, <3>3 DEF T
      <3>5. \A y \in 1..t : y \in 1..m /\ y <= t
        BY <3>3
      <3>6. \A y \in 1..t : y \in T
        BY <1>3, <3>2, <3>5
      <3>7. T = 1..t
        BY <3>4, <3>6
      <3> QED BY <3>3, <3>7
    <2> QED BY <2>1, <2>2
  <1>5. PICK t \in 0..m : T = 1..t
    BY <1>4
  <1>6. k = t
    <2>1. Cardinality(1..t) = IF 1 > t THEN 0 ELSE t - 1 + 1
      <3>1. 1 \in Int /\ t \in Int
        OBVIOUS
      <3> QED BY <3>1, FS_Interval
    <2> HIDE DEF T
    <2> QED BY <1>5, <2>1
  <1>7. Insert(q, m, us) = InsertedAt(q, k, m)
    BY <1>1 DEF Insert, InsertedAt
  <1>8. \A j \in 1..m : us[q[j]] <= us[m] <=> j <= t
    <2>1. \A j \in 1..m : j \in T <=> us[q[j]] <= us[m]
      BY <1>1
    <2>2. \A j \in 1..m : j \in 1..t <=> j <= t
      OBVIOUS
    <2> HIDE DEF T
    <2> QED BY <1>5, <2>1, <2>2
  <1> HIDE DEF k
  <1> QED BY <1>6, <1>7, <1>8

InsertedShape(p, q, k, m) ==
  /\ p \in Seq(0..m) /\ Len(p) = m + 1 /\ p[k + 1] = m
  /\ \A j \in 1..k : p[j] = q[j]
  /\ \A j \in (k + 2)..(m + 1) : p[j] = q[j - 1]

LEMMA InsertShape ==
  ASSUME NEW m \in Nat, NEW q, Lists(q, m), NEW k \in 0..m
  PROVE  InsertedShape(InsertedAt(q, k, m), q, k, m)
  <1> DEFINE p == InsertedAt(q, k, m)
             A == SubSeq(q, 1, k)
             B == SubSeq(q, k + 1, m)
             C == A \o <<m>>
  <1>1. q \in Seq(0..m) /\ Len(q) = m
    <2>1. Len(q) = m /\ q \in Seq(0..(m - 1))
      BY DEF Lists
    <2>2. 0..(m - 1) \subseteq 0..m
      OBVIOUS
    <2> QED BY <2>1, <2>2, SeqMonotonic
  <1>2. A \in Seq(0..m) /\ Len(A) = k /\ \A j \in 1..k : A[j] = q[j]
    BY <1>1
  <1>3. B \in Seq(0..m) /\ Len(B) = m - k /\ \A j \in 1..(m - k) : B[j] = q[k + j]
    <2>1. k + 1 \in 1..(m + 1) /\ m \in k..m
      OBVIOUS
    <2>2. B \in Seq(0..m) /\ Len(B) = m - k
      BY <1>1, <2>1
    <2>3. \A j \in 1..(m - k) : B[j] = q[k + 1 + j - 1] /\ k + 1 + j - 1 = k + j
      BY <1>1, <2>1
    <2> QED BY <2>2, <2>3
  <1>4. C \in Seq(0..m) /\ Len(C) = k + 1 /\ C[k + 1] = m /\ \A j \in 1..k : C[j] = A[j]
    <2>1. m \in 0..m /\ <<m>> \in Seq(0..m) /\ Len(<<m>>) = 1 /\ <<m>>[1] = m
      OBVIOUS
    <2> HIDE DEF A
    <2> QED BY <1>2, <2>1
  <1>5. p = C \o B
    BY DEF InsertedAt
  <1> HIDE DEF A, B, C, p
  <1>6. /\ p \in Seq(0..m) /\ Len(p) = (k + 1) + (m - k)
        /\ \A j \in 1..(k + 1) : p[j] = C[j]
        /\ \A j \in (k + 2)..((k + 1) + (m - k)) : p[j] = B[j - (k + 1)]
    <2>1. /\ p \in Seq(0..m) /\ Len(p) = Len(C) + Len(B)
          /\ \A i \in 1..(Len(C) + Len(B)) : p[i] = IF i <= Len(C) THEN C[i] ELSE B[i - Len(C)]
      <3>1. /\ C \o B \in Seq(0..m) /\ Len(C \o B) = Len(C) + Len(B)
            /\ \A i \in 1..(Len(C) + Len(B)) : (C \o B)[i] = IF i <= Len(C) THEN C[i] ELSE B[i - Len(C)]
        <4>1. C \in Seq(0..m) /\ B \in Seq(0..m)
          BY <1>3, <1>4
        <4> QED BY <4>1, ConcatProperties
      <3> QED BY <1>5, <3>1
    <2>2. Len(C) = k + 1 /\ Len(B) = m - k
      BY <1>3, <1>4
    <2>3. \A j \in 1..(k + 1) : j \in 1..((k + 1) + (m - k)) /\ j <= k + 1
      OBVIOUS
    <2>4. \A j \in (k + 2)..((k + 1) + (m - k)) : j \in 1..((k + 1) + (m - k)) /\ ~(j <= k + 1)
      OBVIOUS
    <2> QED BY <2>1, <2>2, <2>3, <2>4
  <1>7. (k + 1) + (m - k) = m + 1
    OBVIOUS
  <1>8. ASSUME NEW j \in (k + 2)..(m + 1) PROVE p[j] = q[j - 1]
    <2>1. j - (k + 1) \in 1..(m - k) /\ k + (j - (k + 1)) = j - 1
      OBVIOUS
    <2> QED BY <1>3, <1>6, <1>7, <2>1
  <1>9. k + 1 \in 1..(k + 1) /\ \A j \in 1..k : j \in 1..(k + 1)
    OBVIOUS
  <1>10. Len(p) = m + 1
    BY <1>6, <1>7
  <1>11. p[k + 1] = m
    BY <1>4, <1>6, <1>9
  <1>12. \A j \in 1..k : p[j] = q[j]
    BY <1>2, <1>4, <1>6, <1>9
  <1> QED BY <1>6, <1>8, <1>10, <1>11, <1>12 DEF InsertedShape, p


LEMMA InsertKeeps ==
  ASSUME NEW m \in Nat, NEW us, Widths(m + 1, us), NEW q, Lists(q, m), SortedBy(q, us)
  PROVE  Lists(Insert(q, m, us), m + 1) /\ SortedBy(Insert(q, m, us), us)
  <1> DEFINE p == Insert(q, m, us)
  <1>1. PICK k \in 0..m : /\ p = InsertedAt(q, k, m)
                          /\ \A j \in 1..m : us[q[j]] <= us[m] <=> j <= k
    BY InsertAt
  <1> HIDE DEF p
  <1>2. /\ p \in Seq(0..m) /\ Len(p) = m + 1 /\ p[k + 1] = m
        /\ \A j \in 1..k : p[j] = q[j]
        /\ \A j \in (k + 2)..(m + 1) : p[j] = q[j - 1]
    <2>1. InsertedShape(InsertedAt(q, k, m), q, k, m)
      BY InsertShape
    <2>2. InsertedShape(p, q, k, m)
      BY <1>1, <2>1
    <2> QED BY <2>2 DEF InsertedShape
  <1>3. /\ \A j \in 1..m : q[j] \in 0..(m - 1)
        /\ \A i \in 0..(m - 1) : \E j \in 1..m : q[j] = i
        /\ \A i, j \in 1..m : q[i] = q[j] => i = j
        /\ Len(q) = m
    BY DEF Lists
  <1>4. us[m] \in Nat /\ \A j \in 1..m : us[q[j]] \in Nat
    <2>1. m \in 0..((m + 1) - 1) /\ \A i \in 0..(m - 1) : i \in 0..((m + 1) - 1)
      OBVIOUS
    <2> QED BY <1>3, <2>1 DEF Widths
  <1>5. \A j \in 1..(m + 1) : j \in 1..k \/ j = k + 1 \/ j \in (k + 2)..(m + 1)
    OBVIOUS
  <1>6. \A j \in (k + 2)..(m + 1) : j - 1 \in 1..m /\ ~(j - 1 <= k)
    OBVIOUS
  <1>7. \A j \in 1..k : j \in 1..m /\ j <= k
    OBVIOUS
  \* where an element of p comes from
  <1> DEFINE from(j) == IF j <= k THEN j ELSE j - 1
  <1>8. ASSUME NEW j \in 1..(m + 1), j # k + 1 PROVE from(j) \in 1..m /\ p[j] = q[from(j)]
    <2>1. CASE j \in 1..k
      BY <2>1, <1>2, <1>7
    <2>2. CASE j \in (k + 2)..(m + 1)
      <3>1. ~(j <= k)
        BY <2>2
      <3> QED BY <2>2, <3>1, <1>2, <1>6
    <2> QED BY <2>1, <2>2, <1>5, <1>8
  <1>9. \A i, j \in 1..(m + 1) : (i # k + 1 /\ j # k + 1 /\ i < j) => from(i) < from(j)
    OBVIOUS
  <1>10. SortedBy(p, us)
    <2>1. SUFFICES ASSUME NEW i \in 1..(m + 1), NEW j \in 1..(m + 1), i < j PROVE us[p[i]] <= us[p[j]]
      <3>1. \A i \in 1..(m + 1) : us[p[i]] \in Nat
        <4> SUFFICES ASSUME NEW i \in 1..(m + 1) PROVE us[p[i]] \in Nat
          OBVIOUS
        <4>1. CASE i = k + 1
          BY <4>1, <1>2, <1>4
        <4>2. CASE i # k + 1
          BY <4>2, <1>4, <1>8
        <4> QED BY <4>1, <4>2
      <3> QED BY <1>2, <3>1 DEF SortedBy
    <2>2. CASE i = k + 1
      <3>1. j \in (k + 2)..(m + 1)
        BY <2>1, <2>2
      <3>2. p[j] = q[j - 1] /\ j - 1 \in 1..m /\ ~(us[q[j - 1]] <= us[m])
        BY <3>1, <1>1, <1>2, <1>6
      <3>3. us[q[j - 1]] \in Nat
        BY <1>4, <3>2
      <3>4. us[m] <= us[q[j - 1]]
        BY <1>4, <3>2, <3>3
      <3> QED BY <2>2, <3>2, <3>4, <1>2
    <2>3. CASE j = k + 1
      <3>1. i \in 1..k
        BY <2>1, <2>3
      <3> QED BY <2>3, <3>1, <1>1, <1>2, <1>7
    <2>4. CASE i # k + 1 /\ j # k + 1
      <3>1. from(i) \in 1..m /\ from(j) \in 1..m /\ from(i) < from(j) /\ p[i] = q[from(i)] /\ p[j] = q[from(j)]
        BY <2>1, <2>4, <1>8, <1>9
      <3>2. from(i) <= from(j)
        BY <3>1
      <3> HIDE DEF from
      <3>3. us[q[from(i)]] <= us[q[from(j)]]
        BY <1>3, <3>1, <3>2 DEF SortedBy
      <3> QED BY <3>1, <3>3
    <2> QED BY <2>2, <2>3, <2>4
  <1>11. \A i \in 0..((m + 1) - 1) : \E j \in 1..(m + 1) : p[j] = i
    <2> SUFFICES ASSUME NEW i \in 0..((m + 1) - 1) PROVE \E j \in 1..(m + 1) : p[j] = i
      OBVIOUS
    <2>1. CASE i = m
      <3>1. k + 1 \in 1..(m + 1)
        OBVIOUS
      <3> QED BY <2>1, <3>1, <1>2
    <2>2. CASE i # m
      <3>1. i \in 0..(m - 1)
        BY <2>2
      <3>2. PICK j \in 1..m : q[j] = i
        BY <3>1, <1>3
      <3>3. CASE j <= k
        <4>1. j \in 1..k /\ j \in 1..(m + 1)
          BY <3>3
        <4> QED BY <4>1, <3>2, <1>2
      <3>4. CASE ~(j <= k)
        <4>1. j + 1 \in (k + 2)..(m + 1) /\ j + 1 \in 1..(m + 1) /\ (j + 1) - 1 = j
          BY <3>4
        <4> QED BY <4>1, <3>2, <1>2
      <3> QED BY <3>3, <3>4
    <2> QED BY <2>1, <2>2
  <1>12. ASSUME NEW i \in 1..(m + 1), NEW j \in 1..(m + 1), p[i] = p[j] PROVE i = j
    <2>1. \A l \in 1..(m + 1) : l # k + 1 => p[l] # m
      <3>1. \A l \in 1..m : q[l] # m
        BY <1>3
      <3> QED BY <3>1, <1>8
    <2>2. CASE i = k + 1 \/ j = k + 1
      BY <2>1, <2>2, <1>2, <1>12
    <2>3. CASE i # k + 1 /\ j # k + 1
      <3>1. from(i) \in 1..m /\ from(j) \in 1..m /\ p[i] = q[from(i)] /\ p[j] = q[from(j)]
        BY <2>3, <1>8
      <3>2. from(i) = from(j)
        <4> HIDE DEF from
        <4> QED BY <3>1, <1>3, <1>12
      <3> QED BY <2>3, <3>2
    <2> QED BY <2>2, <2>3
  <1>13. Lists(p, m + 1)
    <2>1. (m + 1) - 1 = m
      OBVIOUS
    <2> QED BY <1>2, <1>11, <1>12, <2>1 DEF Lists
  <1> QED BY <1>10, <1>13 DEF p


(* ByWidth lists every servo once, by width.                               *)
LEMMA ByWidthSorts ==
  ASSUME NEW n \in Nat, NEW us, Widths(n, us)
  PROVE  Lists(ByWidth(n, us), n) /\ SortedBy(ByWidth(n, us), us)
  <1> DEFINE Good(q, m) == Lists(q, m) /\ SortedBy(q, us)
             X == {q \in Seq(0..(n - 1)) : Len(q) <= n /\ Good(q, Len(q))}
             step(q, i) == IF Len(q) = i - 1 THEN Insert(q, i - 1, us) ELSE <<>>
             G == [a \in X \X (1..n) |-> step(a[1], a[2])]
             F(f) == f = [k \in 0..n |-> IF k = 0 THEN <<>> ELSE Insert(f[k - 1], k - 1, us)]
  <1>1. <<>> \in X
    <2>1. <<>> \in Seq(0..(n - 1)) /\ <<>> \in Seq(0..(0 - 1)) /\ Len(<<>>) = 0 /\ 1..0 = {} /\ 0..(0 - 1) = {}
      OBVIOUS
    <2> QED BY <2>1 DEF Lists, SortedBy
  <1>2. ASSUME NEW q, NEW m \in 0..(n - 1), Good(q, m) PROVE Good(Insert(q, m, us), m + 1)
    <2>1. Widths(m + 1, us)
      BY DEF Widths
    <2> QED BY <1>2, <2>1, InsertKeeps
  <1>3. ASSUME NEW q, NEW m \in 0..n, Good(q, m) PROVE q \in X /\ Len(q) = m
    <2>1. q \in Seq(0..(m - 1)) /\ Len(q) = m
      BY <1>3 DEF Lists
    <2>2. 0..(m - 1) \subseteq 0..(n - 1)
      OBVIOUS
    <2>3. q \in Seq(0..(n - 1))
      BY <2>1, <2>2, SeqMonotonic
    <2> QED BY <1>3, <2>1, <2>3
  <1>4. \A q \in X, i \in 1..n : <<q, i>> \in X \X (1..n) /\ G[<<q, i>>] = step(q, i)
    OBVIOUS
  <1>5. ASSUME NEW q \in X, NEW i \in 1..n PROVE step(q, i) \in X
    <2>1. CASE Len(q) = i - 1
      <3>1. Good(q, i - 1) /\ i - 1 \in 0..(n - 1)
        BY <2>1
      <3>2. Good(Insert(q, i - 1, us), (i - 1) + 1) /\ (i - 1) + 1 \in 0..n
        BY <1>2, <3>1
      <3>3. Insert(q, i - 1, us) \in X
        BY <1>3, <3>2
      <3> QED BY <2>1, <3>3
    <2>2. CASE Len(q) # i - 1
      BY <2>2, <1>1
    <2> QED BY <2>1, <2>2
  <1> HIDE DEF X, G, step
  <1>6. PICK f \in [0..n -> X] : f[0] = <<>> /\ \A i \in 1..n : f[i] = G[<<f[i - 1], i>>]
    <2>1. StaysIn(X, n, G)
      BY <1>4, <1>5 DEF StaysIn
    <2>2. Solvable(X, n, <<>>, G)
      BY <1>1, <2>1, Recursion
    <2> QED BY <2>2 DEF Solvable
  <1>7. \A i \in 1..n : i - 1 \in 0..n
    OBVIOUS
  <1>8. \A i \in 1..n : f[i] = step(f[i - 1], i)
    BY <1>4, <1>6, <1>7
  <1> DEFINE S == {k \in Nat : k <= n => Good(f[k], k)}
  <1>9. Good(<<>>, 0)
    <2>1. <<>> \in Seq(0..(0 - 1)) /\ Len(<<>>) = 0 /\ 1..0 = {} /\ 0..(0 - 1) = {}
      OBVIOUS
    <2> QED BY <2>1 DEF Lists, SortedBy
  <1>10. Nat \subseteq S
    <2>1. 0 \in S
      BY <1>6, <1>9
    <2>2. ASSUME NEW k \in Nat, k \in S PROVE k + 1 \in S
      <3>1. SUFFICES ASSUME k + 1 <= n PROVE Good(f[k + 1], k + 1)
        OBVIOUS
      <3>2. Good(f[k], k) /\ k \in 0..(n - 1) /\ k \in 0..n /\ k + 1 \in 1..n /\ (k + 1) - 1 = k
        BY <2>2, <3>1
      <3>3. Len(f[k]) = k
        BY <3>2 DEF Lists
      <3>4. f[k + 1] = Insert(f[k], k, us)
        BY <1>8, <3>2, <3>3 DEF step
      <3> QED BY <1>2, <3>2, <3>4
    <2>3. \A k \in Nat : k \in S => k + 1 \in S
      BY <2>2
    <2> HIDE DEF S
    <2> QED BY <2>1, <2>3, Ind
  <1>11. \A k \in 0..n : Good(f[k], k)
    BY <1>10
  <1>12. \A i \in 1..n : f[i] = Insert(f[i - 1], i - 1, us)
    <2> SUFFICES ASSUME NEW i \in 1..n PROVE f[i] = Insert(f[i - 1], i - 1, us)
      OBVIOUS
    <2>1. Len(f[i - 1]) = i - 1
      BY <1>7, <1>11 DEF Lists
    <2> QED BY <1>8, <2>1 DEF step
  <1> HIDE DEF Good
  <1>13. F(f)
    <2>1. f = [k \in 0..n |-> f[k]]
      BY <1>6
    <2>2. \A k \in 0..n : k = 0 \/ k \in 1..n
      OBVIOUS
    <2>3. \A k \in 0..n : f[k] = IF k = 0 THEN <<>> ELSE Insert(f[k - 1], k - 1, us)
      BY <1>6, <1>12, <2>2
    <2> QED BY <2>1, <2>3
  <1>14. PICK g : g = CHOOSE h : F(h)
    OBVIOUS
  <1>15. F(g)
    <2> HIDE DEF F
    <2> QED BY <1>13, <1>14
  <1>16. ByWidth(n, us) = g[n]
    BY <1>14 DEF ByWidth
  <1>17. g[0] = <<>> /\ \A k \in 1..n : g[k] = Insert(g[k - 1], k - 1, us)
    <2>1. 0 \in 0..n /\ \A k \in 1..n : k \in 0..n /\ k # 0
      OBVIOUS
    <2>2. \A k \in 0..n : g[k] = IF k = 0 THEN <<>> ELSE Insert(g[k - 1], k - 1, us)
      BY <1>15
    <2> QED BY <2>1, <2>2
  <1> HIDE DEF F
  <1> DEFINE Y == {k \in Nat : k <= n => g[k] = f[k]}
  <1>18. Nat \subseteq Y
    <2>1. 0 \in Y
      BY <1>6, <1>17
    <2>2. ASSUME NEW k \in Nat, k \in Y PROVE k + 1 \in Y
      <3>1. SUFFICES ASSUME k + 1 <= n PROVE g[k + 1] = f[k + 1]
        OBVIOUS
      <3>2. g[k] = f[k] /\ k + 1 \in 1..n /\ (k + 1) - 1 = k
        BY <2>2, <3>1
      <3> QED BY <1>12, <1>17, <3>2
    <2>3. \A k \in Nat : k \in Y => k + 1 \in Y
      BY <2>2
    <2> HIDE DEF Y
    <2> QED BY <2>1, <2>3, Ind
  <1>19. g[n] = f[n] /\ n \in 0..n
    BY <1>18
  <1> QED BY <1>11, <1>16, <1>19 DEF Good


(* How long a word more makes a list of words last, and hold a servo high. *)
Word(n) == [high : SUBSET (0..(n - 1)), for : Nat]
Fors(ws) == [k \in 1..Len(ws) |-> ws[k].for]
Highs(ws, i) == [k \in 1..Len(ws) |-> IF i \in ws[k].high THEN ws[k].for ELSE 0]

LEMMA ForsAppend ==
  ASSUME NEW n \in Nat, NEW ws \in Seq(Word(n)), NEW w \in Word(n)
  PROVE  Fors(ws) \in Seq(Int) /\ Fors(Append(ws, w)) = Append(Fors(ws), w.for)
  <1> DEFINE m == Len(ws)
             vs == Append(ws, w)
             a == Append(Fors(ws), w.for)
  <1>1. m \in Nat /\ Len(vs) = m + 1 /\ vs[m + 1] = w /\ \A k \in 1..m : vs[k] = ws[k] /\ ws[k] \in Word(n)
    OBVIOUS
  <1>2. w.for \in Int /\ \A k \in 1..m : ws[k].for \in Int
    BY <1>1 DEF Word
  <1>3. Fors(ws) = [k \in 1..m |-> ws[k].for]
    BY DEF Fors
  <1>4. Fors(ws) \in Seq(Int) /\ Len(Fors(ws)) = m
    BY <1>1, <1>2, <1>3
  <1>5. a \in Seq(Int) /\ Len(a) = m + 1 /\ a[m + 1] = w.for /\ \A k \in 1..m : a[k] = Fors(ws)[k]
    BY <1>2, <1>4
  <1>6. Fors(vs) = [k \in 1..(m + 1) |-> vs[k].for]
    BY <1>1 DEF Fors
  <1>7. \A k \in 1..(m + 1) : k \in 1..m \/ k = m + 1
    BY <1>1
  <1> HIDE DEF a, vs, m
  <1>8. \A k \in 1..(m + 1) : a[k] = vs[k].for
    BY <1>1, <1>3, <1>5, <1>7
  <1>9. a = [k \in 1..(m + 1) |-> a[k]]
    BY <1>5
  <1>10. a = Fors(vs)
    BY <1>6, <1>8, <1>9
  <1> QED BY <1>4, <1>10 DEF a, vs

LEMMA HighsAppend ==
  ASSUME NEW n \in Nat, NEW ws \in Seq(Word(n)), NEW w \in Word(n), NEW i
  PROVE  /\ Highs(ws, i) \in Seq(Int)
         /\ Highs(Append(ws, w), i) = Append(Highs(ws, i), IF i \in w.high THEN w.for ELSE 0)
  <1> DEFINE m == Len(ws)
             vs == Append(ws, w)
             val(x) == IF i \in x.high THEN x.for ELSE 0
             a == Append(Highs(ws, i), val(w))
  <1>1. m \in Nat /\ Len(vs) = m + 1 /\ vs[m + 1] = w /\ \A k \in 1..m : vs[k] = ws[k] /\ ws[k] \in Word(n)
    OBVIOUS
  <1>2. \A x \in Word(n) : val(x) \in Int
    BY DEF Word
  <1>3. Highs(ws, i) = [k \in 1..m |-> val(ws[k])]
    BY DEF Highs
  <1>4. Highs(vs, i) = [k \in 1..(m + 1) |-> val(vs[k])]
    BY <1>1 DEF Highs
  <1> HIDE DEF val
  <1>5. val(w) \in Int /\ \A k \in 1..m : val(ws[k]) \in Int
    BY <1>1, <1>2
  <1>6. Highs(ws, i) \in Seq(Int) /\ Len(Highs(ws, i)) = m
    BY <1>1, <1>3, <1>5
  <1>7. a \in Seq(Int) /\ Len(a) = m + 1 /\ a[m + 1] = val(w) /\ \A k \in 1..m : a[k] = Highs(ws, i)[k]
    BY <1>5, <1>6
  <1>8. \A k \in 1..(m + 1) : k \in 1..m \/ k = m + 1
    BY <1>1
  <1> HIDE DEF a, vs, m
  <1>9. \A k \in 1..(m + 1) : a[k] = val(vs[k])
    BY <1>1, <1>3, <1>7, <1>8
  <1>10. a = [k \in 1..(m + 1) |-> a[k]]
    BY <1>7
  <1>11. a = Highs(vs, i)
    BY <1>4, <1>9, <1>10
  <1> QED BY <1>6, <1>11 DEF a, vs, val

LEMMA WordAppend ==
  ASSUME NEW n \in Nat, NEW ws \in Seq(Word(n)), NEW w \in Word(n)
  PROVE  /\ Lasts(ws) \in Int /\ Lasts(Append(ws, w)) = Lasts(ws) + w.for
         /\ \A i : /\ HoldsUp(ws, i) \in Int
                   /\ i \in w.high => HoldsUp(Append(ws, w), i) = HoldsUp(ws, i) + w.for
                   /\ i \notin w.high => HoldsUp(Append(ws, w), i) = HoldsUp(ws, i)
  <1>1. w.for \in Int
    BY DEF Word
  <1>2. Lasts(ws) \in Int /\ Lasts(Append(ws, w)) = Lasts(ws) + w.for
    <2>1. \A vs : Lasts(vs) = Total(Fors(vs))
      BY DEF Lasts, Fors
    <2>2. Fors(ws) \in Seq(Int) /\ Fors(Append(ws, w)) = Append(Fors(ws), w.for)
      BY ForsAppend
    <2>3. Total(Append(Fors(ws), w.for)) = Total(Fors(ws)) + w.for /\ Total(Fors(ws)) \in Int
      BY <1>1, <2>2, TotalAppend
    <2> QED BY <2>1, <2>2, <2>3
  <1>3. ASSUME NEW i
        PROVE  /\ HoldsUp(ws, i) \in Int
               /\ i \in w.high => HoldsUp(Append(ws, w), i) = HoldsUp(ws, i) + w.for
               /\ i \notin w.high => HoldsUp(Append(ws, w), i) = HoldsUp(ws, i)
    <2> DEFINE x == IF i \in w.high THEN w.for ELSE 0
    <2>1. \A vs : HoldsUp(vs, i) = Total(Highs(vs, i))
      BY DEF HoldsUp, Highs
    <2>2. Highs(ws, i) \in Seq(Int) /\ Highs(Append(ws, w), i) = Append(Highs(ws, i), x)
      BY HighsAppend
    <2>3. x \in Int /\ (i \in w.high => x = w.for) /\ (i \notin w.high => x = 0)
      BY <1>1
    <2> HIDE DEF x
    <2>4. Total(Append(Highs(ws, i), x)) = Total(Highs(ws, i)) + x /\ Total(Highs(ws, i)) \in Int
      BY <2>2, <2>3, TotalAppend
    <2>5. HoldsUp(Append(ws, w), i) = HoldsUp(ws, i) + x /\ HoldsUp(ws, i) \in Int
      BY <2>1, <2>2, <2>4
    <2> QED BY <2>3, <2>5
  <1> QED BY <1>2, <1>3

LEMMA NoWords == Lasts(<<>>) = 0 /\ \A i : HoldsUp(<<>>, i) = 0
  <1>1. Len(<<>>) = 0 /\ 1..0 = {}
    OBVIOUS
  <1>2. Fors(<<>>) = <<>> /\ \A i : Highs(<<>>, i) = <<>>
    BY <1>1 DEF Fors, Highs
  <1>3. Lasts(<<>>) = Total(Fors(<<>>)) /\ \A i : HoldsUp(<<>>, i) = Total(Highs(<<>>, i))
    BY DEF Lasts, Fors, HoldsUp, Highs
  <1> QED BY <1>2, <1>3, TotalEmpty


(* The words laid out so far give every servo that is done its width, and  *)
(* every other one the width of the last that is done.                     *)
BankType(n) == [words : Seq(Word(n)), mask : SUBSET (0..(n - 1)), prev : Nat]
Done(q, k) == {q[j] : j \in 1..k}
BankOf(s, q, k, n, us) ==
  /\ s \in BankType(n) /\ Len(s.words) <= k
  /\ s.mask = (0..(n - 1)) \ Done(q, k)
  /\ \A j \in (k + 1)..n : s.prev <= us[q[j]]
  /\ s.prev = IF k = 0 THEN 0 ELSE us[q[k]]
  /\ Lasts(s.words) = s.prev
  /\ \A i \in 0..(n - 1) : HoldsUp(s.words, i) = IF i \in s.mask THEN s.prev ELSE us[i]

LEMMA AddServoType ==
  ASSUME NEW n \in Nat, NEW us, Widths(n, us), NEW s \in BankType(n), NEW i \in 0..(n - 1)
  PROVE  /\ AddServo(s, i, us) \in BankType(n)
         /\ us[i] > s.prev => [high |-> s.mask, for |-> us[i] - s.prev] \in Word(n)
  <1> DEFINE w == [high |-> s.mask, for |-> us[i] - s.prev]
             t == AddServo(s, i, us)
  <1>1. us[i] \in Nat /\ s.prev \in Nat /\ s.words \in Seq(Word(n)) /\ s.mask \in SUBSET (0..(n - 1))
    BY DEF Widths, BankType
  <1>2. us[i] > s.prev => w \in Word(n)
    BY <1>1 DEF Word
  <1>3. us[i] > s.prev => Append(s.words, w) \in Seq(Word(n))
    <2> HIDE DEF w
    <2> QED BY <1>1, <1>2
  <1>4. (IF us[i] > s.prev THEN Append(s.words, w) ELSE s.words) \in Seq(Word(n))
    <2> HIDE DEF w
    <2> QED BY <1>1, <1>3
  <1>5. s.mask \ {i} \in SUBSET (0..(n - 1))
    BY <1>1
  <1>6. AddServo(s, i, us) \in BankType(n)
    BY <1>1, <1>4, <1>5 DEF AddServo, BankType
  <1> QED BY <1>2, <1>6

LEMMA AddServoKeeps ==
  ASSUME NEW n \in Nat, NEW us, Widths(n, us), NEW q, Lists(q, n), SortedBy(q, us),
         NEW k \in 0..(n - 1), NEW s, BankOf(s, q, k, n, us)
  PROVE  BankOf(AddServo(s, q[k + 1], us), q, k + 1, n, us)
  <1> DEFINE i == q[k + 1]
             t == AddServo(s, i, us)
             w == [high |-> s.mask, for |-> us[i] - s.prev]
  <1>1. k + 1 \in 1..n /\ k + 1 \in (k + 1)..n
    OBVIOUS
  <1>2. (\A j \in 1..n : q[j] \in 0..(n - 1)) /\ (\A j, l \in 1..n : q[j] = q[l] => j = l) /\ Len(q) = n
    <2>1. q \in Seq(0..(n - 1)) /\ Len(q) = n /\ \A j, l \in 1..n : q[j] = q[l] => j = l
      BY DEF Lists
    <2>2. \A j \in 1..n : q[j] \in 0..(n - 1)
      BY <2>1
    <2> QED BY <2>1, <2>2
  <1>3. i \in 0..(n - 1) /\ us[i] \in Nat /\ us[i] >= s.prev /\ s.prev \in Nat
    <2>1. i \in 0..(n - 1)
      BY <1>1, <1>2
    <2>2. us[i] \in Nat
      BY <2>1 DEF Widths
    <2>3. s.prev \in Nat /\ s.prev <= us[i]
      BY <1>1 DEF BankOf, BankType
    <2> QED BY <2>1, <2>2, <2>3
  <1>4. s \in BankType(n) /\ s.words \in Seq(Word(n)) /\ Len(s.words) \in Nat /\ Len(s.words) <= k
    BY DEF BankOf, BankType
  <1>5. t \in BankType(n) /\ (us[i] > s.prev => w \in Word(n))
    BY <1>3, <1>4, AddServoType
  <1>6. /\ t.words = (IF us[i] > s.prev THEN Append(s.words, w) ELSE s.words)
        /\ t.mask = s.mask \ {i} /\ t.prev = us[i]
    BY DEF AddServo
  <1>7. i \in s.mask
    <2>1. \A j \in 1..k : j \in 1..n /\ j # k + 1
      OBVIOUS
    <2>2. i \notin Done(q, k)
      BY <1>1, <1>2, <2>1 DEF Done
    <2> QED BY <1>3, <2>2 DEF BankOf
  <1>8. t.mask = (0..(n - 1)) \ Done(q, k + 1)
    <2>1. \A j \in 1..(k + 1) : j \in 1..k \/ j = k + 1
      OBVIOUS
    <2>2. k + 1 \in 1..(k + 1) /\ \A j \in 1..k : j \in 1..(k + 1)
      OBVIOUS
    <2>3. Done(q, k + 1) = Done(q, k) \cup {i}
      BY <2>1, <2>2 DEF Done
    <2>4. s.mask = (0..(n - 1)) \ Done(q, k)
      BY DEF BankOf
    <2> HIDE DEF i, t
    <2> QED BY <1>6, <2>3, <2>4
  <1>9. \A j \in ((k + 1) + 1)..n : t.prev <= us[q[j]]
    <2> SUFFICES ASSUME NEW j \in ((k + 1) + 1)..n PROVE us[i] <= us[q[j]]
      BY <1>6
    <2>1. j \in 1..n /\ k + 1 <= j
      OBVIOUS
    <2> QED BY <1>1, <1>2, <2>1 DEF SortedBy
  <1>10. /\ Lasts(s.words) = s.prev
         /\ \A l \in 0..(n - 1) : HoldsUp(s.words, l) = IF l \in s.mask THEN s.prev ELSE us[l]
    BY DEF BankOf
  <1>11. /\ Len(t.words) <= k + 1 /\ Lasts(t.words) = t.prev
         /\ \A l \in 0..(n - 1) : HoldsUp(t.words, l) = IF l \in s.mask THEN t.prev ELSE us[l]
    <2>1. CASE us[i] > s.prev
      <3>1. w \in Word(n) /\ t.words = Append(s.words, w) /\ w.high = s.mask /\ w.for = us[i] - s.prev
        BY <1>5, <1>6, <2>1
      <3> HIDE DEF w, t, i
      <3>2. /\ Lasts(t.words) = Lasts(s.words) + w.for
            /\ \A l : /\ l \in w.high => HoldsUp(t.words, l) = HoldsUp(s.words, l) + w.for
                      /\ l \notin w.high => HoldsUp(t.words, l) = HoldsUp(s.words, l)
        BY <1>4, <3>1, WordAppend
      <3>3. Lasts(t.words) = t.prev
        BY <1>3, <1>6, <1>10, <3>1, <3>2
      <3>4. Len(t.words) <= k + 1
        BY <1>4, <3>1
      <3>5. ASSUME NEW l \in 0..(n - 1) PROVE HoldsUp(t.words, l) = IF l \in s.mask THEN t.prev ELSE us[l]
        <4>1. CASE l \in s.mask
          <5>1. HoldsUp(t.words, l) = s.prev + (us[i] - s.prev)
            BY <4>1, <1>10, <3>1, <3>2
          <5> QED BY <4>1, <5>1, <1>3, <1>6
        <4>2. CASE l \notin s.mask
          BY <4>2, <1>10, <3>1, <3>2
        <4> QED BY <4>1, <4>2
      <3> QED BY <3>3, <3>4, <3>5
    <2>2. CASE ~(us[i] > s.prev)
      <3>1. us[i] = s.prev /\ t.words = s.words /\ t.prev = s.prev
        BY <1>3, <1>6, <2>2
      <3> HIDE DEF t, i
      <3> QED BY <3>1, <1>4, <1>10
    <2> QED BY <2>1, <2>2
  <1>12. ASSUME NEW l \in 0..(n - 1) PROVE HoldsUp(t.words, l) = IF l \in t.mask THEN t.prev ELSE us[l]
    <2> HIDE DEF t, i
    <2>1. CASE l = i
      BY <2>1, <1>6, <1>7, <1>11
    <2>2. CASE l # i
      BY <2>2, <1>6, <1>11
    <2> QED BY <2>1, <2>2
  <1>14. t.prev = IF k + 1 = 0 THEN 0 ELSE us[q[k + 1]]
    BY <1>6
  <1> HIDE DEF t
  <1>13. BankOf(t, q, k + 1, n, us)
    BY <1>14, <1>5, <1>8, <1>9, <1>11, <1>12 DEF BankOf
  <1> QED BY <1>13 DEF t


LEMMA BankLaysOut ==
  ASSUME NEW n \in Nat, NEW us, Widths(n, us)
  PROVE  BankOf(Bank(n, us), ByWidth(n, us), n, n, us)
  <1> DEFINE q == ByWidth(n, us)
             base == [words |-> <<>>, mask |-> 0..(n - 1), prev |-> 0]
             X == BankType(n)
             G == [a \in X \X (1..n) |-> AddServo(a[1], q[a[2]], us)]
             F(f) == f = [k \in 0..n |-> IF k = 0 THEN [words |-> <<>>, mask |-> 0..(n - 1), prev |-> 0]
                                         ELSE AddServo(f[k - 1], ByWidth(n, us)[k], us)]
  <1>1. Lists(q, n) /\ SortedBy(q, us)
    BY ByWidthSorts
  <1>2. \A j \in 1..n : q[j] \in 0..(n - 1)
    BY <1>1 DEF Lists
  <1>3. BankOf(base, q, 0, n, us)
    <2>1. base \in BankType(n)
      <3>1. <<>> \in Seq(Word(n)) /\ 0 \in Nat /\ 0..(n - 1) \in SUBSET (0..(n - 1))
        OBVIOUS
      <3> QED BY <3>1 DEF BankType
    <2>2. base.words = <<>> /\ base.mask = 0..(n - 1) /\ base.prev = 0 /\ Len(<<>>) = 0
      OBVIOUS
    <2>3. Done(q, 0) = {}
      <3>1. 1..0 = {}
        OBVIOUS
      <3> QED BY <3>1 DEF Done
    <2>4. \A j \in (0 + 1)..n : 0 <= us[q[j]]
      <3> SUFFICES ASSUME NEW j \in (0 + 1)..n PROVE 0 <= us[q[j]]
        OBVIOUS
      <3>1. j \in 1..n
        OBVIOUS
      <3>2. us[q[j]] \in Nat
        BY <1>2, <3>1 DEF Widths
      <3> QED BY <3>2
    <2> HIDE DEF base, q
    <2> QED BY <2>1, <2>2, <2>3, <2>4, NoWords DEF BankOf
  <1>4. base \in X
    BY <1>3 DEF BankOf
  <1>5. \A x \in X, i \in 1..n : <<x, i>> \in X \X (1..n) /\ G[<<x, i>>] = AddServo(x, q[i], us)
    OBVIOUS
  <1>6. ASSUME NEW x \in X, NEW i \in 1..n PROVE AddServo(x, q[i], us) \in X
    BY <1>2, AddServoType
  <1> HIDE DEF base, G, X
  <1>7. PICK f \in [0..n -> X] : f[0] = base /\ \A i \in 1..n : f[i] = G[<<f[i - 1], i>>]
    <2>1. StaysIn(X, n, G)
      BY <1>5, <1>6 DEF StaysIn
    <2>2. Solvable(X, n, base, G)
      BY <1>4, <2>1, Recursion
    <2> QED BY <2>2 DEF Solvable
  <1>8. \A i \in 1..n : i - 1 \in 0..n
    OBVIOUS
  <1>9. \A i \in 1..n : f[i] = AddServo(f[i - 1], q[i], us)
    BY <1>5, <1>7, <1>8
  <1>10. F(f)
    <2>1. f = [k \in 0..n |-> f[k]]
      BY <1>7
    <2>2. \A k \in 0..n : k = 0 \/ k \in 1..n
      OBVIOUS
    <2>3. \A k \in 0..n : f[k] = IF k = 0 THEN base ELSE AddServo(f[k - 1], q[k], us)
      BY <1>7, <1>9, <2>2
    <2>4. f = [k \in 0..n |-> IF k = 0 THEN base ELSE AddServo(f[k - 1], q[k], us)]
      BY <2>1, <2>3
    <2> QED BY <2>4 DEF base
  <1>11. PICK g : g = CHOOSE h : F(h)
    OBVIOUS
  <1>12. F(g)
    <2> HIDE DEF F
    <2> QED BY <1>10, <1>11
  <1>13. Bank(n, us) = g[n]
    BY <1>11 DEF Bank
  <1>14. g[0] = base /\ \A k \in 1..n : g[k] = AddServo(g[k - 1], q[k], us)
    <2>1. 0 \in 0..n /\ \A k \in 1..n : k \in 0..n /\ k # 0
      OBVIOUS
    <2>2. g = [k \in 0..n |-> IF k = 0 THEN base ELSE AddServo(g[k - 1], q[k], us)]
      BY <1>12 DEF base
    <2> HIDE DEF F
    <2>3. \A k \in 0..n : g[k] = IF k = 0 THEN base ELSE AddServo(g[k - 1], q[k], us)
      BY <2>2
    <2> QED BY <2>1, <2>3
  <1> HIDE DEF F
  <1> DEFINE S == {k \in Nat : k <= n => BankOf(g[k], q, k, n, us)}
  <1>15. Nat \subseteq S
    <2>1. 0 \in S
      BY <1>3, <1>14
    <2>2. ASSUME NEW k \in Nat, k \in S PROVE k + 1 \in S
      <3>1. SUFFICES ASSUME k + 1 <= n PROVE BankOf(g[k + 1], q, k + 1, n, us)
        OBVIOUS
      <3>2. BankOf(g[k], q, k, n, us) /\ k \in 0..(n - 1) /\ k + 1 \in 1..n /\ (k + 1) - 1 = k
        BY <2>2, <3>1
      <3>3. BankOf(AddServo(g[k], q[k + 1], us), q, k + 1, n, us)
        <4> HIDE DEF q
        <4> QED BY <1>1, <3>2, AddServoKeeps
      <3> QED BY <1>14, <3>2, <3>3
    <2>3. \A k \in Nat : k \in S => k + 1 \in S
      BY <2>2
    <2> HIDE DEF S
    <2> QED BY <2>1, <2>3, Ind
  <1>16. BankOf(g[n], q, n, n, us)
    BY <1>15
  <1> QED BY <1>13, <1>16

(* A frame lasts 20 ms and holds every servo for its width.                *)
LEMMA FrameExact ==
  ASSUME NEW n \in Nat, n > 0, NEW us, \A i \in 0..(n - 1) : us[i] \in SERVO_MIN_US..SERVO_MAX_US
  PROVE  /\ ServoWords(n, us) \in Seq(Word(n)) /\ Len(ServoWords(n, us)) \in 1..(n + 1)
         /\ Lasts(ServoWords(n, us)) = SERVO_FRAME_US
         /\ \A i \in 0..(n - 1) : HoldsUp(ServoWords(n, us), i) = us[i]
  <1> DEFINE s == Bank(n, us)
             q == ByWidth(n, us)
             w == [high |-> {}, for |-> SERVO_FRAME_US - s.prev]
             ws == ServoWords(n, us)
  <1>1. Widths(n, us)
    <2>1. SERVO_MIN_US..SERVO_MAX_US \subseteq Nat
      BY SMT DEF SERVO_MIN_US, SERVO_MAX_US
    <2> QED BY <2>1 DEF Widths
  <1>2. BankOf(s, q, n, n, us) /\ Lists(q, n)
    BY <1>1, BankLaysOut, ByWidthSorts
  <1>3. ws = Append(s.words, w)
    BY DEF ServoWords
  <1>4. s.words \in Seq(Word(n)) /\ Len(s.words) <= n /\ Len(s.words) \in Nat /\ Lasts(s.words) = s.prev /\ s.prev \in Nat
    BY <1>2 DEF BankOf, BankType
  <1>5. s.mask = {}
    <2>1. \A i \in 0..(n - 1) : i \in Done(q, n)
      BY <1>2 DEF Lists, Done
    <2> QED BY <1>2, <2>1 DEF BankOf
  <1>6. \A i \in 0..(n - 1) : HoldsUp(s.words, i) = us[i]
    BY <1>2, <1>5 DEF BankOf
  <1>7. s.prev <= SERVO_MAX_US
    <2>1. n \in 1..n
      OBVIOUS
    <2>2. q \in Seq(0..(n - 1)) /\ Len(q) = n
      BY <1>2 DEF Lists
    <2>3. q[n] \in 0..(n - 1)
      BY <2>1, <2>2
    <2>4. s.prev = us[q[n]]
      BY <1>2 DEF BankOf
    <2>5. us[q[n]] \in SERVO_MIN_US..SERVO_MAX_US
      BY <2>3
    <2>6. \A x \in SERVO_MIN_US..SERVO_MAX_US : x <= SERVO_MAX_US
      BY SMT DEF SERVO_MIN_US, SERVO_MAX_US
    <2> HIDE DEF s, q
    <2> QED BY <2>4, <2>5, <2>6
  <1>8. SERVO_FRAME_US - s.prev \in Nat /\ SERVO_FRAME_US \in Nat
    BY <1>4, <1>7, SMT DEF SERVO_MAX_US, SERVO_FRAME_US
  <1>9. w \in Word(n) /\ w.high = {} /\ w.for = SERVO_FRAME_US - s.prev
    BY <1>8 DEF Word
  <1> HIDE DEF w, s
  <1>10. /\ Lasts(ws) = Lasts(s.words) + w.for
         /\ \A i : i \notin w.high => HoldsUp(ws, i) = HoldsUp(s.words, i)
    BY <1>3, <1>4, <1>9, WordAppend
  <1>11. ws \in Seq(Word(n)) /\ Len(ws) \in 1..(n + 1)
    BY <1>3, <1>4, <1>9
  <1>12. Lasts(ws) = SERVO_FRAME_US
    BY <1>4, <1>8, <1>9, <1>10
  <1>13. \A i \in 0..(n - 1) : HoldsUp(ws, i) = us[i]
    BY <1>6, <1>9, <1>10
  <1> QED BY <1>11, <1>12, <1>13


-----------------------------------------------------------------------------
(* The inductive invariant of the I/O services, service by service.  The   *)
(* history is a record of which each service keeps some fields.            *)
PinCount == Cardinality(IoPins)
HistShape ==
  hist = [was |-> hist.was, edges |-> hist.edges, told |-> hist.told, torn |-> hist.torn, streak |-> hist.streak,
          settled |-> hist.settled, fed |-> hist.fed, last |-> hist.last, resyncs |-> hist.resyncs,
          clean |-> hist.clean, asked |-> hist.asked, answers |-> hist.answers]
AdcHist == <<hist.fed, hist.last, hist.resyncs>>
PinHist == <<hist.was, hist.edges, hist.told, hist.torn, hist.streak, hist.settled>>
ServoHist == hist.clean
I2cHist == <<hist.asked, hist.answers>>

IoConf == io \in [core : {"core0", "core1"}, depth : [IoPins -> Nat], edge : [IoPins -> 0..3], servos : 0..PinCount]

(* An accumulator holds the samples since the last window; a published     *)
(* figure is of the last window, of the next one below the channel that    *)
(* is closing; a copied number is between the one read first and the one   *)
(* that is read next, or one ahead on core 0, which may see a closing      *)
(* channel.                                                                *)
AdcInv ==
  /\ adc \in [phase : Chans, acc : [Chans -> AccType], closing : -1..(AdcNch - 1), seq : Nat, stat : [Chans -> StatType]]
  /\ hist.fed \in [Chans -> Seq(Raws)] /\ hist.last \in [Chans -> Seq(Raws)]
  /\ \A c \in Chans : AccOf(adc.acc[c], hist.fed[c])
  /\ WindowFigures
  /\ \A c \in Chans : adc.stat[c].of = IF c < adc.closing THEN adc.seq + 1 ELSE adc.seq
Ahead == IF io.core = "core1" THEN 0 ELSE 1
RdInv ==
  /\ rd \in [seq : Int, got : Seq(Int), tries : Nat] /\ Len(rd.got) <= AdcNch + 1
  /\ rd.seq <= adc.seq
  /\ \A k \in 1..Len(rd.got) : k <= AdcNch => rd.seq <= rd.got[k] /\ rd.got[k] <= adc.seq + Ahead
  /\ StatsOneWindow

(* Every edge is in the counter or handed out; while CMD_PULSE_READCLR is  *)
(* between its copy and its clear, the counter of its pin is both; while   *)
(* the sampler is between load and store, its edge is in neither.  Pins    *)
(* for which both happened at once are torn.                               *)
CntType == [n : [IoPins -> Nat], last : [IoPins -> BOOLEAN], due : SUBSET IoPins, load : [IoPins -> Nat]]
Accounted(p) ==
  IF p \in rc THEN hist.told[p] = hist.edges[p]
  ELSE IF p \in cnt.due THEN cnt.load[p] = cnt.n[p] /\ hist.told[p] + cnt.n[p] + 1 = hist.edges[p]
  ELSE hist.told[p] + cnt.n[p] = hist.edges[p]
CntInv ==
  /\ pinIn \in [IoPins -> BOOLEAN]
  /\ cnt \in CntType /\ cnt.last = hist.was
  /\ rc \subseteq IoPins /\ hist.torn \subseteq IoPins
  /\ hist.told \in [IoPins -> Nat] /\ hist.edges \in [IoPins -> Nat]
  /\ \A p \in IoPins : p \notin hist.torn => Accounted(p)
  /\ rc \cap cnt.due \subseteq hist.torn
  /\ io.core = "core1" => hist.torn = {} /\ (rc = {} \/ cnt.due = {})

(* A shift register ends in the streak of the level seen last; before the  *)
(* streak it holds the other level, or it still holds the boot's zeros.    *)
Register(d, sr, v, n, settled) ==
  /\ n \in 0..d
  /\ \A k \in (d - n + 1)..d : sr[k] = v
  /\ n < d => \/ n > 0 /\ sr[d - n] = ~v
              \/ v = FALSE /\ settled = FALSE /\ \A k \in 1..d : sr[k] = FALSE
GpType == [raw : [IoPins -> BOOLEAN], deb : [IoPins -> BOOLEAN],
           sr : [IoPins -> Seq(BOOLEAN)], ipol : [IoPins -> BOOLEAN]]
DebInv ==
  /\ gp \in GpType
  /\ hist.streak \in [IoPins -> [v : BOOLEAN, n : Nat]] /\ hist.settled \in [IoPins -> BOOLEAN]
  /\ work = "gpio" =>
       /\ gp.deb = hist.settled
       /\ \A p \in IoPins : io.depth[p] >= 2 =>
            /\ Len(gp.sr[p]) = io.depth[p]
            /\ Register(io.depth[p], gp.sr[p], hist.streak[p].v, hist.streak[p].n, hist.settled[p])

(* The array starts with the words of the widths, and a frame begun with   *)
(* no command since plays them.                                            *)
UsType == [IoPins -> SERVO_MIN_US..SERVO_MAX_US]
SvType == [n : 0..PinCount, us : UsType, frame : Seq(Word(PinCount)), len : 0..(PinCount + 1),
           building : BOOLEAN, ready : BOOLEAN]
StartsWith(f, ws) == Len(ws) <= Len(f) /\ \A k \in 1..Len(ws) : f[k] = ws[k]
FeederType == [len : Nat, at : Nat, played : Seq(Word(PinCount))]
ServoOf(s, f, clean) ==
  /\ s \in SvType
  /\ StartsWith(s.frame, ServoWords(s.n, s.us)) /\ s.len <= Len(s.frame)
  /\ s.building = FALSE => s.len = Len(ServoWords(s.n, s.us))
  /\ f \in FeederType
  /\ f.at <= f.len /\ f.len <= Len(s.frame) /\ Len(f.played) = f.at
  /\ clean \in BOOLEAN
  /\ clean = TRUE => /\ s.building = FALSE /\ f.len = s.len
                     /\ \A k \in 1..f.at : f.played[k] = s.frame[k]
ServoInv == ServoOf(sv, feeder, hist.clean)

(* Requests and replies are numbered in the order in which they were asked *)
Sinks == {"usb", "bus", "engine"}
ReqType == [id : Nat, sink : Sinks]
ReplyType == [id : Nat, dest : Sinks, status : {"ok", "io_error"}]
IdsRise(s) == \A j, k \in 1..Len(s) : j < k => s[j].id < s[k].id
Before(s, t) == \A j \in 1..Len(s), k \in 1..Len(t) : s[j].id < t[k].id
UpTo(s, n) == \A k \in 1..Len(s) : s[k].id <= n
I2cOf(q, asked, answers) ==
  /\ q \in [reqq : Seq(ReqType), upq : Seq(ReplyType)]
  /\ asked \in Nat /\ answers \in Seq(ReplyType)
  /\ Len(q.reqq) <= I2cDepth /\ Len(q.upq) <= UpDepth
  /\ IdsRise(q.reqq) /\ IdsRise(q.upq) /\ IdsRise(answers)
  /\ Before(q.upq, q.reqq) /\ Before(answers, q.reqq) /\ Before(answers, q.upq)
  /\ UpTo(q.reqq, asked) /\ UpTo(q.upq, asked) /\ UpTo(answers, asked)
I2cInv == I2cOf(i2, hist.asked, hist.answers)

IoInv == IoConf /\ HistShape /\ AdcInv /\ RdInv /\ CntInv /\ DebInv /\ ServoInv /\ I2cInv

-----------------------------------------------------------------------------
(* What the actions of a service leave alone.                              *)
AdcActs == (\E r \in AdcRaws : adc_fifo_isr(r)) \/ adc_win_close \/ AdcResync
RdActs == StatsBegin \/ StatsCopy \/ StatsCheck
PinActs ==
  \/ Anchor \/ SampleStore \/ (\E p \in IoPins : PinMoves(p)) \/ (\E m \in {AllPins(FALSE), AllPins(TRUE)} : GpioIpol(m))
  \/ (\E ps \in SUBSET IoPins : PulseClear(ps)) \/ ReadClrRead \/ ReadClrClear
ServoActs ==
  \/ \E n \in ServoCount : \E ws \in [1..n -> ServoWidths] : ServoSet(ws)
  \/ ServoPublish \/ ServoStop \/ FeedStart \/ FeedWord
I2cActs == (\E k \in Sinks : I2cAsk(k)) \/ (\E st \in {"ok", "io_error"} : I2cServe(st)) \/ UpPump

LEMMA AdcKeeps ==
  ASSUME HistShape, AdcActs
  PROVE  /\ HistShape' /\ UNCHANGED <<work, io, pinIn, cnt, rc, gp, rd, sv, feeder, i2, PinHist, ServoHist, I2cHist>>
  <1> USE DEF HistShape, PinHist, ServoHist, I2cHist
  <1>1. ASSUME NEW r \in AdcRaws, adc_fifo_isr(r)
        PROVE  HistShape' /\ UNCHANGED <<work, io, pinIn, cnt, rc, gp, rd, sv, feeder, i2, PinHist, ServoHist, I2cHist>>
    BY <1>1 DEF adc_fifo_isr
  <1>2. CASE adc_win_close
    BY <1>2 DEF adc_win_close
  <1>3. CASE AdcResync
    BY <1>3 DEF AdcResync
  <1> QED BY <1>1, <1>2, <1>3 DEF AdcActs

LEMMA RdKeeps ==
  ASSUME RdActs
  PROVE  UNCHANGED <<work, io, pinIn, cnt, rc, gp, adc, sv, feeder, i2, hist>>
  BY DEF RdActs, StatsBegin, StatsCopy, StatsCheck

LEMMA PinKeeps ==
  ASSUME HistShape, PinActs
  PROVE  HistShape' /\ UNCHANGED <<work, io, adc, rd, sv, feeder, i2, AdcHist, ServoHist, I2cHist>>
  <1> USE DEF HistShape, AdcHist, ServoHist, I2cHist
  <1>1. CASE Anchor
    BY <1>1 DEF Anchor
  <1>2. ASSUME NEW p \in IoPins, PinMoves(p)
        PROVE HistShape' /\ UNCHANGED <<work, io, adc, rd, sv, feeder, i2, AdcHist, ServoHist, I2cHist>>
    BY <1>2 DEF PinMoves
  <1>3. ASSUME NEW m, GpioIpol(m)
        PROVE HistShape' /\ UNCHANGED <<work, io, adc, rd, sv, feeder, i2, AdcHist, ServoHist, I2cHist>>
    BY <1>3 DEF GpioIpol
  <1>4. ASSUME NEW ps \in SUBSET IoPins, PulseClear(ps)
        PROVE HistShape' /\ UNCHANGED <<work, io, adc, rd, sv, feeder, i2, AdcHist, ServoHist, I2cHist>>
    BY <1>4 DEF PulseClear
  <1>5. CASE ReadClrRead
    BY <1>5 DEF ReadClrRead
  <1>6. CASE ReadClrClear
    BY <1>6 DEF ReadClrClear
  <1>7. CASE SampleStore
    BY <1>7 DEF SampleStore
  <1> QED BY <1>1, <1>2, <1>3, <1>4, <1>5, <1>6, <1>7 DEF PinActs

LEMMA ServoKeeps ==
  ASSUME HistShape, ServoActs
  PROVE  HistShape' /\ UNCHANGED <<work, io, pinIn, cnt, rc, gp, adc, rd, i2, AdcHist, PinHist, I2cHist>>
  <1> USE DEF HistShape, AdcHist, PinHist, I2cHist
  <1>1. ASSUME NEW ws, ServoSet(ws)
        PROVE HistShape' /\ UNCHANGED <<work, io, pinIn, cnt, rc, gp, adc, rd, i2, AdcHist, PinHist, I2cHist>>
    BY <1>1 DEF ServoSet
  <1>2. CASE ServoPublish
    BY <1>2 DEF ServoPublish
  <1>3. CASE ServoStop
    BY <1>3 DEF ServoStop
  <1>4. CASE FeedStart
    BY <1>4 DEF FeedStart
  <1>5. CASE FeedWord
    BY <1>5 DEF FeedWord
  <1> QED BY <1>1, <1>2, <1>3, <1>4, <1>5 DEF ServoActs

LEMMA I2cKeeps ==
  ASSUME HistShape, I2cActs
  PROVE  HistShape' /\ UNCHANGED <<work, io, pinIn, cnt, rc, gp, adc, rd, sv, feeder, AdcHist, PinHist, ServoHist>>
  <1> USE DEF HistShape, AdcHist, PinHist, ServoHist
  <1>1. ASSUME NEW k, I2cAsk(k)
        PROVE HistShape' /\ UNCHANGED <<work, io, pinIn, cnt, rc, gp, adc, rd, sv, feeder, AdcHist, PinHist, ServoHist>>
    BY <1>1 DEF I2cAsk
  <1>2. ASSUME NEW st, I2cServe(st)
        PROVE HistShape' /\ UNCHANGED <<work, io, pinIn, cnt, rc, gp, adc, rd, sv, feeder, AdcHist, PinHist, ServoHist>>
    BY <1>2 DEF I2cServe
  <1>3. CASE UpPump
    BY <1>3 DEF UpPump
  <1> QED BY <1>1, <1>2, <1>3 DEF I2cActs

LEMMA IoActs ==
  ASSUME IoNext PROVE AdcActs \/ RdActs \/ PinActs \/ ServoActs \/ I2cActs
  BY DEF IoNext, AdcActs, RdActs, PinActs, ServoActs, I2cActs, Sinks


-----------------------------------------------------------------------------
(* The analog windows.                                                     *)
LEMMA ChansFacts ==
  /\ AdcNch \in Nat /\ AdcNch > 0 /\ Chans = 0..(AdcNch - 1) /\ 0 \in Chans
  /\ \A c \in Chans : (c + 1) % AdcNch \in Chans
  <1>1. AdcNch \in Nat /\ AdcNch > 0
    BY NodeIoAssumption, SMTT(30)
  <1>2. \A x \in Nat : x % AdcNch \in 0..(AdcNch - 1)
    BY <1>1
  <1> QED BY <1>1, <1>2 DEF Chans

AdcType ==
  [phase : Chans, acc : [Chans -> AccType], closing : -1..(AdcNch - 1), seq : Nat, stat : [Chans -> StatType]]

LEMMA AdcFrame ==
  ASSUME AdcInv, UNCHANGED <<adc, AdcHist>> PROVE AdcInv'
  BY DEF AdcInv, AdcHist, WindowFigures, Chans

LEMMA AdcSample ==
  ASSUME HistShape, AdcInv, NEW r \in AdcRaws, adc_fifo_isr(r) PROVE AdcInv'
  <1> DEFINE c == adc.phase
             acc == [adc.acc EXCEPT ![c] = IoTake(@, r)]
  <1>1. adc \in AdcType
    BY DEF AdcInv, AdcType
  <1>2. r \in Raws
    <2>1. AdcRaws \subseteq 0..4095
      BY NodeIoAssumption
    <2> QED BY <2>1 DEF Raws
  <1>3. c \in Chans /\ adc.acc \in [Chans -> AccType] /\ adc.closing = -1
    BY <1>1 DEF AdcType, adc_fifo_isr
  <1>4. /\ adc' = [adc EXCEPT !.acc = acc, !.phase = (c + 1) % AdcNch, !.closing = IF Closes(acc, c) THEN 0 ELSE -1]
        /\ hist' = [hist EXCEPT !.fed[c] = Append(@, r)]
    BY DEF adc_fifo_isr
  <1>5. hist.fed \in [Chans -> Seq(Raws)] /\ hist.last \in [Chans -> Seq(Raws)] /\ \A d \in Chans : AccOf(adc.acc[d], hist.fed[d])
    BY DEF AdcInv
  <1>6. hist'.fed = [hist.fed EXCEPT ![c] = Append(@, r)] /\ hist'.last = hist.last
    BY <1>4 DEF HistShape
  <1>7. AccOf(IoTake(adc.acc[c], r), Append(hist.fed[c], r))
    BY <1>2, <1>3, <1>5, AccTake
  <1>8. IoTake(adc.acc[c], r) \in AccType /\ Append(hist.fed[c], r) \in Seq(Raws)
    BY <1>7 DEF AccOf
  <1>9. /\ acc \in [Chans -> AccType] /\ acc[c] = IoTake(adc.acc[c], r)
        /\ \A d \in Chans : d # c => acc[d] = adc.acc[d]
    BY <1>3, <1>8
  <1> HIDE DEF acc
  <1>10. /\ adc'.acc = acc /\ adc'.phase = (c + 1) % AdcNch /\ adc'.seq = adc.seq /\ adc'.stat = adc.stat
         /\ adc'.closing = IF Closes(acc, c) THEN 0 ELSE -1
    BY <1>1, <1>4 DEF AdcType
  <1>11. adc' \in AdcType
    <2>1. (c + 1) % AdcNch \in Chans /\ adc'.closing \in -1..(AdcNch - 1)
      <3>1. 0 \in -1..(AdcNch - 1) /\ -1 \in -1..(AdcNch - 1)
        BY ChansFacts
      <3>2. (c + 1) % AdcNch \in Chans
        BY <1>3, ChansFacts
      <3> QED BY <1>10, <3>1, <3>2
    <2> QED BY <1>1, <1>4, <1>9, <1>10, <2>1 DEF AdcType
  <1>12. hist'.fed \in [Chans -> Seq(Raws)] /\ hist'.fed[c] = Append(hist.fed[c], r) /\ \A d \in Chans : d # c => hist'.fed[d] = hist.fed[d]
    BY <1>3, <1>5, <1>6, <1>8
  <1>13. ASSUME NEW d \in Chans PROVE AccOf(adc'.acc[d], hist'.fed[d])
    <2>1. CASE d = c
      BY <2>1, <1>7, <1>9, <1>10, <1>12
    <2>2. CASE d # c
      BY <2>2, <1>5, <1>9, <1>10, <1>12
    <2> QED BY <2>1, <2>2
  <1>14. WindowFigures'
    <2>1. WindowFigures
      BY DEF AdcInv
    <2> QED BY <2>1, <1>6, <1>10 DEF WindowFigures, Chans
  <1>15. ASSUME NEW d \in Chans PROVE adc'.stat[d].of = IF d < adc'.closing THEN adc'.seq + 1 ELSE adc'.seq
    <2>1. adc.stat[d].of = IF d < -1 THEN adc.seq + 1 ELSE adc.seq
      BY <1>3 DEF AdcInv
    <2>2. ~(d < -1) /\ ~(d < 0)
      BY ChansFacts
    <2> QED BY <2>1, <2>2, <1>10
  <1> QED BY <1>5, <1>6, <1>11, <1>12, <1>13, <1>14, <1>15 DEF AdcInv, AdcType, Chans

LEMMA AdcClose ==
  ASSUME HistShape, AdcInv, adc_win_close PROVE AdcInv'
  <1> DEFINE c == adc.closing
             s == Stat(adc.acc[c], adc.seq + 1)
             done == c = AdcNch - 1
  <1>1. adc \in AdcType
    BY DEF AdcInv, AdcType
  <1>2. c \in Chans /\ c >= 0 /\ adc.seq \in Nat /\ adc.seq + 1 \in Nat
    BY <1>1, ChansFacts DEF AdcType, adc_win_close
  <1>3. /\ adc' = [adc EXCEPT !.stat[c] = s, !.acc[c] = NoAcc, !.closing = IF done THEN -1 ELSE c + 1,
                              !.seq = IF done THEN @ + 1 ELSE @]
        /\ hist' = [hist EXCEPT !.last[c] = hist.fed[c], !.fed[c] = <<>>]
    BY DEF adc_win_close
  <1>4. hist.fed \in [Chans -> Seq(Raws)] /\ hist.last \in [Chans -> Seq(Raws)] /\ \A d \in Chans : AccOf(adc.acc[d], hist.fed[d])
    BY DEF AdcInv
  <1>5. hist'.fed = [hist.fed EXCEPT ![c] = <<>>] /\ hist'.last = [hist.last EXCEPT ![c] = hist.fed[c]]
    BY <1>3 DEF HistShape
  <1>6. s \in StatType /\ s.of = adc.seq + 1 /\ (hist.fed[c] # <<>> => Figures(hist.fed[c], s))
    BY <1>2, <1>4, StatFigures
  <1> HIDE DEF s
  <1>7. NoAcc \in AccType
    BY AccStart DEF AccOf
  <1>8. /\ adc'.stat = [adc.stat EXCEPT ![c] = s] /\ adc'.acc = [adc.acc EXCEPT ![c] = NoAcc] /\ adc'.phase = adc.phase
        /\ adc'.closing = (IF done THEN -1 ELSE c + 1) /\ adc'.seq = (IF done THEN adc.seq + 1 ELSE adc.seq)
    BY <1>1, <1>3 DEF AdcType
  <1>9. adc.stat \in [Chans -> StatType] /\ adc.acc \in [Chans -> AccType] /\ adc.phase \in Chans
    BY <1>1 DEF AdcType
  <1>10. adc'.stat \in [Chans -> StatType] /\ adc'.stat[c] = s /\ \A d \in Chans : d # c => adc'.stat[d] = adc.stat[d]
    BY <1>2, <1>6, <1>8, <1>9
  <1>11. adc'.acc \in [Chans -> AccType] /\ adc'.acc[c] = NoAcc /\ \A d \in Chans : d # c => adc'.acc[d] = adc.acc[d]
    BY <1>2, <1>7, <1>8, <1>9
  <1>12. adc'.closing \in -1..(AdcNch - 1) /\ adc'.seq \in Nat
    BY <1>2, <1>8, ChansFacts
  <1>13. adc' = [phase |-> adc'.phase, acc |-> adc'.acc, closing |-> adc'.closing, seq |-> adc'.seq, stat |-> adc'.stat]
    BY <1>1, <1>3 DEF AdcType
  <1>14. adc' \in AdcType
    BY <1>8, <1>9, <1>10, <1>11, <1>12, <1>13 DEF AdcType
  <1>15. /\ hist'.fed \in [Chans -> Seq(Raws)] /\ hist'.fed[c] = <<>> /\ \A d \in Chans : d # c => hist'.fed[d] = hist.fed[d]
    <2>1. <<>> \in Seq(Raws)
      OBVIOUS
    <2> QED BY <2>1, <1>2, <1>4, <1>5
  <1>16. /\ hist'.last \in [Chans -> Seq(Raws)] /\ hist'.last[c] = hist.fed[c] /\ \A d \in Chans : d # c => hist'.last[d] = hist.last[d]
    BY <1>2, <1>4, <1>5
  <1>17. ASSUME NEW d \in Chans PROVE AccOf(adc'.acc[d], hist'.fed[d])
    <2>1. CASE d = c
      BY <2>1, <1>11, <1>15, AccStart
    <2>2. CASE d # c
      BY <2>2, <1>4, <1>11, <1>15
    <2> QED BY <2>1, <2>2
  <1>18. ASSUME NEW d \in Chans, hist'.last[d] # <<>> PROVE Figures(hist'.last[d], adc'.stat[d])
    <2>1. CASE d = c
      BY <2>1, <1>6, <1>10, <1>16, <1>18
    <2>2. CASE d # c
      BY <2>2, <1>10, <1>16, <1>18 DEF AdcInv, WindowFigures
    <2> QED BY <2>1, <2>2
  <1>19. ASSUME NEW d \in Chans PROVE adc'.stat[d].of = IF d < adc'.closing THEN adc'.seq + 1 ELSE adc'.seq
    <2>1. adc.stat[d].of = IF d < c THEN adc.seq + 1 ELSE adc.seq
      BY DEF AdcInv
    <2>2. d \in 0..(AdcNch - 1) /\ c \in 0..(AdcNch - 1) /\ AdcNch \in Nat
      BY <1>2, ChansFacts
    <2>3. adc'.stat[d].of = IF d = c \/ d < c THEN adc.seq + 1 ELSE adc.seq
      BY <1>6, <1>10, <2>1
    <2>4. CASE done
      <3>1. (d = c \/ d < c) /\ ~(d < -1)
        BY <2>2, <2>4
      <3> QED BY <2>3, <2>4, <3>1, <1>8
    <2>5. CASE ~done
      <3>1. (d = c \/ d < c) <=> d < c + 1
        BY <2>2
      <3> QED BY <2>3, <2>5, <3>1, <1>8
    <2> QED BY <2>4, <2>5
  <1>20. WindowFigures'
    BY <1>18 DEF WindowFigures, Chans
  <1> QED BY <1>14, <1>15, <1>16, <1>17, <1>19, <1>20 DEF AdcInv, AdcType, Chans

LEMMA AdcStep ==
  ASSUME HistShape, AdcInv, AdcActs PROVE AdcInv' /\ adc'.seq >= adc.seq
  <1>1. adc \in AdcType
    BY DEF AdcInv, AdcType
  <1>2. ASSUME NEW r \in AdcRaws, adc_fifo_isr(r) PROVE AdcInv' /\ adc'.seq >= adc.seq
    <2>1. AdcInv'
      BY <1>2, AdcSample
    <2>2. adc'.seq = adc.seq /\ adc.seq \in Nat
      BY <1>1, <1>2 DEF adc_fifo_isr, AdcType
    <2> QED BY <2>1, <2>2
  <1>3. CASE adc_win_close
    BY <1>1, <1>3, AdcClose DEF adc_win_close, AdcType
  <1>4. CASE AdcResync
    <2>1. adc' = [adc EXCEPT !.phase = 0] /\ hist'.fed = hist.fed /\ hist'.last = hist.last
      BY <1>4 DEF AdcResync, HistShape
    <2>2. adc'.acc = adc.acc /\ adc'.closing = adc.closing /\ adc'.seq = adc.seq /\ adc'.stat = adc.stat
      BY <1>1, <2>1 DEF AdcType
    <2>3. adc' \in AdcType
      BY <1>1, <2>1, ChansFacts DEF AdcType
    <2>4. adc.seq \in Nat
      BY <1>1 DEF AdcType
    <2>5. WindowFigures'
      BY <2>1, <2>2 DEF AdcInv, WindowFigures, Chans
    <2>6. \A c \in Chans : AccOf(adc'.acc[c], hist'.fed[c])
      BY <2>1, <2>2 DEF AdcInv
    <2>7. \A c \in Chans : adc'.stat[c].of = IF c < adc'.closing THEN adc'.seq + 1 ELSE adc'.seq
      BY <2>2 DEF AdcInv
    <2>8. hist'.fed \in [Chans -> Seq(Raws)] /\ hist'.last \in [Chans -> Seq(Raws)]
      BY <2>1 DEF AdcInv
    <2>9. AdcInv'
      BY <2>3, <2>5, <2>6, <2>7, <2>8 DEF AdcInv, AdcType, Chans
    <2> QED BY <2>2, <2>4, <2>9
  <1> QED BY <1>2, <1>3, <1>4 DEF AdcActs

LEMMA RdFrame ==
  ASSUME AdcInv, AdcInv', RdInv, UNCHANGED <<rd, io>>, adc'.seq >= adc.seq PROVE RdInv'
  <1>1. adc.seq \in Nat /\ adc'.seq \in Nat /\ Ahead \in Nat /\ Ahead' = Ahead
    BY DEF AdcInv, Ahead
  <1>2. rd.seq \in Int /\ \A k \in 1..Len(rd.got) : rd.got[k] \in Int
    BY DEF RdInv
  <1>3. StatsOneWindow'
    BY DEF RdInv, StatsOneWindow, StatsAnswered
  <1>4. rd' = rd /\ rd.seq <= adc.seq
    BY DEF RdInv
  <1>5. \A k \in 1..Len(rd.got) : k <= AdcNch => rd.seq <= rd.got[k] /\ rd.got[k] <= adc.seq + Ahead
    BY DEF RdInv
  <1>6. \A k \in 1..Len(rd.got) : k <= AdcNch => rd.seq <= rd.got[k] /\ rd.got[k] <= adc'.seq + Ahead
    BY <1>1, <1>2, <1>5
  <1>7. rd'.seq <= adc'.seq
    BY <1>1, <1>2, <1>4
  <1> QED BY <1>1, <1>3, <1>4, <1>6, <1>7 DEF RdInv

LEMMA RdStep ==
  ASSUME IoConf, AdcInv, RdInv, RdActs PROVE RdInv'
  <1>1. AdcNch \in Nat /\ AdcNch > 0 /\ Chans = 0..(AdcNch - 1) /\ 0 \in Chans
    BY ChansFacts
  <1>2. rd \in [seq : Int, got : Seq(Int), tries : Nat] /\ rd.got \in Seq(Int) /\ rd.seq \in Int /\ rd.tries \in Nat
        /\ rd.seq <= adc.seq
    BY DEF RdInv
  <1>3. adc.seq \in Nat /\ adc' = adc /\ Ahead \in 0..1 /\ Ahead' = Ahead /\ io' = io
    BY RdKeeps DEF AdcInv, Ahead
  <1>4. io.core = "core1" => adc.closing = -1
    BY DEF RdActs, StatsBegin, StatsCopy, StatsCheck, TaskRuns
  <1>5. \A c \in Chans : adc.stat[c].of \in Int /\ adc.seq <= adc.stat[c].of /\ adc.stat[c].of <= adc.seq + Ahead
    <2>1. \A c \in Chans : ~(c < -1)
      BY <1>1
    <2>2. \A c \in Chans : adc.stat[c].of = IF c < adc.closing THEN adc.seq + 1 ELSE adc.seq
      BY DEF AdcInv
    <2>3. CASE io.core = "core1"
      BY <2>1, <2>2, <2>3, <1>3, <1>4 DEF Ahead
    <2>4. CASE io.core # "core1"
      BY <2>2, <2>4, <1>3 DEF Ahead
    <2> QED BY <2>3, <2>4
  <1>6. ASSUME NEW t \in Nat, rd' = [seq |-> adc.seq, got |-> <<adc.stat[0].of>>, tries |-> t] PROVE RdInv'
    <2> DEFINE x == adc.stat[0].of
    <2>0. x \in Int /\ adc.seq <= x /\ x <= adc.seq + Ahead
      BY <1>1, <1>5
    <2>1. rd'.seq = adc.seq /\ rd'.got = <<x>> /\ Len(rd'.got) = 1 /\ rd'.got[1] = x
      BY <1>6
    <2> HIDE DEF x
    <2>2. rd' \in [seq : Int, got : Seq(Int), tries : Nat]
      BY <1>3, <1>6, <2>0 DEF x
    <2>3. 1 <= AdcNch + 1 /\ 1 # AdcNch + 1 /\ \A k \in 1..1 : k = 1
      BY <1>1
    <2>4. StatsOneWindow'
      BY <2>1, <2>3 DEF StatsOneWindow, StatsAnswered
    <2> QED BY <1>3, <2>0, <2>1, <2>2, <2>3, <2>4 DEF RdInv
  <1>7. CASE StatsBegin
    <2>1. rd' = [seq |-> adc.seq, got |-> <<adc.stat[0].of>>, tries |-> 0]
      BY <1>7 DEF StatsBegin
    <2> QED BY <1>6, <2>1
  <1>8. CASE StatsCopy
    <2> DEFINE n == Len(rd.got)
               x == adc.stat[n].of
    <2>1. n \in 1..(AdcNch - 1) /\ rd' = [rd EXCEPT !.got = Append(@, x)]
      BY <1>8 DEF StatsCopy
    <2>2. x \in Int /\ adc.seq <= x /\ x <= adc.seq + Ahead
      BY <1>1, <1>5, <2>1
    <2> HIDE DEF x
    <2>3. rd'.got = Append(rd.got, x) /\ rd'.seq = rd.seq /\ rd'.tries = rd.tries
      BY <1>2, <2>1
    <2>4. rd' \in [seq : Int, got : Seq(Int), tries : Nat]
      <3>1. Append(rd.got, x) \in Seq(Int)
        BY <1>2, <2>2
      <3> QED BY <1>2, <2>1, <3>1
    <2>5. Len(rd'.got) = n + 1 /\ rd'.got[n + 1] = x /\ \A k \in 1..n : rd'.got[k] = rd.got[k]
      BY <1>2, <2>2, <2>3
    <2>6. n + 1 <= AdcNch /\ \A k \in 1..(n + 1) : k \in 1..n \/ k = n + 1
      BY <1>1, <2>1
    <2>7. \A k \in 1..n : k <= AdcNch
      BY <1>1, <2>1
    <2>10. \A k \in 1..n : rd.seq <= rd.got[k] /\ rd.got[k] <= adc.seq + Ahead
      BY <2>7 DEF RdInv
    <2> HIDE DEF n
    <2>11. \A k \in 1..(n + 1) : rd'.seq <= rd'.got[k] /\ rd'.got[k] <= adc'.seq + Ahead'
      <3> SUFFICES ASSUME NEW k \in 1..(n + 1) PROVE rd'.seq <= rd'.got[k] /\ rd'.got[k] <= adc'.seq + Ahead'
        OBVIOUS
      <3>1. CASE k = n + 1
        BY <3>1, <1>2, <1>3, <2>2, <2>3, <2>5
      <3>2. CASE k \in 1..n
        BY <3>2, <1>3, <2>3, <2>5, <2>10
      <3> QED BY <3>1, <3>2, <2>6
    <2>12. Len(rd'.got) # AdcNch + 1 /\ Len(rd'.got) <= AdcNch + 1
      BY <1>1, <2>1, <2>5, <2>6 DEF n
    <2> QED BY <1>2, <1>3, <2>3, <2>4, <2>5, <2>11, <2>12 DEF RdInv, StatsOneWindow, StatsAnswered
  <1>9. CASE StatsCheck
    <2>1. CASE StatsAgree
      <3>1. Len(rd.got) = AdcNch /\ rd' = [rd EXCEPT !.got = Append(@, 0)]
        BY <1>9, <2>1 DEF StatsCheck
      <3>2. rd'.got = Append(rd.got, 0) /\ rd'.seq = rd.seq /\ rd'.tries = rd.tries
        BY <1>2, <3>1
      <3>3. rd' \in [seq : Int, got : Seq(Int), tries : Nat]
        <4>1. Append(rd.got, 0) \in Seq(Int)
          BY <1>2
        <4>2. rd' = [rd EXCEPT !.got = Append(rd.got, 0)]
          BY <3>1
        <4> QED BY <1>2, <4>1, <4>2
      <3>4. Len(rd'.got) = AdcNch + 1 /\ \A k \in 1..AdcNch : rd'.got[k] = rd.got[k]
        BY <1>2, <3>1, <3>2
      <3>5. \A k \in 1..AdcNch : rd.seq <= rd.got[k] /\ rd.got[k] <= adc.seq + Ahead /\ rd.got[k] \in Int
        <4>1. \A k \in 1..AdcNch : k \in 1..Len(rd.got) /\ k <= AdcNch
          BY <1>1, <3>1
        <4> QED BY <1>2, <4>1 DEF RdInv
      <3>6. \A k \in 1..(AdcNch + 1) : k <= AdcNch => k \in 1..AdcNch
        BY <1>1
      <3>7. rd.tries < 3 => \A k \in 1..AdcNch : rd'.got[k] = rd.seq \/ (io.core = "core0" /\ rd'.got[k] = rd.seq + 1)
        <4> SUFFICES ASSUME rd.tries < 3, NEW k \in 1..AdcNch
                     PROVE  rd'.got[k] = rd.seq \/ (io.core = "core0" /\ rd'.got[k] = rd.seq + 1)
          OBVIOUS
        <4>2. adc.seq = rd.seq
          BY <1>2, <2>1 DEF StatsAgree
        <4>3. io.core \in {"core0", "core1"}
          BY DEF IoConf
        <4>4. CASE io.core = "core1"
          BY <1>2, <1>3, <3>4, <3>5, <4>2, <4>4 DEF Ahead
        <4>5. CASE io.core = "core0"
          BY <1>2, <1>3, <3>4, <3>5, <4>2, <4>5 DEF Ahead
        <4> QED BY <4>3, <4>4, <4>5
      <3>8. StatsOneWindow'
        BY <1>3, <3>2, <3>7 DEF StatsOneWindow, StatsAnswered
      <3>9. \A k \in 1..Len(rd'.got) : k <= AdcNch => rd'.seq <= rd'.got[k] /\ rd'.got[k] <= adc'.seq + Ahead'
        BY <1>3, <3>2, <3>4, <3>5, <3>6
      <3>10. Len(rd'.got) <= AdcNch + 1
        BY <1>1, <3>4
      <3> QED BY <1>2, <1>3, <3>2, <3>3, <3>8, <3>9, <3>10 DEF RdInv
    <2>2. CASE ~StatsAgree
      <3>1. rd' = [seq |-> adc.seq, got |-> <<adc.stat[0].of>>, tries |-> rd.tries + 1] /\ rd.tries + 1 \in Nat
        BY <1>2, <1>9, <2>2 DEF StatsCheck
      <3> QED BY <1>6, <3>1
    <2> QED BY <2>1, <2>2
  <1> QED BY <1>7, <1>8, <1>9 DEF RdActs


-----------------------------------------------------------------------------
(* The edge counters.                                                      *)
LEMMA CntFrame ==
  ASSUME CntInv, UNCHANGED <<io, pinIn, cnt, rc, PinHist>> PROVE CntInv'
  BY DEF CntInv, PinHist, Accounted

LEMMA EdgeIs ==
  ASSUME IoConf, CntInv, NEW p \in IoPins
  PROVE  Edge(p) <=> \/ io.edge[p] \in {0, 2} /\ pinIn[p] /\ ~hist.was[p]
                     \/ io.edge[p] \in {1, 2} /\ hist.was[p] /\ ~pinIn[p]
  <1>1. io.edge[p] \in 0..3 /\ pinIn[p] \in BOOLEAN /\ hist.was[p] \in BOOLEAN /\ cnt.last[p] = hist.was[p]
    <2>1. io.edge[p] \in 0..3
      BY DEF IoConf
    <2>2. pinIn[p] \in BOOLEAN /\ cnt.last = hist.was
      BY DEF CntInv
    <2>3. cnt.last[p] \in BOOLEAN
      BY DEF CntInv, CntType
    <2> QED BY <2>1, <2>2, <2>3
  <1>2. io.edge[p] = 0 \/ io.edge[p] = 1 \/ io.edge[p] = 2 \/ io.edge[p] = 3
    BY <1>1
  <1>3. CASE io.edge[p] = 0
    BY <1>1, <1>3 DEF Edge
  <1>4. CASE io.edge[p] = 1
    BY <1>1, <1>4 DEF Edge
  <1>5. CASE io.edge[p] = 2
    BY <1>1, <1>5 DEF Edge
  <1>6. CASE io.edge[p] = 3
    BY <1>1, <1>6 DEF Edge
  <1> QED BY <1>2, <1>3, <1>4, <1>5, <1>6

LEMMA CntSample ==
  ASSUME HistShape, IoConf, CntInv, Anchor PROVE CntInv'
  <1> DEFINE E(p) == \/ io.edge[p] \in {0, 2} /\ pinIn[p] /\ ~hist.was[p]
                     \/ io.edge[p] \in {1, 2} /\ hist.was[p] /\ ~pinIn[p]
             L == [p \in IoPins |-> IF p \in Edges THEN cnt.n[p] ELSE 0]
  <1>1. rc' = rc /\ pinIn' = pinIn /\ io' = io /\ cnt.due = {} /\ (io.core = "core1" => rc = {})
    BY DEF Anchor, IsrRuns
  <1>2. cnt' = [cnt EXCEPT !.last = pinIn, !.due = Edges, !.load = L]
    BY DEF Anchor, pulse_sample_1khz
  <1>3. /\ hist'.was = pinIn /\ hist'.told = hist.told /\ hist'.torn = hist.torn \cup (Edges \cap rc)
        /\ hist'.edges = [p \in IoPins |-> IF E(p) THEN hist.edges[p] + 1 ELSE hist.edges[p]]
    <2>1. hist'.was = pinIn
      BY DEF Anchor, HistShape
    <2>2. hist'.told = hist.told
      BY DEF Anchor, HistShape
    <2>3. hist'.edges = [p \in IoPins |-> IF E(p) THEN hist.edges[p] + 1 ELSE hist.edges[p]]
      BY DEF Anchor, HistShape
    <2>4. hist'.torn = hist.torn \cup (Edges \cap rc)
      BY DEF Anchor, HistShape
    <2> QED BY <2>1, <2>2, <2>3, <2>4
  <1>4. /\ cnt \in CntType /\ cnt.n \in [IoPins -> Nat]
        /\ hist.told \in [IoPins -> Nat] /\ hist.edges \in [IoPins -> Nat]
        /\ pinIn \in [IoPins -> BOOLEAN] /\ rc \subseteq IoPins /\ hist.torn \subseteq IoPins
    BY DEF CntInv, CntType
  <1>5. Edges \subseteq IoPins /\ \A p \in IoPins : p \in Edges <=> E(p)
    BY EdgeIs DEF Edges
  <1> HIDE DEF E
  <1>6. L \in [IoPins -> Nat] /\ \A p \in Edges : L[p] = cnt.n[p]
    BY <1>4, <1>5
  <1> HIDE DEF L
  <1>7. cnt' \in CntType /\ cnt'.n = cnt.n /\ cnt'.last = pinIn /\ cnt'.due = Edges /\ cnt'.load = L
    BY <1>2, <1>4, <1>5, <1>6 DEF CntType
  <1>8. hist'.edges \in [IoPins -> Nat] /\ \A p \in IoPins : hist'.edges[p] = IF p \in Edges THEN hist.edges[p] + 1 ELSE hist.edges[p]
    BY <1>3, <1>4, <1>5
  <1>9. ASSUME NEW p \in IoPins, p \notin hist'.torn PROVE Accounted(p)'
    <2>1. hist.told[p] \in Nat /\ cnt.n[p] \in Nat /\ hist.edges[p] \in Nat
      BY <1>4
    <2>2. p \notin hist.torn /\ ~(p \in Edges /\ p \in rc)
      BY <1>3, <1>9
    <2>3. IF p \in rc THEN hist.told[p] = hist.edges[p] ELSE hist.told[p] + cnt.n[p] = hist.edges[p]
      BY <1>1, <2>2 DEF CntInv, Accounted
    <2>4. CASE p \in rc
      BY <2>1, <2>2, <2>3, <2>4, <1>1, <1>3, <1>7, <1>8 DEF Accounted
    <2>5. CASE p \notin rc /\ p \in Edges
      BY <2>1, <2>3, <2>5, <1>1, <1>3, <1>6, <1>7, <1>8 DEF Accounted
    <2>6. CASE p \notin rc /\ p \notin Edges
      BY <2>1, <2>3, <2>6, <1>1, <1>3, <1>7, <1>8 DEF Accounted
    <2> QED BY <2>4, <2>5, <2>6
  <1>10. rc' \cap cnt'.due \subseteq hist'.torn /\ hist'.torn \subseteq IoPins
    BY <1>1, <1>3, <1>4, <1>7
  <1>11. io'.core = "core1" => hist'.torn = {} /\ (rc' = {} \/ cnt'.due = {})
    BY <1>1, <1>3 DEF CntInv
  <1>12. pinIn' \in [IoPins -> BOOLEAN] /\ cnt'.last = hist'.was /\ rc' \subseteq IoPins /\ hist'.told \in [IoPins -> Nat]
    BY <1>1, <1>3, <1>4, <1>7
  <1> QED BY <1>7, <1>8, <1>9, <1>10, <1>11, <1>12 DEF CntInv

LEMMA CntStore ==
  ASSUME IoConf, CntInv, SampleStore PROVE CntInv'
  <1> DEFINE n == [p \in IoPins |-> IF p \in cnt.due THEN cnt.load[p] + 1 ELSE cnt.n[p]]
  <1>1. /\ cnt \in CntType /\ cnt.n \in [IoPins -> Nat] /\ cnt.load \in [IoPins -> Nat]
        /\ hist.told \in [IoPins -> Nat] /\ hist.edges \in [IoPins -> Nat]
    BY DEF CntInv, CntType
  <1>2. cnt' = [cnt EXCEPT !.n = n, !.due = {}, !.load = AllPins(0)] /\ UNCHANGED <<io, pinIn, rc, hist>>
    BY DEF SampleStore
  <1>3. n \in [IoPins -> Nat] /\ \A p \in IoPins : n[p] = IF p \in cnt.due THEN cnt.load[p] + 1 ELSE cnt.n[p]
    BY <1>1
  <1> HIDE DEF n
  <1>4. AllPins(0) \in [IoPins -> Nat]
    BY DEF AllPins
  <1>5. cnt' \in CntType /\ cnt'.n = n /\ cnt'.last = cnt.last /\ cnt'.due = {}
    BY <1>1, <1>2, <1>3, <1>4 DEF CntType
  <1>6. ASSUME NEW p \in IoPins, p \notin hist'.torn PROVE Accounted(p)'
    <2>1. hist.told[p] \in Nat /\ cnt.n[p] \in Nat /\ hist.edges[p] \in Nat /\ Accounted(p) /\ ~(p \in rc /\ p \in cnt.due)
      BY <1>1, <1>2, <1>6 DEF CntInv
    <2>2. CASE p \in rc
      BY <2>1, <2>2, <1>2 DEF Accounted
    <2>3. CASE p \notin rc
      BY <2>1, <2>3, <1>2, <1>3, <1>5 DEF Accounted
    <2> QED BY <2>2, <2>3
  <1> QED BY <1>2, <1>5, <1>6 DEF CntInv

(* What the counters of ps held is handed out, or given up.                *)
LEMMA Credited ==
  ASSUME CntInv, NEW ps \in SUBSET IoPins, rc = {}
  PROVE  /\ Credit(ps) \in [IoPins -> Nat]
         /\ \A p \in IoPins : p \notin ps => Credit(ps)[p] = hist.told[p]
         /\ \A p \in ps : p \notin hist.torn \cup cnt.due => Credit(ps)[p] = hist.edges[p]
  <1>1. /\ cnt.n \in [IoPins -> Nat] /\ hist.told \in [IoPins -> Nat] /\ hist.edges \in [IoPins -> Nat]
        /\ \A p \in IoPins : p \notin hist.torn \cup cnt.due => hist.told[p] + cnt.n[p] = hist.edges[p]
    BY DEF CntInv, CntType, Accounted
  <1> QED BY <1>1 DEF Credit

LEMMA CntCommand ==
  ASSUME HistShape, CntInv, (\E ps \in SUBSET IoPins : PulseClear(ps)) \/ ReadClrRead \/ ReadClrClear PROVE CntInv'
  <1>1. /\ cnt \in CntType /\ cnt.n \in [IoPins -> Nat]
        /\ hist.told \in [IoPins -> Nat] /\ hist.edges \in [IoPins -> Nat] /\ hist.torn \subseteq IoPins
    BY DEF CntInv, CntType
  <1>2. ASSUME NEW ps \in SUBSET IoPins, PulseClear(ps) PROVE CntInv'
    <2>1. rc = {} /\ rc' = rc /\ pinIn' = pinIn /\ io' = io /\ (io.core = "core1" => cnt.due = {})
      BY <1>2 DEF PulseClear, TaskRuns
    <2> DEFINE n == [p \in IoPins |-> IF p \in ps THEN 0 ELSE cnt.n[p]]
    <2>2. cnt' = [cnt EXCEPT !.n = n]
      BY <1>2 DEF PulseClear
    <2>3. n \in [IoPins -> Nat] /\ \A p \in IoPins : n[p] = IF p \in ps THEN 0 ELSE cnt.n[p]
      BY <1>1
    <2> HIDE DEF n
    <2>4. cnt' \in CntType /\ cnt'.n = n /\ cnt'.last = cnt.last /\ cnt'.due = cnt.due /\ cnt'.load = cnt.load
      BY <1>1, <2>2, <2>3 DEF CntType
    <2>5. hist'.told = Credit(ps) /\ hist'.was = hist.was /\ hist'.edges = hist.edges /\ hist'.torn = hist.torn \cup (ps \cap cnt.due)
      BY <1>2 DEF PulseClear, HistShape
    <2>6. /\ Credit(ps) \in [IoPins -> Nat]
          /\ \A p \in IoPins : p \notin ps => Credit(ps)[p] = hist.told[p]
          /\ \A p \in ps : p \notin hist.torn \cup cnt.due => Credit(ps)[p] = hist.edges[p]
      BY <2>1, Credited
    <2>7. ASSUME NEW p \in IoPins, p \notin hist'.torn PROVE Accounted(p)'
      <3>1. Accounted(p) /\ hist.edges[p] \in Nat /\ p \notin hist.torn /\ ~(p \in ps /\ p \in cnt.due)
        BY <1>1, <2>5, <2>7 DEF CntInv
      <3>2. CASE p \in ps
        BY <2>1, <2>3, <2>4, <2>5, <2>6, <3>1, <3>2 DEF Accounted
      <3>3. CASE p \notin ps
        BY <2>1, <2>3, <2>4, <2>5, <2>6, <3>1, <3>3 DEF Accounted
      <3> QED BY <3>2, <3>3
    <2>8. hist'.torn \subseteq IoPins /\ (io'.core = "core1" => hist'.torn = {})
      BY <1>1, <2>1, <2>5 DEF CntInv
    <2> QED BY <2>1, <2>4, <2>5, <2>6, <2>7, <2>8, <1>1 DEF CntInv
  <1>3. CASE ReadClrRead
    <2>1. PICK q \in IoPins : rc' = {q} /\ hist' = [hist EXCEPT !.told = Credit({q}), !.torn = @ \cup ({q} \cap cnt.due)]
      BY <1>3 DEF ReadClrRead
    <2>2. rc = {} /\ cnt' = cnt /\ pinIn' = pinIn /\ io' = io /\ (io.core = "core1" => cnt.due = {})
      BY <1>3 DEF ReadClrRead, TaskRuns
    <2>3. hist'.told = Credit({q}) /\ hist'.was = hist.was /\ hist'.edges = hist.edges /\ hist'.torn = hist.torn \cup ({q} \cap cnt.due)
      BY <2>1 DEF HistShape
    <2>4. /\ Credit({q}) \in [IoPins -> Nat]
          /\ \A p \in IoPins : p \notin {q} => Credit({q})[p] = hist.told[p]
          /\ \A p \in {q} : p \notin hist.torn \cup cnt.due => Credit({q})[p] = hist.edges[p]
      BY <2>2, Credited
    <2>5. ASSUME NEW p \in IoPins, p \notin hist'.torn PROVE Accounted(p)'
      <3>1. Accounted(p) /\ p \notin hist.torn /\ ~(p = q /\ p \in cnt.due)
        BY <2>3, <2>5 DEF CntInv
      <3>2. CASE p = q
        BY <2>1, <2>2, <2>3, <2>4, <3>1, <3>2 DEF Accounted
      <3>3. CASE p # q
        BY <2>1, <2>2, <2>3, <2>4, <3>1, <3>3 DEF Accounted
      <3> QED BY <3>2, <3>3
    <2>6. hist'.torn \subseteq IoPins /\ rc' \cap cnt'.due \subseteq hist'.torn
          /\ (io'.core = "core1" => hist'.torn = {} /\ cnt'.due = {})
      BY <1>1, <2>1, <2>2, <2>3 DEF CntInv
    <2> QED BY <2>1, <2>2, <2>3, <2>4, <2>5, <2>6, <1>1 DEF CntInv
  <1>4. CASE ReadClrClear
    <2> DEFINE n == [p \in IoPins |-> IF p \in rc THEN 0 ELSE cnt.n[p]]
    <2>1. cnt' = [cnt EXCEPT !.n = n] /\ rc' = {} /\ pinIn' = pinIn /\ hist' = hist /\ io' = io
      BY <1>4 DEF ReadClrClear
    <2>2. n \in [IoPins -> Nat] /\ \A p \in IoPins : n[p] = IF p \in rc THEN 0 ELSE cnt.n[p]
      BY <1>1
    <2> HIDE DEF n
    <2>3. cnt' \in CntType /\ cnt'.n = n /\ cnt'.last = cnt.last /\ cnt'.due = cnt.due /\ cnt'.load = cnt.load
      BY <1>1, <2>1, <2>2 DEF CntType
    <2>4. ASSUME NEW p \in IoPins, p \notin hist'.torn PROVE Accounted(p)'
      <3>1. hist.edges[p] \in Nat /\ hist.told[p] \in Nat /\ Accounted(p) /\ ~(p \in rc /\ p \in cnt.due)
        BY <1>1, <2>1, <2>4 DEF CntInv
      <3>2. CASE p \in rc
        BY <2>1, <2>2, <2>3, <3>1, <3>2 DEF Accounted
      <3>3. CASE p \notin rc
        BY <2>1, <2>2, <2>3, <3>1, <3>3 DEF Accounted
      <3> QED BY <3>2, <3>3
    <2> QED BY <2>1, <2>3, <2>4, <1>1 DEF CntInv
  <1> QED BY <1>2, <1>3, <1>4

LEMMA CntStep ==
  ASSUME HistShape, IoConf, CntInv, PinActs PROVE CntInv'
  <1>1. ASSUME NEW p \in IoPins, PinMoves(p) PROVE CntInv'
    <2>1. pinIn' \in [IoPins -> BOOLEAN]
      BY <1>1 DEF PinMoves, CntInv
    <2>2. UNCHANGED <<io, cnt, rc, hist>>
      BY <1>1 DEF PinMoves
    <2> QED BY <2>1, <2>2 DEF CntInv, Accounted
  <1>2. ASSUME NEW m, GpioIpol(m) PROVE CntInv'
    BY <1>2, CntFrame DEF GpioIpol, PinHist
  <1>3. CASE Anchor
    BY <1>3, CntSample
  <1>4. CASE SampleStore
    BY <1>4, CntStore
  <1> QED BY <1>1, <1>2, <1>3, <1>4, CntCommand DEF PinActs


-----------------------------------------------------------------------------
(* The debounced inputs: one sample through a shift register.              *)
Majority(sr, old) ==
  IF \A k \in 1..Len(sr) : sr[k] THEN TRUE ELSE IF \A k \in 1..Len(sr) : ~sr[k] THEN FALSE ELSE old

LEMMA AllAgree ==
  ASSUME NEW d \in Nat, d >= 2, NEW sr \in Seq(BOOLEAN), Len(sr) = d, NEW b \in BOOLEAN, NEW old \in BOOLEAN,
         \A k \in 1..d : sr[k] = b
  PROVE  Majority(sr, old) = b
  <1>1. 1 \in 1..d
    OBVIOUS
  <1>2. CASE b = TRUE
    BY <1>2 DEF Majority
  <1>3. CASE b = FALSE
    <2>1. ~(\A k \in 1..Len(sr) : sr[k])
      BY <1>1, <1>3
    <2>2. \A k \in 1..Len(sr) : ~sr[k]
      BY <1>3
    <2> QED BY <1>3, <2>1, <2>2 DEF Majority
  <1> QED BY <1>2, <1>3

LEMMA SomeDiffer ==
  ASSUME NEW d \in Nat, NEW sr \in Seq(BOOLEAN), Len(sr) = d, NEW b \in BOOLEAN, NEW old \in BOOLEAN,
         NEW i \in 1..d, NEW j \in 1..d, sr[i] = b, sr[j] = ~b
  PROVE  Majority(sr, old) = old
  <1>1. ~(\A k \in 1..Len(sr) : sr[k])
    <2>1. CASE b = TRUE
      BY <2>1
    <2>2. CASE b = FALSE
      BY <2>2
    <2> QED BY <2>1, <2>2
  <1>2. ~(\A k \in 1..Len(sr) : ~sr[k])
    <2>1. CASE b = TRUE
      BY <2>1
    <2>2. CASE b = FALSE
      BY <2>2
    <2> QED BY <2>1, <2>2
  <1> QED BY <1>1, <1>2 DEF Majority

Streak(d, v, n, b) == IF b # v THEN 1 ELSE IF n < d THEN n + 1 ELSE n
HeldLevel(d, v, n, b, settled) == IF b = v /\ n + 1 >= d THEN b ELSE settled
Moved(sr, b) == Append(Tail(sr), b)

LEMMA RegisterShift ==
  ASSUME NEW d \in Nat, d >= 2, NEW sr \in Seq(BOOLEAN), Len(sr) = d, NEW v \in BOOLEAN, NEW n, NEW settled \in BOOLEAN,
         Register(d, sr, v, n, settled), NEW b \in BOOLEAN
  PROVE  /\ Moved(sr, b) \in Seq(BOOLEAN) /\ Len(Moved(sr, b)) = d
         /\ Register(d, Moved(sr, b), b, Streak(d, v, n, b), HeldLevel(d, v, n, b, settled))
         /\ Majority(Moved(sr, b), settled) = HeldLevel(d, v, n, b, settled)
  <1> DEFINE s2 == Moved(sr, b)
             n2 == Streak(d, v, n, b)
             t2 == HeldLevel(d, v, n, b, settled)
  <1>1. n \in 0..d /\ (\A k \in (d - n + 1)..d : sr[k] = v)
    BY DEF Register
  <1>2. s2 \in Seq(BOOLEAN) /\ Len(s2) = d /\ s2[d] = b /\ \A k \in 1..(d - 1) : s2[k] = sr[k + 1]
    <2>1. sr # <<>>
      OBVIOUS
    <2>2. Tail(sr) \in Seq(BOOLEAN) /\ Len(Tail(sr)) = d - 1 /\ \A k \in 1..(d - 1) : Tail(sr)[k] = sr[k + 1]
      BY <2>1, HeadTailProperties
    <2> DEFINE t == Tail(sr)
    <2> HIDE DEF t
    <2>3. /\ Append(t, b) \in Seq(BOOLEAN) /\ Len(Append(t, b)) = (d - 1) + 1 /\ Append(t, b)[(d - 1) + 1] = b
          /\ \A k \in 1..(d - 1) : Append(t, b)[k] = t[k]
      BY <2>2 DEF t
    <2>4. (d - 1) + 1 = d
      OBVIOUS
    <2> QED BY <2>2, <2>3, <2>4 DEF t, Moved
  <1> HIDE DEF s2
  <1>3. d \in 1..d /\ d - 1 \in 1..d /\ d - 1 \in 1..(d - 1) /\ (d - 1) + 1 = d
    OBVIOUS
  <1>4. CASE b = v /\ n + 1 >= d
    <2>1. n2 = d /\ t2 = b
      BY <1>1, <1>4 DEF Streak, HeldLevel
    <2>2. \A k \in 1..d : s2[k] = b
      <3> SUFFICES ASSUME NEW k \in 1..d PROVE s2[k] = b
        OBVIOUS
      <3>1. CASE k = d
        BY <3>1, <1>2
      <3>2. CASE k # d
        <4>1. k \in 1..(d - 1) /\ k + 1 \in (d - n + 1)..d
          BY <3>2, <1>1, <1>4
        <4>2. sr[k + 1] = v
          BY <1>1, <4>1
        <4> QED BY <4>1, <4>2, <1>2, <1>4
      <3> QED BY <3>1, <3>2
    <2>3. Majority(s2, settled) = b
      BY <1>2, <2>2, AllAgree
    <2>4. d - d + 1 = 1 /\ d \in 0..d /\ ~(d < d)
      OBVIOUS
    <2>5. Register(d, s2, b, n2, t2)
      BY <2>1, <2>2, <2>4 DEF Register
    <2> QED BY <2>1, <2>3, <2>5, <1>2 DEF s2
  <1>5. CASE b = v /\ ~(n + 1 >= d)
    <2>1. n2 = n + 1 /\ t2 = settled /\ n < d /\ n + 1 < d /\ n + 1 > 0 /\ n + 1 \in 0..d
      BY <1>1, <1>5 DEF Streak, HeldLevel
    <2>2. \A k \in (d - (n + 1) + 1)..d : s2[k] = b
      <3> SUFFICES ASSUME NEW k \in (d - (n + 1) + 1)..d PROVE s2[k] = b
        OBVIOUS
      <3>1. CASE k = d
        BY <3>1, <1>2
      <3>2. CASE k # d
        <4>1. k \in 1..(d - 1) /\ k + 1 \in (d - n + 1)..d
          BY <3>2, <1>1, <2>1
        <4>2. sr[k + 1] = v
          BY <1>1, <4>1
        <4> QED BY <4>1, <4>2, <1>2, <1>5
      <3> QED BY <3>1, <3>2
    <2>3. CASE n > 0 /\ sr[d - n] = ~v
      <3>1. d - (n + 1) \in 1..(d - 1) /\ (d - (n + 1)) + 1 = d - n /\ d - (n + 1) \in 1..d
        BY <1>1, <2>1
      <3>2. s2[d - (n + 1)] = ~b
        BY <3>1, <2>3, <1>2, <1>5
      <3>3. Majority(s2, settled) = settled
        BY <1>2, <1>3, <3>1, <3>2, SomeDiffer
      <3>4. Register(d, s2, b, n2, t2)
        BY <2>1, <2>2, <3>2 DEF Register
      <3> QED BY <2>1, <3>3, <3>4, <1>2 DEF s2
    <2>4. CASE v = FALSE /\ settled = FALSE /\ \A k \in 1..d : sr[k] = FALSE
      <3>1. \A k \in 1..d : s2[k] = FALSE
        <4> SUFFICES ASSUME NEW k \in 1..d PROVE s2[k] = FALSE
          OBVIOUS
        <4>1. CASE k = d
          BY <4>1, <1>2, <1>5, <2>4
        <4>2. CASE k # d
          <5>1. k \in 1..(d - 1) /\ k + 1 \in 1..d
            BY <4>2
          <5> QED BY <5>1, <1>2, <2>4
        <4> QED BY <4>1, <4>2
      <3>2. b = FALSE
        BY <1>5, <2>4
      <3>3. \A k \in 1..d : s2[k] = b
        BY <3>1, <3>2
      <3>4. Majority(s2, settled) = b
        BY <1>2, <3>3, AllAgree
      <3>5. Register(d, s2, b, n2, t2)
        BY <2>1, <2>2, <2>4, <3>1, <3>2 DEF Register
      <3> QED BY <2>1, <2>4, <3>2, <3>4, <3>5, <1>2 DEF s2
    <2> QED BY <2>1, <2>3, <2>4 DEF Register
  <1>6. CASE b # v
    <2>1. n2 = 1 /\ t2 = settled /\ 1 < d /\ 1 \in 0..d /\ 1 > 0
      BY <1>6 DEF Streak, HeldLevel
    <2>2. sr[d] = v
      <3>1. CASE n > 0
        <4>1. d \in (d - n + 1)..d
          BY <1>1, <3>1
        <4> QED BY <1>1, <4>1
      <3>2. CASE ~(n > 0)
        <4>1. n < d
          BY <1>1, <3>2
        <4>2. v = FALSE /\ \A k \in 1..d : sr[k] = FALSE
          BY <3>2, <4>1 DEF Register
        <4> QED BY <1>3, <4>2
      <3> QED BY <3>1, <3>2
    <2>3. s2[d - 1] = ~b
      <3>1. s2[d - 1] = v
        BY <1>2, <1>3, <2>2
      <3> QED BY <3>1, <1>6
    <2>4. Majority(s2, settled) = settled
      BY <1>2, <1>3, <2>3, SomeDiffer
    <2>5. \A k \in (d - 1 + 1)..d : k = d
      OBVIOUS
    <2>6. Register(d, s2, b, n2, t2)
      BY <2>1, <2>3, <2>5, <1>2 DEF Register
    <2> QED BY <2>1, <2>4, <2>6, <1>2 DEF s2
  <1> QED BY <1>4, <1>5, <1>6

LEMMA DebFrame ==
  ASSUME DebInv, UNCHANGED <<work, io, gp, PinHist>> PROVE DebInv'
  BY DEF DebInv, PinHist

LEMMA StreakKept ==
  ASSUME HistShape, DebInv, IoConf, Anchor, pinIn \in [IoPins -> BOOLEAN]
  PROVE  /\ \A p \in IoPins : IoSeen(p) \in BOOLEAN
         /\ hist'.streak = [p \in IoPins |-> [v |-> IoSeen(p), n |-> Streak(io.depth[p], hist.streak[p].v, hist.streak[p].n, IoSeen(p))]]
         /\ hist'.settled = [p \in IoPins |-> IF io.depth[p] < 2 THEN IoSeen(p)
                               ELSE HeldLevel(io.depth[p], hist.streak[p].v, hist.streak[p].n, IoSeen(p), hist.settled[p])]
         /\ hist'.streak \in [IoPins -> [v : BOOLEAN, n : Nat]] /\ hist'.settled \in [IoPins -> BOOLEAN]
  <1>1. \A p \in IoPins : IoSeen(p) \in BOOLEAN
    BY DEF IoSeen
  <1>2. hist'.streak = [p \in IoPins |-> [v |-> IoSeen(p), n |-> Streak(io.depth[p], hist.streak[p].v, hist.streak[p].n, IoSeen(p))]]
    BY DEF Anchor, HistShape, Streak
  <1>3. hist'.settled = [p \in IoPins |->
           IF io.depth[p] < 2 \/ (IoSeen(p) = hist.streak[p].v /\ hist.streak[p].n + 1 >= io.depth[p])
           THEN IoSeen(p) ELSE hist.settled[p]]
    BY DEF Anchor, HistShape
  <1>4. hist'.settled = [p \in IoPins |-> IF io.depth[p] < 2 THEN IoSeen(p)
                               ELSE HeldLevel(io.depth[p], hist.streak[p].v, hist.streak[p].n, IoSeen(p), hist.settled[p])]
    <2> HIDE DEF IoSeen
    <2> QED BY <1>3 DEF HeldLevel
  <1>5. hist.streak \in [IoPins -> [v : BOOLEAN, n : Nat]] /\ hist.settled \in [IoPins -> BOOLEAN]
    BY DEF DebInv
  <1>6. \A p \in IoPins : Streak(io.depth[p], hist.streak[p].v, hist.streak[p].n, IoSeen(p)) \in Nat
    BY <1>5 DEF Streak
  <1>7. \A p \in IoPins : HeldLevel(io.depth[p], hist.streak[p].v, hist.streak[p].n, IoSeen(p), hist.settled[p]) \in BOOLEAN
    BY <1>1, <1>5 DEF HeldLevel
  <1>8. hist'.streak \in [IoPins -> [v : BOOLEAN, n : Nat]]
    BY <1>1, <1>2, <1>6
  <1>9. hist'.settled \in [IoPins -> BOOLEAN]
    BY <1>1, <1>4, <1>7
  <1> QED BY <1>1, <1>2, <1>4, <1>8, <1>9

LEMMA DebSample ==
  ASSUME HistShape, DebInv, IoConf, Anchor, pinIn \in [IoPins -> BOOLEAN], work = "gpio" PROVE DebInv'
  <1> DEFINE D(p) == io.depth[p]
             H(p) == hist.streak[p]
  <1>1. /\ \A p \in IoPins : IoSeen(p) \in BOOLEAN
        /\ hist'.streak = [p \in IoPins |-> [v |-> IoSeen(p), n |-> Streak(D(p), H(p).v, H(p).n, IoSeen(p))]]
        /\ hist'.settled = [p \in IoPins |-> IF D(p) < 2 THEN IoSeen(p)
                               ELSE HeldLevel(D(p), H(p).v, H(p).n, IoSeen(p), hist.settled[p])]
        /\ hist'.streak \in [IoPins -> [v : BOOLEAN, n : Nat]] /\ hist'.settled \in [IoPins -> BOOLEAN]
    BY StreakKept
  <1>2. /\ gp \in GpType /\ gp.deb = hist.settled /\ hist.settled \in [IoPins -> BOOLEAN]
        /\ hist.streak \in [IoPins -> [v : BOOLEAN, n : Nat]] /\ gp.sr \in [IoPins -> Seq(BOOLEAN)] /\ gp.ipol \in [IoPins -> BOOLEAN]
    BY DEF DebInv, GpType
  <1>3. /\ gp' = [gp EXCEPT
              !.raw = [p \in IoPins |-> IoSeen(p)],
              !.sr = [p \in IoPins |-> IF io.depth[p] < 2 THEN gp.sr[p] ELSE Shifted(p, IoSeen(p))],
              !.deb = [p \in IoPins |-> Settle(p, Shifted(p, IoSeen(p)), IoSeen(p))]]
        /\ io' = io /\ work' = work
    BY DEF Anchor, gpio_sample_1khz
  <1>4. /\ gp'.sr = [p \in IoPins |-> IF D(p) < 2 THEN gp.sr[p] ELSE Shifted(p, IoSeen(p))]
        /\ gp'.deb = [p \in IoPins |-> Settle(p, Shifted(p, IoSeen(p)), IoSeen(p))]
        /\ gp'.raw = [p \in IoPins |-> IoSeen(p)] /\ gp'.ipol = gp.ipol
        /\ gp' = [raw |-> gp'.raw, deb |-> gp'.deb, sr |-> gp'.sr, ipol |-> gp'.ipol]
    BY <1>2, <1>3 DEF GpType
  <1>5. ASSUME NEW p \in IoPins
        PROVE  /\ gp'.deb[p] = hist'.settled[p] /\ gp'.sr[p] \in Seq(BOOLEAN)
               /\ D(p) >= 2 => /\ Len(gp'.sr[p]) = D(p)
                               /\ Register(D(p), gp'.sr[p], hist'.streak[p].v, hist'.streak[p].n, hist'.settled[p])
    <2> DEFINE d == D(p)
               b == IoSeen(p)
               sr == gp.sr[p]
               v == hist.streak[p].v
               n == hist.streak[p].n
               old == hist.settled[p]
    <2>1. d \in Nat /\ b \in BOOLEAN /\ sr \in Seq(BOOLEAN) /\ v \in BOOLEAN /\ n \in Nat /\ old \in BOOLEAN /\ gp.deb[p] = old
      BY <1>1, <1>2 DEF IoConf
    <2>2. /\ gp'.deb[p] = Settle(p, Shifted(p, b), b) /\ gp'.sr[p] = (IF d < 2 THEN sr ELSE Shifted(p, b))
          /\ hist'.settled[p] = (IF d < 2 THEN b ELSE HeldLevel(d, v, n, b, old))
          /\ hist'.streak[p].v = b /\ hist'.streak[p].n = Streak(d, v, n, b)
      BY <1>1, <1>4
    <2>3. CASE d < 2
      <3>1. Settle(p, Shifted(p, b), b) = b
        BY <2>3 DEF Settle
      <3>2. ~(d >= 2)
        BY <2>1, <2>3
      <3> QED BY <2>1, <2>2, <2>3, <3>1, <3>2
    <2>4. CASE ~(d < 2)
      <3>1. d >= 2 /\ Len(sr) = d /\ Register(d, sr, v, n, old)
        BY <2>1, <2>4 DEF DebInv
      <3>2. Shifted(p, b) = Moved(sr, b)
        <4>1. ~(Len(gp.sr[p]) < io.depth[p])
          BY <3>1, <2>1
        <4> QED BY <4>1 DEF Shifted, Moved
      <3>3. Settle(p, Shifted(p, b), b) = Majority(Moved(sr, b), old)
        BY <2>1, <2>4, <3>2 DEF Settle, Majority
      <3> HIDE DEF d, b, sr, v, n, old
      <3>4. /\ Moved(sr, b) \in Seq(BOOLEAN) /\ Len(Moved(sr, b)) = d
            /\ Register(d, Moved(sr, b), b, Streak(d, v, n, b), HeldLevel(d, v, n, b, old))
            /\ Majority(Moved(sr, b), old) = HeldLevel(d, v, n, b, old)
        BY <2>1, <3>1, RegisterShift
      <3>5. gp'.sr[p] = Moved(sr, b) /\ hist'.settled[p] = HeldLevel(d, v, n, b, old) /\ gp'.deb[p] = HeldLevel(d, v, n, b, old)
        BY <2>2, <2>4, <3>2, <3>3, <3>4
      <3>6. Register(d, gp'.sr[p], hist'.streak[p].v, hist'.streak[p].n, hist'.settled[p])
        BY <3>4, <3>5, <2>2
      <3> QED BY <3>4, <3>5, <3>6 DEF d
    <2> QED BY <2>3, <2>4
  <1> HIDE DEF D, H
  <1>6. gp'.sr \in [IoPins -> Seq(BOOLEAN)]
    BY <1>4, <1>5
  <1>7. gp'.deb = hist'.settled
    <2>1. gp'.deb = [p \in IoPins |-> gp'.deb[p]]
      BY <1>4
    <2>2. hist'.settled = [p \in IoPins |-> hist'.settled[p]]
      BY <1>1
    <2>3. \A p \in IoPins : gp'.deb[p] = hist'.settled[p]
      BY <1>5
    <2> QED BY <2>1, <2>2, <2>3
  <1>8. gp'.raw \in [IoPins -> BOOLEAN]
    BY <1>1, <1>4
  <1>9. gp' \in GpType
    BY <1>1, <1>2, <1>4, <1>6, <1>7, <1>8 DEF GpType
  <1> QED BY <1>1, <1>3, <1>5, <1>7, <1>9 DEF DebInv, D, GpType

LEMMA DebStep ==
  ASSUME HistShape, IoConf, CntInv, DebInv, PinActs PROVE DebInv'
  <1>0. pinIn \in [IoPins -> BOOLEAN] /\ gp \in GpType
    BY DEF CntInv, DebInv
  <1>1. CASE Anchor
    <2>1. CASE work = "gpio"
      BY <1>0, <1>1, <2>1, DebSample
    <2>2. CASE work # "gpio"
      <3>1. gp' = gp /\ work' = work
        BY <1>1, <2>2 DEF Anchor
      <3>2. hist'.streak \in [IoPins -> [v : BOOLEAN, n : Nat]] /\ hist'.settled \in [IoPins -> BOOLEAN]
        BY <1>0, <1>1, StreakKept
      <3> QED BY <1>0, <2>2, <3>1, <3>2 DEF DebInv, GpType
    <2> QED BY <2>1, <2>2
  <1>2. ASSUME NEW p \in IoPins, PinMoves(p) PROVE DebInv'
    BY <1>2, DebFrame DEF PinMoves, PinHist
  <1>3. ASSUME NEW m \in {AllPins(FALSE), AllPins(TRUE)}, GpioIpol(m) PROVE DebInv'
    <2>1. gp' = [gp EXCEPT !.ipol = m] /\ UNCHANGED <<work, io, hist>>
      BY <1>3 DEF GpioIpol
    <2>2. m \in [IoPins -> BOOLEAN]
      BY <1>3 DEF AllPins
    <2>3. gp' \in GpType /\ gp'.deb = gp.deb /\ gp'.sr = gp.sr
      BY <1>0, <2>1, <2>2 DEF GpType
    <2> QED BY <2>1, <2>3 DEF DebInv, GpType
  <1>4. ASSUME NEW ps \in SUBSET IoPins, PulseClear(ps) PROVE DebInv'
    <2>1. UNCHANGED <<work, io, gp>> /\ hist'.streak = hist.streak /\ hist'.settled = hist.settled
      BY <1>4 DEF PulseClear, HistShape
    <2> QED BY <2>1 DEF DebInv, GpType
  <1>5. CASE ReadClrRead
    <2>1. UNCHANGED <<work, io, gp>> /\ hist'.streak = hist.streak /\ hist'.settled = hist.settled
      BY <1>5 DEF ReadClrRead, HistShape
    <2> QED BY <2>1 DEF DebInv, GpType
  <1>6. CASE ReadClrClear
    BY <1>6, DebFrame DEF ReadClrClear, PinHist
  <1>7. CASE SampleStore
    BY <1>7, DebFrame DEF SampleStore, PinHist
  <1> QED BY <1>1, <1>2, <1>3, <1>4, <1>5, <1>6, <1>7 DEF PinActs


-----------------------------------------------------------------------------
(* The servo bank and its feeder.                                          *)
LEMMA PinsAre == PinCount \in Nat /\ IoPins = 0..(PinCount - 1)
  <1>1. IsFiniteSet(IoPins) /\ IoPins = 0..(Cardinality(IoPins) - 1)
    BY NodeIoAssumption
  <1> QED BY <1>1, FS_CardinalityType DEF PinCount

LEMMA BankWords ==
  ASSUME NEW n \in 0..PinCount, NEW us \in UsType
  PROVE  /\ ServoWords(n, us) \in Seq(Word(PinCount)) /\ Len(ServoWords(n, us)) \in 0..(PinCount + 1)
         /\ Len(ServoWords(n, us)) > 0 => /\ n > 0 /\ Lasts(ServoWords(n, us)) = SERVO_FRAME_US
                                          /\ \A i \in 0..(n - 1) : HoldsUp(ServoWords(n, us), i) = us[i]
  <1>1. PinCount \in Nat /\ IoPins = 0..(PinCount - 1) /\ n \in Nat
    BY PinsAre
  <1>2. CASE n = 0
    <2>1. ServoWords(n, us) = <<>>
      BY <1>2 DEF ServoWords
    <2> QED BY <1>1, <2>1
  <1>3. CASE n # 0
    <2>1. n > 0 /\ \A i \in 0..(n - 1) : i \in IoPins
      BY <1>1, <1>3
    <2>2. \A i \in 0..(n - 1) : us[i] \in SERVO_MIN_US..SERVO_MAX_US
      BY <2>1 DEF UsType
    <2> DEFINE ws == ServoWords(n, us)
    <2>3. /\ ws \in Seq(Word(n)) /\ Len(ws) \in 1..(n + 1) /\ Lasts(ws) = SERVO_FRAME_US
          /\ \A i \in 0..(n - 1) : HoldsUp(ws, i) = us[i]
      BY <1>1, <2>1, <2>2, FrameExact
    <2>4. Word(n) \subseteq Word(PinCount)
      <3>1. 0..(n - 1) \subseteq 0..(PinCount - 1)
        BY <1>1
      <3> QED BY <3>1 DEF Word
    <2> HIDE DEF ws
    <2>5. ws \in Seq(Word(PinCount))
      BY <2>3, <2>4, SeqMonotonic
    <2>6. Len(ws) \in 0..(PinCount + 1)
      BY <1>1, <2>3
    <2> QED BY <2>1, <2>3, <2>5, <2>6 DEF ws
  <1> QED BY <1>2, <1>3

LEMMA LaidOut ==
  ASSUME NEW S, NEW new \in Seq(S), NEW old \in Seq(S)
  PROVE  Laid(new, old) \in Seq(S) /\ StartsWith(Laid(new, old), new) /\ Len(old) <= Len(Laid(new, old))
  <1> DEFINE t == SubSeq(old, Len(new) + 1, Len(old))
             m == Len(new) + 1
             k == Len(old)
  <1>1. m \in Int /\ k \in Int /\ Len(new) \in Nat /\ Len(old) \in Nat /\ \A i \in m..k : i \in 1..Len(old)
    OBVIOUS
  <1>2. \A i \in m..k : old[i] \in S
    BY <1>1, ElementOfSeq
  <1>3. t \in Seq(S) /\ Len(t) = IF m <= k THEN k - m + 1 ELSE 0
    BY <1>1, <1>2, SubSeqProperties
  <1> HIDE DEF t
  <1>4. /\ new \o t \in Seq(S) /\ Len(new \o t) = Len(new) + Len(t)
        /\ \A i \in 1..(Len(new) + Len(t)) : (new \o t)[i] = IF i <= Len(new) THEN new[i] ELSE t[i - Len(new)]
    BY <1>3, ConcatProperties
  <1>5. Laid(new, old) = new \o t
    BY DEF Laid, t
  <1>6. Len(t) \in Nat /\ \A i \in 1..Len(new) : i \in 1..(Len(new) + Len(t)) /\ i <= Len(new)
    BY <1>1, <1>3
  <1>7. \A i \in 1..Len(new) : (new \o t)[i] = new[i]
    BY <1>4, <1>6
  <1>8. Len(new) <= Len(new \o t) /\ Len(old) <= Len(new \o t)
    BY <1>1, <1>3, <1>4, <1>6
  <1> QED BY <1>4, <1>5, <1>7, <1>8 DEF StartsWith

LEMMA ClampFits == ASSUME NEW w \in Nat PROVE Clamped(w) \in SERVO_MIN_US..SERVO_MAX_US
  BY SMT DEF Clamped, SERVO_MIN_US, SERVO_MAX_US

LEMMA ServoStays ==
  ASSUME ServoInv, UNCHANGED <<sv, feeder, ServoHist>> PROVE ServoInv'
  BY DEF ServoInv, ServoHist


LEMMA ServoSetStep ==
  ASSUME HistShape, ServoInv, NEW n \in ServoCount, NEW ws \in [1..n -> ServoWidths], ServoSet(ws)
  PROVE  ServoInv'
  <1> DEFINE us == [p \in IoPins |-> IF p < Len(ws) /\ p < sv.n THEN Clamped(ws[p + 1]) ELSE sv.us[p]]
             w == ServoWords(sv.n, us)
             f == Laid(w, sv.frame)
  <1>1. sv \in SvType
    BY DEF ServoInv, ServoOf
  <1>2. /\ sv.n \in 0..PinCount /\ sv.us \in UsType /\ sv.frame \in Seq(Word(PinCount)) /\ sv.len \in 0..(PinCount + 1)
        /\ sv.ready \in BOOLEAN
    BY <1>1 DEF SvType
  <1>3. PinCount \in Nat /\ IoPins = 0..(PinCount - 1)
    BY PinsAre
  <1>4. n \in Nat /\ Len(ws) = n
    BY <1>3 DEF ServoCount, PinCount
  <1>5. us \in UsType
    <2>1. ASSUME NEW p \in IoPins PROVE us[p] \in SERVO_MIN_US..SERVO_MAX_US
      <3>1. CASE p < Len(ws) /\ p < sv.n
        <4>1. p + 1 \in 1..n
          BY <1>3, <1>4, <3>1
        <4>2. ws[p + 1] \in Nat
          <5>1. ServoWidths \subseteq Nat
            BY NodeIoAssumption
          <5> QED BY <4>1, <5>1
        <4> QED BY <3>1, <4>2, ClampFits
      <3>2. CASE ~(p < Len(ws) /\ p < sv.n)
        BY <1>2, <3>2 DEF UsType
      <3> QED BY <3>1, <3>2
    <2> QED BY <2>1 DEF UsType
  <1>6. sv' = [sv EXCEPT !.us = us, !.frame = f, !.building = TRUE] /\ feeder' = feeder
    BY DEF ServoSet
  <1> HIDE DEF us
  <1>7. w \in Seq(Word(PinCount)) /\ Len(w) \in 0..(PinCount + 1)
    BY <1>2, <1>5, BankWords
  <1> HIDE DEF w
  <1>8. f \in Seq(Word(PinCount)) /\ StartsWith(f, w) /\ Len(sv.frame) <= Len(f)
    BY <1>2, <1>7, LaidOut
  <1> HIDE DEF f
  <1>9. sv'.us = us /\ sv'.frame = f /\ sv'.building = TRUE /\ sv'.n = sv.n /\ sv'.len = sv.len /\ sv'.ready = sv.ready
    BY <1>1, <1>6 DEF SvType
  <1>10. sv' \in SvType
    <2>1. sv' = [n |-> sv'.n, us |-> sv'.us, frame |-> sv'.frame, len |-> sv'.len, building |-> sv'.building, ready |-> sv'.ready]
      BY <1>1, <1>6 DEF SvType
    <2> QED BY <1>2, <1>5, <1>8, <1>9, <2>1 DEF SvType
  <1>11. hist'.clean = FALSE
    BY DEF ServoSet, HistShape
  <1>12. sv.len <= Len(sv.frame) /\ feeder \in FeederType /\ feeder.at <= feeder.len /\ feeder.len <= Len(sv.frame)
         /\ Len(feeder.played) = feeder.at
    BY DEF ServoInv, ServoOf
  <1>13. Len(sv.frame) \in Nat /\ Len(f) \in Nat /\ sv.len \in Int /\ feeder.len \in Nat
    BY <1>2, <1>3, <1>8, <1>12 DEF FeederType
  <1>14. sv.len <= Len(f) /\ feeder.len <= Len(f)
    BY <1>8, <1>12, <1>13
  <1>15. StartsWith(sv'.frame, ServoWords(sv'.n, sv'.us))
    BY <1>8, <1>9 DEF w
  <1>16. ServoOf(sv', feeder', hist'.clean)
    BY <1>6, <1>9, <1>10, <1>11, <1>12, <1>14, <1>15 DEF ServoOf
  <1> QED BY <1>16 DEF ServoInv

LEMMA ServoStep ==
  ASSUME HistShape, ServoInv, ServoActs PROVE ServoInv'
  <1>1. /\ sv \in SvType /\ feeder \in FeederType /\ feeder.at <= feeder.len /\ feeder.len <= Len(sv.frame)
        /\ Len(feeder.played) = feeder.at /\ sv.len <= Len(sv.frame)
        /\ StartsWith(sv.frame, ServoWords(sv.n, sv.us))
    BY DEF ServoInv, ServoOf
  <1>2. /\ sv.n \in 0..PinCount /\ sv.us \in UsType /\ sv.frame \in Seq(Word(PinCount)) /\ sv.len \in 0..(PinCount + 1)
        /\ sv.building \in BOOLEAN /\ sv.ready \in BOOLEAN
        /\ sv = [n |-> sv.n, us |-> sv.us, frame |-> sv.frame, len |-> sv.len, building |-> sv.building, ready |-> sv.ready]
    BY <1>1 DEF SvType
  <1>3. /\ feeder.len \in Nat /\ feeder.at \in Nat /\ feeder.played \in Seq(Word(PinCount))
        /\ feeder = [len |-> feeder.len, at |-> feeder.at, played |-> feeder.played]
    BY <1>1 DEF FeederType
  <1>4. PinCount \in Nat /\ sv.len \in Nat /\ Len(sv.frame) \in Nat
    BY <1>2, PinsAre
  <1>5. ASSUME NEW n \in ServoCount, NEW ws \in [1..n -> ServoWidths], ServoSet(ws) PROVE ServoInv'
    BY <1>5, ServoSetStep
  <1>6. CASE ServoPublish
    <2> DEFINE m == Len(ServoWords(sv.n, sv.us))
    <2>1. sv' = [sv EXCEPT !.building = FALSE, !.len = m] /\ feeder' = feeder /\ hist'.clean = FALSE
      BY <1>6 DEF ServoPublish, HistShape
    <2>2. m \in 0..(PinCount + 1) /\ m <= Len(sv.frame)
      BY <1>1, <1>2, BankWords DEF StartsWith
    <2> HIDE DEF m
    <2>3. sv' = [n |-> sv.n, us |-> sv.us, frame |-> sv.frame, len |-> m, building |-> FALSE, ready |-> sv.ready]
      BY <1>2, <2>1
    <2>4. sv' \in SvType
      BY <1>2, <2>2, <2>3 DEF SvType
    <2>5. sv'.n = sv.n /\ sv'.us = sv.us /\ sv'.frame = sv.frame /\ sv'.len = m
      BY <2>3
    <2>6. ServoOf(sv', feeder', hist'.clean)
      BY <1>1, <2>1, <2>2, <2>4, <2>5 DEF ServoOf, m
    <2> QED BY <2>6 DEF ServoInv
  <1>7. CASE ServoStop
    <2>1. sv' = [sv EXCEPT !.n = 0, !.len = 0, !.ready = FALSE] /\ feeder' = feeder /\ hist'.clean = FALSE
      BY <1>7 DEF ServoStop, HistShape
    <2>2. sv' = [n |-> 0, us |-> sv.us, frame |-> sv.frame, len |-> 0, building |-> sv.building, ready |-> FALSE]
      BY <1>2, <2>1
    <2>3. 0 \in 0..PinCount /\ 0 \in 0..(PinCount + 1)
      BY <1>4
    <2>4. sv' \in SvType
      BY <1>2, <2>2, <2>3 DEF SvType
    <2>5. ServoWords(sv'.n, sv'.us) = <<>> /\ Len(<<>>) = 0
      BY <2>2 DEF ServoWords
    <2>6. sv'.frame = sv.frame /\ sv'.len = 0
      BY <2>2
    <2>7. StartsWith(sv'.frame, <<>>)
      BY <1>4, <2>5, <2>6 DEF StartsWith
    <2>8. ServoOf(sv', feeder', hist'.clean)
      <3>1. StartsWith(sv'.frame, ServoWords(sv'.n, sv'.us)) /\ Len(ServoWords(sv'.n, sv'.us)) = 0
        BY <2>5, <2>7
      <3>2. feeder' = feeder /\ hist'.clean = FALSE
        BY <2>1
      <3>3. 0 <= Len(sv.frame)
        BY <1>4
      <3> QED BY <1>1, <2>4, <2>6, <3>1, <3>2, <3>3 DEF ServoOf
    <2> QED BY <2>8 DEF ServoInv
  <1>8. CASE FeedStart
    <2>1. feeder' = [len |-> sv.len, at |-> 0, played |-> <<>>] /\ sv' = sv /\ hist'.clean = ~sv.building
      BY <1>8 DEF FeedStart, HistShape
    <2>2. feeder' \in FeederType /\ feeder'.len = sv.len /\ feeder'.at = 0 /\ feeder'.played = <<>>
      BY <1>4, <2>1 DEF FeederType
    <2>3. Len(<<>>) = 0 /\ 1..0 = {} /\ 0 <= sv.len
      BY <1>4
    <2>4. hist'.clean \in BOOLEAN /\ (hist'.clean = TRUE => sv.building = FALSE)
      BY <1>2, <2>1
    <2>5. sv.building = FALSE => sv.len = Len(ServoWords(sv.n, sv.us))
      BY DEF ServoInv, ServoOf
    <2>6. ServoOf(sv', feeder', hist'.clean)
      BY <1>1, <2>1, <2>2, <2>3, <2>4, <2>5 DEF ServoOf
    <2> QED BY <2>6 DEF ServoInv
  <1>9. CASE FeedWord
    <2> DEFINE a == feeder.at + 1
               x == sv.frame[a]
    <2>1. feeder.at < feeder.len /\ feeder' = [feeder EXCEPT !.at = @ + 1, !.played = Append(@, x)] /\ sv' = sv /\ hist' = hist
      BY <1>9 DEF FeedWord
    <2>2. a \in Nat /\ a <= feeder.len /\ a \in 1..Len(sv.frame)
      BY <1>1, <1>3, <1>4, <2>1
    <2>3. x \in Word(PinCount)
      BY <1>2, <2>2
    <2> HIDE DEF x
    <2>4. feeder' = [len |-> feeder.len, at |-> a, played |-> Append(feeder.played, x)]
      BY <1>3, <2>1
    <2>5. /\ Append(feeder.played, x) \in Seq(Word(PinCount)) /\ Len(Append(feeder.played, x)) = a
          /\ Append(feeder.played, x)[a] = x /\ \A k \in 1..feeder.at : Append(feeder.played, x)[k] = feeder.played[k]
      BY <1>1, <1>3, <2>3
    <2>6. \A k \in 1..a : k \in 1..feeder.at \/ k = a
      BY <1>3
    <2> HIDE DEF a
    <2>7. feeder' \in FeederType /\ feeder'.len = feeder.len /\ feeder'.at = a /\ feeder'.played = Append(feeder.played, x)
      BY <1>3, <2>2, <2>4, <2>5 DEF FeederType
    <2>8. ASSUME hist.clean = TRUE PROVE \A k \in 1..a : Append(feeder.played, x)[k] = sv.frame[k]
      <3>1. \A k \in 1..feeder.at : feeder.played[k] = sv.frame[k]
        BY <2>8 DEF ServoInv, ServoOf
      <3> QED BY <2>5, <2>6, <3>1 DEF x
    <2>9. /\ hist.clean \in BOOLEAN /\ (hist.clean = TRUE => sv.building = FALSE /\ feeder.len = sv.len)
          /\ (sv.building = FALSE => sv.len = Len(ServoWords(sv.n, sv.us)))
      BY DEF ServoInv, ServoOf
    <2>10. ServoOf(sv', feeder', hist'.clean)
      BY <1>1, <2>1, <2>2, <2>5, <2>7, <2>8, <2>9 DEF ServoOf
    <2> QED BY <2>10 DEF ServoInv
  <1> QED BY <1>5, <1>6, <1>7, <1>8, <1>9 DEF ServoActs

(* A frame that was played whole with no command since is exact.           *)
LEMMA PlayedExact ==
  ASSUME ServoInv PROVE ServoFrame
  <1>1. SUFFICES ASSUME hist.clean, feeder.len > 0, feeder.at = feeder.len
                 PROVE  /\ Lasts(feeder.played) = SERVO_FRAME_US
                        /\ \A i \in 0..(sv.n - 1) : HoldsUp(feeder.played, i) = sv.us[i]
    BY DEF ServoFrame
  <1> DEFINE ws == ServoWords(sv.n, sv.us)
  <1>2. sv \in SvType /\ feeder \in FeederType /\ hist.clean \in BOOLEAN /\ Len(feeder.played) = feeder.at
    BY DEF ServoInv, ServoOf
  <1>3. hist.clean = TRUE
    BY <1>1, <1>2
  <1>4. /\ feeder.len = Len(ws) /\ StartsWith(sv.frame, ws)
        /\ \A k \in 1..feeder.at : feeder.played[k] = sv.frame[k]
    BY <1>3 DEF ServoInv, ServoOf
  <1>5. sv.n \in 0..PinCount /\ sv.us \in UsType /\ feeder.played \in Seq(Word(PinCount))
    BY <1>2 DEF SvType, FeederType
  <1>6. /\ ws \in Seq(Word(PinCount))
        /\ Len(ws) > 0 => /\ Lasts(ws) = SERVO_FRAME_US
                          /\ \A i \in 0..(sv.n - 1) : HoldsUp(ws, i) = sv.us[i]
    BY <1>5, BankWords
  <1> HIDE DEF ws
  <1>7. Len(feeder.played) = Len(ws) /\ Len(ws) > 0
    BY <1>1, <1>2, <1>4
  <1>8. \A k \in 1..Len(ws) : feeder.played[k] = ws[k]
    BY <1>1, <1>4 DEF StartsWith
  <1>9. feeder.played = ws
    BY <1>5, <1>6, <1>7, <1>8, SeqEqual
  <1> QED BY <1>6, <1>7, <1>9


-----------------------------------------------------------------------------
(* The I2C queues: numbered records in rising order.                       *)
Numbered(T) == \A x \in T : x.id \in Nat

LEMMA RiseAppend ==
  ASSUME NEW T, Numbered(T), NEW s \in Seq(T), NEW x \in T, IdsRise(s), \A k \in 1..Len(s) : s[k].id < x.id
  PROVE  IdsRise(Append(s, x))
  <1> DEFINE n == Len(s)
             t == Append(s, x)
  <1>1. n \in Nat /\ Len(t) = n + 1 /\ t[n + 1] = x /\ \A k \in 1..n : t[k] = s[k]
    OBVIOUS
  <1> SUFFICES ASSUME NEW j \in 1..(n + 1), NEW k \in 1..(n + 1), j < k PROVE t[j].id < t[k].id
    BY <1>1 DEF IdsRise
  <1>2. j \in 1..n /\ (k \in 1..n \/ k = n + 1)
    BY <1>1
  <1> HIDE DEF t, n
  <1>3. CASE k = n + 1
    BY <1>1, <1>2, <1>3 DEF n
  <1>4. CASE k \in 1..n
    BY <1>1, <1>2, <1>4 DEF n, IdsRise
  <1> QED BY <1>2, <1>3, <1>4

LEMMA BeforeAppendRight ==
  ASSUME NEW T, NEW U, NEW s \in Seq(T), NEW t \in Seq(U), NEW x \in U, Before(s, t), \A k \in 1..Len(s) : s[k].id < x.id
  PROVE  Before(s, Append(t, x))
  <1> DEFINE n == Len(t)
             u == Append(t, x)
  <1>1. n \in Nat /\ Len(u) = n + 1 /\ u[n + 1] = x /\ \A k \in 1..n : u[k] = t[k]
    OBVIOUS
  <1>2. \A k \in 1..(n + 1) : k \in 1..n \/ k = n + 1
    BY <1>1
  <1> HIDE DEF n, u
  <1>3. Before(s, u)
    BY <1>1, <1>2 DEF Before, n
  <1> QED BY <1>3 DEF u

LEMMA BeforeAppendLeft ==
  ASSUME NEW T, NEW U, NEW s \in Seq(T), NEW t \in Seq(U), NEW x \in T, Before(s, t), \A k \in 1..Len(t) : x.id < t[k].id
  PROVE  Before(Append(s, x), t)
  <1> DEFINE n == Len(s)
             u == Append(s, x)
  <1>1. n \in Nat /\ Len(u) = n + 1 /\ u[n + 1] = x /\ \A k \in 1..n : u[k] = s[k]
    OBVIOUS
  <1>2. \A k \in 1..(n + 1) : k \in 1..n \/ k = n + 1
    BY <1>1
  <1> HIDE DEF n, u
  <1>3. Before(u, t)
    BY <1>1, <1>2 DEF Before, n
  <1> QED BY <1>3 DEF u

LEMMA UpToAppend ==
  ASSUME NEW T, NEW s \in Seq(T), NEW x \in T, NEW m, UpTo(s, m), x.id <= m
  PROVE  UpTo(Append(s, x), m)
  <1> DEFINE n == Len(s)
             u == Append(s, x)
  <1>1. n \in Nat /\ Len(u) = n + 1 /\ u[n + 1] = x /\ \A k \in 1..n : u[k] = s[k]
    OBVIOUS
  <1>2. \A k \in 1..(n + 1) : k \in 1..n \/ k = n + 1
    BY <1>1
  <1> HIDE DEF n, u
  <1>3. UpTo(u, m)
    BY <1>1, <1>2 DEF UpTo, n
  <1> QED BY <1>3 DEF u

(* The head of a rising list, and what is left.                            *)
LEMMA TailRises ==
  ASSUME NEW T, NEW s \in Seq(T), s # <<>>, IdsRise(s)
  PROVE  /\ Head(s) \in T /\ Tail(s) \in Seq(T) /\ Len(Tail(s)) <= Len(s)
         /\ 1 \in 1..Len(s) /\ Head(s) = s[1]
         /\ \A k \in 1..Len(Tail(s)) : k + 1 \in 1..Len(s) /\ Tail(s)[k] = s[k + 1] /\ Head(s).id < Tail(s)[k].id
         /\ IdsRise(Tail(s))
  <1> DEFINE n == Len(s)
             t == Tail(s)
  <1>1. n \in Nat /\ n # 0
    BY EmptySeq
  <1>2. Head(s) \in T /\ t \in Seq(T) /\ Len(t) = n - 1 /\ \A k \in 1..Len(t) : t[k] = s[k + 1]
    BY HeadTailProperties
  <1>3. Head(s) = s[1]
    OBVIOUS
  <1> HIDE DEF t
  <1>4. 1 \in 1..n /\ \A k \in 1..Len(t) : k + 1 \in 1..n /\ 1 < k + 1
    BY <1>1, <1>2
  <1>5. \A k \in 1..Len(t) : Head(s).id < t[k].id
    BY <1>2, <1>3, <1>4 DEF IdsRise
  <1>6. \A j, k \in 1..Len(t) : j < k => j + 1 < k + 1
    BY <1>2
  <1>7. IdsRise(t)
    BY <1>2, <1>4, <1>6 DEF IdsRise
  <1>8. Len(t) <= n
    BY <1>1, <1>2
  <1> QED BY <1>2, <1>3, <1>4, <1>5, <1>7, <1>8 DEF t

LEMMA I2cStays ==
  ASSUME I2cInv, UNCHANGED <<i2, I2cHist>> PROVE I2cInv'
  BY DEF I2cInv, I2cHist

LEMMA NumberedTypes == Numbered(ReqType) /\ Numbered(ReplyType)
  BY DEF Numbered, ReqType, ReplyType

LEMMA SeqIds ==
  ASSUME NEW T, Numbered(T), NEW s \in Seq(T) PROVE \A k \in 1..Len(s) : s[k].id \in Nat
  BY DEF Numbered

I2cQueues == [reqq : Seq(ReqType), upq : Seq(ReplyType)]

LEMMA I2cAskStep ==
  ASSUME HistShape, I2cInv, NEW k \in Sinks, I2cAsk(k) PROVE I2cInv'
  <1> DEFINE q == i2.reqq
             u == i2.upq
             a == hist.asked
             ans == hist.answers
             x == [id |-> a + 1, sink |-> k]
  <1>1. /\ i2 \in I2cQueues /\ a \in Nat /\ ans \in Seq(ReplyType) /\ Len(q) <= I2cDepth /\ Len(u) <= UpDepth
        /\ IdsRise(q) /\ IdsRise(u) /\ IdsRise(ans) /\ Before(u, q) /\ Before(ans, q) /\ Before(ans, u)
        /\ UpTo(q, a) /\ UpTo(u, a) /\ UpTo(ans, a)
    BY DEF I2cInv, I2cOf, I2cQueues
  <1>2. q \in Seq(ReqType) /\ u \in Seq(ReplyType) /\ i2 = [reqq |-> q, upq |-> u]
    BY <1>1 DEF I2cQueues
  <1>3. /\ i2' = [i2 EXCEPT !.reqq = IF Len(@) < I2cDepth THEN Append(@, x) ELSE @]
        /\ hist'.asked = a + 1 /\ hist'.answers = ans
    BY DEF I2cAsk, HistShape
  <1>4. x \in ReqType /\ x.id = a + 1 /\ a + 1 \in Nat
    BY <1>1 DEF ReqType
  <1> HIDE DEF x, q, u, a, ans
  <1>5. /\ \A j \in 1..Len(q) : q[j].id \in Nat
        /\ \A j \in 1..Len(u) : u[j].id \in Nat
        /\ \A j \in 1..Len(ans) : ans[j].id \in Nat
    BY <1>1, <1>2, SeqIds, NumberedTypes
  <1>6. UpTo(q, a + 1) /\ UpTo(u, a + 1) /\ UpTo(ans, a + 1)
    BY <1>1, <1>5 DEF UpTo
  <1>7. /\ \A j \in 1..Len(q) : q[j].id < x.id
        /\ \A j \in 1..Len(u) : u[j].id < x.id
        /\ \A j \in 1..Len(ans) : ans[j].id < x.id
    <2>1. \A i \in Nat : i <= a => i < x.id
      BY <1>1, <1>4
    <2>2. \A j \in 1..Len(q) : q[j].id <= a
      BY <1>1 DEF UpTo
    <2>3. \A j \in 1..Len(u) : u[j].id <= a
      BY <1>1 DEF UpTo
    <2>4. \A j \in 1..Len(ans) : ans[j].id <= a
      BY <1>1 DEF UpTo
    <2> QED BY <1>5, <2>1, <2>2, <2>3, <2>4
  <1>8. CASE Len(q) < I2cDepth
    <2> DEFINE q2 == Append(q, x)
    <2>1. i2' = [reqq |-> q2, upq |-> u]
      BY <1>2, <1>3, <1>8
    <2>2. q2 \in Seq(ReqType) /\ Len(q2) = Len(q) + 1 /\ Len(q) \in Nat
      BY <1>2, <1>4
    <2>3. I2cDepth \in Nat
      BY NodeIoAssumption
    <2>4. Len(q2) <= I2cDepth
      BY <1>8, <2>2, <2>3
    <2>5. IdsRise(q2)
      BY <1>1, <1>2, <1>4, <1>7, RiseAppend, NumberedTypes
    <2>6. Before(u, q2) /\ Before(ans, q2)
      BY <1>1, <1>2, <1>4, <1>7, BeforeAppendRight
    <2>7. UpTo(q2, a + 1)
      <3>1. x.id <= a + 1
        BY <1>4
      <3> QED BY <1>2, <1>4, <1>6, <3>1, UpToAppend
    <2> HIDE DEF q2
    <2>8. i2' \in I2cQueues /\ i2'.reqq = q2 /\ i2'.upq = u
      BY <1>2, <2>1, <2>2 DEF I2cQueues
    <2>9. I2cOf(i2', hist'.asked, hist'.answers)
      BY <1>1, <1>3, <1>4, <1>6, <2>4, <2>5, <2>6, <2>7, <2>8 DEF I2cOf, I2cQueues
    <2> QED BY <2>9 DEF I2cInv
  <1>9. CASE ~(Len(q) < I2cDepth)
    <2>1. i2' = [reqq |-> q, upq |-> u]
      BY <1>2, <1>3, <1>9
    <2>2. i2' \in I2cQueues /\ i2'.reqq = q /\ i2'.upq = u
      BY <1>2, <2>1 DEF I2cQueues
    <2>3. I2cOf(i2', hist'.asked, hist'.answers)
      BY <1>1, <1>3, <1>4, <1>6, <2>2 DEF I2cOf, I2cQueues
    <2> QED BY <2>3 DEF I2cInv
  <1> QED BY <1>8, <1>9

LEMMA I2cServeStep ==
  ASSUME I2cInv, NEW st \in {"ok", "io_error"}, I2cServe(st) PROVE I2cInv'
  <1> DEFINE q == i2.reqq
             u == i2.upq
             a == hist.asked
             ans == hist.answers
             h == Head(q)
             x == [id |-> h.id, dest |-> h.sink, status |-> st]
             u2 == reply_sink_send(h, st)
  <1>1. /\ i2 \in I2cQueues /\ a \in Nat /\ ans \in Seq(ReplyType) /\ Len(q) <= I2cDepth /\ Len(u) <= UpDepth
        /\ IdsRise(q) /\ IdsRise(u) /\ IdsRise(ans) /\ Before(u, q) /\ Before(ans, q) /\ Before(ans, u)
        /\ UpTo(q, a) /\ UpTo(u, a) /\ UpTo(ans, a)
    BY DEF I2cInv, I2cOf, I2cQueues
  <1>2. q \in Seq(ReqType) /\ u \in Seq(ReplyType) /\ Len(q) \in Nat /\ Len(u) \in Nat
    BY <1>1 DEF I2cQueues
  <1>3. q # <<>> /\ i2' = [reqq |-> Tail(q), upq |-> u2] /\ hist' = hist
    BY DEF I2cServe, Serve
  <1>4. u2 = IF h.sink = "engine" \/ Len(u) >= UpDepth THEN u ELSE Append(u, x)
    BY DEF reply_sink_send
  <1> DEFINE t == Tail(q)
  <1> HIDE DEF x, u2, q, u, a, ans, h, t
  <1>5. /\ h \in ReqType /\ t \in Seq(ReqType) /\ Len(t) <= Len(q) /\ 1 \in 1..Len(q) /\ h = q[1] /\ IdsRise(t)
        /\ \A k \in 1..Len(t) : k + 1 \in 1..Len(q) /\ t[k] = q[k + 1] /\ h.id < t[k].id
    BY <1>1, <1>2, <1>3, TailRises DEF h, t
  <1>6. x \in ReplyType /\ x.id = h.id /\ h.id \in Nat
    BY <1>5 DEF x, ReqType, ReplyType
  <1>7. Len(t) \in Nat /\ I2cDepth \in Nat /\ UpDepth \in Nat
    BY <1>5, NodeIoAssumption
  <1>8. Len(t) <= I2cDepth
    BY <1>1, <1>2, <1>5, <1>7
  <1>9. Before(u, t) /\ Before(ans, t) /\ UpTo(t, a)
    BY <1>1, <1>5 DEF Before, UpTo
  <1>10. /\ \A j \in 1..Len(u) : u[j].id < x.id
         /\ \A j \in 1..Len(ans) : ans[j].id < x.id
         /\ x.id <= a
    BY <1>1, <1>5, <1>6 DEF Before, UpTo
  <1>11. u2 \in Seq(ReplyType) /\ Len(u2) <= UpDepth /\ IdsRise(u2) /\ Before(u2, t) /\ Before(ans, u2) /\ UpTo(u2, a)
    <2>1. CASE h.sink = "engine" \/ Len(u) >= UpDepth
      <3>1. u2 = u
        BY <1>4, <2>1
      <3> QED BY <3>1, <1>1, <1>2, <1>9
    <2>2. CASE ~(h.sink = "engine" \/ Len(u) >= UpDepth)
      <3>1. u2 = Append(u, x)
        BY <1>4, <2>2
      <3>2. Append(u, x) \in Seq(ReplyType) /\ Len(Append(u, x)) = Len(u) + 1
        BY <1>2, <1>6
      <3>3. Len(u2) <= UpDepth
        BY <1>2, <1>7, <2>2, <3>1, <3>2
      <3>4. IdsRise(Append(u, x))
        BY <1>1, <1>2, <1>6, <1>10, RiseAppend, NumberedTypes
      <3>5. Before(Append(u, x), t)
        <4>1. \A k \in 1..Len(t) : x.id < t[k].id
          BY <1>5, <1>6
        <4> QED BY <1>2, <1>5, <1>6, <1>9, <4>1, BeforeAppendLeft
      <3>6. Before(ans, Append(u, x))
        BY <1>1, <1>2, <1>6, <1>10, BeforeAppendRight
      <3>7. UpTo(Append(u, x), a)
        BY <1>1, <1>2, <1>6, <1>10, UpToAppend
      <3> QED BY <3>1, <3>2, <3>3, <3>4, <3>5, <3>6, <3>7
    <2> QED BY <2>1, <2>2
  <1>12. i2' \in I2cQueues /\ i2'.reqq = t /\ i2'.upq = u2
    BY <1>3, <1>5, <1>11 DEF I2cQueues, t
  <1>13. hist'.asked = a /\ hist'.answers = ans
    BY <1>3 DEF a, ans
  <1>14. I2cOf(i2', hist'.asked, hist'.answers)
    BY <1>1, <1>5, <1>8, <1>9, <1>11, <1>12, <1>13 DEF I2cOf, I2cQueues
  <1> QED BY <1>14 DEF I2cInv

LEMMA UpPumpStep ==
  ASSUME HistShape, I2cInv, UpPump PROVE I2cInv'
  <1> DEFINE q == i2.reqq
             u == i2.upq
             a == hist.asked
             ans == hist.answers
             h == Head(u)
             t == Tail(u)
             b == Append(ans, h)
  <1>1. /\ i2 \in I2cQueues /\ a \in Nat /\ ans \in Seq(ReplyType) /\ Len(q) <= I2cDepth /\ Len(u) <= UpDepth
        /\ IdsRise(q) /\ IdsRise(u) /\ IdsRise(ans) /\ Before(u, q) /\ Before(ans, q) /\ Before(ans, u)
        /\ UpTo(q, a) /\ UpTo(u, a) /\ UpTo(ans, a)
    BY DEF I2cInv, I2cOf, I2cQueues
  <1>2. q \in Seq(ReqType) /\ u \in Seq(ReplyType) /\ Len(u) \in Nat /\ i2 = [reqq |-> q, upq |-> u]
    BY <1>1 DEF I2cQueues
  <1>3. u # <<>> /\ i2' = [i2 EXCEPT !.upq = t] /\ hist'.answers = b /\ hist'.asked = a
    BY DEF UpPump, HistShape
  <1>4. i2' = [reqq |-> q, upq |-> t]
    BY <1>2, <1>3
  <1> HIDE DEF q, u, a, ans, h, t, b
  <1>5. /\ h \in ReplyType /\ t \in Seq(ReplyType) /\ Len(t) <= Len(u) /\ 1 \in 1..Len(u) /\ h = u[1] /\ IdsRise(t)
        /\ \A k \in 1..Len(t) : k + 1 \in 1..Len(u) /\ t[k] = u[k + 1] /\ h.id < t[k].id
    BY <1>1, <1>2, <1>3, TailRises DEF h, t
  <1>6. Len(t) \in Nat /\ UpDepth \in Nat
    BY <1>5, NodeIoAssumption
  <1>7. Len(t) <= UpDepth
    BY <1>1, <1>2, <1>5, <1>6
  <1>8. Before(t, q) /\ Before(ans, t) /\ UpTo(t, a)
    BY <1>1, <1>5 DEF Before, UpTo
  <1>9. /\ \A j \in 1..Len(ans) : ans[j].id < h.id
        /\ \A j \in 1..Len(q) : h.id < q[j].id
        /\ h.id <= a
    BY <1>1, <1>5 DEF Before, UpTo
  <1>10. b \in Seq(ReplyType) /\ b = Append(ans, h)
    BY <1>1, <1>5 DEF b
  <1>11. IdsRise(b)
    BY <1>1, <1>5, <1>9, <1>10, RiseAppend, NumberedTypes
  <1>12. Before(b, q)
    BY <1>1, <1>2, <1>5, <1>9, <1>10, BeforeAppendLeft
  <1>13. Before(b, t)
    <2>1. \A k \in 1..Len(t) : h.id < t[k].id
      BY <1>5
    <2> QED BY <1>1, <1>5, <1>8, <1>10, <2>1, BeforeAppendLeft
  <1>14. UpTo(b, a)
    BY <1>1, <1>5, <1>9, <1>10, UpToAppend
  <1>15. i2' \in I2cQueues /\ i2'.reqq = q /\ i2'.upq = t
    BY <1>2, <1>4, <1>5 DEF I2cQueues
  <1>16. I2cOf(i2', hist'.asked, hist'.answers)
    BY <1>1, <1>3, <1>5, <1>7, <1>8, <1>10, <1>11, <1>12, <1>13, <1>14, <1>15 DEF I2cOf, I2cQueues
  <1> QED BY <1>16 DEF I2cInv

LEMMA I2cStep ==
  ASSUME HistShape, I2cInv, I2cActs PROVE I2cInv'
  BY I2cAskStep, I2cServeStep, UpPumpStep DEF I2cActs


-----------------------------------------------------------------------------
(* The initial states.                                                     *)
LEMMA AdcStart == ASSUME IoInit PROVE AdcInv /\ RdInv
  <1>1. AdcNch \in Nat /\ AdcNch > 0 /\ Chans = 0..(AdcNch - 1) /\ 0 \in Chans
    BY ChansFacts
  <1>2. /\ adc = [phase |-> 0, acc |-> [c \in Chans |-> NoAcc], closing |-> -1, seq |-> 0, stat |-> [c \in Chans |-> Stat(NoAcc, 0)]]
        /\ rd = [seq |-> -1, got |-> <<>>, tries |-> 0]
        /\ hist.fed = [c \in Chans |-> <<>>] /\ hist.last = [c \in Chans |-> <<>>]
    BY DEF IoInit
  <1>3. AccOf(NoAcc, <<>>) /\ NoAcc \in AccType
    BY AccStart DEF AccOf
  <1>4. Stat(NoAcc, 0) \in StatType /\ Stat(NoAcc, 0).of = 0
    BY <1>3, StatFigures
  <1> DEFINE s0 == Stat(NoAcc, 0)
  <1> HIDE DEF s0
  <1>5. adc \in AdcType
    <2>1. -1 \in -1..(AdcNch - 1)
      BY <1>1
    <2> QED BY <1>1, <1>2, <1>3, <1>4, <2>1 DEF AdcType
  <1>6. hist.fed \in [Chans -> Seq(Raws)] /\ hist.last \in [Chans -> Seq(Raws)]
    BY <1>2
  <1>7. \A c \in Chans : AccOf(adc.acc[c], hist.fed[c])
    BY <1>2, <1>3
  <1>8. WindowFigures
    BY <1>2 DEF WindowFigures
  <1>9. \A c \in Chans : adc.stat[c].of = IF c < adc.closing THEN adc.seq + 1 ELSE adc.seq
    BY <1>1, <1>2, <1>4
  <1>10. AdcInv
    BY <1>5, <1>6, <1>7, <1>8, <1>9 DEF AdcInv, AdcType
  <1>11. rd \in [seq : Int, got : Seq(Int), tries : Nat] /\ Len(rd.got) = 0
    BY <1>2
  <1>12. RdInv
    <2>1. rd.seq = -1 /\ adc.seq = 0
      BY <1>2
    <2>2. rd.seq <= adc.seq
      BY <2>1
    <2>3. \A k \in 1..Len(rd.got) : FALSE
      BY <1>11
    <2>4. ~StatsAnswered
      BY <1>1, <1>11 DEF StatsAnswered
    <2> QED BY <1>1, <1>11, <2>2, <2>3, <2>4 DEF RdInv, StatsOneWindow
  <1> QED BY <1>10, <1>12

LEMMA PinStart == ASSUME IoInit PROVE IoConf /\ HistShape /\ CntInv /\ DebInv
  <1>1. PinCount \in Nat /\ IoPins = 0..(PinCount - 1)
    BY PinsAre
  <1>2. io \in [core : {"core0", "core1"}, depth : [IoPins -> Nat], edge : [IoPins -> 0..3], servos : 0..PinCount]
    <2>1. io \in [core : IF work \in {"adc", "counter"} THEN {"core0", "core1"} ELSE {"core1"},
                  depth : IF work = "gpio" THEN [IoPins -> IoDepths] ELSE {AllPins(0)},
                  edge : IF work = "counter" THEN [IoPins -> 0..3] ELSE {AllPins(3)},
                  servos : IF work = "servo" THEN ServoCount ELSE {0}]
      BY DEF IoInit
    <2>2. AllPins(0) \in [IoPins -> Nat] /\ AllPins(3) \in [IoPins -> 0..3] /\ [IoPins -> IoDepths] \subseteq [IoPins -> Nat]
      <3>1. IoDepths \subseteq Nat
        BY NodeIoAssumption
      <3>2. [IoPins -> IoDepths] \subseteq [IoPins -> Nat]
        BY <3>1
      <3>3. AllPins(0) \in [IoPins -> Nat] /\ AllPins(3) \in [IoPins -> 0..3]
        BY DEF AllPins
      <3> QED BY <3>2, <3>3
    <2>3. io.depth \in [IoPins -> Nat]
      BY <2>1, <2>2
    <2>4. io.edge \in [IoPins -> 0..3]
      BY <2>1, <2>2
    <2>5. io.servos \in 0..PinCount
      BY <1>1, <2>1 DEF ServoCount, PinCount
    <2>6. io = [core |-> io.core, depth |-> io.depth, edge |-> io.edge, servos |-> io.servos]
      BY <2>1
    <2>7. io.core \in {"core0", "core1"}
      BY <2>1
    <2> QED BY <2>3, <2>4, <2>5, <2>6, <2>7
  <1>3. pinIn \in [IoPins -> BOOLEAN]
    BY DEF IoInit, AllPins
  <1>4. HistShape
    BY DEF IoInit, HistShape
  <1>5. CntInv
    <2>1. /\ cnt = [n |-> AllPins(0), last |-> pinIn, due |-> {}, load |-> AllPins(0)]
          /\ hist.was = pinIn /\ rc = {} /\ hist.torn = {}
          /\ hist.edges = AllPins(0) /\ hist.told = AllPins(0)
      BY DEF IoInit, CounterStart
    <2>2. AllPins(0) \in [IoPins -> Nat] /\ \A p \in IoPins : AllPins(0)[p] = 0
      BY DEF AllPins
    <2> DEFINE z == AllPins(0)
    <2> HIDE DEF z
    <2>3. z \in [IoPins -> Nat] /\ \A p \in IoPins : z[p] = 0
      BY <2>2 DEF z
    <2>4. /\ cnt = [n |-> z, last |-> pinIn, due |-> {}, load |-> z] /\ hist.edges = z /\ hist.told = z
      BY <2>1 DEF z
    <2>5. cnt \in CntType /\ cnt.last = hist.was
      BY <1>3, <2>1, <2>3, <2>4 DEF CntType
    <2>6. \A p \in IoPins : Accounted(p)
      BY <2>1, <2>3, <2>4 DEF Accounted
    <2> QED BY <1>3, <2>1, <2>3, <2>4, <2>5, <2>6 DEF CntInv
  <1>6. DebInv
    <2> DEFINE z == AllPins(FALSE)
    <2>1. /\ gp = [raw |-> z, deb |-> z,
                   sr |-> [p \in IoPins |-> [k \in 1..io.depth[p] |-> FALSE]], ipol |-> z]
          /\ hist.streak = [p \in IoPins |-> [v |-> FALSE, n |-> 0]] /\ hist.settled = z
      BY DEF IoInit
    <2>2. z \in [IoPins -> BOOLEAN] /\ \A p \in IoPins : z[p] = FALSE
      BY DEF AllPins
    <2> HIDE DEF z
    <2>3. \A p \in IoPins : io.depth[p] \in Nat
      BY <1>2
    <2>4. ASSUME NEW p \in IoPins
          PROVE  gp.sr[p] \in Seq(BOOLEAN) /\ Len(gp.sr[p]) = io.depth[p] /\ \A k \in 1..io.depth[p] : gp.sr[p][k] = FALSE
      <3>1. gp.sr[p] = [k \in 1..io.depth[p] |-> FALSE] /\ io.depth[p] \in Nat
        BY <2>1, <2>3
      <3> DEFINE d == io.depth[p]
                 s == gp.sr[p]
      <3> HIDE DEF d, s
      <3>2. s = [k \in 1..d |-> FALSE] /\ d \in Nat
        BY <3>1 DEF d, s
      <3>3. s \in Seq(BOOLEAN) /\ Len(s) = d /\ \A k \in 1..d : s[k] = FALSE
        BY <3>2
      <3> QED BY <3>3 DEF d, s
    <2>5. gp.sr \in [IoPins -> Seq(BOOLEAN)]
      <3>1. gp.sr = [p \in IoPins |-> gp.sr[p]]
        BY <2>1
      <3> QED BY <2>4, <3>1
    <2>6. gp \in GpType /\ gp.deb = hist.settled
      BY <2>1, <2>2, <2>5 DEF GpType
    <2>7. ASSUME NEW p \in IoPins
          PROVE  Register(io.depth[p], gp.sr[p], hist.streak[p].v, hist.streak[p].n, hist.settled[p])
      <3>1. hist.streak[p].v = FALSE /\ hist.streak[p].n = 0 /\ hist.settled[p] = FALSE /\ io.depth[p] \in Nat
        BY <2>1, <2>2, <2>3
      <3>2. \A k \in (io.depth[p] - 0 + 1)..io.depth[p] : FALSE
        BY <3>1
      <3>3. 0 \in 0..io.depth[p]
        BY <3>1
      <3> QED BY <2>4, <3>1, <3>2, <3>3 DEF Register
    <2>8. hist.streak \in [IoPins -> [v : BOOLEAN, n : Nat]] /\ hist.settled \in [IoPins -> BOOLEAN]
      BY <2>1, <2>2
    <2> QED BY <2>4, <2>6, <2>7, <2>8 DEF DebInv
  <1> QED BY <1>2, <1>4, <1>5, <1>6 DEF IoConf

LEMMA ServoStart == ASSUME IoInit PROVE ServoInv /\ I2cInv
  <1>1. io.servos \in 0..PinCount /\ PinCount \in Nat
    BY PinStart, PinsAre DEF IoConf
  <1> DEFINE n == io.servos
             us == AllPins(1500)
             w == ServoWords(n, us)
  <1>2. us \in UsType
    <2>1. 1500 \in SERVO_MIN_US..SERVO_MAX_US
      BY SMT DEF SERVO_MIN_US, SERVO_MAX_US
    <2> DEFINE c == 1500
    <2> HIDE DEF c
    <2>2. AllPins(c) \in UsType
      BY <2>1 DEF AllPins, UsType, c
    <2> QED BY <2>2 DEF c
  <1>3. /\ sv = [n |-> n, us |-> us, frame |-> w, len |-> Len(w), building |-> FALSE, ready |-> n > 0]
        /\ feeder = [len |-> 0, at |-> 0, played |-> <<>>] /\ hist.clean = FALSE
        /\ i2 = [reqq |-> <<>>, upq |-> <<>>] /\ hist.asked = 0 /\ hist.answers = <<>>
    BY SMT DEF IoInit
  <1> HIDE DEF us
  <1>4. w \in Seq(Word(PinCount)) /\ Len(w) \in 0..(PinCount + 1)
    BY <1>1, <1>2, BankWords
  <1>5. sv.n = n /\ sv.us = us /\ sv.frame = w /\ sv.len = Len(w)
    BY <1>3
  <1> HIDE DEF w
  <1>6. sv \in SvType
    BY <1>1, <1>2, <1>3, <1>4 DEF SvType
  <1>7. feeder \in FeederType /\ feeder.at = 0 /\ feeder.len = 0 /\ Len(feeder.played) = 0
    BY <1>3 DEF FeederType
  <1>8. Len(w) \in Nat
    BY <1>4
  <1>9. StartsWith(w, w)
    BY <1>8 DEF StartsWith
  <1>10. ServoOf(sv, feeder, hist.clean)
    <2>1. ServoWords(sv.n, sv.us) = w
      BY <1>5 DEF w
    <2>2. hist.clean = FALSE /\ 1..0 = {}
      BY <1>3
    <2>3. Len(w) <= Len(w) /\ 0 <= 0 /\ 0 <= Len(w)
      BY <1>8
    <2> QED BY <1>5, <1>6, <1>7, <1>9, <2>1, <2>2, <2>3 DEF ServoOf
  <1>11. i2 \in I2cQueues /\ i2.reqq = <<>> /\ i2.upq = <<>>
    BY <1>3 DEF I2cQueues
  <1>12. Len(<<>>) = 0 /\ 1..0 = {} /\ <<>> \in Seq(ReplyType) /\ I2cDepth \in Nat /\ UpDepth \in Nat
    BY NodeIoAssumption
  <1>13. I2cOf(i2, hist.asked, hist.answers)
    <2>1. IdsRise(<<>>) /\ Before(<<>>, <<>>) /\ UpTo(<<>>, 0)
      BY <1>12 DEF IdsRise, Before, UpTo
    <2> QED BY <1>3, <1>11, <1>12, <2>1 DEF I2cOf, I2cQueues
  <1> QED BY <1>10, <1>13 DEF ServoInv, I2cInv

-----------------------------------------------------------------------------
LEMMA IoInvNext ==
  ASSUME IoInv, IoNext PROVE IoInv'
  <1>1. IoConf /\ HistShape /\ AdcInv /\ RdInv /\ CntInv /\ DebInv /\ ServoInv /\ I2cInv
    BY DEF IoInv
  <1>2. ASSUME io' = io PROVE IoConf'
    BY <1>1, <1>2 DEF IoConf, PinCount
  <1>3. adc.seq \in Nat
    BY <1>1 DEF AdcInv
  <1>4. CASE AdcActs
    <2>1. /\ HistShape' /\ io' = io
          /\ UNCHANGED <<work, io, pinIn, cnt, rc, gp, rd, sv, feeder, i2, PinHist, ServoHist, I2cHist>>
      BY <1>1, <1>4, AdcKeeps
    <2>2. AdcInv' /\ adc'.seq >= adc.seq
      BY <1>1, <1>4, AdcStep
    <2>3. RdInv'
      BY <1>1, <2>1, <2>2, RdFrame
    <2>4. CntInv' /\ DebInv'
      BY <1>1, <2>1, CntFrame, DebFrame
    <2>5. ServoInv' /\ I2cInv'
      BY <1>1, <2>1, ServoStays, I2cStays
    <2> QED BY <1>2, <2>1, <2>2, <2>3, <2>4, <2>5 DEF IoInv
  <1>5. CASE RdActs
    <2>1. UNCHANGED <<work, io, pinIn, cnt, rc, gp, adc, sv, feeder, i2, hist>>
      BY <1>5, RdKeeps
    <2>2. UNCHANGED <<AdcHist, PinHist, ServoHist, I2cHist>> /\ HistShape'
      BY <1>1, <2>1 DEF AdcHist, PinHist, ServoHist, I2cHist, HistShape
    <2>3. AdcInv'
      BY <1>1, <2>1, <2>2, AdcFrame
    <2>4. RdInv'
      BY <1>1, <1>5, RdStep
    <2>5. CntInv' /\ DebInv'
      BY <1>1, <2>1, <2>2, CntFrame, DebFrame
    <2>6. ServoInv' /\ I2cInv'
      BY <1>1, <2>1, <2>2, ServoStays, I2cStays
    <2> QED BY <1>2, <2>1, <2>2, <2>3, <2>4, <2>5, <2>6 DEF IoInv
  <1>6. CASE PinActs
    <2>1. HistShape' /\ UNCHANGED <<work, io, adc, rd, sv, feeder, i2, AdcHist, ServoHist, I2cHist>>
      BY <1>1, <1>6, PinKeeps
    <2>2. AdcInv'
      BY <1>1, <2>1, AdcFrame
    <2>3. adc'.seq >= adc.seq
      BY <1>3, <2>1
    <2>4. RdInv'
      BY <1>1, <2>1, <2>2, <2>3, RdFrame
    <2>5. CntInv' /\ DebInv'
      BY <1>1, <1>6, CntStep, DebStep
    <2>6. ServoInv' /\ I2cInv'
      BY <1>1, <2>1, ServoStays, I2cStays
    <2> QED BY <1>2, <2>1, <2>2, <2>4, <2>5, <2>6 DEF IoInv
  <1>7. CASE ServoActs
    <2>1. HistShape' /\ UNCHANGED <<work, io, pinIn, cnt, rc, gp, adc, rd, i2, AdcHist, PinHist, I2cHist>>
      BY <1>1, <1>7, ServoKeeps
    <2>2. AdcInv'
      BY <1>1, <2>1, AdcFrame
    <2>3. adc'.seq >= adc.seq
      BY <1>3, <2>1
    <2>4. RdInv'
      BY <1>1, <2>1, <2>2, <2>3, RdFrame
    <2>5. CntInv' /\ DebInv'
      BY <1>1, <2>1, CntFrame, DebFrame
    <2>6. ServoInv' /\ I2cInv'
      BY <1>1, <1>7, <2>1, ServoStep, I2cStays
    <2> QED BY <1>2, <2>1, <2>2, <2>4, <2>5, <2>6 DEF IoInv
  <1>8. CASE I2cActs
    <2>1. HistShape' /\ UNCHANGED <<work, io, pinIn, cnt, rc, gp, adc, rd, sv, feeder, AdcHist, PinHist, ServoHist>>
      BY <1>1, <1>8, I2cKeeps
    <2>2. AdcInv'
      BY <1>1, <2>1, AdcFrame
    <2>3. adc'.seq >= adc.seq
      BY <1>3, <2>1
    <2>4. RdInv'
      BY <1>1, <2>1, <2>2, <2>3, RdFrame
    <2>5. CntInv' /\ DebInv'
      BY <1>1, <2>1, CntFrame, DebFrame
    <2>6. ServoInv' /\ I2cInv'
      BY <1>1, <1>8, <2>1, ServoStays, I2cStep
    <2> QED BY <1>2, <2>1, <2>2, <2>4, <2>5, <2>6 DEF IoInv
  <1> QED BY <1>4, <1>5, <1>6, <1>7, <1>8, IoActs

LEMMA IoInvImplies ==
  ASSUME IoInv PROVE IoExact
  <1>1. AdcInv /\ RdInv /\ CntInv /\ DebInv /\ ServoInv /\ I2cInv
    BY DEF IoInv
  <1>2. WindowFigures /\ StatsOneWindow
    BY <1>1 DEF AdcInv, RdInv
  <1>3. PulsesKept
    BY <1>1 DEF CntInv, Accounted, PulsesKept
  <1>4. DebouncedHeld
    BY <1>1 DEF DebInv, DebouncedHeld
  <1>5. ServoFrame
    BY <1>1, PlayedExact
  <1>6. I2cInOrder
    BY <1>1 DEF I2cInv, I2cOf, IdsRise, I2cInOrder
  <1>7. IoTypeOK
    <2>1. cnt.n \in [IoPins -> Nat] /\ rc \subseteq IoPins /\ gp.deb \in [IoPins -> BOOLEAN]
      BY <1>1 DEF CntInv, CntType, DebInv, GpType
    <2>2. adc.phase \in Chans /\ adc.closing \in -1..(AdcNch - 1)
      BY <1>1 DEF AdcInv
    <2>3. sv.len <= Cardinality(IoPins) + 1 /\ feeder.at <= feeder.len
      <3>1. sv.len \in 0..(PinCount + 1) /\ feeder.at <= feeder.len
        BY <1>1 DEF ServoInv, ServoOf, SvType
      <3>2. sv.len <= PinCount + 1
        BY <3>1, PinsAre
      <3> QED BY <3>1, <3>2 DEF PinCount
    <2>4. Len(i2.reqq) <= I2cDepth /\ Len(i2.upq) <= UpDepth
      BY <1>1 DEF I2cInv, I2cOf
    <2> QED BY <2>1, <2>2, <2>3, <2>4 DEF IoTypeOK
  <1> QED BY <1>2, <1>3, <1>4, <1>5, <1>6, <1>7 DEF IoExact

(* THEOREM (IoSafety).  For commands dispatched on either core, and any   *)
(* number of pins, channels, samples per window and queue depths:          *)
(* published window figures are those of exactly the samples taken;        *)
(* debounced levels held for the configured depth; an undisturbed servo    *)
(* frame gives every servo its width and lasts 20 ms; I2C answers keep the *)
(* order of the requests.  For commands on the core of the interrupt, a    *)
(* CMD_ADC_STATS answer before the last try is of one window and every     *)
(* counted edge is in its counter or handed out once.  On the other core   *)
(* an answer may mix that window with the next, and no more; and a pin is  *)
(* excepted from the count once an edge of it met a command's clear.       *)
THEOREM IoSafety == IoSpec => []IoExact
  <1>1. IoInit => IoInv
    BY AdcStart, PinStart, ServoStart DEF IoInv
  <1>2. IoInv /\ [IoNext]_ioVars => IoInv'
    <2> SUFFICES ASSUME IoInv, [IoNext]_ioVars PROVE IoInv'
      OBVIOUS
    <2>1. CASE IoNext
      BY <2>1, IoInvNext
    <2>2. CASE UNCHANGED ioVars
      <3>1. UNCHANGED <<work, io, pinIn, cnt, rc, gp, adc, rd, sv, feeder, i2, hist>>
        BY <2>2 DEF ioVars
      <3>2. IoConf /\ HistShape /\ AdcInv /\ RdInv /\ CntInv /\ DebInv /\ ServoInv /\ I2cInv
        BY DEF IoInv
      <3>3. UNCHANGED <<AdcHist, PinHist, ServoHist, I2cHist>> /\ HistShape'
        BY <3>1, <3>2 DEF AdcHist, PinHist, ServoHist, I2cHist, HistShape
      <3>4. AdcInv'
        BY <3>1, <3>2, <3>3, AdcFrame
      <3>5. adc'.seq >= adc.seq
        BY <3>1, <3>2 DEF AdcInv
      <3>6. RdInv'
        BY <3>1, <3>2, <3>4, <3>5, RdFrame
      <3>7. CntInv' /\ DebInv'
        BY <3>1, <3>2, <3>3, CntFrame, DebFrame
      <3>8. ServoInv' /\ I2cInv'
        BY <3>1, <3>2, <3>3, ServoStays, I2cStays
      <3>9. IoConf'
        BY <3>1, <3>2 DEF IoConf, PinCount
      <3> QED BY <3>3, <3>4, <3>6, <3>7, <3>8, <3>9 DEF IoInv
    <2> QED BY <2>1, <2>2
  <1>3. IoInv => IoExact
    BY IoInvImplies
  <1> QED BY <1>1, <1>2, <1>3, PTL DEF IoSpec
=============================================================================
