---------------------------- MODULE ClientProofs ----------------------------
(***************************************************************************)
(* The safety of the SAMD21 client: its modes (SamdModes), for any pads,   *)
(* commissioned files, pulse widths and frames; its interlock slots        *)
(* (SamdInterlock), for any pin table, any number of slots and any         *)
(* programs; and its main loop towards the USB host (ClientLoop), for any  *)
(* ring, FIFO and slots.                                                   *)
(*                                                                         *)
(* For the modes, the master keeps to the protocol (Orderly): what an      *)
(* unruly one can do is in the model, and breaks the properties.           *)
(*                                                                         *)
(* The pin table is computed by recursion over the inputs and outputs of a *)
(* program and over the slots: what it holds is proved by induction over   *)
(* them, with the lemmas of Induction.                                     *)
(*                                                                         *)
(* For the loop, what the host has read, the FIFO and the ring are one     *)
(* stream of bytes (Flow), which grows at its end by whole frames only;    *)
(* what a host without a gap knows is read off the history of the reports  *)
(* (Known).                                                                *)
(***************************************************************************)
EXTENDS SamdModes, SamdInterlock, ClientLoop, FiniteSetTheorems, SequenceTheorems, Induction, TLAPS

-----------------------------------------------------------------------------
(* The modes.                                                              *)
Orderly == Unruly = {}

(* The interlock does not drive the INT pad itself.                        *)
IntApart == ilcf # NoFile => ilcf.out # D6

IlStages == {"judge", "flag", "snap", "safe", "resafe", "ok", "drive", "int"}
Stages == IlStages \cup {"loop", "estop", "bench", "offline"}

DacRec   == [eoen : BOOLEAN, tone : BOOLEAN, tc3 : BOOLEAN, timed : BOOLEAN, follow : BOOLEAN]
RegsRec  == [out : SUBSET Chans, pu : SUBSET Chans, pd : SUBSET Chans, od : SUBSET Chans,
             olat : SUBSET Chans]
IlRec    == [valid : BOOLEAN, tripped : BOOLEAN]
SnapRec  == [valid : BOOLEAN, pass : BOOLEAN]
SrRec    == [bits : BOOLEAN \X BOOLEAN, deb : BOOLEAN]
ServoRec == [run : BOOLEAN, latched : BOOLEAN, enable : SUBSET declared, us : [Chans -> Widths]]
Tc4Rec   == [on : BOOLEAN, t : 0..(FRAME - 1), cc1 : Nat, mc1 : BOOLEAN, flag : BOOLEAN,
             idx : 0..Cardinality(Widths)]
CntRec   == [last : BOOLEAN, n : Nat, edges : Nat]
BenchRec == [sel : Pads \cup {NoFile}, pending : BOOLEAN]
PcRec    == [at : Stages, m : Modes, pass : BOOLEAN, old : SUBSET Guarded]

PadType   == pad \in [Pads -> Pad] /\ line \in [Pads -> BOOLEAN]
ModeType  == g_mode \in Modes /\ g_offline \in BOOLEAN /\ dac \in DacRec /\ regs \in RegsRec
IlType    == /\ il \in [Guarded -> IlRec] /\ g_int_flags \subseteq Guarded
             /\ g_il_snap \in SnapRec /\ sr \in SrRec /\ adc \in BOOLEAN
ServoType == servo \in ServoRec /\ tc4 \in Tc4Rec
BenchType == cnt \in [Pads -> CntRec] /\ bench \in BenchRec
SType     == PadType /\ ModeType /\ IlType /\ ServoType /\ BenchType /\ pc \in PcRec

(* A tick runs in the mode it began in, and what belongs to a mode is off  *)
(* outside it.                                                             *)
CtlPart ==
    /\ pc.at \in IlStages => g_mode = pc.m /\ g_mode \in Guarded /\ ilcf # NoFile
    /\ pc.at = "estop" => g_mode = "SERVO"
    /\ pc.at = "offline" => \A k \in Guarded : ~il[k].valid /\ ~il[k].tripped
    /\ \A k \in Guarded : il[k].valid \/ il[k].tripped => g_mode = k /\ ilcf # NoFile
    /\ tc4.on => g_mode = "SERVO"
    /\ g_mode \in {"SERVO", "COUNTER"} /\ bench.sel # NoFile => bench_role(g_mode, bench.sel) # "none"

(* Between latching a trip and asserting INT the two differ.               *)
IntPart ==
    g_mode \in {"PIO", "MIXED"} /\ pc.at # "offline" =>
        /\ pad[D6].cfg # "mux"
        /\ IF pc.at \in {"flag", "snap", "safe", "int"} THEN il[g_mode].tripped /\ ~Driven(pad[D6])
           ELSE Driven(pad[D6]) <=> il[g_mode].tripped

SnapPart ==
    g_mode \in Guarded /\ pc.at # "offline" =>
        IF pc.at \in {"flag", "snap"} THEN il[g_mode].tripped /\ ~g_il_snap.valid
        ELSE g_il_snap.valid = il[g_mode].tripped

(* In ADC mode no tone is timed, so that none can end.                     *)
AdcPart == g_mode = "ADC" /\ pc.at # "offline" => dac.tc3 /\ ~dac.follow /\ ~dac.timed

(* A counting pad is an input, and a level not yet seen is an edge not yet *)
(* counted.                                                                *)
Unseen(c) == IF Level(c) # cnt[c].last THEN 1 ELSE 0
CountPart ==
    IF g_mode = "COUNTER" /\ pc.at # "offline"
    THEN \A c \in Pads : IF c \in counting
                         THEN /\ ~pad[c].dir
                              /\ cnt[c].n + Unseen(c) <= cnt[c].edges /\ cnt[c].edges <= MaxEdges
                         ELSE cnt[c].n = 0
    ELSE \A c \in Pads : cnt[c].n = 0

(* A pad that is high waits for the event that TC4 is to meet next, or a   *)
(* later one.                                                              *)
Waits(tc, c) ==
    /\ tc.mc1 /\ ~tc.flag /\ tc.t < tc.cc1 /\ tc.idx < Cardinality(Times)
    /\ tc.cc1 = EventTime(tc.idx) /\ c \in servo.enable /\ servo.us[c] >= tc.cc1
ServoPart ==
    /\ tc4.mc1 => tc4.idx < Cardinality(Widths)
    /\ g_mode = "SERVO" =>
        /\ servo.latched /\ pc.at # "estop" => ~servo.run
        /\ \A c \in declared : pad[c].out => servo.run /\ Waits(tc4, c)

(* The inductive invariant.                                                *)
OInv == SType /\ CtlPart /\ ServoPart /\ OfflineSafe
Reads == IntPart /\ SnapPart /\ AdcPart /\ CountPart
RInv == OInv /\ Reads

-----------------------------------------------------------------------------
(* The pads.                                                               *)
LEMMA PadOps ==
    /\ PowerOn \in Pad /\ PullUp \in Pad /\ PullDown \in Pad
    /\ \A v \in BOOLEAN : Drive(v) \in Pad
    /\ \A p \in Pad : Input(p) \in Pad /\ Analog(p) \in Pad /\ ~Input(p).dir /\ ~Driven(Input(p))
    /\ \A p \in Pad, v \in BOOLEAN :
          /\ [p EXCEPT !.out = v] \in Pad /\ [p EXCEPT !.out = v].out = v
          /\ [p EXCEPT !.dir = v] \in Pad /\ [p EXCEPT !.cfg = "in"] \in Pad
          /\ [p EXCEPT !.dir = TRUE, !.out = v] \in Pad
          /\ [p EXCEPT !.dir = TRUE, !.cfg = "off"] \in Pad
    /\ ~PullUp.dir /\ ~PullDown.dir /\ ~Driven(PullUp)
  BY DEF Pad, PowerOn, PullUp, PullDown, Drive, Input, Analog, Driven

LEMMA Places ==
    /\ A0 \in Chans /\ A1 \in Chans /\ D6 \notin Chans /\ D6 \in Pads /\ Chans \subseteq Pads
    /\ declared \subseteq Chans /\ counting \subseteq Pads /\ D6 \notin declared
    /\ ilcf # NoFile => /\ ilcf.in \in Chans /\ ilcf.out \in Pads /\ ilcf.bad \in BOOLEAN
                        /\ ilcf.ok \in BOOLEAN /\ ilcf.err \in BOOLEAN
  BY PadsAssumption DEF Pads, declared, counting

LEMMA DriveType ==
    ASSUME NEW p \in Pad, NEW v \in BOOLEAN, NEW c, NEW r, NEW od
    PROVE  pio_phys_drive(r, c, v, p) \in Pad /\ il_drive_output(v, od, p) \in Pad
  BY PadOps DEF pio_phys_drive, il_drive_output

LEMMA IntType ==
    ASSUME NEW p \in Pad
    PROVE  /\ pio_int_assert(TRUE, p) \in Pad /\ pio_int_assert(FALSE, p) \in Pad
           /\ ~Driven(pio_int_assert(FALSE, p)) /\ ~pio_int_assert(FALSE, p).dir
           /\ p.cfg # "mux" => Driven(pio_int_assert(TRUE, p))
           /\ pio_int_assert(TRUE, p).cfg = p.cfg /\ pio_int_assert(FALSE, p).cfg # "mux"
  <1>1. pio_int_assert(TRUE, p) = [p EXCEPT !.dir = TRUE, !.out = FALSE] /\ pio_int_assert(FALSE, p) = PullUp
    BY DEF pio_int_assert
  <1>2. p.cfg # "mux" => Driven([p EXCEPT !.dir = TRUE, !.out = FALSE])
    BY DEF Driven, Pad
  <1>3. [p EXCEPT !.dir = TRUE, !.out = FALSE].cfg = p.cfg /\ PullUp.cfg # "mux"
    BY DEF Pad, PullUp
  <1> QED BY <1>1, <1>2, <1>3, PadOps

LEMMA ChanType ==
    ASSUME NEW p \in Pad, NEW c \in Chans, NEW r
    PROVE  pio_drive_ch_out(r, c, p) \in Pad /\ pio_apply_ch(r, c, p) \in Pad /\ mxmp_apply(c, p) \in Pad
  <1>1. \A q \in Pad : pio_drive_ch_out(r, c, q) \in Pad
    <2>1. (c \in r.olat) \in BOOLEAN
      OBVIOUS
    <2> QED BY <2>1, DriveType, Zenon DEF pio_drive_ch_out
  <1>2. [p EXCEPT !.cfg = "in"] \in Pad
    BY PadOps
  <1>3. pio_apply_ch(r, c, p) \in Pad
    BY <1>1, <1>2, PadOps DEF pio_apply_ch
  <1>4. mxmp_apply(c, p) \in Pad
    BY PadOps DEF mxmp_apply
  <1> QED BY <1>1, <1>3, <1>4

LEMMA OutputsType ==
    ASSUME NEW r \in RegsRec, NEW pads \in [Pads -> Pad]
    PROVE  /\ pio_update_outputs(r, pads) \in [Pads -> Pad]
           /\ pio_update_outputs(r, pads)[D6] = pads[D6]
  <1>1. \A c \in Chans : pio_drive_ch_out(r, c, pads[c]) \in Pad
    BY ChanType, Places
  <1>2. r.out \subseteq Chans
    BY DEF RegsRec
  <1> QED BY <1>1, <1>2, Places DEF pio_update_outputs

LEMMA ClaimType ==
    ASSUME NEW p \in Pad, NEW c \in Pads
    PROVE  mixed_claim_pins(c, p) \in Pad /\ hal_pin_release_slot(c, p) \in Pad
           /\ bench_apply_roles("SERVO", c, p) \in Pad /\ bench_apply_roles("COUNTER", c, p) \in Pad
           /\ counter_pin_input(c, p) \in Pad /\ ~counter_pin_input(c, p).dir
  <1>1. mixed_claim_pins(c, p) \in Pad /\ hal_pin_release_slot(c, p) \in Pad
    BY PadOps DEF mixed_claim_pins, hal_pin_release_slot
  <1>2. \A m : bench_apply_roles(m, c, p) \in Pad
    BY PadOps DEF bench_apply_roles
  <1>3. counter_pin_input(c, p) \in Pad /\ ~counter_pin_input(c, p).dir
    BY PadOps DEF counter_pin_input
  <1> QED BY <1>1, <1>2, <1>3

LEMMA LeaveType ==
    ASSUME NEW m \in Modes, NEW pads \in [Pads -> Pad]
    PROVE  /\ LeavePads(m, pads) \in [Pads -> Pad]
           /\ m = "SERVO" => \A c \in declared : ~LeavePads(m, pads)[c].out
  <1>1. \A c \in Pads : pads[c] \in Pad
    OBVIOUS
  <1>2. CASE m = "PIO"
    BY <1>1, <1>2, PadOps, IntType DEF LeavePads
  <1>3. CASE m = "MIXED"
    <2>1. \A c \in Pads : hal_pin_release_slot(c, IF c = D6 THEN pio_int_assert(FALSE, pads[c]) ELSE pads[c]) \in Pad
      BY <1>1, ClaimType, IntType
    <2> QED BY <1>3, <2>1 DEF LeavePads
  <1>4. CASE m = "SERVO"
    <2>1. \A c \in Pads : [pads[c] EXCEPT !.out = FALSE] \in Pad /\ ~[pads[c] EXCEPT !.out = FALSE].out
      BY <1>1, PadOps
    <2>2. LeavePads(m, pads) = [c \in Pads |-> IF c = D6 THEN pads[c] ELSE [pads[c] EXCEPT !.out = FALSE]]
      BY <1>4 DEF LeavePads
    <2> QED BY <1>1, <2>1, <2>2, Places
  <1>5. CASE m \notin {"PIO", "MIXED", "SERVO"}
    BY <1>5 DEF LeavePads
  <1> QED BY <1>2, <1>3, <1>4, <1>5

LEMMA EnterType ==
    ASSUME NEW m \in Modes, NEW r, NEW pads \in [Pads -> Pad]
    PROVE  /\ EnterPads(m, r, pads) \in [Pads -> Pad]
           /\ m \in {"PIO", "MIXED"} /\ IntApart => ~Driven(EnterPads(m, r, pads)[D6])
                                                    /\ EnterPads(m, r, pads)[D6].cfg # "mux"
           /\ m = "SERVO" => \A c \in declared : ~EnterPads(m, r, pads)[c].out
           /\ m = "COUNTER" => \A c \in counting : ~EnterPads(m, r, pads)[c].dir
  <1> DEFINE e == EnterPads(m, r, pads)
  <1>1. \A c \in Pads : pads[c] \in Pad
    OBVIOUS
  <1>2. CASE m = "PIO"
    <2>1. e = [c \in Pads |-> IF c = D6 THEN pio_int_assert(FALSE, pads[c]) ELSE pio_apply_ch(r, c, pads[c])]
      BY <1>2 DEF EnterPads
    <2>2. \A c \in Pads \ {D6} : pio_apply_ch(r, c, pads[c]) \in Pad
      BY <1>1, ChanType DEF Pads
    <2>3. e[D6] = pio_int_assert(FALSE, pads[D6])
      BY <2>1, Places
    <2>4. e[D6].cfg # "mux"
      BY <2>3 DEF pio_int_assert, PullUp
    <2> HIDE DEF e
    <2>5. e \in [Pads -> Pad]
      BY <1>1, <2>1, <2>2, IntType
    <2> QED BY <1>1, <1>2, <2>3, <2>4, <2>5, IntType, Places DEF e
  <1>3. CASE m = "ADC"
    <2>1. e = [c \in Pads |->
             CASE c \in {A0, A1} -> Analog(pads[c])
               [] ilcf # NoFile /\ c = ilcf.out /\ c \notin {A0, A1} ->
                     il_drive_output(ilcf.ok, ilcf.od, Input(pads[c]))
               [] OTHER -> pads[c]]
      BY <1>3 DEF EnterPads
    <2>2. \A c \in Pads : Analog(pads[c]) \in Pad /\ Input(pads[c]) \in Pad
      BY <1>1, PadOps
    <2>3. ilcf # NoFile => \A c \in Pads : il_drive_output(ilcf.ok, ilcf.od, Input(pads[c])) \in Pad
      BY <2>2, DriveType, Places
    <2> HIDE DEF e
    <2>4. e \in [Pads -> Pad]
      BY <1>1, <2>1, <2>2, <2>3
    <2> QED BY <1>3, <2>4 DEF e
  <1>4. CASE m = "MIXED"
    <2> DEFINE b(c) == IF c = D6 THEN Input(pads[c])
                       ELSE IF c = A0 /\ mixed_dac_en THEN Analog(pads[c]) ELSE mxmp_apply(c, pads[c])
    <2>1. e = [c \in Pads |-> mixed_claim_pins(c, b(c))]
      BY <1>4 DEF EnterPads
    <2>2. \A c \in Pads : b(c) \in Pad
      BY <1>1, PadOps, ChanType DEF Pads
    <2>3. b(D6) = Input(pads[D6])
      OBVIOUS
    <2> HIDE DEF e, b
    <2>4. e \in [Pads -> Pad]
      BY <2>1, <2>2, ClaimType
    <2>5. IntApart => e[D6] = Input(pads[D6])
      BY <2>1, <2>3, Places DEF mixed_claim_pins, IntApart
    <2>6. ~Driven(Input(pads[D6])) /\ Input(pads[D6]).cfg # "mux"
      <3>1. pads[D6] \in Pad
        BY <1>1, Places
      <3>2. Input(pads[D6]).cfg = "in"
        BY <3>1 DEF Input, Pad
      <3> QED BY <3>1, <3>2, PadOps
    <2> QED BY <1>4, <2>4, <2>5, <2>6 DEF e
  <1>5. CASE m = "SERVO"
    <2>1. e = [c \in Pads |->
             CASE c = D6 -> PullUp
               [] c \in declared -> [dir |-> TRUE, out |-> FALSE, cfg |-> "off"]
               [] OTHER -> bench_apply_roles(m, c, pads[c])]
      BY <1>5 DEF EnterPads
    <2>2. \A c \in Pads : bench_apply_roles(m, c, pads[c]) \in Pad
      BY <1>1, <1>5, ClaimType
    <2>3. [dir |-> TRUE, out |-> FALSE, cfg |-> "off"] \in Pad
      BY DEF Pad
    <2> HIDE DEF e
    <2>4. e \in [Pads -> Pad]
      BY <2>1, <2>2, <2>3, PadOps
    <2>5. \A c \in declared : c \in Pads /\ c # D6
      BY Places
    <2>6. \A c \in declared : e[c] = [dir |-> TRUE, out |-> FALSE, cfg |-> "off"]
      BY <2>1, <2>5
    <2> QED BY <1>5, <2>4, <2>6 DEF e
  <1>6. CASE m = "COUNTER"
    <2>1. e = [c \in Pads |->
             IF c \in counting THEN counter_pin_input(c, pads[c])
             ELSE IF c = A0 /\ bench_role(m, A0) = "dac" THEN Analog(pads[c])
             ELSE bench_apply_roles(m, c, pads[c])]
      BY <1>6 DEF EnterPads
    <2>2. \A c \in Pads : /\ bench_apply_roles(m, c, pads[c]) \in Pad /\ counter_pin_input(c, pads[c]) \in Pad
                          /\ Analog(pads[c]) \in Pad /\ ~counter_pin_input(c, pads[c]).dir
      BY <1>1, <1>6, ClaimType, PadOps
    <2> HIDE DEF e
    <2>3. e \in [Pads -> Pad]
      BY <2>1, <2>2
    <2>4. \A c \in counting : ~e[c].dir
      BY <2>1, <2>2, Places
    <2> QED BY <1>6, <2>3, <2>4 DEF e
  <1>7. CASE m = "IDLE"
    BY <1>7 DEF EnterPads
  <1> QED BY <1>2, <1>3, <1>4, <1>5, <1>6, <1>7 DEF Modes

-----------------------------------------------------------------------------
(* The schedule of a servo frame.                                          *)
LEMMA LeastElement ==
    ASSUME NEW T, T \subseteq Nat, T # {}
    PROVE  \E x \in T : \A y \in T : x <= y
  <1>1. \E x \in T : \A y \in T : ~(<<y, x>> \in OpToRel(<, Nat))
    BY WFMin, NatLessThanWellFounded, Zenon
  <1>2. PICK x \in T : \A y \in T : ~(<<y, x>> \in OpToRel(<, Nat))
    BY <1>1, Zenon
  <1>3. \A y \in T : ~(y < x)
    BY <1>2 DEF OpToRel
  <1> QED BY <1>3

LEMMA Sizes ==
    /\ FRAME \in Nat /\ FRAME >= 3 /\ Widths \subseteq 1..(FRAME - 2) /\ Widths \subseteq Nat
    /\ IsFiniteSet(Widths) /\ Cardinality(Widths) \in Nat /\ Cardinality(Widths) >= 1
    /\ Max(Widths) \in Widths /\ \A w \in Widths : w <= Max(Widths)
  <1>1. FRAME \in Nat /\ Widths # {} /\ Widths \subseteq 1..(FRAME - 2)
    BY ModesAssumption
  <1>2. FRAME >= 3 /\ Widths \subseteq Nat
    <2>1. PICK w \in Widths : TRUE
      BY <1>1
    <2>2. \A v \in Widths : v \in Nat /\ 1 <= v /\ v <= FRAME - 2
      BY <1>1
    <2> QED BY <1>1, <2>1, <2>2
  <1>3. IsFiniteSet(Widths)
    <2>1. IsFiniteSet(1..(FRAME - 2))
      <3>1. 1 \in Int /\ FRAME - 2 \in Int
        BY <1>1
      <3> QED BY <3>1, FS_Interval
    <2> QED BY <1>1, <2>1, FS_Subset
  <1>4. Cardinality(Widths) \in Nat /\ Cardinality(Widths) # 0
    BY <1>1, <1>3, FS_CardinalityType, FS_EmptySet
  <1>5. \E w \in Widths : \A v \in Widths : w >= v
    <2> DEFINE T == {FRAME - w : w \in Widths}
    <2>1. T \subseteq Nat /\ T # {}
      <3>1. ASSUME NEW v \in Widths PROVE FRAME - v \in Nat
        <4>1. v \in Nat /\ v <= FRAME - 2
          BY <1>1
        <4> QED BY <1>1, <4>1
      <3> QED BY <1>1, <3>1
    <2>2. PICK x \in T : \A y \in T : x <= y
      BY <2>1, LeastElement
    <2>3. PICK w \in Widths : x = FRAME - w
      OBVIOUS
    <2>4. ASSUME NEW v \in Widths PROVE w >= v
      <3>1. FRAME - w <= FRAME - v
        BY <2>2, <2>3
      <3> QED BY <1>1, <3>1
    <2> QED BY <2>4
  <1>6. Max(Widths) \in Widths /\ \A w \in Widths : Max(Widths) >= w
    BY <1>5 DEF Max
  <1> QED BY <1>1, <1>2, <1>3, <1>4, <1>6

Below(T, t) == {u \in T : u < t}

LEMMA BelowFinite ==
    ASSUME NEW T \in SUBSET Widths, NEW t
    PROVE  /\ IsFiniteSet(T) /\ Cardinality(T) \in Nat /\ Cardinality(T) <= Cardinality(Widths)
           /\ IsFiniteSet(Below(T, t)) /\ Cardinality(Below(T, t)) \in Nat
  <1>1. IsFiniteSet(T) /\ Cardinality(T) <= Cardinality(Widths)
    BY Sizes, FS_Subset
  <1>2. Below(T, t) \subseteq T
    BY DEF Below
  <1>3. IsFiniteSet(Below(T, t))
    BY <1>1, <1>2, FS_Subset
  <1> QED BY <1>1, <1>3, FS_CardinalityType

(* The element above one of rank i, if there is one, has rank i + 1.       *)
LEMMA RankNext ==
    ASSUME NEW T \in SUBSET Widths, NEW t \in T, NEW i \in Nat, Cardinality(Below(T, t)) = i
    PROVE  /\ i < Cardinality(T)
           /\ i + 1 < Cardinality(T) =>
                 \E s \in T : /\ s > t /\ Cardinality(Below(T, s)) = i + 1
                              /\ \A u \in T : u > t => u >= s
           /\ i + 1 >= Cardinality(T) => \A u \in T : u <= t
  <1> DEFINE B == Below(T, t) \cup {t}
  <1>1. /\ IsFiniteSet(T) /\ Cardinality(T) \in Nat /\ IsFiniteSet(Below(T, t)) /\ T \subseteq Nat
    BY BelowFinite, Sizes
  <1>2. t \notin Below(T, t)
    BY <1>1 DEF Below
  <1>3. IsFiniteSet(B) /\ Cardinality(B) = i + 1
    BY <1>1, <1>2, FS_AddElement
  <1>4. B \subseteq T
    BY DEF Below
  <1>5. Cardinality(B) <= Cardinality(T) /\ (Cardinality(B) = Cardinality(T) => B = T)
    BY <1>1, <1>4, FS_Subset
  <1>6. \A u \in T : u \in B <=> u <= t
    BY <1>1 DEF Below
  <1> HIDE DEF B
  <1>7. ASSUME i + 1 < Cardinality(T)
        PROVE  \E s \in T : /\ s > t /\ Cardinality(Below(T, s)) = i + 1
                            /\ \A u \in T : u > t => u >= s
    <2> DEFINE R == {u \in T : u > t}
    <2>1. R # {}
      <3> SUFFICES ASSUME R = {} PROVE FALSE
        OBVIOUS
      <3>1. \A u \in T : u <= t
        BY <1>1
      <3>2. B = T
        BY <1>4, <1>6, <3>1
      <3> QED BY <1>1, <1>3, <1>7, <3>2
    <2>2. R \subseteq Nat
      BY <1>1
    <2>3. PICK s \in R : \A y \in R : s <= y
      BY <2>1, <2>2, LeastElement
    <2>4. s \in T /\ s > t /\ \A u \in T : u > t => u >= s
      BY <1>1, <2>3
    <2>5. Below(T, s) = B
      <3>1. \A u \in T : u < s <=> u <= t
        BY <1>1, <2>4
      <3>2. \A u : u \in Below(T, s) <=> u \in T /\ u < s
        BY DEF Below
      <3> QED BY <1>4, <1>6, <3>1, <3>2
    <2> QED BY <1>3, <2>4, <2>5
  <1>8. ASSUME i + 1 >= Cardinality(T) PROVE \A u \in T : u <= t
    BY <1>1, <1>3, <1>5, <1>6, <1>8
  <1>9. i < Cardinality(T)
    BY <1>1, <1>3, <1>5
  <1> QED BY <1>7, <1>8, <1>9

(* There is one element of each rank, by the least rank without.           *)
LEMMA RankExists ==
    ASSUME NEW T \in SUBSET Widths, NEW i \in Nat, i < Cardinality(T)
    PROVE  \E t \in T : Cardinality(Below(T, t)) = i
  <1> DEFINE Gap == {j \in Nat : j < Cardinality(T) /\ ~\E t \in T : Cardinality(Below(T, t)) = j}
  <1>1. IsFiniteSet(T) /\ Cardinality(T) \in Nat /\ T \subseteq Nat
    BY BelowFinite, Sizes
  <1>2. SUFFICES ASSUME Gap # {} PROVE FALSE
    OBVIOUS
  <1>3. PICK j \in Gap : \A k \in Gap : j <= k
    <2>1. Gap \subseteq Nat
      OBVIOUS
    <2> HIDE DEF Gap
    <2> QED BY <1>2, <2>1, LeastElement
  <1>4. CASE j = 0
    <2>1. T # {}
      BY <1>1, <1>4, FS_EmptySet
    <2>2. PICK t \in T : \A u \in T : t <= u
      BY <1>1, <2>1, LeastElement
    <2>3. Below(T, t) = {}
      <3>1. \A u \in T : ~(u < t)
        BY <1>1, <2>2
      <3> QED BY <3>1, Zenon DEF Below
    <2> QED BY <1>4, <2>3, FS_EmptySet
  <1>5. CASE j # 0
    <2>1. j - 1 \in Nat /\ j - 1 < Cardinality(T) /\ j - 1 \notin Gap
      BY <1>1, <1>3, <1>5
    <2>2. PICK t \in T : Cardinality(Below(T, t)) = j - 1
      BY <2>1
    <2>3. (j - 1) + 1 < Cardinality(T) =>
              \E s \in T : Cardinality(Below(T, s)) = (j - 1) + 1
      BY <2>1, <2>2, RankNext
    <2>4. (j - 1) + 1 = j
      OBVIOUS
    <2> QED BY <2>3, <2>4
  <1> QED BY <1>4, <1>5

LEMMA RankUnique ==
    ASSUME NEW T \in SUBSET Widths, NEW s \in T, NEW t \in T, s < t
    PROVE  Cardinality(Below(T, s)) # Cardinality(Below(T, t))
  <1>1. T \subseteq Nat /\ IsFiniteSet(Below(T, t))
    BY BelowFinite, Sizes
  <1>2. Below(T, s) \subseteq Below(T, t) /\ s \in Below(T, t) /\ s \notin Below(T, s)
    <2>1. \A u \in T : u < s => u < t
      BY <1>1
    <2>2. s \in Nat /\ ~(s < s)
      BY <1>1
    <2> QED BY <2>1, <2>2, Zenon DEF Below
  <1> QED BY <1>1, <1>2, FS_Subset

LEMMA TimesType == ASSUME ServoType PROVE Times \in SUBSET Widths /\ \A c \in servo.enable : servo.us[c] \in Times
  <1>1. servo.enable \subseteq Chans /\ servo.us \in [Chans -> Widths]
    BY Places DEF ServoType, ServoRec
  <1> QED BY <1>1 DEF Times

LEMMA EventProps ==
    ASSUME ServoType, NEW i \in Nat, i < Cardinality(Times)
    PROVE  /\ EventTime(i) \in Times /\ Cardinality(Below(Times, EventTime(i))) = i
           /\ EventTime(i) \in Widths
  <1>1. \E t \in Times : Cardinality(Below(Times, t)) = i
    BY TimesType, RankExists
  <1> QED BY <1>1, TimesType DEF EventTime, Below

LEMMA EventNext ==
    ASSUME ServoType, NEW i \in Nat, i < Cardinality(Times)
    PROVE  /\ i = 0 => \A u \in Times : u >= EventTime(0)
           /\ i + 1 < Cardinality(Times) => /\ EventTime(i) < EventTime(i + 1)
                                            /\ \A u \in Times : u > EventTime(i) => u >= EventTime(i + 1)
           /\ i + 1 >= Cardinality(Times) => \A u \in Times : u <= EventTime(i)
  <1>1. Times \in SUBSET Widths /\ Times \subseteq Nat
    BY TimesType, Sizes
  <1>2. EventTime(i) \in Times /\ Cardinality(Below(Times, EventTime(i))) = i
    BY EventProps
  <1> DEFINE t == EventTime(i)
  <1> HIDE DEF t
  <1>3. t \in Times /\ Cardinality(Below(Times, t)) = i
    BY <1>2 DEF t
  <1>4. /\ i + 1 < Cardinality(Times) =>
              \E s \in Times : /\ s > t /\ Cardinality(Below(Times, s)) = i + 1
                               /\ \A u \in Times : u > t => u >= s
        /\ i + 1 >= Cardinality(Times) => \A u \in Times : u <= t
    BY <1>1, <1>3, RankNext
  <1>5. ASSUME i = 0 PROVE \A u \in Times : u >= t
    <2>1. Below(Times, t) = {}
      BY <1>1, <1>3, <1>5, BelowFinite, FS_EmptySet
    <2> QED BY <1>1, <1>3, <2>1 DEF Below
  <1>6. ASSUME i + 1 < Cardinality(Times)
        PROVE  t < EventTime(i + 1) /\ \A u \in Times : u > t => u >= EventTime(i + 1)
    <2>1. PICK s \in Times : /\ s > t /\ Cardinality(Below(Times, s)) = i + 1
                             /\ \A u \in Times : u > t => u >= s
      BY <1>4, <1>6
    <2> DEFINE e == EventTime(i + 1)
    <2> HIDE DEF e
    <2>2. e \in Times /\ Cardinality(Below(Times, e)) = i + 1
      BY <1>6, EventProps DEF e
    <2>3. e = s
      <3>1. ~(e < s) /\ ~(s < e)
        BY <1>1, <2>1, <2>2, RankUnique
      <3> QED BY <1>1, <2>1, <2>2, <3>1
    <2> QED BY <1>1, <1>3, <2>1, <2>3 DEF e
  <1> QED BY <1>4, <1>5, <1>6 DEF t

-----------------------------------------------------------------------------
(* TC4.                                                                    *)
LEMMA AfterDropProps ==
    ASSUME ServoType, NEW tc \in Tc4Rec, NEW i \in Nat, i < Cardinality(Widths)
    PROVE  LET d == AfterDrop(i, tc) IN
           /\ d \in Tc4Rec /\ d.on = tc.on /\ d.t = tc.t /\ ~d.flag /\ d.idx = i + 1
           /\ d.mc1 => d.idx < Cardinality(Widths)
           /\ i + 1 < Cardinality(Times) => d.cc1 = EventTime(i + 1) /\ d.mc1 = tc.mc1
           /\ i + 1 >= Cardinality(Times) => ~d.mc1
  <1> DEFINE d == AfterDrop(i, tc)
  <1>1. Cardinality(Times) \in Nat /\ Cardinality(Times) <= Cardinality(Widths) /\ Cardinality(Widths) \in Nat
    BY TimesType, BelowFinite, Sizes
  <1>2. i + 1 \in 0..Cardinality(Widths)
    BY <1>1
  <1>3. CASE i + 1 < Cardinality(Times)
    <2> DEFINE e == EventTime(i + 1)
    <2>1. e \in Nat
      <3>1. i + 1 \in Nat
        OBVIOUS
      <3>2. EventTime(i + 1) \in Widths
        BY <1>3, <3>1, EventProps
      <3> QED BY <3>2, Sizes
    <2>2. d = [tc EXCEPT !.idx = i + 1, !.cc1 = e, !.flag = FALSE]
      BY <1>3 DEF AfterDrop
    <2> HIDE DEF d, e
    <2>3. /\ d \in Tc4Rec /\ d.on = tc.on /\ d.t = tc.t /\ ~d.flag /\ d.idx = i + 1
          /\ d.cc1 = e /\ d.mc1 = tc.mc1
      BY <1>2, <2>1, <2>2 DEF Tc4Rec
    <2>4. i + 1 < Cardinality(Widths)
      BY <1>1, <1>3
    <2> QED BY <1>1, <1>3, <2>3, <2>4 DEF d, e
  <1>4. CASE ~(i + 1 < Cardinality(Times))
    <2>2. d = [tc EXCEPT !.idx = i + 1, !.mc1 = FALSE, !.flag = FALSE]
      BY <1>4 DEF AfterDrop
    <2> HIDE DEF d
    <2>3. d \in Tc4Rec /\ d.on = tc.on /\ d.t = tc.t /\ ~d.flag /\ d.idx = i + 1 /\ ~d.mc1
      BY <1>2, <2>2 DEF Tc4Rec
    <2> QED BY <1>1, <1>4, <2>3 DEF d
  <1> QED BY <1>3, <1>4

LEMMA DroppedProps ==
    ASSUME ServoType, NEW pads \in [Pads -> Pad], NEW i \in Nat
    PROVE  LET q == Dropped(i, pads) IN
           /\ q \in [Pads -> Pad] /\ q[D6] = pads[D6]
           /\ \A c \in Pads : q[c].dir = pads[c].dir /\ (q[c].out => pads[c].out)
           /\ i < Cardinality(Times) => \A c \in servo.enable : servo.us[c] = EventTime(i) => ~q[c].out
  <1> DEFINE q == Dropped(i, pads)
  <1>1. \A p \in Pad : /\ [p EXCEPT !.out = FALSE] \in Pad /\ [p EXCEPT !.out = FALSE].dir = p.dir
                       /\ ~[p EXCEPT !.out = FALSE].out
    BY DEF Pad
  <1>2. servo.enable \subseteq Pads /\ D6 \notin servo.enable /\ D6 \in Pads
    BY Places DEF ServoType, ServoRec
  <1>3. Event(i) \subseteq Pads /\ D6 \notin Event(i)
        /\ \A c \in servo.enable : servo.us[c] = EventTime(i) => c \in Event(i)
    BY <1>2 DEF Event
  <1>4. CASE i < Cardinality(Times)
    <2>1. q = [c \in Pads |-> IF c \in Event(i) THEN [pads[c] EXCEPT !.out = FALSE] ELSE pads[c]]
      BY <1>4 DEF Dropped
    <2> HIDE DEF q
    <2>2. \A c \in Pads : q[c] = IF c \in Event(i) THEN [pads[c] EXCEPT !.out = FALSE] ELSE pads[c]
      BY <2>1
    <2>3. q \in [Pads -> Pad]
      BY <1>1, <2>1
    <2> QED BY <1>1, <1>2, <1>3, <2>2, <2>3 DEF q
  <1>5. CASE ~(i < Cardinality(Times))
    BY <1>5 DEF Dropped
  <1> QED BY <1>4, <1>5

LEMMA RaisedProps ==
    ASSUME ServoType, PadType
    PROVE  /\ Raised \in [Pads -> Pad] /\ Raised[D6] = pad[D6]
           /\ \A c \in Pads : /\ Raised[c].dir = pad[c].dir
                              /\ Raised[c].out => c \in servo.enable \/ pad[c].out
  <1>1. \A p \in Pad : [p EXCEPT !.out = TRUE] \in Pad /\ [p EXCEPT !.out = TRUE].dir = p.dir
    BY DEF Pad
  <1>2. D6 \notin servo.enable /\ D6 \in Pads
    BY Places DEF ServoType, ServoRec
  <1>3. \A c \in Pads : Raised[c] = IF c \in servo.enable THEN [pad[c] EXCEPT !.out = TRUE] ELSE pad[c]
    BY DEF Raised
  <1>4. Raised \in [Pads -> Pad]
    BY <1>1 DEF Raised, PadType
  <1> QED BY <1>1, <1>2, <1>3, <1>4 DEF PadType

(* Dropping event i leaves high only pads that wait for event i + 1.       *)
LEMMA DropWaits ==
    ASSUME ServoType, NEW tc \in Tc4Rec, NEW i \in Nat, i < Cardinality(Times),
           tc.mc1, tc.t <= EventTime(i),
           NEW pads \in [Pads -> Pad], NEW c \in servo.enable, servo.us[c] >= EventTime(i),
           Dropped(i, pads)[c].out
    PROVE  Waits(AfterDrop(i, tc), c)
  <1> DEFINE d == AfterDrop(i, tc)
             e == EventTime(i)
             f == EventTime(i + 1)
  <1>1. servo.us[c] \in Times /\ Times \in SUBSET Widths /\ Times \subseteq Nat
    BY TimesType, Sizes
  <1>2. /\ i + 1 < Cardinality(Times) => e < f /\ \A u \in Times : u > e => u >= f
        /\ i + 1 >= Cardinality(Times) => \A u \in Times : u <= e
    BY EventNext
  <1>3. e \in Times /\ (i + 1 < Cardinality(Times) => f \in Times)
    BY EventProps
  <1>4. servo.us[c] # e
    BY DroppedProps
  <1>5. Cardinality(Times) \in Nat /\ Cardinality(Times) <= Cardinality(Widths) /\ Cardinality(Widths) \in Nat
    BY <1>1, BelowFinite, Sizes
  <1>6. i < Cardinality(Widths)
    BY <1>5
  <1>7. /\ d.t = tc.t /\ ~d.flag /\ d.idx = i + 1
        /\ i + 1 < Cardinality(Times) => d.cc1 = f /\ d.mc1 = tc.mc1
    BY <1>6, AfterDropProps, ZenonT(60)
  <1> DEFINE w == servo.us[c]
  <1>a. w >= e /\ w # e /\ w \in Times /\ tc.t <= e /\ tc.t \in Nat
    BY <1>1, <1>4, Sizes DEF Tc4Rec
  <1> HIDE DEF d, e, f, w
  <1>8. i + 1 < Cardinality(Times)
    BY <1>1, <1>2, <1>3, <1>5, <1>a
  <1>9. w >= f /\ tc.t < f
    <2>1. e \in Nat /\ f \in Nat /\ w \in Nat /\ w > e
      <3>1. e \in Nat /\ f \in Nat /\ w \in Nat
        BY <1>1, <1>3, <1>8, <1>a, Zenon
      <3> QED BY <1>a, <3>1
    <2>2. e < f /\ w >= f
      BY <1>2, <1>8, <1>a, <2>1
    <2> QED BY <1>a, <2>1, <2>2
  <1> QED BY <1>7, <1>8, <1>9 DEF Waits, d, f, w

LEMMA TC4Props ==
    ASSUME SType, CtlPart, ServoPart, TC4_Handler
    PROVE  /\ g_mode = "SERVO" /\ tc4' \in Tc4Rec /\ pad' \in [Pads -> Pad]
           /\ tc4'.on /\ (tc4'.mc1 => tc4'.idx < Cardinality(Widths))
           /\ pad'[D6] = pad[D6] /\ \A c \in Pads : pad'[c].dir = pad[c].dir
           /\ \A c \in declared : pad'[c].out => servo.run /\ Waits(tc4', c)
  <1> DEFINE n == (tc4.t + 1) % FRAME
             tc == [tc4 EXCEPT !.t = n, !.flag = tc4.flag \/ n = tc4.cc1]
  <1>a. ServoType /\ PadType /\ tc4 \in Tc4Rec /\ pad \in [Pads -> Pad] /\ servo.run \in BOOLEAN
    BY DEF SType, ServoType, PadType, ServoRec
  <1>b. tc4.on /\ g_mode = "SERVO"
    BY DEF TC4_Handler, CtlPart
  <1>c. \A c \in declared : pad[c].out => servo.run /\ Waits(tc4, c)
    BY <1>b DEF ServoPart
  <1>d. /\ n \in 0..(FRAME - 1) /\ tc4.t \in 0..(FRAME - 1)
        /\ n # 0 => n = tc4.t + 1
        /\ n = 0 => tc4.t = FRAME - 1
    <2>1. tc4.t \in 0..(FRAME - 1)
      BY <1>a DEF Tc4Rec
    <2>2. PICK t \in 0..(FRAME - 1) : t = tc4.t
      BY <2>1
    <2>3. CASE t = FRAME - 1
      <3>1. FRAME % FRAME = 0 /\ t + 1 = FRAME
        BY <2>3, Sizes
      <3> QED BY <2>2, <2>3, <3>1, Sizes
    <2>4. CASE t # FRAME - 1
      <3>1. (t + 1) % FRAME = t + 1 /\ t + 1 \in 0..(FRAME - 1) /\ t + 1 # 0
        BY <2>2, <2>4, Sizes
      <3> QED BY <2>1, <2>2, <3>1, Sizes
    <2> QED BY <2>3, <2>4
  <1> HIDE DEF n
  <1>e. /\ tc \in Tc4Rec /\ tc.t = n /\ tc.on /\ tc.mc1 = tc4.mc1 /\ tc.idx = tc4.idx /\ tc.cc1 = tc4.cc1
        /\ tc.flag = (tc4.flag \/ n = tc4.cc1) /\ tc.flag \in BOOLEAN
    <2>1. (tc4.flag \/ n = tc4.cc1) \in BOOLEAN
      BY <1>a DEF Tc4Rec
    <2> QED BY <1>a, <1>b, <1>d, <2>1 DEF Tc4Rec
  <1>f. IF tc.t = 0 THEN FrameStart(tc)
        ELSE IF tc.flag /\ tc.mc1
        THEN tc4' = AfterDrop(tc.idx, tc) /\ pad' = Dropped(tc.idx, pad)
        ELSE tc4' = tc /\ UNCHANGED pad
    BY DEF TC4_Handler, n
  <1> HIDE DEF tc
  <1>g. /\ Cardinality(Times) \in Nat /\ Cardinality(Times) <= Cardinality(Widths)
        /\ Cardinality(Widths) \in Nat /\ 0 < Cardinality(Widths) /\ Times \subseteq Nat /\ IsFiniteSet(Times)
        /\ Times \subseteq 1..(FRAME - 2) /\ FRAME \in Nat
    <2>1. Times \in SUBSET Widths
      BY <1>a, TimesType
    <2>2. IsFiniteSet(Times) /\ Cardinality(Times) \in Nat /\ Cardinality(Times) <= Cardinality(Widths)
      BY <2>1, BelowFinite
    <2> QED BY <2>1, <2>2, Sizes
  <1>j. 0 \in 0..Cardinality(Widths)
    BY Sizes
  <1>k. \A u \in Times : u \in Nat /\ 1 <= u /\ u <= FRAME - 2
    BY <1>g
  <1>h. declared \subseteq Pads /\ servo.enable \subseteq declared
        /\ \A c \in servo.enable : servo.us[c] \in Times
    BY <1>a, Places, TimesType DEF ServoType, ServoRec
  <1>i. tc4.idx \in Nat /\ tc4.cc1 \in Nat /\ tc4.t \in Nat
    BY <1>a DEF Tc4Rec
  <1>1. CASE tc.t = 0
    (* No pad is high at the end of a frame.                               *)
    <2>1. \A c \in declared : ~pad[c].out
      <3> SUFFICES ASSUME NEW c \in declared, pad[c].out PROVE FALSE
        OBVIOUS
      <3>1. tc4.t < tc4.cc1 /\ tc4.idx < Cardinality(Times) /\ tc4.cc1 = EventTime(tc4.idx)
        BY <1>c DEF Waits
      <3>2. EventTime(tc4.idx) \in Times
        BY <1>a, <1>i, <3>1, EventProps
      <3>3. tc4.cc1 <= FRAME - 2
        BY <1>k, <3>1, <3>2
      <3> QED BY <1>1, <1>d, <1>e, <1>g, <1>i, <3>1, <3>3
    <2>2. FrameStart(tc)
      BY <1>1, <1>f
    <2>3. CASE ~servo.run
      <3>1. tc4' = [tc EXCEPT !.mc1 = FALSE] /\ pad' = pad
        BY <2>2, <2>3 DEF FrameStart
      <3>2. tc4' \in Tc4Rec /\ tc4'.on /\ ~tc4'.mc1
        BY <1>e, <3>1 DEF Tc4Rec
      <3> QED BY <1>a, <1>b, <2>1, <3>1, <3>2
    <2>4. CASE servo.run /\ Times = {}
      <3>1. tc4' = [tc EXCEPT !.idx = 0, !.mc1 = FALSE] /\ pad' = Raised
        BY <2>2, <2>4 DEF FrameStart
      <3>2. tc4' \in Tc4Rec /\ tc4'.on /\ ~tc4'.mc1
        BY <1>e, <1>j, <3>1 DEF Tc4Rec
      <3>3. servo.enable = {}
        BY <1>h, <2>4
      <3> QED BY <1>a, <1>b, <1>h, <2>1, <3>1, <3>2, <3>3, RaisedProps
    <2>5. CASE servo.run /\ Times # {} /\ tc.flag
      <3> DEFINE z == [tc EXCEPT !.idx = 0, !.mc1 = TRUE]
      <3>1. tc4' = AfterDrop(0, z) /\ pad' = Dropped(0, Raised)
        BY <2>2, <2>5 DEF FrameStart
      <3>2. z \in Tc4Rec /\ z.on /\ z.mc1 /\ z.t = 0
        BY <1>1, <1>e, <1>j DEF Tc4Rec
      <3> HIDE DEF z
      <3>3. 0 < Cardinality(Times) /\ 0 \in Nat
        BY <1>g, <2>5, FS_EmptySet
      <3>4. EventTime(0) \in Times /\ \A u \in Times : u >= EventTime(0)
        BY <1>a, <3>3, EventProps, EventNext
      <3>5. EventTime(0) \in Nat
        BY <1>g, <3>4
      <3>6. tc4' \in Tc4Rec /\ tc4'.on /\ (tc4'.mc1 => tc4'.idx < Cardinality(Widths))
        BY <1>a, <1>g, <3>1, <3>2, <3>3, AfterDropProps
      <3>7. /\ Raised \in [Pads -> Pad] /\ Raised[D6] = pad[D6]
            /\ \A c \in Pads : Raised[c].dir = pad[c].dir /\ (Raised[c].out => c \in servo.enable \/ pad[c].out)
        BY <1>a, RaisedProps
      <3>8. /\ pad' \in [Pads -> Pad] /\ pad'[D6] = Raised[D6]
            /\ \A c \in Pads : pad'[c].dir = Raised[c].dir /\ (pad'[c].out => Raised[c].out)
        BY <1>a, <3>1, <3>3, <3>7, DroppedProps
      <3>9. ASSUME NEW c \in declared, pad'[c].out PROVE servo.run /\ Waits(tc4', c)
        <4>1. c \in servo.enable
          BY <1>h, <2>1, <3>7, <3>8, <3>9
        <4>2. servo.us[c] >= EventTime(0)
          BY <1>h, <3>4, <4>1
        <4>3. z.t <= EventTime(0)
          BY <3>2, <3>5
        <4>4. Waits(AfterDrop(0, z), c)
          BY <1>a, <3>1, <3>2, <3>3, <3>7, <3>9, <4>1, <4>2, <4>3, DropWaits
        <4> QED BY <2>5, <3>1, <4>4
      <3> QED BY <1>b, <3>6, <3>7, <3>8, <3>9
    <2>6. CASE servo.run /\ Times # {} /\ ~tc.flag
      <3>1. tc4' = [tc EXCEPT !.idx = 0, !.cc1 = EventTime(0), !.mc1 = TRUE] /\ pad' = Raised
        BY <2>2, <2>6 DEF FrameStart
      <3>2. 0 < Cardinality(Times) /\ 0 \in Nat
        BY <1>g, <2>6, FS_EmptySet
      <3> DEFINE e == EventTime(0)
      <3>3. e \in Times /\ \A u \in Times : u >= e
        BY <1>a, <3>2, EventProps, EventNext
      <3>4. e \in Nat /\ e >= 1
        BY <1>k, <3>3
      <3>5. tc4' = [tc EXCEPT !.idx = 0, !.cc1 = e, !.mc1 = TRUE]
        BY <3>1
      <3> HIDE DEF e
      <3>6. /\ tc4' \in Tc4Rec /\ tc4'.on /\ tc4'.idx = 0 /\ tc4'.cc1 = e /\ tc4'.mc1 /\ tc4'.t = 0
            /\ tc4'.flag = tc.flag
        BY <1>1, <1>e, <1>j, <3>4, <3>5 DEF Tc4Rec
      <3>7. ASSUME NEW c \in declared, pad'[c].out PROVE servo.run /\ Waits(tc4', c)
        <4>1. c \in servo.enable
          BY <1>a, <1>h, <2>1, <3>1, <3>7, RaisedProps
        <4>2. servo.us[c] >= e
          BY <1>h, <3>3, <4>1
        <4>3. tc4'.cc1 = EventTime(tc4'.idx)
          BY <3>6 DEF e
        <4> QED BY <2>6, <3>2, <3>4, <3>6, <4>1, <4>2, <4>3 DEF Waits
      <3> QED BY <1>a, <1>b, <1>g, <3>1, <3>6, <3>7, RaisedProps
    <2> QED BY <1>a, <1>e, <2>3, <2>4, <2>5, <2>6
  <1>2. CASE tc.t # 0 /\ tc.flag /\ tc.mc1
    <2>1. tc4' = AfterDrop(tc4.idx, tc) /\ pad' = Dropped(tc4.idx, pad)
      BY <1>2, <1>e, <1>f
    <2>2. tc4.idx < Cardinality(Widths)
      BY <1>2, <1>e DEF ServoPart
    <2>3. tc4' \in Tc4Rec /\ tc4'.on /\ (tc4'.mc1 => tc4'.idx < Cardinality(Widths))
      BY <1>a, <1>e, <1>i, <2>1, <2>2, AfterDropProps
    <2>4. /\ pad' \in [Pads -> Pad] /\ pad'[D6] = pad[D6]
          /\ \A c \in Pads : pad'[c].dir = pad[c].dir /\ (pad'[c].out => pad[c].out)
      BY <1>a, <1>i, <2>1, DroppedProps
    <2>5. ASSUME NEW c \in declared, pad'[c].out PROVE servo.run /\ Waits(tc4', c)
      <3>1. pad[c].out
        BY <1>h, <2>4, <2>5
      <3>2. /\ servo.run /\ tc4.mc1 /\ ~tc4.flag /\ tc4.t < tc4.cc1 /\ tc4.idx < Cardinality(Times)
            /\ tc4.cc1 = EventTime(tc4.idx) /\ c \in servo.enable /\ servo.us[c] >= tc4.cc1
        BY <1>c, <3>1 DEF Waits
      <3>3. n = tc4.cc1
        BY <1>2, <1>e, <3>2
      <3>4. tc.t <= EventTime(tc4.idx)
        BY <1>e, <1>i, <3>2, <3>3
      <3>5. servo.us[c] >= EventTime(tc4.idx) /\ Dropped(tc4.idx, pad)[c].out
        BY <2>1, <2>5, <3>2
      <3>6. Waits(AfterDrop(tc4.idx, tc), c)
        BY <1>2, <1>a, <1>e, <1>i, <3>2, <3>4, <3>5, DropWaits
      <3> QED BY <2>1, <3>2, <3>6
    <2> QED BY <1>b, <2>3, <2>4, <2>5
  <1>3. CASE tc.t # 0 /\ ~(tc.flag /\ tc.mc1)
    <2>1. tc4' = tc /\ pad' = pad
      BY <1>3, <1>f
    <2>2. ASSUME NEW c \in declared, pad[c].out PROVE servo.run /\ Waits(tc, c)
      <3>1. /\ servo.run /\ tc4.mc1 /\ ~tc4.flag /\ tc4.t < tc4.cc1 /\ tc4.idx < Cardinality(Times)
            /\ tc4.cc1 = EventTime(tc4.idx) /\ c \in servo.enable /\ servo.us[c] >= tc4.cc1
        BY <1>c, <2>2 DEF Waits
      <3>2. ~tc.flag /\ n # tc4.cc1
        BY <1>3, <1>e, <3>1
      <3>3. tc.t < tc.cc1
        BY <1>3, <1>d, <1>e, <1>i, <3>1, <3>2
      <3> QED BY <1>e, <3>1, <3>2, <3>3 DEF Waits
    <2> QED BY <1>a, <1>b, <1>e, <2>1, <2>2 DEF ServoPart
  <1> QED BY <1>1, <1>2, <1>3

-----------------------------------------------------------------------------
(* The interlock ticks.                                                    *)
LEMMA OInvParts == ASSUME OInv PROVE SType /\ CtlPart /\ ServoPart /\ OfflineSafe
  BY DEF OInv

LEMMA AtLoop == Loop \in PcRec /\ Loop.at = "loop" /\ "loop" \notin IlStages
  <1>1. "loop" \in Stages /\ "IDLE" \in Modes /\ {} \in SUBSET Guarded /\ "loop" \notin IlStages
    BY DEF Stages, Modes, IlStages
  <1> QED BY <1>1 DEF PcRec, Loop

LEMMA LevelType == ASSUME PadType, NEW c \in Pads PROVE Level(c) \in BOOLEAN
  BY DEF PadType, Pad, Level

LEMMA ShiftType == ASSUME sr \in SrRec, NEW raw \in BOOLEAN PROVE Shift(raw) \in SrRec /\ Shift(raw).deb \in BOOLEAN
  <1> DEFINE b == IF ilcf.depth = 1 THEN <<raw, raw>> ELSE <<sr.bits[2], raw>>
  <1>1. sr.bits \in BOOLEAN \X BOOLEAN /\ sr.deb \in BOOLEAN
    BY DEF SrRec
  <1>2. b \in BOOLEAN \X BOOLEAN
    BY <1>1
  <1>3. Shift(raw) = [bits |-> b, deb |-> IF b[1] = b[2] THEN raw ELSE sr.deb]
    BY DEF Shift
  <1> HIDE DEF b
  <1> QED BY <1>1, <1>2, <1>3 DEF SrRec

(* What a tick in a guarded mode leaves alone keeps the rest.              *)
LEMMA IlKeeps ==
    ASSUME OInv, g_mode \in Guarded,
           UNCHANGED <<g_mode, g_offline, dac, regs, line, adc, servo, tc4, cnt, bench>>,
           pad' \in [Pads -> Pad], il' \in [Guarded -> IlRec], g_int_flags' \subseteq Guarded,
           g_il_snap' \in SnapRec, sr' \in SrRec, pc' \in PcRec,
           pc'.at \in IlStages => g_mode = pc'.m /\ ilcf # NoFile,
           pc'.at \notin {"estop", "offline"},
           \A k \in Guarded : il'[k].valid \/ il'[k].tripped => g_mode = k /\ ilcf # NoFile
    PROVE  OInv'
  <1>a. SType /\ CtlPart /\ ServoPart /\ OfflineSafe
    BY OInvParts
  <1>b. g_mode \notin {"SERVO", "COUNTER", "IDLE"}
    BY DEF Guarded
  <1>1. SType'
    BY <1>a DEF SType, PadType, ModeType, IlType, ServoType, BenchType
  <1>2. CtlPart'
    BY <1>a, <1>b DEF CtlPart
  <1>3. ServoPart'
    BY <1>a, <1>b DEF ServoPart
  <1>4. OfflineSafe'
    BY <1>a, <1>b DEF OfflineSafe
  <1> QED BY <1>1, <1>2, <1>3, <1>4 DEF OInv

LEMMA IlFrame ==
    ASSUME Frame
    PROVE  UNCHANGED <<g_mode, g_offline, dac, regs, line, adc, servo, tc4, cnt, bench>>
  BY DEF Frame, shared, timers

LEMMA IlSampleKeeps == ASSUME OInv, NEW m \in Guarded, IlSample(m) PROVE OInv'
  <1>a. SType /\ CtlPart
    BY OInvParts
  <1>b. /\ pc.at = "loop" /\ g_mode = m /\ il[m].valid /\ Frame /\ UNCHANGED <<pad, il, g_int_flags, g_il_snap>>
        /\ sr' = IF m = "MIXED" THEN Shift(Level(ilcf.in)) ELSE sr
    BY DEF IlSample
  <1>c. PICK b \in BOOLEAN : pc' = [Loop EXCEPT !.at = "judge", !.m = m, !.pass = b]
    <2> DEFINE b == ~Bad(CASE m = "PIO" -> Level(ilcf.in)
                           [] m = "ADC" -> adc
                           [] OTHER -> Shift(Level(ilcf.in)).deb)
    <2>1. pc' = [Loop EXCEPT !.at = "judge", !.m = m, !.pass = b]
      BY DEF IlSample
    <2>2. b \in BOOLEAN
      BY Zenon DEF Bad
    <2> QED BY <2>1, <2>2, Zenon
  <1>d. "judge" \in Stages /\ m \in Modes
    BY DEF Stages, IlStages, Guarded, Modes
  <1>e. pc' \in PcRec /\ pc'.at = "judge" /\ pc'.m = m
    BY <1>c, <1>d, AtLoop DEF PcRec
  <1>f. ilcf # NoFile
    BY <1>a, <1>b DEF CtlPart
  <1>g. sr' \in SrRec
    <2>1. Level(ilcf.in) \in BOOLEAN
      BY <1>a, <1>f, Places, LevelType DEF SType
    <2> QED BY <1>a, <1>b, <2>1, ShiftType DEF SType, IlType
  <1>h. UNCHANGED <<g_mode, g_offline, dac, regs, line, adc, servo, tc4, cnt, bench>>
    BY <1>b, IlFrame
  <1>i. /\ pad' \in [Pads -> Pad] /\ il' \in [Guarded -> IlRec] /\ g_int_flags' \subseteq Guarded
        /\ g_il_snap' \in SnapRec
    BY <1>a, <1>b DEF SType, PadType, IlType
  <1>j. \A k \in Guarded : il'[k].valid \/ il'[k].tripped => g_mode = k /\ ilcf # NoFile
    BY <1>a, <1>b DEF CtlPart
  <1> QED BY <1>b, <1>e, <1>f, <1>g, <1>h, <1>i, <1>j, IlKeeps

(* In the ticks after the first the mode is the one that was sampled.      *)
LEMMA InStage ==
    ASSUME OInv, pc.at \in IlStages
    PROVE  /\ g_mode = pc.m /\ g_mode \in Guarded /\ ilcf # NoFile /\ pc \in PcRec
           /\ pad \in [Pads -> Pad] /\ il \in [Guarded -> IlRec] /\ g_int_flags \subseteq Guarded
           /\ g_il_snap \in SnapRec /\ sr \in SrRec /\ pc.pass \in BOOLEAN /\ pc.old \subseteq Guarded
           /\ \A k \in Guarded : il[k].valid \/ il[k].tripped => g_mode = k /\ ilcf # NoFile
  BY OInvParts DEF SType, PadType, IlType, CtlPart, PcRec

LEMMA IlJudgeKeeps == ASSUME OInv, IlJudge PROVE OInv'
  <1> DEFINE trips == ~il[pc.m].tripped /\ ~pc.pass
  <1>a. /\ pc.at = "judge" /\ Frame /\ UNCHANGED <<pad, sr, g_int_flags, g_il_snap>>
        /\ il' = IF trips THEN [il EXCEPT ![pc.m].tripped = TRUE] ELSE il
        /\ pc' = CASE trips -> [pc EXCEPT !.at = "flag", !.old = g_int_flags]
                   [] ~trips /\ pc.m = "ADC" -> [pc EXCEPT !.at = "drive"]
                   [] ~trips /\ pc.m # "ADC" /\ il[pc.m].tripped -> [pc EXCEPT !.at = "resafe"]
                   [] ~trips /\ pc.m = "MIXED" /\ ~il[pc.m].tripped -> [pc EXCEPT !.at = "ok"]
                   [] OTHER -> Loop
    BY DEF IlJudge
  <1>b. pc.at \in IlStages
    BY <1>a DEF IlStages
  <1>c. /\ g_mode = pc.m /\ g_mode \in Guarded /\ ilcf # NoFile /\ pc \in PcRec
        /\ pad \in [Pads -> Pad] /\ il \in [Guarded -> IlRec] /\ g_int_flags \subseteq Guarded
        /\ g_il_snap \in SnapRec /\ sr \in SrRec
        /\ \A k \in Guarded : il[k].valid \/ il[k].tripped => g_mode = k /\ ilcf # NoFile
    BY <1>b, InStage
  <1>d. {"flag", "drive", "resafe", "ok"} \subseteq Stages
    BY DEF Stages, IlStages
  <1>e. pc' \in PcRec /\ pc'.at \in {"flag", "drive", "resafe", "ok", "loop"} /\ (pc'.at # "loop" => pc'.m = pc.m)
    BY <1>a, <1>c, <1>d, AtLoop DEF PcRec
  <1>f. il' \in [Guarded -> IlRec] /\ \A k \in Guarded : k # pc.m => il'[k] = il[k]
    BY <1>a, <1>c DEF IlRec
  <1>g. UNCHANGED <<g_mode, g_offline, dac, regs, line, adc, servo, tc4, cnt, bench>>
    BY <1>a, IlFrame
  <1>h. pc'.at \in IlStages => g_mode = pc'.m /\ ilcf # NoFile
    BY <1>c, <1>e DEF IlStages
  <1>i. \A k \in Guarded : il'[k].valid \/ il'[k].tripped => g_mode = k /\ ilcf # NoFile
    BY <1>c, <1>f
  <1> QED BY <1>a, <1>c, <1>e, <1>f, <1>g, <1>h, <1>i, IlKeeps

LEMMA IlFlagKeeps == ASSUME OInv, IlFlag PROVE OInv'
  <1>a. /\ pc.at = "flag" /\ Frame /\ UNCHANGED <<pad, il, sr, g_il_snap>>
        /\ g_int_flags' = pc.old \cup {pc.m} /\ pc' = [pc EXCEPT !.at = "snap"]
    BY DEF IlFlag
  <1>b. pc.at \in IlStages /\ "snap" \in Stages
    BY <1>a DEF IlStages, Stages
  <1>e. pc' \in PcRec /\ pc'.at = "snap" /\ pc'.m = pc.m
    BY <1>a, <1>b, InStage, AtLoop DEF PcRec
  <1>g. UNCHANGED <<g_mode, g_offline, dac, regs, line, adc, servo, tc4, cnt, bench>>
    BY <1>a, IlFrame
  <1>h. g_int_flags' \subseteq Guarded
    BY <1>a, <1>b, InStage
  <1> QED BY <1>a, <1>b, <1>e, <1>g, <1>h, InStage, IlKeeps

LEMMA SnapKeeps == ASSUME OInv, il_snap_capture PROVE OInv'
  <1>a. /\ pc.at = "snap" /\ Frame /\ UNCHANGED <<pad, il, sr, g_int_flags>>
        /\ pc' = [pc EXCEPT !.at = IF pc.m = "ADC" THEN "drive" ELSE "safe"]
    BY DEF il_snap_capture
  <1>b. pc.at \in IlStages /\ (IF pc.m = "ADC" THEN "drive" ELSE "safe") \in Stages
    BY <1>a DEF IlStages, Stages
  <1>e. pc' \in PcRec /\ pc'.at \in {"drive", "safe"} /\ pc'.m = pc.m
    BY <1>a, <1>b, InStage, AtLoop DEF PcRec
  <1>g. UNCHANGED <<g_mode, g_offline, dac, regs, line, adc, servo, tc4, cnt, bench>>
    BY <1>a, IlFrame
  <1>h. g_il_snap' \in SnapRec /\ g_il_snap'.valid
    <2> DEFINE b == CASE pc.m = "PIO" -> ~Bad(Level(ilcf.in))
                      [] pc.m = "ADC" -> ~Bad(adc)
                      [] OTHER -> pc.pass
    <2>1. b \in BOOLEAN
      BY <1>b, InStage DEF Bad
    <2>2. g_il_snap' = IF g_il_snap.valid THEN g_il_snap ELSE [valid |-> TRUE, pass |-> b]
      BY DEF il_snap_capture
    <2> HIDE DEF b
    <2> QED BY <1>b, <2>1, <2>2, InStage DEF SnapRec
  <1> QED BY <1>a, <1>b, <1>e, <1>g, <1>h, InStage, IlKeeps

LEMMA DriveOutType ==
    ASSUME pad \in [Pads -> Pad], ilcf # NoFile, NEW m, NEW v \in BOOLEAN, DriveOut(m, v)
    PROVE  pad' \in [Pads -> Pad] /\ (IntApart => pad'[D6] = pad[D6])
  <1>1. ilcf.out \in Pads /\ D6 \in Pads
    BY Places
  <1>2. PICK p \in Pad : pad' = [pad EXCEPT ![ilcf.out] = p]
    <2>1. /\ pio_phys_drive(regs, ilcf.out, v, pad[ilcf.out]) \in Pad
          /\ il_drive_output(v, ilcf.od, pad[ilcf.out]) \in Pad
      BY <1>1, DriveType
    <2> QED BY <2>1 DEF DriveOut
  <1> QED BY <1>1, <1>2 DEF IntApart

LEMMA IlDriveKeeps == ASSUME OInv, IlDrive PROVE OInv' /\ (IntApart => pad'[D6] = pad[D6])
  <1> DEFINE v == CASE pc.at = "ok" -> ilcf.ok
                    [] pc.at = "drive" /\ ~il["ADC"].tripped -> ilcf.ok
                    [] OTHER -> ilcf.err
  <1>a. /\ pc.at \in {"safe", "resafe", "ok", "drive"} /\ Frame /\ UNCHANGED <<il, sr, g_int_flags, g_il_snap>>
        /\ DriveOut(pc.m, v)
        /\ pc' = IF pc.at = "safe" THEN [pc EXCEPT !.at = "int"] ELSE Loop
    BY DEF IlDrive
  <1>b. pc.at \in IlStages /\ "int" \in Stages
    BY <1>a DEF IlStages, Stages
  <1>c. v \in BOOLEAN
    BY <1>b, InStage, Places
  <1> HIDE DEF v
  <1>d. pad' \in [Pads -> Pad] /\ (IntApart => pad'[D6] = pad[D6])
    BY <1>a, <1>b, <1>c, InStage, DriveOutType
  <1>e. pc' \in PcRec /\ pc'.at \in {"int", "loop"} /\ (pc'.at # "loop" => pc'.m = pc.m)
    BY <1>a, <1>b, InStage, AtLoop DEF PcRec
  <1>f. pc'.at \in IlStages => pc'.m = pc.m
    BY <1>e DEF IlStages
  <1>g. UNCHANGED <<g_mode, g_offline, dac, regs, line, adc, servo, tc4, cnt, bench>>
    BY <1>a, IlFrame
  <1> QED BY <1>a, <1>b, <1>d, <1>e, <1>f, <1>g, InStage, IlKeeps

LEMMA IlIntKeeps == ASSUME OInv, IlInt PROVE OInv'
  <1>a. /\ pc.at = "int" /\ Frame /\ UNCHANGED <<il, sr, g_int_flags, g_il_snap>>
        /\ pad' = [pad EXCEPT ![D6] = pio_int_assert(TRUE, pad[D6])] /\ pc' = Loop
    BY DEF IlInt
  <1>b. pc.at \in IlStages
    BY <1>a DEF IlStages
  <1>c. pad' \in [Pads -> Pad]
    BY <1>a, <1>b, InStage, Places, IntType
  <1>d. pc' \in PcRec /\ pc'.at = "loop" /\ "loop" \notin IlStages
    BY <1>a, AtLoop DEF IlStages
  <1>g. UNCHANGED <<g_mode, g_offline, dac, regs, line, adc, servo, tc4, cnt, bench>>
    BY <1>a, IlFrame
  <1> QED BY <1>a, <1>b, <1>c, <1>d, <1>g, InStage, IlKeeps

-----------------------------------------------------------------------------
(* The other ticks, and going offline.                                     *)
LEMMA RestTypes ==
    /\ Idle4 \in Tc4Rec /\ ~Idle4.on /\ ~Idle4.mc1
    /\ servo_tc_start \in Tc4Rec /\ ~servo_tc_start.mc1
    /\ ServoAtRest \in ServoRec /\ ~ServoAtRest.run /\ ~ServoAtRest.latched
    /\ NoBench \in BenchRec /\ NoBench.sel = NoFile
    /\ Uncounted \in [Pads -> CntRec] /\ \A c \in Pads : Uncounted[c].n = 0
    /\ NoSnap \in SnapRec /\ ~NoSnap.valid /\ NoShift \in SrRec
    /\ LeaveIl \in [Guarded -> IlRec] /\ \A k \in Guarded : ~LeaveIl[k].valid /\ ~LeaveIl[k].tripped
    /\ SafeRegs \in RegsRec
  <1>1. Idle4 \in Tc4Rec /\ ~Idle4.on /\ ~Idle4.mc1
    <2>1. 0 \in 0..(FRAME - 1) /\ 0 \in 0..Cardinality(Widths)
      BY Sizes
    <2> QED BY <2>1 DEF Idle4, Tc4Rec
  <1>2. servo_tc_start \in Tc4Rec /\ ~servo_tc_start.mc1
    <2>1. servo_tc_start = [Idle4 EXCEPT !.on = TRUE]
      BY DEF servo_tc_start
    <2> HIDE DEF Idle4
    <2> QED BY <1>1, <2>1 DEF Tc4Rec
  <1>3. ServoAtRest \in ServoRec /\ ~ServoAtRest.run /\ ~ServoAtRest.latched
    <2>1. {} \in SUBSET declared /\ [c \in Chans |-> Max(Widths)] \in [Chans -> Widths]
      BY Sizes
    <2> QED BY <2>1 DEF ServoAtRest, ServoRec
  <1>4. NoBench \in BenchRec /\ NoBench.sel = NoFile
    BY DEF NoBench, BenchRec
  <1>5. Uncounted \in [Pads -> CntRec] /\ \A c \in Pads : Uncounted[c].n = 0
    BY DEF Uncounted, CntRec
  <1>6. NoSnap \in SnapRec /\ ~NoSnap.valid /\ NoShift \in SrRec
    BY DEF NoSnap, SnapRec, NoShift, SrRec
  <1>7. LeaveIl \in [Guarded -> IlRec] /\ \A k \in Guarded : ~LeaveIl[k].valid /\ ~LeaveIl[k].tripped
    BY DEF LeaveIl, IlRec, Disarmed
  <1>8. SafeRegs \in RegsRec
    BY DEF SafeRegs, RegsRec
  <1> QED BY <1>1, <1>2, <1>3, <1>4, <1>5, <1>6, <1>7, <1>8

LEMMA WaitsSame ==
    ASSUME servo'.enable = servo.enable, servo'.us = servo.us, tc4' = tc4, NEW c
    PROVE  Waits(tc4, c)' = Waits(tc4, c)
  BY DEF Waits, Times, EventTime

LEMMA ServoTickKeeps == ASSUME OInv, servo_tick PROVE OInv'
  <1>a. SType /\ CtlPart /\ ServoPart /\ OfflineSafe
    BY OInvParts
  <1>b. /\ pc.at = "loop" /\ g_mode = "SERVO" /\ servo' = [servo EXCEPT !.latched = TRUE]
        /\ pc' = [Loop EXCEPT !.at = "estop"]
        /\ UNCHANGED <<line, g_mode, g_offline, dac, regs, il, sr, g_int_flags, g_il_snap, adc, cnt, bench,
                       pad, tc4>>
    BY DEF servo_tick, ServoFrame, shared
  <1>c. pc' \in PcRec /\ pc'.at = "estop" /\ "estop" \notin IlStages
    <2>1. "estop" \in Stages /\ "estop" \notin IlStages
      BY DEF Stages, IlStages
    <2> QED BY <1>b, <2>1, AtLoop DEF PcRec
  <1>d. /\ servo' \in ServoRec /\ servo'.enable = servo.enable /\ servo'.us = servo.us /\ servo'.run = servo.run
    BY <1>a, <1>b DEF SType, ServoType, ServoRec
  <1>1. SType'
    BY <1>a, <1>b, <1>c, <1>d DEF SType, PadType, ModeType, IlType, ServoType, BenchType
  <1>2. CtlPart'
    BY <1>a, <1>b, <1>c DEF CtlPart
  <1>3. ServoPart'
    BY <1>a, <1>b, <1>c, <1>d, WaitsSame DEF ServoPart
  <1>4. OfflineSafe'
    BY <1>a, <1>b DEF OfflineSafe
  <1> QED BY <1>1, <1>2, <1>3, <1>4 DEF OInv

LEMMA AllLow ==
    ASSUME pad \in [Pads -> Pad], servo_all_low
    PROVE  /\ pad' \in [Pads -> Pad] /\ pad'[D6] = pad[D6] /\ \A c \in declared : ~pad'[c].out
           /\ \A c \in Pads : pad'[c].dir = pad[c].dir
  <1>1. \A p \in Pad : /\ [p EXCEPT !.out = FALSE] \in Pad /\ ~[p EXCEPT !.out = FALSE].out
                       /\ [p EXCEPT !.out = FALSE].dir = p.dir
    BY DEF Pad
  <1>2. pad' = [c \in Pads |-> IF c = D6 THEN pad[c] ELSE [pad[c] EXCEPT !.out = FALSE]]
    BY DEF servo_all_low
  <1>3. \A c \in Pads : pad'[c] = IF c = D6 THEN pad[c] ELSE [pad[c] EXCEPT !.out = FALSE]
    BY <1>2
  <1>4. pad' \in [Pads -> Pad]
    BY <1>1, <1>2
  <1>5. D6 \in Pads /\ \A c \in declared : c \in Pads /\ c # D6
    BY Places
  <1>6. \A c \in Pads : pad[c] \in Pad
    OBVIOUS
  <1>7. \A c \in declared : ~pad'[c].out
    <2> SUFFICES ASSUME NEW c \in declared PROVE ~pad'[c].out
      OBVIOUS
    <2>1. pad'[c] = [pad[c] EXCEPT !.out = FALSE] /\ pad[c] \in Pad
      BY <1>3, <1>5, <1>6, Zenon
    <2>2. ~[pad[c] EXCEPT !.out = FALSE].out
      BY <1>1, <2>1, Zenon
    <2> QED BY <2>1, <2>2, Zenon
  <1>8. \A c \in Pads : pad'[c].dir = pad[c].dir
    BY <1>1, <1>3, <1>6
  <1> QED BY <1>3, <1>4, <1>5, <1>7, <1>8

LEMMA EstopKeeps == ASSUME OInv, EstopLow PROVE OInv'
  <1>a. SType /\ CtlPart /\ ServoPart /\ OfflineSafe
    BY OInvParts
  <1>b. /\ pc.at = "estop" /\ pc' = Loop
        /\ UNCHANGED <<line, g_mode, g_offline, dac, regs, il, sr, g_int_flags, g_il_snap, adc, cnt, bench, tc4>>
    BY DEF EstopLow, ServoFrame, shared
  <1>c. g_mode = "SERVO" /\ pc' \in PcRec /\ pc'.at = "loop" /\ "loop" \notin IlStages
    BY <1>a, <1>b, AtLoop DEF CtlPart
  <1>d. IF servo.run THEN servo' = [servo EXCEPT !.run = FALSE] /\ servo_all_low
        ELSE servo' = servo /\ pad' = pad
    BY DEF EstopLow
  <1>e. pad \in [Pads -> Pad] /\ servo \in ServoRec
    BY <1>a DEF SType, PadType, ServoType
  <1>f. pad' \in [Pads -> Pad] /\ servo' \in ServoRec /\ ~servo'.run /\ \A c \in declared : ~pad'[c].out
    <2>1. CASE servo.run
      <3>1. servo' \in ServoRec /\ ~servo'.run
        BY <1>d, <1>e, <2>1 DEF ServoRec
      <3> QED BY <1>d, <1>e, <2>1, <3>1, AllLow
    <2>2. CASE ~servo.run
      BY <1>a, <1>c, <1>d, <1>e, <2>2 DEF ServoPart
    <2> QED BY <2>1, <2>2
  <1>1. SType'
    BY <1>a, <1>b, <1>c, <1>f DEF SType, PadType, ModeType, IlType, ServoType, BenchType
  <1>2. CtlPart'
    BY <1>a, <1>b, <1>c DEF CtlPart
  <1>3. ServoPart'
    BY <1>a, <1>b, <1>f DEF ServoPart
  <1>4. OfflineSafe'
    BY <1>a, <1>b, <1>c DEF OfflineSafe
  <1> QED BY <1>1, <1>2, <1>3, <1>4 DEF OInv

LEMMA BenchTickKeeps == ASSUME OInv, bench_tick PROVE OInv'
  <1>a. SType /\ CtlPart /\ ServoPart /\ OfflineSafe
    BY OInvParts
  <1>b. /\ pc.at = "loop" /\ pc' = [Loop EXCEPT !.at = "bench"]
        /\ UNCHANGED <<line, g_mode, g_offline, dac, regs, il, sr, g_int_flags, g_il_snap, adc, cnt, bench,
                       pad, tc4, servo>>
    BY DEF bench_tick, shared, timers
  <1>c. pc' \in PcRec /\ pc'.at = "bench" /\ "bench" \notin IlStages
    <2>1. "bench" \in Stages /\ "bench" \notin IlStages
      BY DEF Stages, IlStages
    <2> QED BY <1>b, <2>1, AtLoop DEF PcRec
  <1>1. SType'
    BY <1>a, <1>b, <1>c DEF SType, PadType, ModeType, IlType, ServoType, BenchType
  <1>2. CtlPart'
    BY <1>a, <1>b, <1>c DEF CtlPart
  <1>3. ServoPart'
    BY <1>a, <1>b, <1>c, WaitsSame DEF ServoPart
  <1>4. OfflineSafe'
    BY <1>a, <1>b DEF OfflineSafe
  <1> QED BY <1>1, <1>2, <1>3, <1>4 DEF OInv

LEMMA BenchDoneKeeps == ASSUME OInv, BenchDone PROVE OInv'
  <1>a. SType /\ CtlPart /\ ServoPart /\ OfflineSafe
    BY OInvParts
  <1>b. /\ pc.at = "bench" /\ pc' = Loop /\ bench' = [bench EXCEPT !.pending = FALSE]
        /\ UNCHANGED <<line, g_mode, g_offline, dac, regs, il, sr, g_int_flags, g_il_snap, adc, cnt,
                       pad, tc4, servo>>
    BY DEF BenchDone, shared
  <1>c. pc' \in PcRec /\ pc'.at = "loop" /\ "loop" \notin IlStages
    BY <1>b, AtLoop
  <1>d. bench' \in BenchRec /\ bench'.sel = bench.sel
    BY <1>a, <1>b DEF SType, BenchType, BenchRec
  <1>1. SType'
    BY <1>a, <1>b, <1>c, <1>d DEF SType, PadType, ModeType, IlType, ServoType, BenchType
  <1>2. CtlPart'
    BY <1>a, <1>b, <1>c, <1>d DEF CtlPart
  <1>3. ServoPart'
    BY <1>a, <1>b, <1>c, WaitsSame DEF ServoPart
  <1>4. OfflineSafe'
    BY <1>a, <1>b DEF OfflineSafe
  <1> QED BY <1>1, <1>2, <1>3, <1>4 DEF OInv

LEMMA LeaveDacType == ASSUME dac \in DacRec PROVE LeaveDac \in DacRec
  BY DEF LeaveDac, DacRec

LEMMA GoOfflineKeeps == ASSUME OInv, GoOffline PROVE OInv'
  <1>a. SType /\ CtlPart /\ ServoPart /\ OfflineSafe
    BY OInvParts
  <1>b. /\ pc.at = "loop" /\ ~g_offline /\ pad' = LeavePads(g_mode, pad) /\ regs' = LeaveRegs
        /\ il' = LeaveIl /\ dac' = LeaveDac /\ servo' = ServoAtRest /\ tc4' = Idle4 /\ cnt' = Uncounted
        /\ bench' = NoBench /\ pc' = [Loop EXCEPT !.at = "offline"]
        /\ UNCHANGED <<g_mode, g_offline, line, sr, adc, g_int_flags, g_il_snap>>
    BY DEF GoOffline
  <1>c. pc' \in PcRec /\ pc'.at = "offline" /\ "offline" \notin IlStages
    <2>1. "offline" \in Stages /\ "offline" \notin IlStages
      BY DEF Stages, IlStages
    <2> QED BY <1>b, <2>1, AtLoop DEF PcRec
  <1>d. /\ pad' \in [Pads -> Pad] /\ (g_mode = "SERVO" => \A c \in declared : ~pad'[c].out)
    BY <1>a, <1>b, LeaveType DEF SType, PadType, ModeType
  <1>e. regs' \in RegsRec /\ dac' \in DacRec
    BY <1>a, <1>b, RestTypes, LeaveDacType DEF SType, ModeType, LeaveRegs
  <1>1. SType'
    BY <1>a, <1>b, <1>c, <1>d, <1>e, RestTypes DEF SType, PadType, ModeType, IlType, ServoType, BenchType
  <1>2. CtlPart'
    BY <1>b, <1>c, RestTypes DEF CtlPart
  <1>3. ServoPart'
    BY <1>b, <1>d, RestTypes DEF ServoPart
  <1>4. OfflineSafe'
    BY <1>b DEF OfflineSafe
  <1> QED BY <1>1, <1>2, <1>3, <1>4 DEF OInv

LEMMA OfflineKeeps == ASSUME OInv, mode_go_offline PROVE OInv'
  <1>a. SType /\ CtlPart /\ ServoPart /\ OfflineSafe
    BY OInvParts
  <1>b. /\ pc.at = "offline" /\ pc' = Loop /\ pad' = TriState(pad) /\ dac' = [dac EXCEPT !.eoen = FALSE]
        /\ tc4' = Idle4 /\ g_mode' = "IDLE" /\ g_offline' = TRUE
        /\ UNCHANGED <<line, regs, il, sr, adc, servo, cnt, bench, g_int_flags, g_il_snap>>
    BY DEF mode_go_offline
  <1>c. pc' \in PcRec /\ pc'.at = "loop" /\ "loop" \notin IlStages /\ g_mode' \in Modes
    BY <1>b, AtLoop DEF Modes
  <1>d. pad' \in [Pads -> Pad] /\ \A c \in Pads : ~pad'[c].dir
    <2>1. \A c \in Pads : pad[c] \in Pad
      BY <1>a DEF SType, PadType
    <2>2. \A c \in Pads : Input(pad[c]) \in Pad /\ ~Input(pad[c]).dir
      BY <2>1, PadOps
    <2> QED BY <1>b, <2>2, PadOps DEF TriState
  <1>e. dac' \in DacRec /\ ~dac'.eoen
    BY <1>a, <1>b DEF SType, ModeType, DacRec
  <1>f. \A k \in Guarded : ~il[k].valid /\ ~il[k].tripped
    BY <1>a, <1>b DEF CtlPart
  <1>1. SType'
    BY <1>a, <1>b, <1>c, <1>d, <1>e, RestTypes DEF SType, PadType, ModeType, IlType, ServoType, BenchType
  <1>2. CtlPart'
    BY <1>b, <1>c, <1>f, RestTypes DEF CtlPart
  <1>3. ServoPart'
    BY <1>b, RestTypes DEF ServoPart
  <1>4. OfflineSafe'
    BY <1>b, <1>d, <1>e DEF OfflineSafe
  <1> QED BY <1>1, <1>2, <1>3, <1>4 DEF OInv


-----------------------------------------------------------------------------
(* The handlers that stay in the mode.                                     *)
LEMMA SameMode ==
    ASSUME OInv, UNCHANGED <<g_mode, g_offline, pc>>,
           PadType', dac' \in DacRec, regs' \in RegsRec, IlType', ServoType', BenchType',
           \A k \in Guarded : /\ il'[k].valid => il[k].valid
                              /\ il'[k].tripped => il[k].tripped,
           tc4'.on = tc4.on,
           g_mode \in {"SERVO", "COUNTER"} /\ bench'.sel # NoFile => bench_role(g_mode, bench'.sel) # "none",
           ServoPart', OfflineSafe'
    PROVE  OInv'
  <1>a. SType /\ CtlPart
    BY OInvParts
  <1>1. SType'
    BY <1>a DEF SType, ModeType
  <1>2. CtlPart'
    BY <1>a DEF CtlPart
  <1> QED BY <1>1, <1>2 DEF OInv

LEMMA ServoSame ==
    ASSUME ServoPart, UNCHANGED <<g_mode, pc, servo, tc4>>,
           g_mode = "SERVO" => \A c \in declared : pad'[c].out => pad[c].out
    PROVE  ServoPart'
  BY WaitsSame DEF ServoPart

LEMMA UsbDacKeeps == ASSUME OInv, Orderly, NEW d \in DacRec, UsbDac(d) PROVE OInv'
  <1>a. SType /\ CtlPart /\ ServoPart /\ OfflineSafe
    BY OInvParts
  <1>b. /\ ~g_offline /\ dac' = d
        /\ UNCHANGED <<g_mode, g_offline, regs, line, pad, adc, servo, tc4, cnt, bench, il, sr, g_int_flags,
                       g_il_snap, pc>>
    BY DEF UsbDac, Workbench, timers
  <1>1. PadType' /\ regs' \in RegsRec /\ IlType' /\ ServoType' /\ BenchType'
    BY <1>a, <1>b DEF SType, ModeType, PadType, IlType, ServoType, BenchType
  <1>2. ServoPart'
    BY <1>a, <1>b, ServoSame
  <1>3. OfflineSafe'
    BY <1>b DEF OfflineSafe
  <1>4. g_mode \in {"SERVO", "COUNTER"} /\ bench'.sel # NoFile => bench_role(g_mode, bench'.sel) # "none"
    BY <1>a, <1>b DEF CtlPart
  <1> QED BY <1>b, <1>1, <1>2, <1>3, <1>4, SameMode

LEMMA UsbPadKeeps == ASSUME OInv, Orderly, NEW c \in Pads, NEW p \in Pad, UsbPad(c, p) PROVE OInv'
  <1>a. SType /\ CtlPart /\ ServoPart /\ OfflineSafe
    BY OInvParts
  <1>b. /\ ~g_offline /\ pad' = [pad EXCEPT ![c] = p] /\ g_mode = "IDLE"
        /\ UNCHANGED <<g_mode, g_offline, dac, regs, line, adc, servo, tc4, cnt, bench, il, sr, g_int_flags,
                       g_il_snap, pc>>
    BY DEF UsbPad, Workbench, timers, shared, Orderly
  <1>1. PadType' /\ dac' \in DacRec /\ regs' \in RegsRec /\ IlType' /\ ServoType' /\ BenchType'
    BY <1>a, <1>b DEF SType, ModeType, PadType, IlType, ServoType, BenchType
  <1>2. ServoPart'
    BY <1>a, <1>b, ServoSame
  <1>3. OfflineSafe'
    BY <1>b DEF OfflineSafe
  <1> QED BY <1>b, <1>1, <1>2, <1>3, SameMode

LEMMA UsbKeeps == ASSUME OInv, Orderly, UsbHost PROVE OInv'
  <1>a. dac \in DacRec /\ \A c \in Pads : pad[c] \in Pad
    BY OInvParts DEF SType, ModeType, PadType
  <1>1. /\ Silent \in DacRec /\ [dac EXCEPT !.tone = FALSE, !.follow = TRUE, !.tc3 = TRUE] \in DacRec
        /\ [dac EXCEPT !.follow = FALSE, !.tc3 = FALSE] \in DacRec
        /\ \A b \in BOOLEAN : [dac EXCEPT !.tone = TRUE, !.timed = b, !.tc3 = TRUE] \in DacRec
    BY <1>a DEF Silent, DacRec
  <1>2. CASE cmd_dac_waveform_write
    BY <1>1, <1>2, UsbDacKeeps DEF cmd_dac_waveform_write
  <1>3. CASE cmd_dac_stop
    BY <1>1, <1>3, UsbDacKeeps DEF cmd_dac_stop
  <1>4. CASE cmd_dac_write
    <2>1. (IF dac.tone \/ dac.follow THEN Silent ELSE dac) \in DacRec
      BY <1>1, <1>a
    <2> QED BY <1>4, <2>1, UsbDacKeeps DEF cmd_dac_write
  <1>5. CASE cmd_dac_follow_start
    BY <1>1, <1>5, UsbDacKeeps DEF cmd_dac_follow_start
  <1>6. CASE cmd_dac_follow_stop
    BY <1>1, <1>6, UsbDacKeeps DEF cmd_dac_follow_stop
  <1>7. ASSUME NEW c \in Pads, cmd_gpio_config(c) PROVE OInv'
    <2>1. /\ [pad[c] EXCEPT !.dir = TRUE, !.cfg = "off"] \in Pad /\ Input(pad[c]) \in Pad
          /\ PullUp \in Pad /\ PullDown \in Pad
      BY <1>a, PadOps
    <2> QED BY <1>7, <2>1, UsbPadKeeps DEF cmd_gpio_config
  <1>8. ASSUME NEW c \in Pads, cmd_gpio_write(c) PROVE OInv'
    <2>1. PICK v \in BOOLEAN : UsbPad(c, [pad[c] EXCEPT !.out = v])
      BY <1>8 DEF cmd_gpio_write
    <2>2. [pad[c] EXCEPT !.out = v] \in Pad
      BY <1>a, PadOps
    <2> QED BY <2>1, <2>2, UsbPadKeeps
  <1> QED BY <1>2, <1>3, <1>4, <1>5, <1>6, <1>7, <1>8 DEF UsbHost

LEMMA PoliteFacts == ASSUME Orderly, Polite PROVE pc.at = "loop" /\ ~g_offline /\ ~dac.follow
  BY DEF Orderly, Polite

LEMMA EnterDacType == ASSUME NEW m \in Modes, NEW d \in DacRec PROVE EnterDac(m, d) \in DacRec
  <1>1. /\ [d EXCEPT !.eoen = FALSE] \in DacRec /\ [d EXCEPT !.eoen = TRUE, !.tone = FALSE] \in DacRec
        /\ [d EXCEPT !.eoen = TRUE, !.tone = TRUE, !.tc3 = TRUE, !.timed = FALSE] \in DacRec
    BY DEF DacRec
  <1> QED BY <1>1 DEF EnterDac

LEMMA EnterRegsType == ASSUME NEW m, NEW r \in RegsRec PROVE EnterRegs(m, r) \in RegsRec
  <1>1. gpmp_apply(r) \in RegsRec
    <2>1. CASE gpmp = NoFile
      BY <2>1 DEF gpmp_apply
    <2>2. CASE gpmp # NoFile
      <3>1. gpmp \in [dir : SUBSET Chans, pull : SUBSET Chans, out : SUBSET Chans, od : SUBSET Chans]
        BY <2>2, PadsAssumption
      <3>2. /\ gpmp.dir \subseteq Chans /\ gpmp.out \subseteq Chans /\ gpmp.od \subseteq Chans
            /\ gpmp.pull \cap gpmp.out \subseteq Chans /\ gpmp.pull \ gpmp.out \subseteq Chans
        BY <3>1
      <3> QED BY <2>2, <3>2 DEF gpmp_apply, RegsRec
    <2> QED BY <2>1, <2>2
  <1> QED BY <1>1 DEF EnterRegs

LEMMA CounterType ==
    ASSUME NEW pads \in [Pads -> Pad], line \in [Pads -> BOOLEAN]
    PROVE  counter_enter(pads) \in [Pads -> CntRec]
  <1>1. \A c \in Pads : (IF Driven(pads[c]) THEN pads[c].out ELSE line[c]) \in BOOLEAN
    BY DEF Pad
  <1> QED BY <1>1 DEF counter_enter, CntRec

LEMMA WriteModeKeeps == ASSUME OInv, Orderly, NEW m \in Modes, WriteMode(m) PROVE OInv'
  <1> DEFINE r == EnterRegs(m, LeaveRegs)
             q == EnterPads(m, r, LeavePads(g_mode, pad))
  <1>a. SType /\ CtlPart /\ ServoPart /\ OfflineSafe
    BY OInvParts
  <1>b. Polite /\ Switch(m, r, q)
    BY DEF WriteMode
  <1>c. pc.at = "loop" /\ ~g_offline
    BY <1>b, PoliteFacts
  <1>d. LeavePads(g_mode, pad) \in [Pads -> Pad]
    BY <1>a, LeaveType DEF SType, PadType, ModeType
  <1>e. q \in [Pads -> Pad] /\ (m = "SERVO" => \A c \in declared : ~q[c].out)
    BY <1>d, EnterType
  <1>f. r \in RegsRec
    <2>1. LeaveRegs \in RegsRec
      BY <1>a, RestTypes DEF LeaveRegs, SType, ModeType
    <2> QED BY <2>1, EnterRegsType
  <1> HIDE DEF r, q
  <1>g. /\ g_mode' = m /\ regs' = r /\ pad' = q /\ dac' = EnterDac(m, LeaveDac)
        /\ il' = IF m \in Guarded THEN [LeaveIl EXCEPT ![m] = Armed(m)] ELSE LeaveIl
        /\ g_il_snap' = NoSnap /\ sr' = NoShift /\ adc' = FALSE /\ servo' = ServoAtRest
        /\ tc4' = IF m = "SERVO" THEN servo_tc_start ELSE Idle4
        /\ cnt' = IF m = "COUNTER" THEN counter_enter(q) ELSE Uncounted
        /\ bench' = NoBench
        /\ UNCHANGED <<g_offline, line, g_int_flags, pc>>
    BY <1>b DEF Switch
  <1>h. dac' \in DacRec
    <2>1. LeaveDac \in DacRec
      BY <1>a, LeaveDacType DEF SType, ModeType
    <2> QED BY <1>g, <2>1, EnterDacType
  <1>i. /\ il' \in [Guarded -> IlRec]
        /\ \A k \in Guarded : ~il'[k].tripped /\ (il'[k].valid => m = k /\ ilcf # NoFile)
    <2>1. Armed(m) \in IlRec /\ ~Armed(m).tripped /\ (Armed(m).valid => ilcf # NoFile)
      BY DEF Armed, IlRec
    <2> QED BY <1>g, <2>1, RestTypes
  <1>j. cnt' \in [Pads -> CntRec]
    BY <1>a, <1>e, <1>g, CounterType, RestTypes DEF SType, PadType
  <1>k. tc4' \in Tc4Rec /\ ~tc4'.mc1 /\ (tc4'.on => m = "SERVO")
    BY <1>g, RestTypes
  <1>1. SType'
    BY <1>a, <1>e, <1>f, <1>g, <1>h, <1>i, <1>j, <1>k, RestTypes
       DEF SType, PadType, ModeType, IlType, ServoType, BenchType
  <1>2. CtlPart'
    BY <1>c, <1>g, <1>i, <1>k, RestTypes, AtLoop DEF CtlPart
  <1>3. ServoPart'
    BY <1>e, <1>g, <1>k, RestTypes DEF ServoPart
  <1>4. OfflineSafe'
    BY <1>c, <1>g DEF OfflineSafe
  <1> QED BY <1>1, <1>2, <1>3, <1>4 DEF OInv


LEMMA ResetType ==
    ASSUME SType, NEW m \in Guarded, il[m].tripped, ilcf # NoFile, ResetPads(m)
    PROVE  pad' \in [Pads -> Pad]
  <1>a. pad \in [Pads -> Pad] /\ regs \in RegsRec
    BY DEF SType, PadType, ModeType
  <1>b. ilcf.out \in Pads /\ D6 \in Pads /\ ilcf.ok \in BOOLEAN
    BY Places
  <1>1. CASE m = "PIO"
    <2>1. pad' = [pio_update_outputs(regs, pad) EXCEPT ![D6] = pio_int_assert(FALSE, @)]
      BY <1>1 DEF ResetPads, pio_il_manual_reset
    <2>2. pio_update_outputs(regs, pad) \in [Pads -> Pad]
      BY <1>a, OutputsType
    <2> QED BY <1>b, <2>1, <2>2, IntType
  <1>2. CASE m = "ADC"
    BY <1>2, <1>a, <1>b, DriveOutType DEF ResetPads
  <1>3. CASE m = "MIXED"
    <2>1. pad' = [pad EXCEPT ![D6] = pio_int_assert(FALSE, @),
                             ![ilcf.out] = il_drive_output(ilcf.ok, ilcf.od, @)]
      BY <1>3, Zenon DEF ResetPads
    <2>2. \A p \in Pad : pio_int_assert(FALSE, p) \in Pad /\ il_drive_output(ilcf.ok, ilcf.od, p) \in Pad
      BY <1>b, IntType, DriveType
    <2> QED BY <1>a, <1>b, <2>1, <2>2
  <1> QED BY <1>1, <1>2, <1>3 DEF Guarded

LEMMA ClearTripKeeps == ASSUME OInv, Orderly, NEW m \in Guarded, ClearTrip(m) PROVE OInv'
  <1>a. SType /\ CtlPart /\ ServoPart /\ OfflineSafe
    BY OInvParts
  <1>b. /\ Polite /\ g_int_flags' = g_int_flags \ {m}
        /\ UNCHANGED <<g_mode, g_offline, dac, regs, line, adc, servo, tc4, cnt, bench, sr, pc>>
    BY DEF ClearTrip, timers, shared
  <1>c. ~g_offline
    BY <1>b, PoliteFacts
  <1>d. /\ il' \in [Guarded -> IlRec] /\ g_il_snap' \in SnapRec /\ pad' \in [Pads -> Pad]
        /\ \A k \in Guarded : /\ il'[k].valid => il[k].valid
                              /\ il'[k].tripped => il[k].tripped
        /\ g_mode = "SERVO" => pad' = pad
    <2>a. il \in [Guarded -> IlRec] /\ g_il_snap \in SnapRec /\ pad \in [Pads -> Pad]
      BY <1>a DEF SType, IlType, PadType
    <2>1. CASE il[m].tripped /\ (m = "PIO" \/ g_mode = m)
      <3>1. il' = [il EXCEPT ![m].tripped = FALSE] /\ g_il_snap' = NoSnap /\ ResetPads(m)
        BY <2>1 DEF ClearTrip
      <3>2. g_mode = m /\ ilcf # NoFile
        BY <1>a, <2>1 DEF CtlPart
      <3>3. pad' \in [Pads -> Pad]
        BY <1>a, <2>1, <3>1, <3>2, ResetType
      <3>4. /\ il' \in [Guarded -> IlRec]
            /\ \A k \in Guarded : il'[k].valid = il[k].valid /\ (il'[k].tripped => il[k].tripped)
        BY <2>a, <3>1 DEF IlRec
      <3> QED BY <3>1, <3>2, <3>3, <3>4, RestTypes DEF Guarded
    <2>2. CASE ~(il[m].tripped /\ (m = "PIO" \/ g_mode = m))
      BY <2>a, <2>2 DEF ClearTrip
    <2> QED BY <2>1, <2>2
  <1>1. PadType' /\ dac' \in DacRec /\ regs' \in RegsRec /\ IlType' /\ ServoType' /\ BenchType'
    BY <1>a, <1>b, <1>d DEF SType, ModeType, PadType, IlType, ServoType, BenchType
  <1>2. ServoPart'
    BY <1>a, <1>b, <1>d, ServoSame
  <1>3. OfflineSafe'
    BY <1>b, <1>c DEF OfflineSafe
  <1>4. g_mode \in {"SERVO", "COUNTER"} /\ bench'.sel # NoFile => bench_role(g_mode, bench'.sel) # "none"
    BY <1>a, <1>b DEF CtlPart
  <1> QED BY <1>b, <1>d, <1>1, <1>2, <1>3, <1>4, SameMode

LEMMA PioWriteKeeps == ASSUME OInv, NEW v \in SUBSET regs.out, pio_reg_write(v) PROVE OInv'
  <1>a. SType /\ CtlPart /\ ServoPart /\ OfflineSafe
    BY OInvParts
  <1>b. /\ g_mode = "PIO" /\ regs' = [regs EXCEPT !.olat = v]
        /\ pad' = pio_update_outputs([regs EXCEPT !.olat = v], pad)
        /\ UNCHANGED <<g_mode, g_offline, dac, line, adc, servo, tc4, cnt, bench, il, sr, g_int_flags,
                       g_il_snap, pc>>
    BY DEF pio_reg_write, timers
  <1>c. regs' \in RegsRec
    BY <1>a, <1>b DEF SType, ModeType, RegsRec
  <1>d. pad' \in [Pads -> Pad]
    BY <1>a, <1>b, <1>c, OutputsType DEF SType, PadType
  <1>1. PadType' /\ dac' \in DacRec /\ IlType' /\ ServoType' /\ BenchType'
    BY <1>a, <1>b, <1>d DEF SType, ModeType, PadType, IlType, ServoType, BenchType
  <1>2. ServoPart'
    BY <1>a, <1>b, ServoSame
  <1>3. OfflineSafe'
    BY <1>a, <1>b DEF OfflineSafe
  <1> QED BY <1>b, <1>c, <1>1, <1>2, <1>3, SameMode

(* A new schedule meets no pulse of the old one.                           *)
LEMMA RebuildKeeps ==
    ASSUME OInv, Orderly, g_mode = "SERVO", Rebuild, NEW s \in ServoRec, servo_build(s),
           s.run = servo.run, s.latched = servo.latched
    PROVE  OInv'
  <1>a. SType /\ CtlPart /\ ServoPart /\ OfflineSafe
    BY OInvParts
  <1>b. /\ servo' = s /\ tc4' = [tc4 EXCEPT !.idx = 0]
        /\ UNCHANGED <<line, g_mode, g_offline, dac, regs, il, sr, g_int_flags, g_il_snap, adc, cnt, bench, pad, pc>>
    BY DEF servo_build, ServoFrame, shared
  <1>c. tc4' \in Tc4Rec /\ tc4'.on = tc4.on /\ tc4'.idx = 0 /\ 0 < Cardinality(Widths)
    <2>1. 0 \in 0..Cardinality(Widths) /\ 0 < Cardinality(Widths)
      BY Sizes
    <2> QED BY <1>a, <1>b, <2>1 DEF SType, ServoType, Tc4Rec
  <1>d. \A c \in declared : ~pad[c].out
    <2> SUFFICES ASSUME NEW c \in declared, pad[c].out PROVE FALSE
      OBVIOUS
    <2>1. servo.run /\ Waits(tc4, c)
      BY <1>a DEF ServoPart
    <2>2. tc4.t < tc4.cc1 /\ tc4.idx < Cardinality(Times) /\ tc4.cc1 = EventTime(tc4.idx)
      BY <2>1 DEF Waits
    <2>3. tc4.idx \in Nat /\ tc4.t \in Nat /\ tc4.cc1 \in Nat
      BY <1>a DEF SType, ServoType, Tc4Rec
    <2>4. EventTime(tc4.idx) \in Widths
      BY <1>a, <2>2, <2>3, EventProps DEF SType
    <2>5. tc4.cc1 <= Max(Widths) /\ Max(Widths) \in Nat
      BY <2>2, <2>4, Sizes
    <2>6. tc4.t <= Max(Widths)
      BY <2>2, <2>3, <2>5
    <2> QED BY <2>1, <2>6 DEF Rebuild, InPulse, Orderly
  <1>1. PadType' /\ dac' \in DacRec /\ regs' \in RegsRec /\ IlType' /\ ServoType' /\ BenchType'
    BY <1>a, <1>b, <1>c DEF SType, ModeType, PadType, IlType, ServoType, BenchType
  <1>2. ServoPart'
    BY <1>a, <1>b, <1>c, <1>d DEF ServoPart
  <1>3. OfflineSafe'
    BY <1>a, <1>b DEF OfflineSafe
  <1>4. g_mode \in {"SERVO", "COUNTER"} /\ bench'.sel # NoFile => bench_role(g_mode, bench'.sel) # "none"
    BY <1>a, <1>b DEF CtlPart
  <1> QED BY <1>b, <1>c, <1>1, <1>2, <1>3, <1>4, SameMode

LEMMA EnableKeeps == ASSUME OInv, Orderly, NEW cs \in SUBSET Chans, ServoEnable(cs) PROVE OInv'
  <1>1. servo \in ServoRec
    BY OInvParts DEF SType, ServoType
  <1> DEFINE s == [servo EXCEPT !.enable = cs \cap declared]
  <1>2. s \in ServoRec /\ s.run = servo.run /\ s.latched = servo.latched
    BY <1>1 DEF ServoRec
  <1> QED BY <1>2, RebuildKeeps DEF ServoEnable

LEMMA WidthKeeps == ASSUME OInv, Orderly, NEW c \in declared, NEW w \in Widths, ServoWidth(c, w) PROVE OInv'
  <1>1. servo \in ServoRec
    BY OInvParts DEF SType, ServoType
  <1> DEFINE s == [servo EXCEPT !.us[c] = w]
  <1>2. s \in ServoRec /\ s.run = servo.run /\ s.latched = servo.latched
    BY <1>1 DEF ServoRec
  <1> QED BY <1>2, RebuildKeeps DEF ServoWidth

LEMMA ServoStartKeeps == ASSUME OInv, ServoStart PROVE OInv'
  <1>a. SType /\ CtlPart /\ ServoPart /\ OfflineSafe
    BY OInvParts
  <1>b. /\ g_mode = "SERVO" /\ servo' = [servo EXCEPT !.run = TRUE, !.latched = FALSE]
        /\ UNCHANGED <<line, g_mode, g_offline, dac, regs, il, sr, g_int_flags, g_il_snap, adc, cnt, bench, pad,
                       tc4, pc>>
    BY DEF ServoStart, ServoFrame, shared
  <1>c. /\ servo' \in ServoRec /\ servo'.run /\ ~servo'.latched
        /\ servo'.enable = servo.enable /\ servo'.us = servo.us
    BY <1>a, <1>b DEF SType, ServoType, ServoRec
  <1>1. PadType' /\ dac' \in DacRec /\ regs' \in RegsRec /\ IlType' /\ ServoType' /\ BenchType'
    BY <1>a, <1>b, <1>c DEF SType, ModeType, PadType, IlType, ServoType, BenchType
  <1>2. ServoPart'
    BY <1>a, <1>b, <1>c, WaitsSame DEF ServoPart
  <1>3. OfflineSafe'
    BY <1>a, <1>b DEF OfflineSafe
  <1>4. g_mode \in {"SERVO", "COUNTER"} /\ bench'.sel # NoFile => bench_role(g_mode, bench'.sel) # "none"
    BY <1>a, <1>b DEF CtlPart
  <1> QED BY <1>b, <1>1, <1>2, <1>3, <1>4, SameMode

LEMMA ServoStopKeeps == ASSUME OInv, ServoStop PROVE OInv'
  <1>a. SType /\ CtlPart /\ ServoPart /\ OfflineSafe
    BY OInvParts
  <1>b. /\ g_mode = "SERVO" /\ servo' = [servo EXCEPT !.run = FALSE] /\ servo_all_low
        /\ UNCHANGED <<line, g_mode, g_offline, dac, regs, il, sr, g_int_flags, g_il_snap, adc, cnt, bench, tc4, pc>>
    BY DEF ServoStop, ServoFrame, shared
  <1>c. servo' \in ServoRec /\ ~servo'.run
    BY <1>a, <1>b DEF SType, ServoType, ServoRec
  <1>d. pad' \in [Pads -> Pad] /\ \A c \in declared : ~pad'[c].out
    BY <1>a, <1>b, AllLow DEF SType, PadType
  <1>1. PadType' /\ dac' \in DacRec /\ regs' \in RegsRec /\ IlType' /\ ServoType' /\ BenchType'
    BY <1>a, <1>b, <1>c, <1>d DEF SType, ModeType, PadType, IlType, ServoType, BenchType
  <1>2. ServoPart'
    BY <1>a, <1>b, <1>c, <1>d DEF ServoPart
  <1>3. OfflineSafe'
    BY <1>a, <1>b DEF OfflineSafe
  <1>4. g_mode \in {"SERVO", "COUNTER"} /\ bench'.sel # NoFile => bench_role(g_mode, bench'.sel) # "none"
    BY <1>a, <1>b DEF CtlPart
  <1> QED BY <1>b, <1>1, <1>2, <1>3, <1>4, SameMode


LEMMA SnapshotKeeps == ASSUME OInv, counter_snapshot PROVE OInv' /\ cnt' \in [Pads -> CntRec]
  <1>a. SType /\ CtlPart /\ ServoPart /\ OfflineSafe
    BY OInvParts
  <1>b. /\ cnt' = [c \in Pads |-> [cnt[c] EXCEPT !.n = 0, !.edges = IF Level(c) # cnt[c].last THEN 1 ELSE 0]]
        /\ UNCHANGED <<line, g_mode, g_offline, dac, regs, pad, adc, servo, tc4, bench, il, sr, g_int_flags,
                       g_il_snap, pc>>
    BY DEF counter_snapshot, shared
  <1>c. cnt' \in [Pads -> CntRec]
    <2>1. \A k \in CntRec, e \in Nat : [k EXCEPT !.n = 0, !.edges = e] \in CntRec
      BY DEF CntRec
    <2>2. \A c \in Pads : cnt[c] \in CntRec /\ (IF Level(c) # cnt[c].last THEN 1 ELSE 0) \in Nat
      BY <1>a DEF SType, BenchType
    <2> QED BY <1>b, <2>1, <2>2
  <1>1. PadType' /\ dac' \in DacRec /\ regs' \in RegsRec /\ IlType' /\ ServoType' /\ BenchType'
    BY <1>a, <1>b, <1>c DEF SType, ModeType, PadType, IlType, ServoType, BenchType
  <1>2. ServoPart'
    BY <1>a, <1>b, ServoSame
  <1>3. OfflineSafe'
    BY <1>a, <1>b DEF OfflineSafe
  <1>4. g_mode \in {"SERVO", "COUNTER"} /\ bench'.sel # NoFile => bench_role(g_mode, bench'.sel) # "none"
    BY <1>a, <1>b DEF CtlPart
  <1> QED BY <1>b, <1>c, <1>1, <1>2, <1>3, <1>4, SameMode

LEMMA SelectKeeps == ASSUME OInv, NEW c \in Pads, bench_select(c) PROVE OInv'
  <1>a. SType /\ CtlPart /\ ServoPart /\ OfflineSafe
    BY OInvParts
  <1>b. /\ bench' = [bench EXCEPT !.sel = IF bench_role(g_mode, c) = "none" THEN NoFile ELSE c]
        /\ UNCHANGED <<line, g_mode, g_offline, dac, regs, pad, adc, servo, tc4, cnt, il, sr, g_int_flags,
                       g_il_snap, pc>>
    BY DEF bench_select, shared
  <1>c. bench' \in BenchRec /\ bench'.sel = IF bench_role(g_mode, c) = "none" THEN NoFile ELSE c
    BY <1>a, <1>b DEF SType, BenchType, BenchRec
  <1>1. PadType' /\ dac' \in DacRec /\ regs' \in RegsRec /\ IlType' /\ ServoType' /\ BenchType'
    BY <1>a, <1>b, <1>c DEF SType, ModeType, PadType, IlType, ServoType, BenchType
  <1>2. ServoPart'
    BY <1>a, <1>b, ServoSame
  <1>3. OfflineSafe'
    BY <1>a, <1>b DEF OfflineSafe
  <1> QED BY <1>b, <1>c, <1>1, <1>2, <1>3, SameMode

LEMMA RequestKeeps == ASSUME OInv, bench_adc_request PROVE OInv'
  <1>a. SType /\ CtlPart /\ ServoPart /\ OfflineSafe
    BY OInvParts
  <1>b. /\ bench' = [bench EXCEPT !.pending = TRUE]
        /\ UNCHANGED <<line, g_mode, g_offline, dac, regs, pad, adc, servo, tc4, cnt, il, sr, g_int_flags,
                       g_il_snap, pc>>
    BY DEF bench_adc_request, shared
  <1>c. bench' \in BenchRec /\ bench'.sel = bench.sel
    BY <1>a, <1>b DEF SType, BenchType, BenchRec
  <1>1. PadType' /\ dac' \in DacRec /\ regs' \in RegsRec /\ IlType' /\ ServoType' /\ BenchType'
    BY <1>a, <1>b, <1>c DEF SType, ModeType, PadType, IlType, ServoType, BenchType
  <1>2. ServoPart'
    BY <1>a, <1>b, ServoSame
  <1>3. OfflineSafe'
    BY <1>a, <1>b DEF OfflineSafe
  <1>4. g_mode \in {"SERVO", "COUNTER"} /\ bench'.sel # NoFile => bench_role(g_mode, bench'.sel) # "none"
    BY <1>a, <1>c DEF CtlPart
  <1> QED BY <1>b, <1>c, <1>1, <1>2, <1>3, <1>4, SameMode

(* The bench never writes a pad the mode has reserved.                     *)
LEMMA BenchOutKeeps ==
    ASSUME OInv, NEW v \in BOOLEAN, bench_gpio_out(v)
    PROVE  OInv' /\ pad' \in [Pads -> Pad] /\ \A c \in bench_reserved(g_mode) : pad'[c] = pad[c]
  <1>a. SType /\ CtlPart /\ ServoPart /\ OfflineSafe
    BY OInvParts
  <1>b. /\ bench_sel_role \in {"gpo", "oc", "oc_pu"}
        /\ pad' = [pad EXCEPT ![bench.sel] =
                      CASE bench_sel_role = "gpo" -> [pad[bench.sel] EXCEPT !.out = v]
                        [] bench_sel_role = "oc" /\ v -> Input(pad[bench.sel])
                        [] bench_sel_role = "oc_pu" /\ v -> PullUp
                        [] OTHER -> Drive(FALSE)]
        /\ UNCHANGED <<line, g_mode, g_offline, dac, regs, adc, servo, tc4, cnt, bench, il, sr, g_int_flags,
                       g_il_snap, pc>>
    BY DEF bench_gpio_out, shared, timers
  <1>c. g_mode \in {"SERVO", "COUNTER"} /\ bench.sel # NoFile /\ bench_role(g_mode, bench.sel) # "none"
    BY <1>b DEF bench_sel_role
  <1>d. bench.sel \in Pads /\ bench.sel \notin bench_reserved(g_mode)
    <2>1. bench.sel \in Pads
      BY <1>a, <1>c DEF SType, BenchType, BenchRec
    <2> QED BY <1>c, <2>1 DEF bench_role
  <1>e. pad \in [Pads -> Pad]
    BY <1>a DEF SType, PadType
  <1>f. PICK p \in Pad : pad' = [pad EXCEPT ![bench.sel] = p]
    <2>1. pad[bench.sel] \in Pad
      BY <1>d, <1>e
    <2>2. /\ [pad[bench.sel] EXCEPT !.out = v] \in Pad /\ Input(pad[bench.sel]) \in Pad /\ PullUp \in Pad
          /\ Drive(FALSE) \in Pad
      BY <2>1, PadOps
    <2> QED BY <1>b, <2>2
  <1>g. pad' \in [Pads -> Pad] /\ \A c \in Pads : c # bench.sel => pad'[c] = pad[c]
    BY <1>d, <1>e, <1>f
  <1>h. bench_reserved(g_mode) \subseteq Pads /\ (g_mode = "SERVO" => declared \subseteq bench_reserved(g_mode))
    BY Places DEF bench_reserved
  <1>1. PadType' /\ dac' \in DacRec /\ regs' \in RegsRec /\ IlType' /\ ServoType' /\ BenchType'
    BY <1>a, <1>b, <1>g DEF SType, ModeType, PadType, IlType, ServoType, BenchType
  <1>2. ServoPart'
    <2>1. g_mode = "SERVO" => \A c \in declared : pad'[c] = pad[c]
      BY <1>d, <1>g, <1>h
    <2> QED BY <1>a, <1>b, <2>1, ServoSame
  <1>3. OfflineSafe'
    BY <1>a, <1>b, <1>c DEF OfflineSafe
  <1>4. g_mode \in {"SERVO", "COUNTER"} /\ bench'.sel # NoFile => bench_role(g_mode, bench'.sel) # "none"
    BY <1>a, <1>b DEF CtlPart
  <1> QED BY <1>b, <1>d, <1>g, <1>h, <1>1, <1>2, <1>3, <1>4, SameMode

(* The handlers that write the DAC alone.                                  *)
LEMMA DacKeeps ==
    ASSUME OInv, g_offline => dac'.eoen = dac.eoen, dac' \in DacRec,
           UNCHANGED <<g_mode, g_offline, regs, line, pad, adc, servo, tc4, cnt, bench, il, sr, g_int_flags,
                       g_il_snap, pc>>
    PROVE  OInv'
  <1>a. SType /\ CtlPart /\ ServoPart /\ OfflineSafe
    BY OInvParts
  <1>1. PadType' /\ regs' \in RegsRec /\ IlType' /\ ServoType' /\ BenchType'
    BY <1>a DEF SType, ModeType, PadType, IlType, ServoType, BenchType
  <1>2. ServoPart'
    BY <1>a, ServoSame
  <1>3. OfflineSafe'
    BY <1>a DEF OfflineSafe
  <1>4. g_mode \in {"SERVO", "COUNTER"} /\ bench'.sel # NoFile => bench_role(g_mode, bench'.sel) # "none"
    BY <1>a DEF CtlPart
  <1> QED BY <1>1, <1>2, <1>3, <1>4, SameMode

LEMMA DacApplyKeeps == ASSUME OInv, NEW any \in BOOLEAN, dac_apply(any) PROVE OInv'
  <1>1. /\ dac' = IF g_mode = "ADC" THEN [dac EXCEPT !.tone = TRUE] ELSE [dac EXCEPT !.tone = any, !.tc3 = any]
        /\ UNCHANGED <<g_mode, g_offline, regs, line, pad, adc, servo, tc4, cnt, bench, il, sr, g_int_flags,
                       g_il_snap, pc>>
    BY DEF dac_apply, timers
  <1>2. dac \in DacRec
    BY OInvParts DEF SType, ModeType
  <1>3. dac' \in DacRec /\ dac'.eoen = dac.eoen
    BY <1>1, <1>2 DEF DacRec
  <1> QED BY <1>1, <1>3, DacKeeps

LEMMA ToneEndsKeeps == ASSUME OInv, ToneEnds PROVE OInv'
  <1>1. /\ dac' = [dac EXCEPT !.tone = FALSE, !.timed = FALSE, !.tc3 = FALSE]
        /\ UNCHANGED <<g_mode, g_offline, regs, line, pad, adc, servo, tc4, cnt, bench, il, sr, g_int_flags,
                       g_il_snap, pc>>
    BY DEF ToneEnds, timers
  <1>2. dac \in DacRec
    BY OInvParts DEF SType, ModeType
  <1>3. dac' \in DacRec /\ dac'.eoen = dac.eoen
    BY <1>1, <1>2 DEF DacRec
  <1> QED BY <1>1, <1>3, DacKeeps

-----------------------------------------------------------------------------
(* The timers and the lines.                                               *)
LEMMA AdcIsrKeeps == ASSUME OInv, adc_isr_service PROVE OInv'
  <1>a. SType /\ CtlPart /\ ServoPart /\ OfflineSafe
    BY OInvParts
  <1>b. /\ adc' = line[A1]
        /\ UNCHANGED <<line, g_mode, g_offline, dac, regs, pad, servo, tc4, cnt, bench, il, sr, g_int_flags,
                       g_il_snap, pc>>
    BY DEF adc_isr_service, shared
  <1>c. adc' \in BOOLEAN
    BY <1>a, <1>b, Places DEF SType, PadType
  <1>1. PadType' /\ dac' \in DacRec /\ regs' \in RegsRec /\ IlType' /\ ServoType' /\ BenchType'
    BY <1>a, <1>b, <1>c DEF SType, ModeType, PadType, IlType, ServoType, BenchType
  <1>2. ServoPart'
    BY <1>a, <1>b, ServoSame
  <1>3. OfflineSafe'
    BY <1>a, <1>b DEF OfflineSafe
  <1>4. g_mode \in {"SERVO", "COUNTER"} /\ bench'.sel # NoFile => bench_role(g_mode, bench'.sel) # "none"
    BY <1>a, <1>b DEF CtlPart
  <1> QED BY <1>b, <1>1, <1>2, <1>3, <1>4, SameMode

LEMMA TC4Keeps == ASSUME OInv, TC4_Handler PROVE OInv'
  <1>a. SType /\ CtlPart /\ ServoPart /\ OfflineSafe
    BY OInvParts
  <1>b. UNCHANGED <<line, g_mode, g_offline, dac, regs, il, sr, g_int_flags, g_il_snap, adc, cnt, bench, servo, pc>>
    BY DEF TC4_Handler, ServoFrame, shared
  <1>c. /\ g_mode = "SERVO" /\ tc4' \in Tc4Rec /\ pad' \in [Pads -> Pad]
        /\ tc4'.on /\ (tc4'.mc1 => tc4'.idx < Cardinality(Widths))
        /\ \A c \in declared : pad'[c].out => servo.run /\ Waits(tc4', c)
    BY <1>a, TC4Props
  <1>d. tc4'.on = tc4.on
    <2>1. tc4.on
      BY DEF TC4_Handler
    <2>2. tc4.on \in BOOLEAN /\ tc4'.on \in BOOLEAN
      BY <1>a, <1>c DEF SType, ServoType, Tc4Rec
    <2> QED BY <1>c, <2>1, <2>2
  <1>1. PadType' /\ dac' \in DacRec /\ regs' \in RegsRec /\ IlType' /\ ServoType' /\ BenchType'
    BY <1>a, <1>b, <1>c DEF SType, ModeType, PadType, IlType, ServoType, BenchType
  <1>2. ServoPart'
    <2>1. \A c : Waits(tc4, c)' = Waits(tc4', c)
      BY <1>b DEF Waits, Times, EventTime
    <2> QED BY <1>a, <1>b, <1>c, <2>1 DEF ServoPart
  <1>3. OfflineSafe'
    BY <1>a, <1>b, <1>c DEF OfflineSafe
  <1>4. g_mode \in {"SERVO", "COUNTER"} /\ bench'.sel # NoFile => bench_role(g_mode, bench'.sel) # "none"
    BY <1>a, <1>b DEF CtlPart
  <1> QED BY <1>b, <1>d, <1>1, <1>2, <1>3, <1>4, SameMode

(* The handlers that touch the lines and the counters alone.               *)
LEMMA CountKeeps ==
    ASSUME OInv, line' \in [Pads -> BOOLEAN], cnt' \in [Pads -> CntRec],
           UNCHANGED <<g_mode, g_offline, dac, regs, pad, adc, servo, tc4, bench, il, sr, g_int_flags,
                       g_il_snap, pc>>
    PROVE  OInv'
  <1>a. SType /\ CtlPart /\ ServoPart /\ OfflineSafe
    BY OInvParts
  <1>1. PadType' /\ dac' \in DacRec /\ regs' \in RegsRec /\ IlType' /\ ServoType' /\ BenchType'
    BY <1>a DEF SType, ModeType, PadType, IlType, ServoType, BenchType
  <1>2. ServoPart'
    BY <1>a, ServoSame
  <1>3. OfflineSafe'
    BY <1>a DEF OfflineSafe
  <1>4. g_mode \in {"SERVO", "COUNTER"} /\ bench'.sel # NoFile => bench_role(g_mode, bench'.sel) # "none"
    BY <1>a DEF CtlPart
  <1> QED BY <1>1, <1>2, <1>3, <1>4, SameMode

LEMMA TC5Props ==
    ASSUME SType, TC5_Handler
    PROVE  /\ cnt' \in [Pads -> CntRec]
           /\ \A c \in Pads :
                /\ cnt'[c].last = Level(c) /\ cnt'[c].edges = cnt[c].edges
                /\ IF c \in counting THEN cnt'[c].n <= cnt[c].n + Unseen(c) ELSE cnt'[c].n = cnt[c].n
  <1> DEFINE hit(c) == /\ c \in counting /\ Level(c) # cnt[c].last
                       /\ EdgeOf(c) \in {IF Level(c) THEN 0 ELSE 1, 2}
  <1>1. cnt' = [c \in Pads |-> [cnt[c] EXCEPT !.last = Level(c), !.n = IF hit(c) THEN cnt[c].n + 1 ELSE cnt[c].n]]
    BY DEF TC5_Handler
  <1>2. \A c \in Pads : (hit(c) => c \in counting /\ Level(c) # cnt[c].last)
    OBVIOUS
  <1> HIDE DEF hit
  <1>3. ASSUME NEW c \in Pads
        PROVE  /\ cnt'[c] \in CntRec /\ cnt'[c].last = Level(c) /\ cnt'[c].edges = cnt[c].edges
               /\ IF c \in counting THEN cnt'[c].n <= cnt[c].n + Unseen(c) ELSE cnt'[c].n = cnt[c].n
    <2>1. cnt[c] \in CntRec /\ Level(c) \in BOOLEAN /\ cnt[c].n \in Nat
      BY LevelType DEF SType, BenchType, CntRec
    <2> DEFINE k == IF hit(c) THEN cnt[c].n + 1 ELSE cnt[c].n
    <2>2. cnt'[c] = [cnt[c] EXCEPT !.last = Level(c), !.n = k]
      BY <1>1
    <2>3. k \in Nat /\ (IF c \in counting THEN k <= cnt[c].n + Unseen(c) ELSE k = cnt[c].n)
      BY <1>2, <2>1 DEF Unseen
    <2> HIDE DEF k
    <2>4. cnt'[c] \in CntRec /\ cnt'[c].last = Level(c) /\ cnt'[c].edges = cnt[c].edges /\ cnt'[c].n = k
      BY <2>1, <2>2, <2>3 DEF CntRec
    <2> QED BY <2>3, <2>4
  <1>4. cnt' \in [Pads -> CntRec]
    BY <1>1, <1>3
  <1> QED BY <1>3, <1>4

LEMMA TC5Keeps == ASSUME OInv, TC5_Handler PROVE OInv'
  <1>1. UNCHANGED <<line, g_mode, g_offline, dac, regs, pad, adc, servo, tc4, bench, il, sr, g_int_flags, g_il_snap, pc>>
    BY DEF TC5_Handler, shared
  <1>2. line' \in [Pads -> BOOLEAN] /\ cnt' \in [Pads -> CntRec]
    BY <1>1, OInvParts, TC5Props DEF SType, PadType
  <1> QED BY <1>1, <1>2, CountKeeps

LEMMA LineKeeps == ASSUME OInv, NEW c \in Pads, LineChanges(c) PROVE OInv'
  <1>1. /\ line' = [line EXCEPT ![c] = ~line[c]]
        /\ cnt' = IF g_mode = "COUNTER" THEN [cnt EXCEPT ![c].edges = cnt[c].edges + 1] ELSE cnt
        /\ UNCHANGED <<g_mode, g_offline, dac, regs, pad, adc, servo, tc4, bench, il, sr, g_int_flags, g_il_snap, pc>>
    BY DEF LineChanges, shared
  <1>2. line \in [Pads -> BOOLEAN] /\ cnt \in [Pads -> CntRec]
    BY OInvParts DEF SType, PadType, BenchType
  <1>3. line' \in [Pads -> BOOLEAN]
    BY <1>1, <1>2
  <1>4. cnt' \in [Pads -> CntRec]
    BY <1>1, <1>2 DEF CntRec
  <1> QED BY <1>1, <1>3, <1>4, CountKeeps


LEMMA StutterKeeps == ASSUME OInv, UNCHANGED vars PROVE OInv'
  <1>a. SType /\ CtlPart /\ ServoPart /\ OfflineSafe
    BY OInvParts
  <1>b. UNCHANGED <<line, g_mode, g_offline, dac, regs, pad, adc, servo, tc4, cnt, bench, il, sr, g_int_flags,
                    g_il_snap, pc>>
    BY DEF vars
  <1>c. line' \in [Pads -> BOOLEAN] /\ cnt' \in [Pads -> CntRec]
    BY <1>a, <1>b DEF SType, PadType, BenchType
  <1> QED BY <1>b, <1>c, CountKeeps

LEMMA BootType ==
    ASSUME Init
    PROVE  \E m \in Modes, r \in RegsRec, p \in [Pads -> Pad] :
             /\ g_mode = m /\ g_offline = FALSE /\ line \in [Pads -> BOOLEAN]
             /\ regs = r /\ pad = EnterPads(m, r, p)
             /\ dac = EnterDac(m, [eoen |-> TRUE, tone |-> FALSE, tc3 |-> FALSE, timed |-> FALSE, follow |-> FALSE])
             /\ il = [k \in Guarded |-> IF k = m THEN Armed(k) ELSE Disarmed]
             /\ g_int_flags = {} /\ g_il_snap = NoSnap /\ sr = NoShift /\ adc = FALSE
             /\ servo = ServoAtRest /\ tc4 = IF m = "SERVO" THEN servo_tc_start ELSE Idle4
             /\ cnt = IF m = "COUNTER" THEN counter_enter(pad) ELSE Uncounted
             /\ bench = NoBench /\ pc = Loop
  <1>1. PICK m \in BootModes : Boot(m, EnterRegs(m, SafeRegs))
    BY DEF Init
  <1>2. m \in Modes
    BY ModesAssumption
  <1> DEFINE r == EnterRegs(m, SafeRegs)
             p == [c \in Pads |-> IF c = A0 THEN Analog(PowerOn) ELSE PowerOn]
  <1>3. r \in RegsRec
    BY EnterRegsType, RestTypes
  <1>4. p \in [Pads -> Pad]
    BY PadOps
  <1>5. Boot(m, r)
    BY <1>1
  <1> HIDE DEF r
  <1>6. /\ g_mode = m /\ g_offline = FALSE /\ line \in [Pads -> BOOLEAN]
        /\ regs = r /\ pad = EnterPads(m, r, p)
        /\ dac = EnterDac(m, [eoen |-> TRUE, tone |-> FALSE, tc3 |-> FALSE, timed |-> FALSE, follow |-> FALSE])
        /\ il = [k \in Guarded |-> IF k = m THEN Armed(k) ELSE Disarmed]
        /\ g_int_flags = {} /\ g_il_snap = NoSnap /\ sr = NoShift /\ adc = FALSE
        /\ servo = ServoAtRest /\ tc4 = IF m = "SERVO" THEN servo_tc_start ELSE Idle4
        /\ cnt = IF m = "COUNTER" THEN counter_enter(pad) ELSE Uncounted
        /\ bench = NoBench /\ pc = Loop
    BY <1>5 DEF Boot
  <1> HIDE DEF p
  <1> QED BY <1>2, <1>3, <1>4, <1>6, Zenon

LEMMA OInit == ASSUME Init PROVE OInv
  <1> DEFINE d0 == [eoen |-> TRUE, tone |-> FALSE, tc3 |-> FALSE, timed |-> FALSE, follow |-> FALSE]
  <1>1. PICK m \in Modes, r \in RegsRec, p \in [Pads -> Pad] :
             /\ g_mode = m /\ g_offline = FALSE /\ line \in [Pads -> BOOLEAN]
             /\ regs = r /\ pad = EnterPads(m, r, p)
             /\ dac = EnterDac(m, d0)
             /\ il = [k \in Guarded |-> IF k = m THEN Armed(k) ELSE Disarmed]
             /\ g_int_flags = {} /\ g_il_snap = NoSnap /\ sr = NoShift /\ adc = FALSE
             /\ servo = ServoAtRest /\ tc4 = IF m = "SERVO" THEN servo_tc_start ELSE Idle4
             /\ cnt = IF m = "COUNTER" THEN counter_enter(pad) ELSE Uncounted
             /\ bench = NoBench /\ pc = Loop
    BY BootType, Zenon
  <1>2. d0 \in DacRec
    BY DEF DacRec
  <1> HIDE DEF d0
  <1>3. dac \in DacRec
    BY <1>1, <1>2, EnterDacType
  <1>4. pad \in [Pads -> Pad] /\ (m = "SERVO" => \A c \in declared : ~pad[c].out)
    BY <1>1, EnterType
  <1>5. il \in [Guarded -> IlRec] /\ \A k \in Guarded : ~il[k].tripped /\ (il[k].valid => k = m /\ ilcf # NoFile)
    <2>1. \A k : Armed(k) \in IlRec /\ ~Armed(k).tripped /\ (Armed(k).valid => ilcf # NoFile)
      BY DEF Armed, IlRec
    <2>2. Disarmed \in IlRec /\ ~Disarmed.tripped /\ ~Disarmed.valid
      BY DEF Disarmed, IlRec
    <2> QED BY <1>1, <2>1, <2>2
  <1>6. tc4 \in Tc4Rec /\ ~tc4.mc1 /\ (tc4.on => m = "SERVO")
    BY <1>1, RestTypes
  <1>7. cnt \in [Pads -> CntRec]
    BY <1>1, <1>4, CounterType, RestTypes
  <1>8. SType
    BY <1>1, <1>3, <1>4, <1>5, <1>6, <1>7, RestTypes, AtLoop
       DEF SType, PadType, ModeType, IlType, ServoType, BenchType
  <1>9. CtlPart
    BY <1>1, <1>5, <1>6, RestTypes, AtLoop DEF CtlPart
  <1>10. ServoPart
    BY <1>1, <1>4, <1>6, RestTypes DEF ServoPart
  <1>11. OfflineSafe
    BY <1>1 DEF OfflineSafe
  <1> QED BY <1>8, <1>9, <1>10, <1>11 DEF OInv

LEMMA ONext == ASSUME OInv, Orderly, [Next]_vars PROVE OInv'
  <1>1. CASE Superloop
    BY <1>1, IlSampleKeeps, IlJudgeKeeps, IlFlagKeeps, SnapKeeps, IlDriveKeeps, IlIntKeeps,
       ServoTickKeeps, EstopKeeps, BenchTickKeeps, BenchDoneKeeps, OfflineKeeps DEF Superloop
  <1>2. CASE GoOffline
    BY <1>2, GoOfflineKeeps
  <1>3. CASE UsbHost
    BY <1>3, UsbKeeps
  <1>4. CASE Master
    BY <1>4, WriteModeKeeps, ClearTripKeeps, PioWriteKeeps, EnableKeeps, WidthKeeps, ServoStartKeeps,
       ServoStopKeeps, SnapshotKeeps, SelectKeeps, BenchOutKeeps, DacApplyKeeps, RequestKeeps DEF Master
  <1>5. CASE Timers
    BY <1>5, AdcIsrKeeps, ToneEndsKeeps, TC4Keeps, TC5Keeps DEF Timers
  <1>6. CASE \E c \in Pads : LineChanges(c)
    BY <1>6, LineKeeps
  <1>7. CASE UNCHANGED vars
    BY <1>7, StutterKeeps
  <1> QED BY <1>1, <1>2, <1>3, <1>4, <1>5, <1>6, <1>7 DEF Next

LEMMA OMeans == ASSUME OInv PROVE OutputsSafe
  <1>a. SType /\ CtlPart /\ ServoPart /\ OfflineSafe
    BY OInvParts
  <1>1. EstopHolds
    BY <1>a DEF ServoPart, EstopHolds
  <1>2. PulseEnds
    <2> SUFFICES ASSUME g_mode = "SERVO", tc4.t = FRAME - 1, NEW c \in declared, pad[c].out PROVE FALSE
      BY DEF PulseEnds
    <2>1. Waits(tc4, c)
      BY <1>a DEF ServoPart
    <2>2. tc4.t < tc4.cc1 /\ tc4.idx < Cardinality(Times) /\ tc4.cc1 = EventTime(tc4.idx)
      BY <2>1 DEF Waits
    <2>3. tc4.idx \in Nat /\ tc4.cc1 \in Nat
      BY <1>a DEF SType, ServoType, Tc4Rec
    <2>4. EventTime(tc4.idx) \in Widths
      BY <1>a, <2>2, <2>3, EventProps DEF SType
    <2>5. EventTime(tc4.idx) \in 1..(FRAME - 2) /\ FRAME \in Nat
      BY <2>4, Sizes
    <2> QED BY <2>2, <2>3, <2>5
  <1> QED BY <1>a, <1>1, <1>2 DEF OutputsSafe

(* Whatever the superloop, the master, the workbench and the timers do, in *)
(* any order, a latched e-stop keeps the servos off, every pulse ends in   *)
(* its frame, and offline nothing is driven, for an orderly master (the    *)
(* ticks and handlers of samd21_commands.c).                               *)
THEOREM OutputsSafety == Orderly => (Spec => []OutputsSafe)
  <1>1. Init => OInv
    BY OInit
  <1>2. ASSUME Orderly PROVE OInv /\ [Next]_vars => OInv'
    BY <1>2, ONext
  <1>3. OInv => OutputsSafe
    BY OMeans
  <1>4. ASSUME Orderly PROVE Spec => []OutputsSafe
    <2>1. OInv /\ [Next]_vars => OInv'
      BY <1>2, <1>4
    <2> QED BY <1>1, <1>3, <2>1, PTL DEF Spec
  <1> QED BY <1>4


-----------------------------------------------------------------------------
(* What the host reads.                                                    *)
Unsettled == {"flag", "snap", "safe", "int", "offline"}

LEMMA ReadsFrame ==
    ASSUME Reads, UNCHANGED <<g_mode, il, g_il_snap, cnt, line>>,
           pc'.at = pc.at \/ (pc.at \notin Unsettled /\ pc'.at \notin Unsettled),
           g_mode \in {"PIO", "MIXED"} => pad'[D6] = pad[D6],
           g_mode = "ADC" => dac'.tc3 = dac.tc3 /\ dac'.follow = dac.follow /\ dac'.timed = dac.timed,
           g_mode = "COUNTER" => \A c \in counting : pad'[c] = pad[c]
    PROVE  Reads'
  <1>1. IntPart'
    BY DEF Reads, IntPart, Unsettled
  <1>2. SnapPart'
    BY DEF Reads, SnapPart, Unsettled
  <1>3. AdcPart'
    BY DEF Reads, AdcPart, Unsettled
  <1>4. CountPart'
    <2>1. CASE g_mode = "COUNTER" /\ pc.at # "offline"
      <3>1. \A c \in counting : Unseen(c)' = Unseen(c)
        BY <2>1 DEF Unseen, Level
      <3> QED BY <2>1, <3>1 DEF Reads, CountPart, Unsettled
    <2>2. CASE ~(g_mode = "COUNTER" /\ pc.at # "offline")
      BY <2>2 DEF Reads, CountPart, Unsettled
    <2> QED BY <2>1, <2>2
  <1> QED BY <1>1, <1>2, <1>3, <1>4 DEF Reads

(* A step in a mode with an interlock.                                     *)
LEMMA GuardedReads ==
    ASSUME Reads, UNCHANGED <<g_mode, dac, cnt>>, g_mode \in Guarded, pc.at # "offline", pc'.at # "offline",
           IntPart', SnapPart'
    PROVE  Reads'
  <1>1. AdcPart'
    BY DEF Reads, AdcPart
  <1>2. CountPart'
    BY DEF Reads, CountPart, Guarded
  <1> QED BY <1>1, <1>2 DEF Reads

LEMMA IlSampleReads == ASSUME RInv, NEW m \in Guarded, IlSample(m) PROVE Reads'
  <1>1. /\ pc.at = "loop" /\ g_mode = m /\ pc'.at = "judge"
        /\ UNCHANGED <<g_mode, dac, line, cnt, pad, il, g_il_snap>>
    BY DEF IlSample, Frame, shared, timers, Loop
  <1> QED BY <1>1, ReadsFrame DEF RInv, Unsettled

LEMMA IlJudgeReads == ASSUME RInv, IlJudge PROVE Reads'
  <1> DEFINE trips == ~il[pc.m].tripped /\ ~pc.pass
  <1>a. /\ pc.at = "judge" /\ Frame /\ UNCHANGED <<pad, sr, g_int_flags, g_il_snap>>
        /\ il' = IF trips THEN [il EXCEPT ![pc.m].tripped = TRUE] ELSE il
        /\ pc' = CASE trips -> [pc EXCEPT !.at = "flag", !.old = g_int_flags]
                   [] ~trips /\ pc.m = "ADC" -> [pc EXCEPT !.at = "drive"]
                   [] ~trips /\ pc.m # "ADC" /\ il[pc.m].tripped -> [pc EXCEPT !.at = "resafe"]
                   [] ~trips /\ pc.m = "MIXED" /\ ~il[pc.m].tripped -> [pc EXCEPT !.at = "ok"]
                   [] OTHER -> Loop
    BY DEF IlJudge
  <1> HIDE DEF trips
  <1>b. OInv /\ Reads /\ pc.at \in IlStages
    BY <1>a DEF RInv, IlStages
  <1>c. /\ pc.m = g_mode /\ g_mode \in Guarded /\ pc \in PcRec /\ il \in [Guarded -> IlRec]
    BY <1>b, InStage
  <1>d. UNCHANGED <<g_mode, dac, line, cnt>>
    BY <1>a, IlFrame
  <1>1. CASE trips
    <2>1. pc' = [pc EXCEPT !.at = "flag", !.old = g_int_flags] /\ il' = [il EXCEPT ![pc.m].tripped = TRUE]
      BY <1>1, <1>a
    <2>2. pc'.at = "flag" /\ il'[g_mode].tripped /\ ~il[g_mode].tripped
      <3>1. pc'.at = "flag"
        BY <1>c, <2>1 DEF PcRec
      <3>2. il'[g_mode].tripped
        BY <1>c, <2>1 DEF IlRec
      <3> QED BY <1>1, <1>c, <3>1, <3>2 DEF trips
    <2>3. IntPart'
      BY <1>a, <1>b, <1>d, <2>2 DEF Reads, IntPart
    <2>4. SnapPart'
      <3>1. g_il_snap.valid = il[g_mode].tripped
        BY <1>a, <1>b, <1>c DEF Reads, SnapPart
      <3> QED BY <1>a, <1>d, <2>2, <3>1 DEF SnapPart
    <2> QED BY <1>a, <1>b, <1>c, <1>d, <2>2, <2>3, <2>4, GuardedReads
  <1>2. CASE ~trips
    <2>1. pc'.at \in {"drive", "resafe", "ok", "loop"}
      BY <1>2, <1>a, <1>c, AtLoop DEF PcRec
    <2> QED BY <1>2, <1>a, <1>b, <1>d, <2>1, ReadsFrame DEF Unsettled
  <1> QED BY <1>1, <1>2

LEMMA IlFlagReads == ASSUME RInv, IlFlag PROVE Reads'
  <1>a. /\ pc.at = "flag" /\ Frame /\ UNCHANGED <<pad, il, sr, g_il_snap>> /\ pc' = [pc EXCEPT !.at = "snap"]
    BY DEF IlFlag
  <1>b. OInv /\ Reads /\ pc.at \in IlStages
    BY <1>a DEF RInv, IlStages
  <1>c. g_mode \in Guarded /\ pc \in PcRec
    BY <1>b, InStage
  <1>d. UNCHANGED <<g_mode, dac, line, cnt>>
    BY <1>a, IlFrame
  <1>e. pc'.at = "snap"
    BY <1>a, <1>c DEF PcRec
  <1>1. IntPart'
    BY <1>a, <1>b, <1>d, <1>e DEF Reads, IntPart
  <1>2. SnapPart'
    BY <1>a, <1>b, <1>d, <1>e DEF Reads, SnapPart
  <1> QED BY <1>a, <1>b, <1>c, <1>d, <1>e, <1>1, <1>2, GuardedReads

LEMMA SnapReads == ASSUME RInv, il_snap_capture PROVE Reads'
  <1>a. /\ pc.at = "snap" /\ Frame /\ UNCHANGED <<pad, il, sr, g_int_flags>>
        /\ pc' = [pc EXCEPT !.at = IF pc.m = "ADC" THEN "drive" ELSE "safe"]
    BY DEF il_snap_capture
  <1>b. OInv /\ Reads /\ pc.at \in IlStages
    BY <1>a DEF RInv, IlStages
  <1>c. /\ g_mode \in Guarded /\ pc \in PcRec /\ pc.m = g_mode /\ il \in [Guarded -> IlRec]
        /\ g_il_snap \in SnapRec
    BY <1>b, InStage
  <1>d. UNCHANGED <<g_mode, dac, line, cnt>>
    BY <1>a, IlFrame
  <1>e. pc'.at = IF g_mode = "ADC" THEN "drive" ELSE "safe"
    BY <1>a, <1>c DEF PcRec
  <1>f. g_il_snap'.valid = TRUE
    <2>1. ~g_il_snap.valid
      BY <1>a, <1>b, <1>c DEF Reads, SnapPart
    <2> QED BY <2>1 DEF il_snap_capture
  <1>1. IntPart'
    BY <1>a, <1>b, <1>d, <1>e DEF Reads, IntPart
  <1>2. SnapPart'
    <2>1. il[g_mode].tripped = TRUE
      <3>1. il[g_mode].tripped /\ il[g_mode].tripped \in BOOLEAN
        BY <1>a, <1>b, <1>c DEF Reads, SnapPart, IlRec
      <3> QED BY <3>1
    <2>2. pc'.at \notin {"flag", "snap"} /\ il'[g_mode'].tripped = TRUE
      BY <1>a, <1>d, <1>e, <2>1
    <2>3. g_il_snap'.valid = il'[g_mode'].tripped
      BY <1>f, <2>2, Zenon
    <2> QED BY <2>2, <2>3 DEF SnapPart
  <1> QED BY <1>a, <1>b, <1>c, <1>d, <1>e, <1>1, <1>2, GuardedReads

LEMMA IlDriveReads == ASSUME RInv, IntApart, IlDrive PROVE Reads'
  <1>a. /\ pc.at \in {"safe", "resafe", "ok", "drive"} /\ Frame /\ UNCHANGED <<il, sr, g_int_flags, g_il_snap>>
        /\ pc' = IF pc.at = "safe" THEN [pc EXCEPT !.at = "int"] ELSE Loop
    BY DEF IlDrive
  <1>b. OInv /\ Reads /\ pc.at \in IlStages
    BY <1>a DEF RInv, IlStages
  <1>c. g_mode \in Guarded /\ pc \in PcRec
    BY <1>b, InStage
  <1>d. UNCHANGED <<g_mode, dac, line, cnt>>
    BY <1>a, IlFrame
  <1>e. pc'.at = IF pc.at = "safe" THEN "int" ELSE "loop"
    BY <1>a, <1>c, AtLoop DEF PcRec
  <1>f. pad'[D6] = pad[D6]
    BY <1>b, IlDriveKeeps
  <1>1. IntPart'
    BY <1>a, <1>b, <1>d, <1>e, <1>f DEF Reads, IntPart
  <1>2. SnapPart'
    BY <1>a, <1>b, <1>d, <1>e DEF Reads, SnapPart
  <1> QED BY <1>a, <1>b, <1>c, <1>d, <1>e, <1>1, <1>2, GuardedReads

LEMMA IlIntReads == ASSUME RInv, IlInt PROVE Reads'
  <1>a. /\ pc.at = "int" /\ Frame /\ UNCHANGED <<il, sr, g_int_flags, g_il_snap>>
        /\ pad' = [pad EXCEPT ![D6] = pio_int_assert(TRUE, pad[D6])] /\ pc' = Loop
    BY DEF IlInt
  <1>b. OInv /\ Reads /\ pc.at \in IlStages
    BY <1>a DEF RInv, IlStages
  <1>c. g_mode \in Guarded /\ pad \in [Pads -> Pad]
    BY <1>b, InStage
  <1>d. UNCHANGED <<g_mode, dac, line, cnt>>
    BY <1>a, IlFrame
  <1>e. pc'.at = "loop"
    BY <1>a, AtLoop
  <1>f. /\ pad'[D6] = pio_int_assert(TRUE, pad[D6]) /\ pad[D6] \in Pad
    BY <1>a, <1>c, Places
  <1>1. IntPart'
    <2>1. g_mode \in {"PIO", "MIXED"} => pad[D6].cfg # "mux" /\ il[g_mode].tripped
      BY <1>a, <1>b DEF Reads, IntPart
    <2>2. pad'[D6].cfg = pad[D6].cfg /\ (pad[D6].cfg # "mux" => Driven(pad'[D6]))
      BY <1>f, IntType
    <2> QED BY <1>a, <1>d, <1>e, <2>1, <2>2 DEF IntPart
  <1>2. SnapPart'
    BY <1>a, <1>b, <1>d, <1>e DEF Reads, SnapPart
  <1> QED BY <1>a, <1>b, <1>c, <1>d, <1>e, <1>1, <1>2, GuardedReads


(* Outside the interlocks, the counters and the ADC only the counts stay.  *)
LEMMA IdleReads ==
    ASSUME g_mode' \in {"IDLE", "SERVO"}, \A c \in Pads : cnt'[c].n = 0
    PROVE  Reads'
  BY DEF Reads, IntPart, SnapPart, AdcPart, CountPart, Guarded

LEMMA ServoReads ==
    ASSUME Reads, g_mode \in {"IDLE", "SERVO"}, UNCHANGED <<g_mode, cnt>>
    PROVE  Reads'
  <1>1. \A c \in Pads : cnt[c].n = 0
    BY DEF Reads, CountPart
  <1> QED BY <1>1, IdleReads

LEMMA BenchTickReads == ASSUME RInv, bench_tick \/ BenchDone PROVE Reads'
  <1>1. /\ pc.at \in {"loop", "bench"} /\ pc'.at \in {"loop", "bench"}
        /\ UNCHANGED <<g_mode, dac, line, cnt, pad, il, g_il_snap>>
    BY DEF bench_tick, BenchDone, shared, timers, Loop
  <1> QED BY <1>1, ReadsFrame DEF RInv, Unsettled

LEMMA StopReads == ASSUME RInv, servo_tick \/ EstopLow PROVE Reads'
  <1>1. g_mode = "SERVO"
    BY OInvParts DEF RInv, servo_tick, EstopLow, CtlPart
  <1>2. UNCHANGED <<g_mode, cnt>>
    BY DEF servo_tick, EstopLow, ServoFrame, shared
  <1> QED BY <1>1, <1>2, ServoReads DEF RInv

LEMMA OfflineReads == ASSUME RInv, GoOffline \/ mode_go_offline PROVE Reads'
  <1>1. CASE GoOffline
    <2>1. cnt' = Uncounted /\ pc'.at = "offline"
      BY <1>1 DEF GoOffline, Loop
    <2> QED BY <2>1, RestTypes DEF Reads, IntPart, SnapPart, AdcPart, CountPart
  <1>2. CASE mode_go_offline
    <2>1. pc.at = "offline" /\ g_mode' = "IDLE" /\ cnt' = cnt
      BY <1>2 DEF mode_go_offline
    <2>2. \A c \in Pads : cnt[c].n = 0
      BY <2>1 DEF RInv, Reads, CountPart
    <2> QED BY <2>1, <2>2, IdleReads
  <1> QED BY <1>1, <1>2

LEMMA UsbReads == ASSUME RInv, Orderly, UsbHost PROVE Reads'
  <1>1. Workbench /\ UNCHANGED <<g_mode, cnt>>
    BY DEF UsbHost, cmd_dac_waveform_write, cmd_dac_stop, cmd_dac_write, cmd_dac_follow_start,
           cmd_dac_follow_stop, cmd_gpio_config, cmd_gpio_write, UsbDac, UsbPad, shared, timers
  <1>2. g_mode = "IDLE"
    BY <1>1 DEF Workbench, Orderly
  <1> QED BY <1>1, <1>2, ServoReads DEF RInv

LEMMA WriteModeReads == ASSUME RInv, Orderly, IntApart, NEW m \in Modes, WriteMode(m) PROVE Reads'
  <1> DEFINE r == EnterRegs(m, LeaveRegs)
             q == EnterPads(m, r, LeavePads(g_mode, pad))
  <1>a. SType
    BY OInvParts DEF RInv
  <1>b. Polite /\ Switch(m, r, q)
    BY DEF WriteMode
  <1>c. pc.at = "loop" /\ ~dac.follow
    BY <1>b, PoliteFacts
  <1>d. LeavePads(g_mode, pad) \in [Pads -> Pad]
    BY <1>a, LeaveType DEF SType, PadType, ModeType
  <1>e. /\ q \in [Pads -> Pad]
        /\ m \in {"PIO", "MIXED"} => ~Driven(q[D6]) /\ q[D6].cfg # "mux"
        /\ m = "COUNTER" => \A c \in counting : ~q[c].dir
    BY <1>d, EnterType
  <1> HIDE DEF r, q
  <1>g. /\ g_mode' = m /\ pad' = q /\ dac' = EnterDac(m, LeaveDac)
        /\ il' = IF m \in Guarded THEN [LeaveIl EXCEPT ![m] = Armed(m)] ELSE LeaveIl
        /\ g_il_snap' = NoSnap
        /\ cnt' = IF m = "COUNTER" THEN counter_enter(q) ELSE Uncounted
        /\ UNCHANGED <<line, pc>>
    BY <1>b DEF Switch
  <1>h. m \in Guarded => il'[m].tripped = FALSE
    BY <1>g, RestTypes DEF Armed
  <1>1. IntPart'
    BY <1>c, <1>e, <1>g, <1>h DEF IntPart, Guarded
  <1>2. SnapPart'
    BY <1>c, <1>g, <1>h DEF SnapPart, NoSnap
  <1>3. AdcPart'
    <2>1. CASE m = "ADC"
      <3>1. dac \in DacRec /\ LeaveDac \in DacRec /\ LeaveDac.follow = dac.follow
        BY <1>a, LeaveDacType DEF SType, ModeType, LeaveDac
      <3>2. dac' = [LeaveDac EXCEPT !.eoen = TRUE, !.tone = TRUE, !.tc3 = TRUE, !.timed = FALSE]
        BY <1>g, <2>1 DEF EnterDac
      <3>3. dac'.tc3 /\ ~dac'.follow /\ ~dac'.timed
        BY <1>c, <3>1, <3>2 DEF DacRec
      <3> QED BY <3>3 DEF AdcPart
    <2>2. CASE m # "ADC"
      BY <1>g, <2>2 DEF AdcPart
    <2> QED BY <2>1, <2>2
  <1>4. CountPart'
    <2>1. CASE m = "COUNTER"
      <3>1. \A c \in Pads : cnt'[c].n = 0 /\ cnt'[c].edges = 0 /\ cnt'[c].last = Level(c)'
        BY <1>g, <2>1 DEF counter_enter, Level
      <3>2. \A c \in Pads : Unseen(c)' = 0
        BY <3>1 DEF Unseen
      <3>3. \A c \in Pads : /\ c \in counting => ~pad'[c].dir
                            /\ cnt'[c].n + Unseen(c)' <= cnt'[c].edges /\ cnt'[c].edges <= MaxEdges
        BY <1>e, <1>g, <2>1, <3>1, <3>2, ModesAssumption
      <3> QED BY <1>c, <1>g, <2>1, <3>1, <3>3 DEF CountPart
    <2>2. CASE m # "COUNTER"
      BY <1>g, <2>2, RestTypes DEF CountPart
    <2> QED BY <2>1, <2>2
  <1> QED BY <1>1, <1>2, <1>3, <1>4 DEF Reads

LEMMA ClearTripReads == ASSUME RInv, Orderly, IntApart, NEW m \in Guarded, ClearTrip(m) PROVE Reads'
  <1>a. SType /\ CtlPart /\ Reads
    BY OInvParts DEF RInv
  <1>b. Polite /\ UNCHANGED <<g_mode, dac, line, cnt, pc>>
    BY DEF ClearTrip, timers, shared
  <1>c. pc.at = "loop"
    BY <1>b, PoliteFacts
  <1>1. CASE ~(il[m].tripped /\ (m = "PIO" \/ g_mode = m))
    <2>1. UNCHANGED <<il, g_il_snap, pad>>
      BY <1>1 DEF ClearTrip
    <2> QED BY <1>a, <1>b, <2>1, ReadsFrame
  <1>2. CASE il[m].tripped /\ (m = "PIO" \/ g_mode = m)
    <2>1. il' = [il EXCEPT ![m].tripped = FALSE] /\ g_il_snap' = NoSnap /\ ResetPads(m)
      BY <1>2 DEF ClearTrip
    <2>2. g_mode = m /\ ilcf # NoFile
      BY <1>a, <1>2 DEF CtlPart
    <2>3. il'[m].tripped = FALSE
      BY <1>a, <2>1 DEF SType, IlType, IlRec
    <2>4. m \in {"PIO", "MIXED"} => pad'[D6] = PullUp
      <3>a. pad \in [Pads -> Pad] /\ regs \in RegsRec /\ D6 \in Pads /\ ilcf.out \in Pads /\ ilcf.out # D6
        BY <1>a, <2>2, Places DEF SType, PadType, ModeType, IntApart
      <3>1. CASE m = "PIO"
        <4>1. pad' = [pio_update_outputs(regs, pad) EXCEPT ![D6] = pio_int_assert(FALSE, @)]
          BY <1>2, <2>1, <3>1 DEF ResetPads, pio_il_manual_reset
        <4>2. pio_update_outputs(regs, pad) \in [Pads -> Pad]
          BY <3>a, OutputsType
        <4> QED BY <3>a, <4>1, <4>2 DEF pio_int_assert
      <3>2. CASE m = "MIXED"
        <4>1. pad' = [pad EXCEPT ![D6] = pio_int_assert(FALSE, @),
                                 ![ilcf.out] = il_drive_output(ilcf.ok, ilcf.od, @)]
          BY <2>1, <3>2, Zenon DEF ResetPads
        <4> QED BY <3>a, <4>1 DEF pio_int_assert
      <3> QED BY <3>1, <3>2
    <2>5. IntPart'
      <3>1. ~Driven(PullUp) /\ PullUp.cfg # "mux"
        BY DEF Driven, PullUp
      <3> QED BY <1>b, <1>c, <2>2, <2>3, <2>4, <3>1 DEF IntPart
    <2>6. SnapPart'
      BY <1>b, <1>c, <2>1, <2>2, <2>3 DEF SnapPart, NoSnap
    <2> QED BY <1>a, <1>b, <1>c, <2>2, <2>5, <2>6, GuardedReads
  <1> QED BY <1>1, <1>2

LEMMA PioWriteReads == ASSUME RInv, NEW v \in SUBSET regs.out, pio_reg_write(v) PROVE Reads'
  <1>a. SType /\ Reads
    BY OInvParts DEF RInv
  <1>b. /\ g_mode = "PIO" /\ pad' = pio_update_outputs([regs EXCEPT !.olat = v], pad)
        /\ UNCHANGED <<g_mode, dac, line, cnt, il, g_il_snap, pc>>
    BY DEF pio_reg_write, timers
  <1>c. [regs EXCEPT !.olat = v] \in RegsRec
    BY <1>a DEF SType, ModeType, RegsRec
  <1>d. pad'[D6] = pad[D6]
    BY <1>a, <1>b, <1>c, OutputsType DEF SType, PadType
  <1> QED BY <1>a, <1>b, <1>d, ReadsFrame


LEMMA SnapshotReads == ASSUME RInv, counter_snapshot PROVE Reads'
  <1>a. SType /\ Reads
    BY OInvParts DEF RInv
  <1>b. /\ g_mode = "COUNTER"
        /\ cnt' = [c \in Pads |-> [cnt[c] EXCEPT !.n = 0, !.edges = IF Level(c) # cnt[c].last THEN 1 ELSE 0]]
        /\ UNCHANGED <<line, g_mode, dac, pad, il, g_il_snap, pc>>
    BY DEF counter_snapshot, shared
  <1>c. \A c \in Pads : cnt'[c].n = 0 /\ cnt'[c].edges = Unseen(c) /\ cnt'[c].last = cnt[c].last
    <2>1. \A c \in Pads : cnt[c] \in CntRec
      BY <1>a DEF SType, BenchType
    <2>2. \A c \in Pads : cnt'[c] = [cnt[c] EXCEPT !.n = 0, !.edges = Unseen(c)]
      BY <1>b DEF Unseen
    <2> QED BY <2>1, <2>2 DEF CntRec
  <1>d. \A c \in Pads : Unseen(c)' = Unseen(c)
    BY <1>b, <1>c DEF Unseen, Level
  <1>1. CountPart'
    <2>1. CASE pc.at # "offline"
      <3>1. ASSUME NEW c \in Pads, c \in counting
            PROVE  ~pad[c].dir /\ 0 + Unseen(c) <= Unseen(c) /\ Unseen(c) <= MaxEdges
        <4>1. ~pad[c].dir /\ cnt[c].n + Unseen(c) <= cnt[c].edges /\ cnt[c].edges <= MaxEdges
          BY <1>a, <1>b, <2>1, <3>1 DEF Reads, CountPart
        <4>2. cnt[c].n \in Nat /\ cnt[c].edges \in Nat /\ Unseen(c) \in {0, 1} /\ MaxEdges \in Nat
          BY <1>a, ModesAssumption DEF SType, BenchType, CntRec, Unseen
        <4> QED BY <4>1, <4>2
      <3> QED BY <1>b, <1>c, <1>d, <2>1, <3>1 DEF CountPart
    <2>2. CASE pc.at = "offline"
      BY <1>b, <1>c, <2>2 DEF CountPart
    <2> QED BY <2>1, <2>2
  <1>2. IntPart' /\ SnapPart' /\ AdcPart'
    BY <1>b DEF IntPart, SnapPart, AdcPart, Guarded
  <1> QED BY <1>1, <1>2 DEF Reads

LEMMA ScheduleReads ==
    ASSUME RInv, g_mode = "SERVO", UNCHANGED <<g_mode, cnt>>
    PROVE  Reads'
  BY ServoReads DEF RInv

LEMMA BenchReads ==
    ASSUME RInv, \/ \E c \in Pads : bench_select(c)
                 \/ bench_adc_request
                 \/ adc_isr_service
    PROVE  Reads'
  <1>1. UNCHANGED <<g_mode, il, g_il_snap, cnt, line, pad, dac, pc>>
    BY DEF bench_select, bench_adc_request, adc_isr_service, shared
  <1> QED BY <1>1, ReadsFrame DEF RInv

LEMMA BenchOutReads == ASSUME RInv, NEW v \in BOOLEAN, bench_gpio_out(v) PROVE Reads'
  <1>1. UNCHANGED <<g_mode, il, g_il_snap, cnt, line, dac, pc>> /\ g_mode \in {"SERVO", "COUNTER"}
    BY DEF bench_gpio_out, bench_sel_role, shared, timers
  <1>2. \A c \in bench_reserved(g_mode) : pad'[c] = pad[c]
    BY BenchOutKeeps DEF RInv
  <1>3. g_mode = "COUNTER" => \A c \in counting : pad'[c] = pad[c]
    BY <1>2 DEF bench_reserved
  <1> QED BY <1>1, <1>3, ReadsFrame DEF RInv

LEMMA DacApplyReads == ASSUME RInv, NEW any \in BOOLEAN, dac_apply(any) PROVE Reads'
  <1>1. /\ g_mode = "ADC" => dac' = [dac EXCEPT !.tone = TRUE]
        /\ UNCHANGED <<g_mode, il, g_il_snap, cnt, line, pad, pc>>
    BY DEF dac_apply, timers
  <1>2. dac \in DacRec
    BY OInvParts DEF RInv, SType, ModeType
  <1>3. g_mode = "ADC" => dac'.tc3 = dac.tc3 /\ dac'.follow = dac.follow /\ dac'.timed = dac.timed
    BY <1>1, <1>2 DEF DacRec
  <1> QED BY <1>1, <1>3, ReadsFrame DEF RInv

(* A tone that ends is not the one behind the sampler.                     *)
LEMMA ToneReads == ASSUME RInv, ToneEnds PROVE Reads'
  <1>1. /\ dac.timed
        /\ UNCHANGED <<g_mode, il, g_il_snap, cnt, line, pad, pc>>
    BY DEF ToneEnds, timers
  <1>2. CASE g_mode = "ADC"
    <2>1. pc.at = "offline"
      BY <1>1, <1>2 DEF RInv, Reads, AdcPart
    <2>2. \A c \in Pads : cnt[c].n = 0
      BY <1>2 DEF RInv, Reads, CountPart
    <2> QED BY <1>1, <1>2, <2>1, <2>2 DEF Reads, IntPart, SnapPart, AdcPart, CountPart
  <1>3. CASE g_mode # "ADC"
    BY <1>1, <1>3, ReadsFrame DEF RInv
  <1> QED BY <1>2, <1>3

LEMMA TC5Reads == ASSUME RInv, TC5_Handler PROVE Reads'
  <1>a. SType /\ Reads
    BY OInvParts DEF RInv
  <1>b. g_mode = "COUNTER" /\ pc.at # "offline" /\ UNCHANGED <<line, g_mode, dac, pad, il, g_il_snap, pc>>
    BY DEF TC5_Handler, shared
  <1>c. /\ cnt' \in [Pads -> CntRec]
        /\ \A c \in Pads :
              /\ cnt'[c].last = Level(c) /\ cnt'[c].edges = cnt[c].edges
              /\ IF c \in counting THEN cnt'[c].n <= cnt[c].n + Unseen(c) ELSE cnt'[c].n = cnt[c].n
    BY <1>a, TC5Props
  <1>d. \A c \in Pads : Unseen(c)' = 0
    BY <1>b, <1>c DEF Unseen, Level
  <1>1. CountPart'
    <2>1. ASSUME NEW c \in Pads, c \in counting
          PROVE  ~pad[c].dir /\ cnt'[c].n + 0 <= cnt'[c].edges /\ cnt'[c].edges <= MaxEdges
      <3>1. ~pad[c].dir /\ cnt[c].n + Unseen(c) <= cnt[c].edges /\ cnt[c].edges <= MaxEdges
        BY <1>a, <1>b, <2>1 DEF Reads, CountPart
      <3>2. /\ cnt[c].n \in Nat /\ cnt[c].edges \in Nat /\ Unseen(c) \in {0, 1} /\ MaxEdges \in Nat
            /\ cnt'[c].n \in Nat
        BY <1>a, <1>c, ModesAssumption DEF SType, BenchType, CntRec, Unseen
      <3>3. cnt'[c].n <= cnt[c].n + Unseen(c) /\ cnt'[c].edges = cnt[c].edges
        BY <1>c, <2>1
      <3> QED BY <3>1, <3>2, <3>3
    <2>2. ASSUME NEW c \in Pads, c \notin counting PROVE cnt'[c].n = 0
      BY <1>a, <1>b, <1>c, <2>2 DEF Reads, CountPart
    <2> QED BY <1>b, <1>d, <2>1, <2>2 DEF CountPart
  <1>2. IntPart' /\ SnapPart' /\ AdcPart'
    BY <1>b DEF IntPart, SnapPart, AdcPart, Guarded
  <1> QED BY <1>1, <1>2 DEF Reads

(* A change of a counted line is one more edge to be seen.                 *)
LEMMA LineReads == ASSUME RInv, NEW c \in Pads, LineChanges(c) PROVE Reads'
  <1>a. SType /\ Reads
    BY OInvParts DEF RInv
  <1>b. /\ c \in Heard /\ line' = [line EXCEPT ![c] = ~line[c]]
        /\ cnt' = IF g_mode = "COUNTER" THEN [cnt EXCEPT ![c].edges = cnt[c].edges + 1] ELSE cnt
        /\ UNCHANGED <<g_mode, dac, pad, il, g_il_snap, pc>>
    BY DEF LineChanges, shared
  <1>c. cnt \in [Pads -> CntRec] /\ line \in [Pads -> BOOLEAN]
    BY <1>a DEF SType, BenchType, PadType
  <1>1. IntPart' /\ SnapPart' /\ AdcPart'
    BY <1>a, <1>b DEF Reads, IntPart, SnapPart, AdcPart
  <1>d. \A k \in CntRec : [k EXCEPT !.edges = k.edges + 1].n = k.n /\ [k EXCEPT !.edges = k.edges + 1].last = k.last
                          /\ [k EXCEPT !.edges = k.edges + 1].edges = k.edges + 1
    BY DEF CntRec
  <1>e. \A d \in Pads : cnt'[d].n = cnt[d].n /\ cnt'[d].last = cnt[d].last
    BY <1>b, <1>c, <1>d
  <1>2. CountPart'
    <2>1. CASE g_mode = "COUNTER" /\ pc.at # "offline"
      <3>a. c \in counting /\ cnt[c].edges < MaxEdges
        BY <1>b, <2>1 DEF Heard, Guarded
      <3>b. cnt'[c].edges = cnt[c].edges + 1 /\ \A d \in Pads : d # c => cnt'[d] = cnt[d]
        BY <1>b, <1>c, <1>d, <2>1
      <3>1. ASSUME NEW d \in Pads, d \in counting
            PROVE  ~pad[d].dir /\ cnt'[d].n + Unseen(d)' <= cnt'[d].edges /\ cnt'[d].edges <= MaxEdges
        <4>1. ~pad[d].dir /\ cnt[d].n + Unseen(d) <= cnt[d].edges /\ cnt[d].edges <= MaxEdges
          BY <1>a, <2>1, <3>1 DEF Reads, CountPart
        <4>2. cnt[d].n \in Nat /\ cnt[d].edges \in Nat /\ Unseen(d) \in {0, 1} /\ MaxEdges \in Nat
          BY <1>c, ModesAssumption DEF CntRec, Unseen
        <4>3. Unseen(d)' \in {0, 1}
          BY DEF Unseen
        <4>4. CASE d = c
          <5>1. cnt[d].edges < MaxEdges /\ cnt'[d].edges = cnt[d].edges + 1 /\ cnt'[d].n = cnt[d].n
            BY <1>e, <3>a, <3>b, <4>4
          <5> QED BY <4>1, <4>2, <4>3, <5>1
        <4>5. CASE d # c
          <5>1. Unseen(d)' = Unseen(d)
            BY <1>b, <1>c, <3>b, <4>5 DEF Unseen, Level
          <5> QED BY <3>b, <4>1, <4>5, <5>1
        <4> QED BY <4>4, <4>5
      <3>2. ASSUME NEW d \in Pads, d \notin counting PROVE cnt'[d].n = 0
        BY <1>a, <1>e, <2>1, <3>2 DEF Reads, CountPart
      <3> QED BY <1>b, <2>1, <3>1, <3>2 DEF CountPart
    <2>2. CASE ~(g_mode = "COUNTER" /\ pc.at # "offline")
      BY <1>a, <1>b, <1>e, <2>2 DEF Reads, CountPart
    <2> QED BY <2>1, <2>2
  <1> QED BY <1>1, <1>2 DEF Reads

LEMMA RInit == ASSUME Init, IntApart PROVE RInv
  <1> DEFINE d0 == [eoen |-> TRUE, tone |-> FALSE, tc3 |-> FALSE, timed |-> FALSE, follow |-> FALSE]
  <1>1. PICK m \in Modes, r \in RegsRec, p \in [Pads -> Pad] :
             /\ g_mode = m /\ g_offline = FALSE /\ line \in [Pads -> BOOLEAN]
             /\ regs = r /\ pad = EnterPads(m, r, p)
             /\ dac = EnterDac(m, d0)
             /\ il = [k \in Guarded |-> IF k = m THEN Armed(k) ELSE Disarmed]
             /\ g_int_flags = {} /\ g_il_snap = NoSnap /\ sr = NoShift /\ adc = FALSE
             /\ servo = ServoAtRest /\ tc4 = IF m = "SERVO" THEN servo_tc_start ELSE Idle4
             /\ cnt = IF m = "COUNTER" THEN counter_enter(pad) ELSE Uncounted
             /\ bench = NoBench /\ pc = Loop
    BY BootType, Zenon
  <1>2. /\ m \in {"PIO", "MIXED"} => ~Driven(pad[D6]) /\ pad[D6].cfg # "mux"
        /\ m = "COUNTER" => \A c \in counting : ~pad[c].dir
    BY <1>1, EnterType
  <1>3. m \in Guarded => il[m].tripped = FALSE
    BY <1>1 DEF Armed
  <1>4. pc.at = "loop"
    BY <1>1, AtLoop
  <1>5. IntPart
    BY <1>1, <1>2, <1>3, <1>4 DEF IntPart, Guarded
  <1>6. SnapPart
    BY <1>1, <1>3, <1>4 DEF SnapPart, NoSnap
  <1>7. AdcPart
    BY <1>1 DEF AdcPart, EnterDac
  <1>8. CountPart
    <2>1. CASE m = "COUNTER"
      <3>1. \A c \in Pads : cnt[c].n = 0 /\ cnt[c].edges = 0 /\ cnt[c].last = Level(c)
        BY <1>1, <2>1 DEF counter_enter, Level
      <3>2. \A c \in Pads : Unseen(c) = 0
        BY <3>1 DEF Unseen
      <3>3. \A c \in Pads : /\ c \in counting => ~pad[c].dir
                            /\ cnt[c].n + Unseen(c) <= cnt[c].edges /\ cnt[c].edges <= MaxEdges
        BY <1>2, <2>1, <3>1, <3>2, ModesAssumption
      <3> QED BY <1>1, <1>4, <2>1, <3>1, <3>3 DEF CountPart
    <2>2. CASE m # "COUNTER"
      BY <1>1, <2>2, RestTypes DEF CountPart
    <2> QED BY <2>1, <2>2
  <1> QED BY <1>5, <1>6, <1>7, <1>8, OInit DEF RInv, Reads

LEMMA RNext == ASSUME RInv, Orderly, IntApart, [Next]_vars PROVE RInv'
  <1>a. OInv /\ OInv'
    BY ONext DEF RInv
  <1> SUFFICES Reads'
    BY <1>a DEF RInv
  <1>1. CASE Superloop
    BY <1>1, IlSampleReads, IlJudgeReads, IlFlagReads, SnapReads, IlDriveReads, IlIntReads,
       StopReads, BenchTickReads, OfflineReads DEF Superloop
  <1>2. CASE GoOffline
    BY <1>2, OfflineReads
  <1>3. CASE UsbHost
    BY <1>3, UsbReads
  <1>4. CASE Master
    <2>1. ASSUME NEW m \in Modes, WriteMode(m) PROVE Reads'
      BY <2>1, WriteModeReads
    <2>2. ASSUME NEW m \in Guarded, ClearTrip(m) PROVE Reads'
      BY <2>2, ClearTripReads
    <2>3. ASSUME \/ \E cs \in SUBSET Chans : ServoEnable(cs)
                 \/ \E c \in declared, w \in Widths : ServoWidth(c, w)
                 \/ ServoStart \/ ServoStop
          PROVE  Reads'
      <3>1. g_mode = "SERVO" /\ UNCHANGED <<g_mode, cnt>>
        BY <2>3 DEF ServoEnable, ServoWidth, ServoStart, ServoStop, servo_build, ServoFrame, shared
      <3> QED BY <3>1, ScheduleReads
    <2>4. ASSUME \/ counter_snapshot \/ bench_adc_request
                 \/ \E v \in BOOLEAN : bench_gpio_out(v) \/ dac_apply(v)
                 \/ \E c \in Pads : bench_select(c)
          PROVE  Reads'
      BY <2>4, SnapshotReads, BenchReads, BenchOutReads, DacApplyReads
    <2>5. ASSUME NEW v \in SUBSET regs.out, pio_reg_write(v) PROVE Reads'
      BY <2>5, PioWriteReads
    <2> QED BY <1>4, <2>1, <2>2, <2>3, <2>4, <2>5 DEF Master
  <1>5. CASE Timers
    <2>1. CASE TC4_Handler
      <3>1. g_mode = "SERVO" /\ UNCHANGED <<g_mode, cnt>>
        BY <1>a, <2>1, OInvParts DEF TC4_Handler, CtlPart, ServoFrame, shared
      <3> QED BY <3>1, ScheduleReads
    <2> QED BY <1>5, <2>1, BenchReads, ToneReads, TC5Reads DEF Timers
  <1>6. CASE \E c \in Pads : LineChanges(c)
    BY <1>6, LineReads
  <1>7. CASE UNCHANGED vars
    <2>1. UNCHANGED <<g_mode, il, g_il_snap, cnt, line, pad, dac, pc>>
      BY <1>7 DEF vars
    <2> QED BY <2>1, ReadsFrame DEF RInv
  <1> QED BY <1>1, <1>2, <1>3, <1>4, <1>5, <1>6, <1>7 DEF Next

LEMMA RMeans == ASSUME RInv PROVE ReadsTrue
  <1>a. SType /\ CtlPart /\ Reads
    BY OInvParts DEF RInv
  <1>b. \A c \in Pads : cnt[c].n \in Nat /\ cnt[c].edges \in Nat /\ Unseen(c) \in {0, 1}
    BY <1>a DEF SType, BenchType, CntRec, Unseen
  <1>1. TypeOK
    <2>1. \A f \in DOMAIN SafeRegs : regs[f] \subseteq Chans
      <3>1. DOMAIN SafeRegs = {"out", "pu", "pd", "od", "olat"}
        BY DEF SafeRegs
      <3>2. regs \in RegsRec
        BY <1>a DEF SType, ModeType
      <3> QED BY <3>1, <3>2 DEF RegsRec
    <2>2. \A c \in Pads : cnt[c].n \in 0..MaxEdges
      <3> SUFFICES ASSUME NEW c \in Pads PROVE cnt[c].n <= MaxEdges
        BY <1>b, ModesAssumption
      <3>1. CASE g_mode = "COUNTER" /\ pc.at # "offline" /\ c \in counting
        <4>1. cnt[c].n + Unseen(c) <= cnt[c].edges /\ cnt[c].edges <= MaxEdges
          BY <1>a, <3>1 DEF Reads, CountPart
        <4> QED BY <1>b, <4>1, ModesAssumption
      <3>2. CASE ~(g_mode = "COUNTER" /\ pc.at # "offline" /\ c \in counting)
        BY <1>a, <3>2, ModesAssumption DEF Reads, CountPart
      <3> QED BY <3>1, <3>2
    <2>3. bench.sel \in Pads \cup {NoFile}
      BY <1>a DEF SType, BenchType, BenchRec
    <2>4. servo.enable \subseteq declared /\ servo.us \in [Chans -> Widths]
      BY <1>a DEF SType, ServoType, ServoRec
    <2>5. tc4.t \in 0..(FRAME - 1) /\ tc4.idx \in 0..Cardinality(Widths)
      BY <1>a DEF SType, ServoType, Tc4Rec
    <2> QED BY <1>a, <2>1, <2>2, <2>3, <2>4, <2>5
            DEF TypeOK, SType, ModeType, PadType, IlType, DacRec, IlRec, SnapRec
  <1>2. IntIsTrip
    BY <1>a DEF Reads, IntPart, IntIsTrip
  <1>3. SnapHeld
    BY <1>a DEF Reads, SnapPart, SnapHeld
  <1>4. NoPhantomEdge
    <2> SUFFICES ASSUME g_mode = "COUNTER", NEW c \in counting PROVE cnt[c].n <= cnt[c].edges
      BY DEF NoPhantomEdge
    <2>1. c \in Pads
      BY Places
    <2>2. CASE pc.at # "offline"
      <3>1. cnt[c].n + Unseen(c) <= cnt[c].edges
        BY <1>a, <2>1, <2>2 DEF Reads, CountPart
      <3> QED BY <1>b, <2>1, <3>1
    <2>3. CASE pc.at = "offline"
      BY <1>a, <1>b, <2>1, <2>3 DEF Reads, CountPart
    <2> QED BY <2>2, <2>3
  <1>5. SamplerRuns
    BY <1>a DEF Reads, AdcPart, SamplerRuns
  <1> QED BY <1>1, <1>2, <1>3, <1>4, <1>5 DEF ReadsTrue

(* What the host reads is what happened: between ticks INT and the freeze  *)
(* frame follow the trip, no edge is counted that was not on the line, and *)
(* the sampler runs, in every interleaving with the interrupts, for an     *)
(* orderly master and an interlock that does not drive the INT pad.        *)
THEOREM ReadsSafety == Orderly /\ IntApart => (Spec => []ReadsTrue)
  <1>1. ASSUME IntApart PROVE Init => RInv
    BY <1>1, RInit
  <1>2. ASSUME Orderly, IntApart PROVE RInv /\ [Next]_vars => RInv'
    BY <1>2, RNext
  <1>3. RInv => ReadsTrue
    BY RMeans
  <1>4. ASSUME Orderly, IntApart PROVE Spec => []ReadsTrue
    <2>1. RInv /\ [Next]_vars => RInv'
      BY <1>2, <1>4
    <2>2. Init => RInv
      BY <1>1, <1>4
    <2> QED BY <1>3, <2>1, <2>2, PTL DEF Spec
  <1> QED BY <1>4

-----------------------------------------------------------------------------
(* The pin table and the results of a claim.                               *)
InRec  == [pin : SiPins, mode : {"in", "adc"}]
OutRec == [pin : SiPins, ok : {0, 1}, err : {0, 1}]
ProgT  == [ins : Seq(InRec), outs : Seq(OutRec), faults : BOOLEAN]
ClaimRec == [own : SUBSET SiSlots, mode : {"unclaimed", "in", "adc", "out"}, ok : {0, 1}, err : {0, 1}]
ClaimTab == [SiPins -> ClaimRec]
ClaimRes == [ok : BOOLEAN, claims : ClaimTab]

(* A free pin is as after a reset, and an output has two levels.           *)
ClaimsOK(c) == \A p \in SiPins : /\ c[p].own = {} => c[p] = Unowned
                                 /\ c[p].mode = "out" => c[p].ok # c[p].err

(* c is c0 with claims of s added: pins of others are as they were.        *)
Fresh(c0, c, s) == \A p \in SiPins :
    /\ c[p].own \ {s} = c0[p].own
    /\ c0[p].own # {} => c[p].mode = c0[p].mode /\ c[p].ok = c0[p].ok /\ c[p].err = c0[p].err
NotOwner(c, s) == \A p \in SiPins : s \notin c[p].own

LEMMA AddInType ==
  ASSUME NEW r \in ClaimRes, NEW i \in InRec, NEW s \in SiSlots
  PROVE  AddIn(r, i, s) \in ClaimRes
  BY DEF AddIn, Claims, ClaimRes, ClaimTab, ClaimRec, InRec

LEMMA AddOutType ==
  ASSUME NEW r \in ClaimRes, NEW o \in OutRec, NEW s \in SiSlots
  PROVE  AddOut(r, o, s) \in ClaimRes
  BY DEF AddOut, Claims, Share, ClaimRes, ClaimTab, ClaimRec, OutRec

(* ClaimIns and ClaimOuts are the last values of their recursions.         *)
LEMMA InsRecursion ==
  ASSUME NEW c \in ClaimTab, NEW ins \in Seq(InRec), NEW s \in SiSlots
  PROVE  \E f : /\ f[0] = [ok |-> TRUE, claims |-> c]
                /\ \A n \in 1..Len(ins) : f[n] = AddIn(f[n - 1], ins[n], s)
                /\ ClaimIns(c, ins, s) = f[Len(ins)]
  <1> DEFINE m == Len(ins)
             base == [ok |-> TRUE, claims |-> c]
             G == [a \in ClaimRes \X (1..m) |-> AddIn(a[1], ins[a[2]], s)]
             F(f) == f = [n \in 0..Len(ins) |-> IF n = 0 THEN [ok |-> TRUE, claims |-> c]
                                                ELSE AddIn(f[n - 1], ins[n], s)]
  <1>1. base \in ClaimRes
    BY DEF ClaimRes
  <1>2. m \in Nat /\ \A i \in 1..m : ins[i] \in InRec
    OBVIOUS
  <1>3. \A x \in ClaimRes, i \in 1..m : <<x, i>> \in ClaimRes \X (1..m) /\ G[<<x, i>>] = AddIn(x, ins[i], s)
    OBVIOUS
  <1>4. \A x \in ClaimRes, i \in 1..m : G[<<x, i>>] \in ClaimRes
    BY <1>2, <1>3, AddInType
  <1> HIDE DEF base, G
  <1>5. PICK f \in [0..m -> ClaimRes] : f[0] = base /\ \A i \in 1..m : f[i] = G[<<f[i - 1], i>>]
    <2>1. StaysIn(ClaimRes, m, G)
      BY <1>4 DEF StaysIn
    <2>2. Solvable(ClaimRes, m, base, G)
      BY <1>1, <1>2, <2>1, Recursion
    <2> QED BY <2>2 DEF Solvable
  <1>6. \A i \in 1..m : i - 1 \in 0..m
    OBVIOUS
  <1>7. \A i \in 1..m : f[i] = AddIn(f[i - 1], ins[i], s)
    BY <1>3, <1>5, <1>6
  <1>8. F(f)
    <2>1. f = [n \in 0..m |-> f[n]]
      BY <1>5
    <2>2. \A n \in 0..m : n = 0 \/ n \in 1..m
      BY <1>2
    <2>3. \A n \in 0..m : f[n] = IF n = 0 THEN [ok |-> TRUE, claims |-> c] ELSE AddIn(f[n - 1], ins[n], s)
      BY <1>5, <1>7, <2>2 DEF base
    <2> QED BY <2>1, <2>3
  <1>9. PICK g : g = CHOOSE h : F(h)
    OBVIOUS
  <1>10. F(g)
    <2> HIDE DEF F
    <2> QED BY <1>8, <1>9
  <1>11. ClaimIns(c, ins, s) = g[Len(ins)]
    BY <1>9 DEF ClaimIns
  <1>12. g[0] = [ok |-> TRUE, claims |-> c] /\ \A n \in 1..m : g[n] = AddIn(g[n - 1], ins[n], s)
    <2>1. 0 \in 0..m /\ \A n \in 1..m : n \in 0..m /\ n # 0
      BY <1>2
    <2>2. \A n \in 0..m : g[n] = IF n = 0 THEN [ok |-> TRUE, claims |-> c] ELSE AddIn(g[n - 1], ins[n], s)
      BY <1>10
    <2> QED BY <2>1, <2>2
  <1> QED BY <1>11, <1>12

LEMMA OutsRecursion ==
  ASSUME NEW from \in ClaimRes, NEW outs \in Seq(OutRec), NEW s \in SiSlots
  PROVE  \E f : /\ f[0] = from
                /\ \A n \in 1..Len(outs) : f[n] = AddOut(f[n - 1], outs[n], s)
                /\ ClaimOuts(from, outs, s) = f[Len(outs)]
  <1> DEFINE m == Len(outs)
             G == [a \in ClaimRes \X (1..m) |-> AddOut(a[1], outs[a[2]], s)]
             F(f) == f = [n \in 0..Len(outs) |-> IF n = 0 THEN from ELSE AddOut(f[n - 1], outs[n], s)]
  <1>2. m \in Nat /\ \A i \in 1..m : outs[i] \in OutRec
    OBVIOUS
  <1>3. \A x \in ClaimRes, i \in 1..m : <<x, i>> \in ClaimRes \X (1..m) /\ G[<<x, i>>] = AddOut(x, outs[i], s)
    OBVIOUS
  <1>4. \A x \in ClaimRes, i \in 1..m : G[<<x, i>>] \in ClaimRes
    BY <1>2, <1>3, AddOutType
  <1> HIDE DEF G
  <1>5. PICK f \in [0..m -> ClaimRes] : f[0] = from /\ \A i \in 1..m : f[i] = G[<<f[i - 1], i>>]
    <2>1. StaysIn(ClaimRes, m, G)
      BY <1>4 DEF StaysIn
    <2>2. Solvable(ClaimRes, m, from, G)
      BY <1>2, <2>1, Recursion
    <2> QED BY <2>2 DEF Solvable
  <1>6. \A i \in 1..m : i - 1 \in 0..m
    OBVIOUS
  <1>7. \A i \in 1..m : f[i] = AddOut(f[i - 1], outs[i], s)
    BY <1>3, <1>5, <1>6
  <1>8. F(f)
    <2>1. f = [n \in 0..m |-> f[n]]
      BY <1>5
    <2>2. \A n \in 0..m : n = 0 \/ n \in 1..m
      BY <1>2
    <2>3. \A n \in 0..m : f[n] = IF n = 0 THEN from ELSE AddOut(f[n - 1], outs[n], s)
      BY <1>5, <1>7, <2>2
    <2> QED BY <2>1, <2>3
  <1>9. PICK g : g = CHOOSE h : F(h)
    OBVIOUS
  <1>10. F(g)
    <2> HIDE DEF F
    <2> QED BY <1>8, <1>9
  <1>11. ClaimOuts(from, outs, s) = g[Len(outs)]
    BY <1>9 DEF ClaimOuts
  <1>12. g[0] = from /\ \A n \in 1..m : g[n] = AddOut(g[n - 1], outs[n], s)
    <2>1. 0 \in 0..m /\ \A n \in 1..m : n \in 0..m /\ n # 0
      BY <1>2
    <2>2. \A n \in 0..m : g[n] = IF n = 0 THEN from ELSE AddOut(g[n - 1], outs[n], s)
      BY <1>10
    <2> QED BY <2>1, <2>2
  <1> QED BY <1>11, <1>12


-----------------------------------------------------------------------------
(* One claim keeps the table consistent and the pins of others as they     *)
(* were, and a claim that succeeds makes s an owner of that pin alone.     *)
InAdded(c0, r, i, s, q) ==
    /\ q \in ClaimRes /\ ClaimsOK(q.claims) /\ Fresh(c0, q.claims, s)
    /\ q.ok => r.ok /\ \A p \in SiPins : s \in q.claims[p].own <=> s \in r.claims[p].own \/ p = i.pin
OutAdded(c0, r, o, s, q) ==
    /\ q \in ClaimRes /\ ClaimsOK(q.claims) /\ Fresh(c0, q.claims, s)
    /\ q.ok => /\ r.ok
               /\ \A p \in SiPins : s \in q.claims[p].own <=> s \in r.claims[p].own \/ p = o.pin
               /\ q.claims[o.pin].mode = "out" /\ q.claims[o.pin].ok = o.ok /\ q.claims[o.pin].err = o.err
               /\ \A p \in SiPins : r.claims[p].own # {} /\ r.claims[p].mode = "out" =>
                     /\ q.claims[p].mode = "out"
                     /\ q.claims[p].ok = r.claims[p].ok /\ q.claims[p].err = r.claims[p].err

LEMMA AddInStep ==
  ASSUME NEW c0 \in ClaimTab, NEW r \in ClaimRes, NEW i \in InRec, NEW s \in SiSlots,
         ClaimsOK(c0), NotOwner(c0, s), ClaimsOK(r.claims), Fresh(c0, r.claims, s)
  PROVE  InAdded(c0, r, i, s, AddIn(r, i, s))
  <1> DEFINE q == AddIn(r, i, s)
             new == [own |-> {s}, mode |-> i.mode, ok |-> 0, err |-> 0]
  <1>1. q \in ClaimRes
    BY AddInType
  <1>2. i.pin \in SiPins /\ i.mode \in {"in", "adc"} /\ r.claims \in ClaimTab
    BY DEF InRec, ClaimRes
  <1>3. CASE q = [r EXCEPT !.ok = FALSE]
    <2>1. q.claims = r.claims /\ q.ok = FALSE
      BY <1>3 DEF ClaimRes
    <2> HIDE DEF q
    <2>2. InAdded(c0, r, i, s, q)
      BY <2>1, <1>1 DEF InAdded
    <2> QED BY <2>2 DEF q
  <1>4. CASE q = [r EXCEPT !.claims[i.pin] = new] /\ r.ok /\ Usable(r.claims[i.pin], s)
    <2>1. q.ok = r.ok /\ q.claims = [r.claims EXCEPT ![i.pin] = new]
      BY <1>4 DEF ClaimRes
    <2>2. \A p \in SiPins : q.claims[p] = IF p = i.pin THEN new ELSE r.claims[p]
      BY <2>1, <1>2 DEF ClaimTab
    <2> HIDE DEF q
    <2>3. c0[i.pin].own = {}
      BY <1>2, <1>4 DEF Fresh, Usable, NotOwner
    <2>4. ClaimsOK(q.claims)
      BY <2>2, <1>2 DEF ClaimsOK
    <2>5. Fresh(c0, q.claims, s)
      BY <2>2, <2>3, <1>2 DEF Fresh
    <2>6. \A p \in SiPins : s \in q.claims[p].own <=> s \in r.claims[p].own \/ p = i.pin
      BY <2>2, <1>2
    <2>7. InAdded(c0, r, i, s, q)
      BY <1>1, <1>4, <2>1, <2>4, <2>5, <2>6 DEF InAdded
    <2> QED BY <2>7 DEF q
  <1>6. \/ q = [r EXCEPT !.ok = FALSE]
        \/ q = [r EXCEPT !.claims[i.pin] = new] /\ r.ok /\ Usable(r.claims[i.pin], s)
    BY DEF AddIn, Claims, ClaimAdc, ClaimIn
  <1> QED BY <1>3, <1>4, <1>6

LEMMA AddOutStep ==
  ASSUME NEW c0 \in ClaimTab, NEW r \in ClaimRes, NEW o \in OutRec, NEW s \in SiSlots,
         ClaimsOK(c0), NotOwner(c0, s), ClaimsOK(r.claims), Fresh(c0, r.claims, s)
  PROVE  OutAdded(c0, r, o, s, AddOut(r, o, s))
  <1> DEFINE q == AddOut(r, o, s)
             old == r.claims[o.pin]
             new == [own |-> old.own \cup {s}, mode |-> "out", ok |-> o.ok, err |-> o.err]
  <1>1. q \in ClaimRes
    BY AddOutType
  <1>2. o.pin \in SiPins /\ o.ok \in {0, 1} /\ o.err \in {0, 1} /\ r.claims \in ClaimTab /\ old \in ClaimRec
    BY DEF OutRec, ClaimRes, ClaimTab
  <1>3. CASE q = [r EXCEPT !.ok = FALSE]
    <2>1. q.claims = r.claims /\ q.ok = FALSE
      BY <1>3 DEF ClaimRes
    <2> HIDE DEF q
    <2>2. OutAdded(c0, r, o, s, q)
      BY <2>1, <1>1 DEF OutAdded
    <2> QED BY <2>2 DEF q
  <1>4. CASE q = [r EXCEPT !.claims[o.pin] = new] /\ r.ok /\ ClaimOut(r.claims, o, s)
    <2>1. q.ok = r.ok /\ q.claims = [r.claims EXCEPT ![o.pin] = new]
      BY <1>4 DEF ClaimRes
    <2>2. \A p \in SiPins : q.claims[p] = IF p = o.pin THEN new ELSE r.claims[p]
      BY <2>1, <1>2 DEF ClaimTab
    <2>3. o.ok # o.err /\ (old.own # {} => old.mode = "out" /\ old.ok = o.ok /\ old.err = o.err)
      <3>1. old.ok \in {0, 1} /\ old.err \in {0, 1}
        BY <1>2 DEF ClaimRec
      <3>2. old.mode = "out" => old.ok # old.err
        BY <1>2 DEF ClaimsOK
      <3>3. o.ok # o.err /\ (old.own # {} => old.mode = "out" /\ old.ok = o.ok)
        BY <1>4 DEF ClaimOut
      <3> QED BY <3>1, <3>2, <3>3, <1>2
    <2> HIDE DEF q
    <2>4. ClaimsOK(q.claims)
      BY <2>2, <2>3, <1>2 DEF ClaimsOK
    <2>5. Fresh(c0, q.claims, s)
      <3> SUFFICES ASSUME NEW p \in SiPins
                   PROVE  /\ q.claims[p].own \ {s} = c0[p].own
                          /\ c0[p].own # {} => /\ q.claims[p].mode = c0[p].mode
                                               /\ q.claims[p].ok = c0[p].ok /\ q.claims[p].err = c0[p].err
        BY DEF Fresh
      <3>1. CASE p # o.pin
        BY <3>1, <2>2 DEF Fresh
      <3>2. CASE p = o.pin
        <4>1. old.own \ {s} = c0[p].own
          BY <3>2 DEF Fresh
        <4>2. (old.own \cup {s}) \ {s} = c0[p].own
          BY <4>1
        <4>3. c0[p].own # {} => /\ old.own # {} /\ old.mode = c0[p].mode
                                /\ old.ok = c0[p].ok /\ old.err = c0[p].err
          BY <3>2, <4>1 DEF Fresh
        <4>4. q.claims[p] = new
          BY <3>2, <2>2
        <4> QED BY <4>2, <4>3, <4>4, <2>3
      <3> QED BY <3>1, <3>2
    <2>6. \A p \in SiPins : s \in q.claims[p].own <=> s \in r.claims[p].own \/ p = o.pin
      BY <2>2, <1>2
    <2>7. q.claims[o.pin].mode = "out" /\ q.claims[o.pin].ok = o.ok /\ q.claims[o.pin].err = o.err
      BY <2>2, <1>2
    <2>8. \A p \in SiPins : r.claims[p].own # {} /\ r.claims[p].mode = "out" =>
                          /\ q.claims[p].mode = "out"
                          /\ q.claims[p].ok = r.claims[p].ok /\ q.claims[p].err = r.claims[p].err
      BY <2>2, <2>3, <1>2
    <2>9. OutAdded(c0, r, o, s, q)
      BY <1>1, <1>4, <2>1, <2>4, <2>5, <2>6, <2>7, <2>8 DEF OutAdded
    <2> QED BY <2>9 DEF q
  <1>5. \/ q = [r EXCEPT !.ok = FALSE]
        \/ q = [r EXCEPT !.claims[o.pin] = new] /\ r.ok /\ ClaimOut(r.claims, o, s)
    BY DEF AddOut, Claims, Share
  <1> QED BY <1>3, <1>4, <1>5

(* What the inputs claim.                                                  *)
LEMMA InsClaim ==
  ASSUME NEW c0 \in ClaimTab, NEW ins \in Seq(InRec), NEW s \in SiSlots, ClaimsOK(c0), NotOwner(c0, s)
  PROVE  LET q == ClaimIns(c0, ins, s) IN
         /\ q \in ClaimRes /\ ClaimsOK(q.claims) /\ Fresh(c0, q.claims, s)
         /\ q.ok => \A p \in SiPins : s \in q.claims[p].own <=> \E i \in DOMAIN ins : ins[i].pin = p
  <1>1. PICK f : /\ f[0] = [ok |-> TRUE, claims |-> c0]
                 /\ \A n \in 1..Len(ins) : f[n] = AddIn(f[n - 1], ins[n], s)
                 /\ ClaimIns(c0, ins, s) = f[Len(ins)]
    BY InsRecursion
  <1> DEFINE J(n) == /\ f[n] \in ClaimRes /\ ClaimsOK(f[n].claims) /\ Fresh(c0, f[n].claims, s)
                     /\ f[n].ok => \A p \in SiPins : s \in f[n].claims[p].own <=> \E i \in 1..n : ins[i].pin = p
             S == {n \in Nat : n <= Len(ins) => J(n)}
  <1>2. J(0)
    <2>1. f[0] \in ClaimRes /\ f[0].claims = c0
      BY <1>1 DEF ClaimRes
    <2>2. Fresh(c0, c0, s)
      BY DEF Fresh, NotOwner
    <2>3. \A p \in SiPins : ~(s \in c0[p].own) /\ ~\E i \in 1..0 : ins[i].pin = p
      BY DEF NotOwner
    <2> QED BY <2>1, <2>2, <2>3
  <1>3. ASSUME NEW n \in Nat, n + 1 <= Len(ins), J(n) PROVE J(n + 1)
    <2>1. n + 1 \in 1..Len(ins) /\ ins[n + 1] \in InRec /\ (n + 1) - 1 = n
      BY <1>3
    <2>2. f[n + 1] = AddIn(f[n], ins[n + 1], s)
      BY <2>1, <1>1
    <2>3. InAdded(c0, f[n], ins[n + 1], s, f[n + 1])
      BY <2>1, <2>2, <1>3, AddInStep
    <2>4. \A p : (\E i \in 1..(n + 1) : ins[i].pin = p) <=> (\E i \in 1..n : ins[i].pin = p) \/ p = ins[n + 1].pin
      <3>1. 1..(n + 1) = (1..n) \cup {n + 1}
        OBVIOUS
      <3> QED BY <3>1
    <2> QED BY <1>3, <2>3, <2>4 DEF InAdded
  <1>4. J(Len(ins))
    <2> HIDE DEF J
    <2>1. 0 \in S /\ \A n \in Nat : n \in S => n + 1 \in S
      BY <1>2, <1>3
    <2>2. Nat \subseteq S
      <3> HIDE DEF S
      <3> QED BY <2>1, Ind
    <2>3. Len(ins) \in S
      BY <2>2
    <2> QED BY <2>3
  <1>5. DOMAIN ins = 1..Len(ins)
    OBVIOUS
  <1> QED BY <1>1, <1>4, <1>5


(* What the outputs claim: every output of the program has the levels the  *)
(* program gives it.                                                       *)
Agrees(c, o) == c[o.pin].mode = "out" /\ c[o.pin].ok = o.ok /\ c[o.pin].err = o.err
Claimed(c0, c, prog, s) ==
    /\ c \in ClaimTab /\ ClaimsOK(c) /\ Fresh(c0, c, s)
    /\ \A p \in SiPins : s \in c[p].own <=> UsesPin(prog, p)
    /\ \A i \in DOMAIN prog.outs : Agrees(c, prog.outs[i])

LEMMA OutsClaim ==
  ASSUME NEW c0 \in ClaimTab, NEW from \in ClaimRes, NEW outs \in Seq(OutRec), NEW s \in SiSlots,
         ClaimsOK(c0), NotOwner(c0, s), ClaimsOK(from.claims), Fresh(c0, from.claims, s)
  PROVE  /\ ClaimOuts(from, outs, s) \in ClaimRes
         /\ ClaimsOK(ClaimOuts(from, outs, s).claims) /\ Fresh(c0, ClaimOuts(from, outs, s).claims, s)
         /\ ClaimOuts(from, outs, s).ok =>
               /\ from.ok
               /\ \A p \in SiPins : s \in ClaimOuts(from, outs, s).claims[p].own <=>
                     s \in from.claims[p].own \/ \E i \in DOMAIN outs : outs[i].pin = p
               /\ \A i \in DOMAIN outs : Agrees(ClaimOuts(from, outs, s).claims, outs[i])
  <1>1. PICK f : /\ f[0] = from
                 /\ \A n \in 1..Len(outs) : f[n] = AddOut(f[n - 1], outs[n], s)
                 /\ ClaimOuts(from, outs, s) = f[Len(outs)]
    BY OutsRecursion
  <1> DEFINE J(n) == /\ f[n] \in ClaimRes /\ ClaimsOK(f[n].claims) /\ Fresh(c0, f[n].claims, s)
                     /\ f[n].ok =>
                          /\ from.ok
                          /\ \A p \in SiPins : s \in f[n].claims[p].own <=>
                                s \in from.claims[p].own \/ \E i \in 1..n : outs[i].pin = p
                          /\ \A i \in 1..n : Agrees(f[n].claims, outs[i])
             S == {n \in Nat : n <= Len(outs) => J(n)}
  <1>2. J(0)
    BY <1>1
  <1>3. ASSUME NEW n \in Nat, n + 1 <= Len(outs), J(n) PROVE J(n + 1)
    <2>1. n + 1 \in 1..Len(outs) /\ outs[n + 1] \in OutRec /\ (n + 1) - 1 = n
      BY <1>3
    <2>2. f[n + 1] = AddOut(f[n], outs[n + 1], s)
      BY <2>1, <1>1
    <2>3. OutAdded(c0, f[n], outs[n + 1], s, f[n + 1])
      BY <2>1, <2>2, <1>3, AddOutStep
    <2>4. 1..(n + 1) = (1..n) \cup {n + 1}
      OBVIOUS
    <2>5. \A p : (\E i \in 1..(n + 1) : outs[i].pin = p) <=> (\E i \in 1..n : outs[i].pin = p) \/ p = outs[n + 1].pin
      BY <2>4
    <2>6. ASSUME f[n + 1].ok PROVE \A i \in 1..(n + 1) : Agrees(f[n + 1].claims, outs[i])
      <3>1. Agrees(f[n + 1].claims, outs[n + 1])
        BY <2>3, <2>6 DEF OutAdded, Agrees
      <3>2. ASSUME NEW i \in 1..n PROVE Agrees(f[n + 1].claims, outs[i])
        <4>0. i \in 1..Len(outs) /\ outs[i] \in OutRec
          BY <1>3
        <4>1. i \in 1..Len(outs) /\ outs[i].pin \in SiPins
          BY <4>0 DEF OutRec
        <4>2. f[n].ok
          BY <2>3, <2>6 DEF OutAdded
        <4>3. s \in f[n].claims[outs[i].pin].own /\ Agrees(f[n].claims, outs[i])
          BY <4>1, <4>2, <1>3
        <4> QED BY <4>1, <4>3, <2>3, <2>6 DEF OutAdded, Agrees
      <3> QED BY <2>4, <3>1, <3>2
    <2>7. f[n + 1].ok => from.ok /\ \A p \in SiPins : s \in f[n + 1].claims[p].own <=>
                                s \in from.claims[p].own \/ \E i \in 1..(n + 1) : outs[i].pin = p
      <3> SUFFICES ASSUME f[n + 1].ok
                   PROVE  from.ok /\ \A p \in SiPins : s \in f[n + 1].claims[p].own <=>
                                s \in from.claims[p].own \/ \E i \in 1..(n + 1) : outs[i].pin = p
        OBVIOUS
      <3>1. f[n].ok /\ \A p \in SiPins : s \in f[n + 1].claims[p].own <=> s \in f[n].claims[p].own \/ p = outs[n + 1].pin
        BY <2>3 DEF OutAdded
      <3>2. from.ok /\ \A p \in SiPins : s \in f[n].claims[p].own <=>
                                s \in from.claims[p].own \/ \E i \in 1..n : outs[i].pin = p
        BY <1>3, <3>1
      <3> QED BY <3>1, <3>2, <2>5
    <2> QED BY <2>3, <2>6, <2>7 DEF OutAdded
  <1>4. J(Len(outs))
    <2> HIDE DEF J
    <2>1. 0 \in S /\ \A n \in Nat : n \in S => n + 1 \in S
      BY <1>2, <1>3
    <2>2. Nat \subseteq S
      <3> HIDE DEF S
      <3> QED BY <2>1, Ind
    <2>3. Len(outs) \in S
      BY <2>2
    <2> QED BY <2>3
  <1>5. DOMAIN outs = 1..Len(outs)
    OBVIOUS
  <1> QED BY <1>1, <1>4, <1>5

(* Releasing s undoes whatever s had claimed.                              *)
LEMMA ReleaseUndoes ==
  ASSUME NEW c0 \in ClaimTab, NEW c \in ClaimTab, NEW s \in SiSlots, ClaimsOK(c0), NotOwner(c0, s), Fresh(c0, c, s)
  PROVE  ReleaseSlot(c, s) = c0
  <1>1. ASSUME NEW p \in SiPins PROVE Without(c[p], s) = c0[p]
    <2>1. c[p] \in ClaimRec /\ c0[p] \in ClaimRec /\ c[p].own \ {s} = c0[p].own
      BY DEF ClaimTab, Fresh
    <2>2. CASE c[p].own \subseteq {s}
      BY <2>1, <2>2 DEF Without, ClaimsOK
    <2>3. CASE ~(c[p].own \subseteq {s})
      <3>1. c0[p].own # {}
        BY <2>1, <2>3
      <3>2. c[p].mode = c0[p].mode /\ c[p].ok = c0[p].ok /\ c[p].err = c0[p].err
        BY <3>1 DEF Fresh
      <3>3. Without(c[p], s) = [c[p] EXCEPT !.own = c[p].own \ {s}]
        BY <2>3 DEF Without
      <3> QED BY <3>2, <3>3, <2>1 DEF ClaimRec
    <2> QED BY <2>2, <2>3
  <1> QED BY <1>1 DEF ReleaseSlot, ClaimTab

(* claim_inst_pins is all or nothing.                                      *)
LEMMA ClaimInst ==
  ASSUME NEW c0 \in ClaimTab, NEW prog \in ProgT, NEW s \in SiSlots, ClaimsOK(c0), NotOwner(c0, s)
  PROVE  /\ ClaimInstPins(c0, prog, s).ok \in BOOLEAN
         /\ ClaimInstPins(c0, prog, s).ok => Claimed(c0, ClaimInstPins(c0, prog, s).claims, prog, s)
         /\ ~ClaimInstPins(c0, prog, s).ok => ClaimInstPins(c0, prog, s).claims = c0
  <1> DEFINE a == ClaimIns(c0, prog.ins, s)
             b == ClaimOuts(a, prog.outs, s)
  <1>1. prog.ins \in Seq(InRec) /\ prog.outs \in Seq(OutRec)
    BY DEF ProgT
  <1>2. /\ a \in ClaimRes /\ ClaimsOK(a.claims) /\ Fresh(c0, a.claims, s)
        /\ a.ok => \A p \in SiPins : s \in a.claims[p].own <=> \E i \in DOMAIN prog.ins : prog.ins[i].pin = p
    BY <1>1, InsClaim
  <1> HIDE DEF a
  <1>3. /\ b \in ClaimRes /\ ClaimsOK(b.claims) /\ Fresh(c0, b.claims, s)
        /\ b.ok => /\ a.ok
                   /\ \A p \in SiPins : s \in b.claims[p].own <=>
                          s \in a.claims[p].own \/ \E i \in DOMAIN prog.outs : prog.outs[i].pin = p
                   /\ \A i \in DOMAIN prog.outs : Agrees(b.claims, prog.outs[i])
    BY <1>1, <1>2, OutsClaim
  <1> HIDE DEF b
  <1>4. ClaimInstPins(c0, prog, s) = Rollback(b, s)
    BY DEF ClaimInstPins, a, b
  <1>5. b.claims \in ClaimTab /\ b.ok \in BOOLEAN
    BY <1>3 DEF ClaimRes
  <1>6. CASE b.ok
    <2>1. Rollback(b, s) = b
      BY <1>6 DEF Rollback
    <2>2. Claimed(c0, b.claims, prog, s)
      BY <1>2, <1>3, <1>5, <1>6 DEF Claimed, UsesPin
    <2> QED BY <1>4, <1>5, <1>6, <2>1, <2>2
  <1>7. CASE ~b.ok
    <2>1. Rollback(b, s) = [b EXCEPT !.claims = ReleaseSlot(b.claims, s)]
      BY <1>7 DEF Rollback
    <2>2. Rollback(b, s) = [b EXCEPT !.claims = c0]
      BY <2>1, <1>3, <1>5, ReleaseUndoes
    <2>3. Rollback(b, s).ok = b.ok /\ Rollback(b, s).claims = c0
      BY <2>2, <1>3 DEF ClaimRes
    <2> QED BY <1>4, <1>5, <1>7, <2>3
  <1> QED BY <1>6, <1>7

-----------------------------------------------------------------------------
(* The table says what the programs h of the slots say.                    *)
TableOK(c, h) ==
    /\ c \in ClaimTab /\ ClaimsOK(c)
    /\ \A p \in SiPins, s \in SiSlots : s \in c[p].own <=> UsesPin(h[s], p)
    /\ \A s \in SiSlots : \A i \in DOMAIN h[s].outs : Agrees(c, h[s].outs[i])

LEMMA NoProgramType == NoProgram \in ProgT /\ DOMAIN NoProgram.outs = {} /\ \A p : ~UsesPin(NoProgram, p)
  BY DEF NoProgram, ProgT, UsesPin

LEMMA OutPin ==
  ASSUME NEW prog \in ProgT, NEW i \in DOMAIN prog.outs
  PROVE  prog.outs[i] \in OutRec /\ prog.outs[i].pin \in SiPins /\ prog.outs[i].err \in {0, 1}
  <1>1. prog.outs \in Seq(OutRec)
    BY DEF ProgT
  <1>2. prog.outs[i] \in OutRec
    BY <1>1
  <1> QED BY <1>2 DEF OutRec

LEMMA EmptyTable == TableOK([p \in SiPins |-> Unowned], [s \in SiSlots |-> NoProgram])
  <1>1. Unowned \in ClaimRec /\ Unowned.own = {} /\ Unowned.mode = "unclaimed"
    BY DEF Unowned, ClaimRec
  <1> QED BY <1>1, NoProgramType DEF TableOK, ClaimTab, ClaimsOK

LEMMA ClaimTable ==
  ASSUME NEW c, NEW h \in [SiSlots -> ProgT], TableOK(c, h), NEW s \in SiSlots, h[s] = NoProgram, NEW prog \in ProgT
  PROVE  /\ ClaimInstPins(c, prog, s).ok \in BOOLEAN
         /\ ClaimInstPins(c, prog, s).ok => TableOK(ClaimInstPins(c, prog, s).claims, [h EXCEPT ![s] = prog])
         /\ ~ClaimInstPins(c, prog, s).ok => ClaimInstPins(c, prog, s).claims = c
  <1>1. c \in ClaimTab /\ ClaimsOK(c) /\ NotOwner(c, s)
    BY NoProgramType DEF TableOK, NotOwner
  <1>2. ASSUME NEW d, Claimed(c, d, prog, s) PROVE TableOK(d, [h EXCEPT ![s] = prog])
    <2> DEFINE g == [h EXCEPT ![s] = prog]
    <2>1. g[s] = prog /\ \A t \in SiSlots \ {s} : g[t] = h[t]
      OBVIOUS
    <2> HIDE DEF g
    <2>2. d \in ClaimTab /\ ClaimsOK(d)
      BY <1>2 DEF Claimed
    <2>3. ASSUME NEW p \in SiPins, NEW t \in SiSlots PROVE t \in d[p].own <=> UsesPin(g[t], p)
      <3>1. CASE t = s
        BY <3>1, <2>1, <1>2 DEF Claimed
      <3>2. CASE t # s
        <4>1. t \in d[p].own <=> t \in c[p].own
          BY <3>2, <1>2 DEF Claimed, Fresh
        <4> QED BY <4>1, <3>2, <2>1 DEF TableOK
      <3> QED BY <3>1, <3>2
    <2>4. ASSUME NEW t \in SiSlots, NEW i \in DOMAIN g[t].outs PROVE Agrees(d, g[t].outs[i])
      <3>1. CASE t = s
        BY <3>1, <2>1, <2>4, <1>2 DEF Claimed
      <3>2. CASE t # s
        <4>1. g[t] = h[t] /\ h[t] \in ProgT
          BY <3>2, <2>1
        <4>2. h[t].outs[i].pin \in SiPins
          BY <4>1, <2>4, OutPin
        <4>3. UsesPin(h[t], h[t].outs[i].pin)
          BY <4>1, <2>4 DEF UsesPin
        <4>4. c[h[t].outs[i].pin].own # {} /\ Agrees(c, h[t].outs[i])
          BY <4>1, <4>2, <4>3, <2>4 DEF TableOK
        <4>5. Fresh(c, d, s)
          BY <1>2 DEF Claimed
        <4>6. LET q == h[t].outs[i].pin IN d[q].mode = c[q].mode /\ d[q].ok = c[q].ok /\ d[q].err = c[q].err
          BY <4>2, <4>4, <4>5 DEF Fresh
        <4>7. Agrees(d, h[t].outs[i])
          BY <4>4, <4>6 DEF Agrees
        <4> QED BY <4>1, <4>7
      <3> QED BY <3>1, <3>2
    <2>5. TableOK(d, g)
      BY <2>2, <2>3, <2>4 DEF TableOK
    <2> QED BY <2>5 DEF g
  <1> QED BY <1>1, <1>2, ClaimInst

LEMMA ReleaseTable ==
  ASSUME NEW c, NEW h \in [SiSlots -> ProgT], TableOK(c, h), NEW s \in SiSlots
  PROVE  TableOK(ReleaseSlot(c, s), [h EXCEPT ![s] = NoProgram])
  <1> DEFINE d == ReleaseSlot(c, s)
             g == [h EXCEPT ![s] = NoProgram]
  <1>1. g[s] = NoProgram /\ \A t \in SiSlots \ {s} : g[t] = h[t]
    OBVIOUS
  <1>2. \A p \in SiPins : d[p] = Without(c[p], s)
    BY DEF ReleaseSlot
  <1>3. d = [p \in SiPins |-> d[p]]
    BY DEF ReleaseSlot
  <1> HIDE DEF d, g
  <1>4. ASSUME NEW p \in SiPins
        PROVE  /\ d[p] \in ClaimRec /\ d[p].own = c[p].own \ {s}
               /\ d[p].own = {} => d[p] = Unowned
               /\ d[p].mode = "out" => d[p].ok # d[p].err
               /\ d[p].own # {} => d[p].mode = c[p].mode /\ d[p].ok = c[p].ok /\ d[p].err = c[p].err
    <2>1. c[p] \in ClaimRec /\ (c[p].mode = "out" => c[p].ok # c[p].err) /\ d[p] = Without(c[p], s)
      BY <1>2 DEF TableOK, ClaimTab, ClaimsOK
    <2>2. CASE c[p].own \subseteq {s}
      <3>1. d[p] = Unowned
        BY <2>1, <2>2 DEF Without
      <3>2. Unowned \in ClaimRec /\ Unowned.own = {} /\ Unowned.mode = "unclaimed"
        BY DEF Unowned, ClaimRec
      <3> QED BY <2>2, <3>1, <3>2
    <2>3. CASE ~(c[p].own \subseteq {s})
      <3>1. d[p] = [c[p] EXCEPT !.own = c[p].own \ {s}]
        BY <2>1, <2>3 DEF Without
      <3> QED BY <2>1, <2>3, <3>1 DEF ClaimRec
    <2> QED BY <2>2, <2>3
  <1>5. d \in ClaimTab /\ ClaimsOK(d)
    BY <1>3, <1>4 DEF ClaimTab, ClaimsOK
  <1>6. ASSUME NEW p \in SiPins, NEW t \in SiSlots PROVE t \in d[p].own <=> UsesPin(g[t], p)
    BY <1>1, <1>4, NoProgramType DEF TableOK
  <1>7. ASSUME NEW t \in SiSlots, NEW i \in DOMAIN g[t].outs PROVE Agrees(d, g[t].outs[i])
    <2>1. t # s
      BY <1>1, <1>7, NoProgramType
    <2>2. g[t] = h[t] /\ h[t] \in ProgT
      BY <2>1, <1>1
    <2>3. h[t].outs[i].pin \in SiPins
      BY <2>2, <1>7, OutPin
    <2>4. UsesPin(h[t], h[t].outs[i].pin)
      BY <2>2, <1>7 DEF UsesPin
    <2>5. t \in d[h[t].outs[i].pin].own /\ Agrees(c, h[t].outs[i])
      BY <2>1, <2>2, <2>3, <2>4, <1>4, <1>7 DEF TableOK
    <2> QED BY <2>2, <2>3, <2>5, <1>4 DEF Agrees
  <1>8. TableOK(d, g)
    BY <1>5, <1>6, <1>7 DEF TableOK
  <1> QED BY <1>8 DEF d, g


-----------------------------------------------------------------------------
(* The inductive invariant.                                                *)
SlotRec == [state : {"EMPTY", "ARMED", "POISONED"}, id : {"NONE", "NOOP", "DSL"}, bc : 0..SiMaxBoots]
SiTypes ==
    /\ siSlot \in [SiSlots -> SlotRec] /\ siText \in [SiSlots -> ProgT] /\ siKept \in [SiSlots -> ProgT]
    /\ siTf \in [SiSlots -> {"UNEVALUATED", "TRUE", "FALSE"}]
    /\ siOut \in [SiPins -> {0, 1}] /\ siPc \in {"decide", "restore", "run"}
    /\ siMagic \in BOOLEAN /\ siTorn \in BOOLEAN
    /\ siBudget \in [cmds : Nat, resets : Nat, faults : Nat]

(* The stores still to come, and what those made have left in the slot.    *)
W(k, s, prog, id) == [kind |-> k, s |-> s, prog |-> prog, id |-> id]
Written(s, prog) == siText[s] = prog /\ siTf[s] = "UNEVALUATED"
PendDsl(s, prog) ==
    \/ /\ siPend = <<W("text", s, prog, "DSL"), W("state", s, prog, "DSL"), W("id", s, prog, "DSL")>>
       /\ ~SiArmed(s)
    \/ /\ siPend = <<W("state", s, prog, "DSL"), W("id", s, prog, "DSL")>>
       /\ ~SiArmed(s) /\ Written(s, prog)
    \/ /\ siPend = <<W("id", s, prog, "DSL")>>
       /\ SiArmed(s) /\ Written(s, prog)
PendNoop(s) ==
    \/ /\ siPend = <<W("state", s, NoProgram, "NOOP"), W("id", s, NoProgram, "NOOP"), W("text", s, NoProgram, "NOOP")>>
       /\ ~SiArmed(s)
    \/ /\ siPend = <<W("id", s, NoProgram, "NOOP"), W("text", s, NoProgram, "NOOP")>>
       /\ SiArmed(s)
    \/ /\ siPend = <<W("text", s, NoProgram, "NOOP")>>
       /\ SiArmed(s) /\ siSlot[s].id = "NOOP"
PendInv == \/ siPend = << >>
           \/ /\ siPc = "run" /\ siBudget.faults = 0
              /\ \E s \in SiSlots : siKept[s] = NoProgram /\ (PendNoop(s) \/ \E prog \in ProgT : PendDsl(s, prog))

(* The program whose pins a slot holds: while a command is still storing,  *)
(* that of the command.                                                    *)
Busy(s) == siPend # << >> /\ Head(siPend).s = s
Holding == [s \in SiSlots |-> IF Busy(s) THEN Head(siPend).prog
                              ELSE IF s \in Programmed THEN siText[s] ELSE NoProgram]
TableInv == siPc = "run" => TableOK(siClaims, Holding)
RamInv == siPc # "run" => siPend = << >> /\ siClaims = [p \in SiPins |-> Unowned]
FalseInv == siPc = "run" => \A s \in Programmed : ~Busy(s) /\ siTf[s] = "FALSE" =>
                \A o \in DOMAIN siText[s].outs : siOut[siText[s].outs[o].pin] = siText[s].outs[o].err
KeptInv == /\ ~siMagic => siPc = "decide" /\ \A s \in SiSlots : siKept[s] = NoProgram
           /\ ~siTorn => \A s \in SiSlots : siKept[s] # NoProgram =>
                             siSlot[s].state \in {"ARMED", "POISONED"} /\ siText[s] = siKept[s]
           /\ siPc = "decide" /\ HalfArmed => siTorn
FaultInv == /\ siBudget.faults <= SiMaxBoots + 1
            /\ \A s \in SiSlots : SiArmed(s) =>
                   siSlot[s].bc >= IF siPc = "decide" THEN siBudget.faults - 1 ELSE siBudget.faults
SiInv == SiTypes /\ PendInv /\ TableInv /\ RamInv /\ FalseInv /\ KeptInv /\ FaultInv


-----------------------------------------------------------------------------
LEMMA ReleaseType ==
  ASSUME NEW c \in ClaimTab, NEW s \in SiSlots
  PROVE  ReleaseSlot(c, s) \in ClaimTab
  <1>1. ASSUME NEW p \in SiPins PROVE Without(c[p], s) \in ClaimRec
    <2>1. c[p] \in ClaimRec
      BY DEF ClaimTab
    <2> QED BY <2>1 DEF Without, Unowned, ClaimRec
  <1> QED BY <1>1 DEF ReleaseSlot, ClaimTab

LEMMA ClaimInstType ==
  ASSUME NEW c \in ClaimTab, NEW prog \in ProgT, NEW s \in SiSlots
  PROVE  ClaimInstPins(c, prog, s) \in ClaimRes
  <1> DEFINE a == ClaimIns(c, prog.ins, s)
             b == ClaimOuts(a, prog.outs, s)
  <1>1. prog.ins \in Seq(InRec) /\ prog.outs \in Seq(OutRec)
    BY DEF ProgT
  <1>2. a \in ClaimRes
    <2>1. PICK f : /\ f[0] = [ok |-> TRUE, claims |-> c]
                   /\ \A n \in 1..Len(prog.ins) : f[n] = AddIn(f[n - 1], prog.ins[n], s)
                   /\ a = f[Len(prog.ins)]
      BY <1>1, InsRecursion
    <2>2. f[0] \in ClaimRes
      BY <2>1 DEF ClaimRes
    <2>3. \A n \in 1..Len(prog.ins) : prog.ins[n] \in InRec
      BY <1>1
    <2>4. \A n \in 1..Len(prog.ins) : f[n - 1] \in ClaimRes => f[n] \in ClaimRes
      BY <2>1, <2>3, AddInType
    <2>5. Len(prog.ins) \in Nat
      BY <1>1
    <2> QED BY <2>1, <2>2, <2>4, <2>5, StaysInside
  <1> HIDE DEF a
  <1>3. b \in ClaimRes
    <2>1. PICK f : /\ f[0] = a
                   /\ \A n \in 1..Len(prog.outs) : f[n] = AddOut(f[n - 1], prog.outs[n], s)
                   /\ b = f[Len(prog.outs)]
      BY <1>1, <1>2, OutsRecursion
    <2>3. \A n \in 1..Len(prog.outs) : prog.outs[n] \in OutRec
      BY <1>1
    <2>4. \A n \in 1..Len(prog.outs) : f[n - 1] \in ClaimRes => f[n] \in ClaimRes
      BY <2>1, <2>3, AddOutType
    <2>5. Len(prog.outs) \in Nat
      BY <1>1
    <2> QED BY <1>2, <2>1, <2>4, <2>5, StaysInside
  <1> HIDE DEF b
  <1>4. ClaimInstPins(c, prog, s) = Rollback(b, s)
    BY DEF ClaimInstPins, a, b
  <1>5. ReleaseSlot(b.claims, s) \in ClaimTab
    BY <1>3, ReleaseType DEF ClaimRes
  <1> QED BY <1>3, <1>4, <1>5 DEF Rollback, ClaimRes

(* interlock_warm_restore claims for every program it does not poison.     *)
RestoreRes == [claims : ClaimTab, poison : SUBSET SiSlots]
LEMMA RestoreRecursion ==
  ASSUME SiTypes, siClaims \in ClaimTab
  PROVE  \E f : /\ f[0] = [claims |-> siClaims, poison |-> {}]
                /\ \A n \in 1..Cardinality(SiSlots) : f[n] = RestoreSlot(f[n - 1], n - 1)
                /\ Restoring = f[Cardinality(SiSlots)]
  <1> DEFINE m == Cardinality(SiSlots)
             base == [claims |-> siClaims, poison |-> {}]
             G == [a \in RestoreRes \X (1..m) |-> RestoreSlot(a[1], a[2] - 1)]
             F(f) == f = [n \in 0..Cardinality(SiSlots) |-> IF n = 0 THEN [claims |-> siClaims, poison |-> {}]
                                                            ELSE RestoreSlot(f[n - 1], n - 1)]
  <1>1. m \in Nat
    BY SamdInterlockAssumption, FS_CardinalityType
  <1>2. base \in RestoreRes
    BY DEF RestoreRes
  <1>3. \A x \in RestoreRes, i \in 1..m : <<x, i>> \in RestoreRes \X (1..m) /\ G[<<x, i>>] = RestoreSlot(x, i - 1)
    OBVIOUS
  <1>4. \A x \in RestoreRes, i \in 1..m : RestoreSlot(x, i - 1) \in RestoreRes
    <2> SUFFICES ASSUME NEW x \in RestoreRes, NEW i \in 1..m PROVE RestoreSlot(x, i - 1) \in RestoreRes
      OBVIOUS
    <2>1. x.claims \in ClaimTab /\ x.poison \in SUBSET SiSlots
      BY DEF RestoreRes
    <2>2. CASE i - 1 \notin Programmed
      BY <2>2 DEF RestoreSlot
    <2>3. CASE i - 1 \in Programmed
      <3>1. i - 1 \in SiSlots /\ siText[i - 1] \in ProgT
        BY <2>3 DEF Programmed, SiTypes
      <3>2. ClaimInstPins(x.claims, siText[i - 1], i - 1).claims \in ClaimTab
        BY <3>1, <2>1, ClaimInstType DEF ClaimRes
      <3> QED BY <2>1, <2>3, <3>1, <3>2 DEF RestoreSlot, RestoreRes
    <2> QED BY <2>2, <2>3
  <1> HIDE DEF base, G
  <1>5. PICK f \in [0..m -> RestoreRes] : f[0] = base /\ \A i \in 1..m : f[i] = G[<<f[i - 1], i>>]
    <2>1. StaysIn(RestoreRes, m, G)
      BY <1>3, <1>4 DEF StaysIn
    <2>2. Solvable(RestoreRes, m, base, G)
      BY <1>1, <1>2, <2>1, Recursion
    <2> QED BY <2>2 DEF Solvable
  <1>6. \A i \in 1..m : i - 1 \in 0..m
    BY <1>1
  <1>7. \A i \in 1..m : f[i] = RestoreSlot(f[i - 1], i - 1)
    BY <1>3, <1>5, <1>6
  <1>8. F(f)
    <2>1. f = [n \in 0..m |-> f[n]]
      BY <1>5
    <2>2. \A n \in 0..m : n = 0 \/ n \in 1..m
      BY <1>1
    <2>3. \A n \in 0..m : f[n] = IF n = 0 THEN [claims |-> siClaims, poison |-> {}] ELSE RestoreSlot(f[n - 1], n - 1)
      BY <1>5, <1>7, <2>2 DEF base
    <2> QED BY <2>1, <2>3
  <1>9. PICK g : g = CHOOSE h : F(h)
    OBVIOUS
  <1>10. F(g)
    <2> HIDE DEF F
    <2> QED BY <1>8, <1>9
  <1>11. Restoring = g[Cardinality(SiSlots)]
    BY <1>9 DEF Restoring
  <1>12. g[0] = [claims |-> siClaims, poison |-> {}] /\ \A n \in 1..m : g[n] = RestoreSlot(g[n - 1], n - 1)
    <2>1. 0 \in 0..m /\ \A n \in 1..m : n \in 0..m /\ n # 0
      BY <1>1
    <2>2. \A n \in 0..m : g[n] = IF n = 0 THEN [claims |-> siClaims, poison |-> {}] ELSE RestoreSlot(g[n - 1], n - 1)
      BY <1>10
    <2> QED BY <2>1, <2>2
  <1> QED BY <1>11, <1>12

LEMMA RestoreTable ==
  ASSUME SiTypes, siClaims = [p \in SiPins |-> Unowned]
  PROVE  /\ Restoring.poison \subseteq Programmed
         /\ TableOK(Restoring.claims, [s \in SiSlots |-> IF s \in Programmed \ Restoring.poison THEN siText[s] ELSE NoProgram])
  <1>1. TableOK(siClaims, [s \in SiSlots |-> NoProgram])
    BY EmptyTable
  <1>2. PICK f : /\ f[0] = [claims |-> siClaims, poison |-> {}]
                 /\ \A n \in 1..Cardinality(SiSlots) : f[n] = RestoreSlot(f[n - 1], n - 1)
                 /\ Restoring = f[Cardinality(SiSlots)]
    BY <1>1, RestoreRecursion DEF TableOK
  <1> DEFINE m == Cardinality(SiSlots)
             h(n, q) == [s \in SiSlots |-> IF s < n /\ s \in Programmed \ q THEN siText[s] ELSE NoProgram]
             J(n) == f[n].poison \subseteq Programmed /\ f[n].poison \subseteq 0..(n - 1) /\ TableOK(f[n].claims, h(n, f[n].poison))
             S == {n \in Nat : n <= m => J(n)}
  <1>3. m \in Nat /\ SiSlots = 0..(m - 1)
    BY SamdInterlockAssumption, FS_CardinalityType
  <1>4. J(0)
    <2>1. \A s \in SiSlots : ~(s < 0)
      BY <1>3
    <2>2. h(0, {}) = [s \in SiSlots |-> NoProgram]
      BY <2>1
    <2>3. f[0].poison = {} /\ f[0].claims = siClaims
      BY <1>2
    <2> HIDE DEF h
    <2> QED BY <1>1, <2>2, <2>3
  <1>5. ASSUME NEW n \in Nat, n + 1 <= m, J(n) PROVE J(n + 1)
    <2> DEFINE c == ClaimInstPins(f[n].claims, siText[n], n)
               g == h(n, f[n].poison)
    <2>1. n \in SiSlots /\ n + 1 \in 1..m /\ (n + 1) - 1 = n /\ siText[n] \in ProgT
      BY <1>3, <1>5 DEF SiTypes
    <2>2. f[n + 1] = RestoreSlot(f[n], n)
      BY <2>1, <1>2
    <2>3. g \in [SiSlots -> ProgT] /\ g[n] = NoProgram
      BY <2>1, <1>3, NoProgramType DEF SiTypes
    <2>4. \A s \in SiSlots : s < n + 1 <=> s < n \/ s = n
      BY <1>3
    <2>5. CASE n \notin Programmed
      <3>1. f[n + 1] = f[n]
        BY <2>2, <2>5 DEF RestoreSlot
      <3>2. h(n + 1, f[n].poison) = g
        BY <2>4, <2>5
      <3>3. 0..(n - 1) \subseteq 0..((n + 1) - 1)
        OBVIOUS
      <3> HIDE DEF h, g
      <3> QED BY <1>5, <3>1, <3>2, <3>3 DEF g
    <2>6. CASE n \in Programmed
      <3>1. /\ c.ok \in BOOLEAN /\ (~c.ok => c.claims = f[n].claims)
            /\ c.ok => TableOK(c.claims, [g EXCEPT ![n] = siText[n]])
        <4> HIDE DEF g
        <4>1. TableOK(f[n].claims, g)
          BY <1>5 DEF g
        <4> QED BY <2>1, <2>3, <4>1, ClaimTable
      <3>2. f[n + 1] = [claims |-> c.claims, poison |-> IF c.ok THEN f[n].poison ELSE f[n].poison \cup {n}]
        BY <2>2, <2>6 DEF RestoreSlot
      <3>3. n \notin f[n].poison
        BY <1>5
      <3> HIDE DEF c
      <3>4. CASE c.ok
        <4>1. h(n + 1, f[n].poison) = [g EXCEPT ![n] = siText[n]]
          BY <2>4, <2>6, <3>3, <2>1
        <4>2. f[n + 1].claims = c.claims /\ f[n + 1].poison = f[n].poison
          BY <3>2, <3>4
        <4>3. 0..(n - 1) \subseteq 0..((n + 1) - 1)
          OBVIOUS
        <4> HIDE DEF h, g
        <4> QED BY <1>5, <3>1, <3>4, <4>1, <4>2, <4>3
      <3>5. CASE ~c.ok
        <4>1. h(n + 1, f[n].poison \cup {n}) = g
          BY <2>4, <1>3
        <4>2. f[n + 1].claims = f[n].claims /\ f[n + 1].poison = f[n].poison \cup {n}
          BY <3>1, <3>2, <3>5
        <4>3. 0..(n - 1) \subseteq 0..((n + 1) - 1) /\ n \in 0..((n + 1) - 1)
          OBVIOUS
        <4> HIDE DEF h, g
        <4>4. TableOK(f[n + 1].claims, h(n + 1, f[n + 1].poison))
          BY <1>5, <4>1, <4>2 DEF g
        <4> QED BY <1>5, <2>6, <4>2, <4>3, <4>4
      <3> QED BY <3>1, <3>4, <3>5
    <2> QED BY <2>5, <2>6
  <1>6. J(m)
    <2> HIDE DEF J
    <2>1. 0 \in S /\ \A n \in Nat : n \in S => n + 1 \in S
      BY <1>3, <1>4, <1>5
    <2>2. Nat \subseteq S
      <3> HIDE DEF S
      <3> QED BY <2>1, Ind
    <2> QED BY <1>3, <2>2
  <1>7. h(m, Restoring.poison) = [s \in SiSlots |-> IF s \in Programmed \ Restoring.poison THEN siText[s] ELSE NoProgram]
    BY <1>3
  <1> HIDE DEF h
  <1> QED BY <1>2, <1>6, <1>7


-----------------------------------------------------------------------------
LEMMA ProgramsTyped == SiPrograms \subseteq ProgT
  BY SamdInterlockAssumption DEF ProgT, InRec, OutRec

Idle == [s \in SiSlots |-> IF s \in Programmed THEN siText[s] ELSE NoProgram]
LEMMA HoldingIdle == ASSUME siPend = << >> PROVE Holding = Idle
  BY DEF Holding, Busy, Idle
LEMMA IdleType == ASSUME SiTypes PROVE Idle \in [SiSlots -> ProgT]
  BY NoProgramType DEF Idle, SiTypes

LEMMA SiInitInv == ASSUME SiInit PROVE SiInv
  <1> USE DEF SiInit
  <1>1. SiTypes
    <2>1. siBudget \in [cmds : Nat, resets : Nat, faults : Nat]
      BY SamdInterlockAssumption
    <2>2. EmptySlot \in SlotRec
      BY SamdInterlockAssumption DEF EmptySlot, SlotRec
    <2>3. siSlot \in [SiSlots -> SlotRec] /\ siText \in [SiSlots -> ProgT] /\ siKept \in [SiSlots -> ProgT]
      BY <2>2, NoProgramType
    <2> QED BY <2>1, <2>3 DEF SiTypes
  <1>2. \A s \in SiSlots : ~SiArmed(s)
    BY DEF SiArmed, EmptySlot
  <1>3. KeptInv
    BY <1>2 DEF KeptInv, HalfArmed
  <1>4. FaultInv
    BY <1>2, SamdInterlockAssumption DEF FaultInv
  <1> QED BY <1>1, <1>3, <1>4 DEF SiInv, PendInv, TableInv, RamInv, FalseInv

(* interlock_boot_decide                                                   *)
LEMMA BootDecideStep == ASSUME SiInv, SiBootDecide PROVE SiInv'
  <1> USE DEF SiBootDecide
  <1>1. SiTypes /\ siPend = << >> /\ RamInv /\ KeptInv /\ FaultInv
    BY DEF SiInv, RamInv
  <1>2. ASSUME NEW s \in SiSlots
        PROVE  /\ BootBump(siSlot[s]) \in SlotRec
               /\ BootBump(siSlot[s]).state \in {"ARMED", "POISONED"} <=> siSlot[s].state \in {"ARMED", "POISONED"}
               /\ BootBump(siSlot[s]).state = "ARMED" => SiArmed(s) /\ BootBump(siSlot[s]).bc = siSlot[s].bc + 1
    <2>1. siSlot[s] \in SlotRec
      BY <1>1 DEF SiTypes
    <2> QED BY <2>1, SamdInterlockAssumption DEF BootBump, SlotRec, SiArmed
  <1>3. EmptySlot \in SlotRec /\ EmptySlot.state = "EMPTY"
    BY SamdInterlockAssumption DEF EmptySlot, SlotRec
  <1>4. siSlot' \in [SiSlots -> SlotRec]
    BY <1>2, <1>3 DEF ColdInit
  <1>5. SiTypes'
    BY <1>1, <1>4, NoProgramType DEF SiTypes
  <1>6. CASE PersistOk
    <2>1. \A s \in SiSlots : siSlot'[s] = BootBump(siSlot[s])
      BY <1>6
    <2>2. KeptInv'
      BY <1>1, <1>2, <2>1, <1>6 DEF KeptInv
    <2>3. FaultInv'
      <3>1. ASSUME NEW s \in SiSlots, SiArmed(s)' PROVE siSlot'[s].bc >= siBudget.faults
        <4>1. SiArmed(s) /\ siSlot'[s].bc = siSlot[s].bc + 1
          BY <2>1, <1>2, <3>1 DEF SiArmed
        <4>2. siSlot[s].bc >= siBudget.faults - 1 /\ siSlot[s].bc \in Nat /\ siBudget.faults \in Nat
          BY <4>1, <1>1 DEF FaultInv, SiTypes, SlotRec
        <4> QED BY <4>1, <4>2
      <3> QED BY <1>1, <3>1 DEF FaultInv
    <2> QED BY <1>1, <1>5, <2>2, <2>3 DEF SiInv, PendInv, TableInv, RamInv, FalseInv
  <1>7. CASE ~PersistOk
    <2>1. \A s \in SiSlots : siSlot'[s] = EmptySlot
      BY <1>7 DEF ColdInit
    <2>2. siTorn \/ \A s \in SiSlots : siKept[s] = NoProgram
      BY <1>1, <1>7 DEF KeptInv, PersistOk, HalfArmed
    <2>3. KeptInv'
      BY <2>2 DEF KeptInv
    <2>4. FaultInv'
      BY <1>1, <1>3, <2>1 DEF FaultInv, SiArmed
    <2> QED BY <1>1, <1>5, <2>3, <2>4 DEF SiInv, PendInv, TableInv, RamInv, FalseInv
  <1> QED BY <1>6, <1>7

(* interlock_warm_restore                                                  *)
LEMMA WarmRestoreStep == ASSUME SiInv, SiWarmRestore PROVE SiInv'
  <1> USE DEF SiWarmRestore, RestoredFrom
  <1> DEFINE r == Restoring
  <1>1. SiTypes /\ siPend = << >> /\ siClaims = [p \in SiPins |-> Unowned] /\ KeptInv /\ FaultInv
    BY DEF SiInv, RamInv
  <1>2. /\ r.poison \subseteq Programmed
        /\ TableOK(r.claims, [s \in SiSlots |-> IF s \in Programmed \ r.poison THEN siText[s] ELSE NoProgram])
    BY <1>1, RestoreTable
  <1> HIDE DEF r
  <1>3. siClaims' = r.claims /\ siPc' = "run" /\ siPend' = << >>
    BY <1>1 DEF r
  <1>4. \A s \in SiSlots : siSlot'[s] = IF s \in r.poison THEN [siSlot[s] EXCEPT !.state = "POISONED"] ELSE siSlot[s]
    BY DEF r
  <1>5. siTf' = [s \in SiSlots |-> TfRestored(s, r)]
    BY DEF r
  <1>6. ASSUME NEW s \in SiSlots
        PROVE  /\ siSlot'[s] \in SlotRec /\ siSlot'[s].bc = siSlot[s].bc /\ siSlot'[s].id = siSlot[s].id
               /\ siSlot'[s].state = IF s \in r.poison THEN "POISONED" ELSE siSlot[s].state
    <2>1. siSlot[s] \in SlotRec
      BY <1>1 DEF SiTypes
    <2> QED BY <1>4, <2>1 DEF SlotRec
  <1>7. Programmed' = Programmed \ r.poison /\ \A s \in SiSlots : SiArmed(s)' => SiArmed(s)
    <2>1. \A s \in SiSlots : SiArmed(s)' <=> SiArmed(s) /\ s \notin r.poison
      <3> SUFFICES ASSUME NEW s \in SiSlots PROVE SiArmed(s)' <=> SiArmed(s) /\ s \notin r.poison
        OBVIOUS
      <3>1. siSlot'[s].state = IF s \in r.poison THEN "POISONED" ELSE siSlot[s].state
        BY <1>6
      <3>2. SiArmed(s)' <=> siSlot'[s].state = "ARMED"
        BY DEF SiArmed
      <3> QED BY <3>1, <3>2 DEF SiArmed
    <2>2. Programmed' = {s \in SiSlots : SiArmed(s)' /\ siSlot'[s].id = "DSL"}
      BY DEF Programmed, SiArmed
    <2> QED BY <1>6, <2>1, <2>2 DEF Programmed
  <1>8. SiTypes'
    <2>1. siSlot' \in [SiSlots -> SlotRec]
      <3>1. siSlot' = [s \in SiSlots |-> siSlot'[s]]
        OBVIOUS
      <3> QED BY <3>1, <1>6
    <2>2. siTf' \in [SiSlots -> {"UNEVALUATED", "TRUE", "FALSE"}]
      BY <1>1, <1>5 DEF TfRestored, SiTypes
    <2> QED BY <1>1, <2>1, <2>2 DEF SiTypes
  <1>9. TableInv'
    <2>1. Holding' = [s \in SiSlots |-> IF s \in Programmed' THEN siText[s] ELSE NoProgram]
      BY <1>3 DEF Holding, Busy
    <2> QED BY <2>1, <1>2, <1>3, <1>7 DEF TableInv
  <1>10. FalseInv'
    <2>1. ASSUME NEW s \in Programmed' PROVE siTf'[s] = "UNEVALUATED"
      BY <2>1, <1>5, <1>7 DEF TfRestored, Programmed
    <2> QED BY <2>1 DEF FalseInv
  <1>11. KeptInv'
    BY <1>1, <1>6, <1>2, <1>3 DEF KeptInv, SiArmed, Programmed
  <1>12. FaultInv'
    BY <1>1, <1>3, <1>6, <1>7 DEF FaultInv
  <1> QED BY <1>3, <1>8, <1>9, <1>10, <1>11, <1>12 DEF SiInv, PendInv, RamInv


(* A reset: what is in RAM goes, what is in .noinit stays.                 *)
LEMMA LoseRamStep ==
  ASSUME SiInv, LoseRam, UNCHANGED <<siPersist, siTf, siKept>>, siPc # "decide",
         siBudget' \in [cmds : Nat, resets : Nat, faults : Nat],
         siBudget'.faults \in {siBudget.faults, siBudget.faults + 1}, siBudget'.faults <= SiMaxBoots + 1
  PROVE  SiInv'
  <1> USE DEF LoseRam, siPersist
  <1>1. SiTypes /\ KeptInv /\ FaultInv
    BY DEF SiInv
  <1>2. SiTypes'
    BY <1>1 DEF SiTypes
  <1>3. KeptInv'
    BY <1>1 DEF KeptInv, HalfArmed, SiArmed
  <1>4. FaultInv'
    <2>1. ASSUME NEW s \in SiSlots, SiArmed(s)' PROVE siSlot'[s].bc >= siBudget'.faults - 1
      <3>1. siSlot[s].bc >= siBudget.faults /\ siSlot[s].bc \in Nat /\ siBudget.faults \in Nat
        BY <1>1, <2>1 DEF FaultInv, SiArmed, SiTypes, SlotRec
      <3> QED BY <3>1
    <2> QED BY <2>1 DEF FaultInv
  <1> QED BY <1>2, <1>3, <1>4 DEF SiInv, PendInv, TableInv, RamInv, FalseInv

LEMMA HardFaultStep == ASSUME SiInv, HardFault PROVE SiInv'
  <1> USE DEF HardFault
  <1>1. siBudget \in [cmds : Nat, resets : Nat, faults : Nat]
    BY DEF SiInv, SiTypes
  <1>2. siBudget' \in [cmds : Nat, resets : Nat, faults : Nat] /\ siBudget'.faults = siBudget.faults + 1
    BY <1>1
  <1>3. PICK s \in SiSlots : SiArmed(s)
    BY DEF Faulting, Programmed
  <1>4. siSlot[s].bc >= siBudget.faults /\ siSlot[s].bc \in 0..SiMaxBoots
    BY <1>3 DEF SiInv, FaultInv, SiTypes, SlotRec
  <1>5. siBudget'.faults <= SiMaxBoots + 1
    BY <1>1, <1>2, <1>4, SamdInterlockAssumption
  <1> QED BY <1>2, <1>5, LoseRamStep

LEMMA WarmResetStep == ASSUME SiInv, WarmResetSi PROVE SiInv'
  <1> USE DEF WarmResetSi
  <1>1. siBudget \in [cmds : Nat, resets : Nat, faults : Nat] /\ siBudget.faults <= SiMaxBoots + 1
    BY DEF SiInv, SiTypes, FaultInv
  <1>2. siBudget' \in [cmds : Nat, resets : Nat, faults : Nat] /\ siBudget'.faults = siBudget.faults
    BY <1>1
  <1> QED BY <1>1, <1>2, LoseRamStep

(* interlock_tick_all                                                      *)
LEMMA TickAllStep == ASSUME SiInv, SiTickAll PROVE SiInv'
  <1> USE DEF SiTickAll, siPersist
  <1>1. SiTypes /\ PendInv /\ TableInv /\ RamInv /\ FalseInv /\ KeptInv /\ FaultInv /\ siPc = "run" /\ siPend = << >>
    BY DEF SiInv
  <1>2. PICK F \in SUBSET Programmed : siTf' = [s \in SiSlots |-> TfAfter(s, F)] /\ siOut' = SiDriven(F)
    OBVIOUS
  <1>3. TableOK(siClaims, Idle) /\ siClaims \in ClaimTab
    BY <1>1, HoldingIdle DEF TableInv, TableOK
  <1>4. SiTypes'
    <2>1. siTf' \in [SiSlots -> {"UNEVALUATED", "TRUE", "FALSE"}]
      BY <1>1, <1>2 DEF TfAfter, SiTypes
    <2>2. siOut' \in [SiPins -> {0, 1}]
      <3>1. \A p \in SiPins : siClaims[p].ok \in {0, 1} /\ siClaims[p].err \in {0, 1} /\ siOut[p] \in {0, 1}
        BY <1>1, <1>3 DEF ClaimTab, ClaimRec, SiTypes
      <3> QED BY <1>2, <3>1 DEF SiDriven
    <2> QED BY <1>1, <2>1, <2>2 DEF SiTypes
  <1>5. Programmed' = Programmed
    BY DEF Programmed, SiArmed
  <1>6. TableInv'
    <2>1. Holding' = Holding
      BY <1>5 DEF Holding, Busy
    <2> QED BY <1>1, <2>1 DEF TableInv
  <1>7. FalseInv'
    <2>1. ASSUME NEW s \in Programmed, siTf'[s] = "FALSE", NEW o \in DOMAIN siText[s].outs
          PROVE  siOut'[siText[s].outs[o].pin] = siText[s].outs[o].err
      <3>1. s \in SiSlots /\ SiArmed(s) /\ siText[s] \in ProgT /\ Idle[s] = siText[s]
        BY <1>1 DEF Programmed, SiTypes, Idle
      <3>2. s \in F
        BY <1>2, <2>1, <3>1 DEF TfAfter
      <3>3. siText[s].outs[o].pin \in SiPins
        BY <3>1, OutPin
      <3>4. UsesPin(siText[s], siText[s].outs[o].pin)
        BY <2>1 DEF UsesPin
      <3>5. s \in siClaims[siText[s].outs[o].pin].own /\ Agrees(siClaims, siText[s].outs[o])
        BY <1>3, <3>1, <3>3, <3>4 DEF TableOK
      <3>6. AnyVeto(siClaims[siText[s].outs[o].pin], F)
        BY <3>2, <3>5 DEF AnyVeto
      <3> QED BY <1>2, <3>3, <3>5, <3>6 DEF SiDriven, Agrees
    <2> QED BY <1>1, <1>5, <2>1 DEF FalseInv
  <1>8. KeptInv' /\ FaultInv'
    BY <1>1 DEF KeptInv, FaultInv, SiArmed
  <1> QED BY <1>1, <1>4, <1>6, <1>7, <1>8 DEF SiInv, PendInv, RamInv

(* interlock_disarm_slot                                                   *)
LEMMA CommandBudget ==
  ASSUME SiTypes, Command
  PROVE  siBudget' \in [cmds : Nat, resets : Nat, faults : Nat] /\ siBudget'.faults = 0
  <1>1. siBudget \in [cmds : Nat, resets : Nat, faults : Nat]
    BY DEF SiTypes
  <1>2. siBudget.cmds > 0 /\ siBudget' = [siBudget EXCEPT !.cmds = siBudget.cmds - 1, !.faults = 0]
    BY DEF Command
  <1>3. siBudget.cmds - 1 \in Nat
    BY <1>1, <1>2
  <1> QED BY <1>1, <1>2, <1>3

LEMMA SafeOutKeeps ==
  ASSUME SiTypes, NEW c, NEW h \in [SiSlots -> ProgT], TableOK(c, h), NEW s \in SiSlots, NEW o \in DOMAIN h[s].outs
  PROVE  SafeOut(c)[h[s].outs[o].pin] = siOut[h[s].outs[o].pin]
  <1>1. h[s] \in ProgT
    OBVIOUS
  <1>2. h[s].outs[o].pin \in SiPins
    BY <1>1, OutPin
  <1>3. UsesPin(h[s], h[s].outs[o].pin)
    BY DEF UsesPin
  <1>4. c[h[s].outs[o].pin].own # {}
    BY <1>2, <1>3 DEF TableOK
  <1> QED BY <1>2, <1>4 DEF SafeOut

LEMMA DisarmStep == ASSUME SiInv, NEW s \in SiSlots, SiDisarm(s) PROVE SiInv'
  <1> USE DEF SiDisarm
  <1>1. SiTypes /\ TableInv /\ FalseInv /\ KeptInv /\ FaultInv /\ siPc = "run" /\ siPend = << >> /\ siPend' = << >> /\ siPc' = "run"
    BY DEF SiInv, Command
  <1>2. TableOK(siClaims, Idle) /\ Idle \in [SiSlots -> ProgT]
    BY <1>1, HoldingIdle, IdleType DEF TableInv
  <1>3. siBudget' \in [cmds : Nat, resets : Nat, faults : Nat] /\ siBudget'.faults = 0
    BY <1>1, CommandBudget
  <1>4. EmptySlot \in SlotRec /\ EmptySlot.state = "EMPTY"
    BY SamdInterlockAssumption DEF EmptySlot, SlotRec
  <1>5. SiTypes'
    <2>1. siOut' \in [SiPins -> {0, 1}]
      BY <1>1 DEF SafeOut, SiTypes
    <2>2. siSlot' \in [SiSlots -> SlotRec] /\ siText' \in [SiSlots -> ProgT] /\ siKept' \in [SiSlots -> ProgT]
      BY <1>1, <1>4, NoProgramType DEF SiTypes
    <2>3. siTf' \in [SiSlots -> {"UNEVALUATED", "TRUE", "FALSE"}]
      BY <1>1 DEF SiTypes
    <2> QED BY <1>1, <1>3, <2>1, <2>2, <2>3 DEF SiTypes
  <1>6. /\ siSlot'[s] = EmptySlot /\ siKept'[s] = NoProgram
        /\ \A t \in SiSlots \ {s} : siSlot'[t] = siSlot[t] /\ siText'[t] = siText[t] /\ siTf'[t] = siTf[t] /\ siKept'[t] = siKept[t]
    BY <1>1 DEF SiTypes
  <1>7. Programmed' = Programmed \ {s} /\ \A t \in SiSlots : SiArmed(t)' => t # s /\ SiArmed(t)
    <2>1. \A t \in SiSlots : SiArmed(t)' <=> t # s /\ SiArmed(t)
      BY <1>4, <1>6 DEF SiArmed
    <2>2. Programmed' = {t \in SiSlots : SiArmed(t)' /\ siSlot'[t].id = "DSL"}
      BY DEF Programmed, SiArmed
    <2> QED BY <1>6, <2>1, <2>2 DEF Programmed
  <1>8. Holding' = [Idle EXCEPT ![s] = NoProgram]
    <2>1. Holding' = [t \in SiSlots |-> IF t \in Programmed' THEN siText'[t] ELSE NoProgram]
      BY <1>1 DEF Holding, Busy
    <2> QED BY <2>1, <1>6, <1>7 DEF Idle
  <1>9. TableOK(siClaims', Holding')
    BY <1>2, <1>8, ReleaseTable
  <1>10. FalseInv'
    <2>1. ASSUME NEW t \in Programmed', siTf'[t] = "FALSE", NEW o \in DOMAIN siText'[t].outs
          PROVE  siOut'[siText'[t].outs[o].pin] = siText'[t].outs[o].err
      <3>1. t # s /\ t \in SiSlots /\ t \in Programmed /\ siText'[t] = siText[t] /\ siTf[t] = "FALSE"
        BY <1>6, <1>7, <2>1 DEF Programmed
      <3>2. siOut[siText[t].outs[o].pin] = siText[t].outs[o].err
        BY <1>1, <2>1, <3>1 DEF FalseInv, Busy
      <3> DEFINE h == [Idle EXCEPT ![s] = NoProgram]
      <3>3. h \in [SiSlots -> ProgT] /\ h[t] = siText[t]
        BY <1>2, <3>1, NoProgramType DEF Idle
      <3>4. TableOK(siClaims', h) /\ siOut' = SafeOut(siClaims')
        BY <1>8, <1>9
      <3> HIDE DEF h
      <3>5. siOut'[siText[t].outs[o].pin] = siOut[siText[t].outs[o].pin]
        BY <1>1, <2>1, <3>1, <3>3, <3>4, SafeOutKeeps
      <3> QED BY <3>1, <3>2, <3>5
    <2> QED BY <2>1 DEF FalseInv
  <1>11. KeptInv'
    BY <1>1, <1>6 DEF KeptInv
  <1>12. FaultInv'
    <2>1. ASSUME NEW t \in SiSlots, SiArmed(t)' PROVE siSlot'[t].bc >= 0
      BY <1>5 DEF SiTypes, SlotRec
    <2> QED BY <1>1, <1>3, <2>1, SamdInterlockAssumption DEF FaultInv
  <1> QED BY <1>1, <1>5, <1>9, <1>10, <1>11, <1>12 DEF SiInv, PendInv, TableInv, RamInv


(* interlock_set_slot_dsl and interlock_arm_slot_compiled                  *)
LEMMA StoresThree ==
  ASSUME NEW s, NEW prog, NEW id, NEW a, NEW b, NEW c
  PROVE  Stores(s, prog, id, <<a, b, c>>) = <<W(a, s, prog, id), W(b, s, prog, id), W(c, s, prog, id)>>
  <1>1. DOMAIN <<a, b, c>> = 1..3
    OBVIOUS
  <1>2. Stores(s, prog, id, <<a, b, c>>) = [i \in 1..3 |-> W(<<a, b, c>>[i], s, prog, id)]
    BY <1>1 DEF Stores, W
  <1>3. \A i \in 1..3 : W(<<a, b, c>>[i], s, prog, id) = <<W(a, s, prog, id), W(b, s, prog, id), W(c, s, prog, id)>>[i]
    <2>1. \A i \in 1..3 : i = 1 \/ i = 2 \/ i = 3
      OBVIOUS
    <2> QED BY <2>1
  <1>4. <<W(a, s, prog, id), W(b, s, prog, id), W(c, s, prog, id)>>
          = [i \in 1..3 |-> <<W(a, s, prog, id), W(b, s, prog, id), W(c, s, prog, id)>>[i]]
    OBVIOUS
  <1> QED BY <1>2, <1>3, <1>4

LEMMA SetSlotStep == ASSUME SiInv, NEW s \in SiSlots, NEW prog \in SiPrograms, SetSlotDsl(s, prog) PROVE SiInv'
  <1> USE DEF SetSlotDsl, SetFrom, siPersist
  <1> DEFINE c == ClaimInstPins(siClaims, prog, s)
  <1>1. SiTypes /\ TableInv /\ FalseInv /\ KeptInv /\ FaultInv /\ siPc = "run" /\ siPend = << >> /\ siPc' = "run" /\ ~SiArmed(s)
    BY DEF SiInv, Command
  <1>2. TableOK(siClaims, Idle) /\ Idle \in [SiSlots -> ProgT] /\ Idle[s] = NoProgram
    BY <1>1, HoldingIdle, IdleType DEF TableInv, Idle, Programmed
  <1>3. siBudget' \in [cmds : Nat, resets : Nat, faults : Nat] /\ siBudget'.faults = 0
    BY <1>1, CommandBudget
  <1>4. prog \in ProgT
    BY ProgramsTyped
  <1>5. /\ c.ok \in BOOLEAN /\ (~c.ok => c.claims = siClaims)
        /\ c.ok => TableOK(c.claims, [Idle EXCEPT ![s] = prog])
    BY <1>2, <1>4, ClaimTable
  <1> HIDE DEF c
  <1>6. /\ siClaims' = c.claims /\ siOut' = SafeOut(c.claims)
        /\ c.ok => siPend' = Stores(s, prog, "DSL", <<"text", "state", "id">>) /\ siKept' = [siKept EXCEPT ![s] = NoProgram]
        /\ ~c.ok => siPend' = << >> /\ siKept' = siKept
    BY DEF c
  <1>7. SiTypes'
    <2>1. siOut' \in [SiPins -> {0, 1}]
      BY <1>1, <1>6 DEF SafeOut, SiTypes
    <2>2. siKept' \in [SiSlots -> ProgT]
      BY <1>1, <1>5, <1>6, NoProgramType DEF SiTypes
    <2> QED BY <1>1, <1>3, <2>1, <2>2 DEF SiTypes
  <1>8. Programmed' = Programmed /\ \A t \in SiSlots : SiArmed(t)' = SiArmed(t)
    BY DEF Programmed, SiArmed
  <1>9. KeptInv'
    BY <1>1, <1>5, <1>6 DEF KeptInv, SiTypes
  <1>10. FaultInv'
    <2>1. ASSUME NEW t \in SiSlots PROVE siSlot'[t].bc >= 0
      BY <1>7 DEF SiTypes, SlotRec
    <2> QED BY <1>1, <1>3, <2>1, SamdInterlockAssumption DEF FaultInv
  <1>11. ASSUME NEW h \in [SiSlots -> ProgT], TableOK(c.claims, h), \A t \in Programmed : h[t] = siText[t]
         PROVE  FalseInv'
    <2>1. ASSUME NEW t \in Programmed, siTf[t] = "FALSE", NEW o \in DOMAIN siText[t].outs
          PROVE  siOut'[siText[t].outs[o].pin] = siText[t].outs[o].err
      <3>1. t \in SiSlots /\ h[t] = siText[t]
        BY <1>11 DEF Programmed
      <3>2. siOut[siText[t].outs[o].pin] = siText[t].outs[o].err
        BY <1>1, <2>1 DEF FalseInv, Busy
      <3>3. SafeOut(c.claims)[siText[t].outs[o].pin] = siOut[siText[t].outs[o].pin]
        BY <1>1, <1>11, <2>1, <3>1, SafeOutKeeps
      <3> QED BY <1>6, <3>2, <3>3
    <2> QED BY <1>8, <2>1 DEF FalseInv
  <1>12. CASE ~c.ok
    <2>1. siPend' = << >> /\ siClaims' = siClaims
      BY <1>5, <1>6, <1>12
    <2>2. Holding' = Idle
      BY <2>1, <1>8 DEF Holding, Busy, Idle
    <2>3. TableInv'
      BY <1>2, <2>1, <2>2 DEF TableInv
    <2>4. \A t \in Programmed : Idle[t] = siText[t]
      BY DEF Idle, Programmed
    <2>5. FalseInv'
      BY <1>2, <1>6, <1>11, <2>1, <2>4
    <2> QED BY <1>1, <1>7, <1>9, <1>10, <2>1, <2>3, <2>5 DEF SiInv, PendInv, RamInv
  <1>13. CASE c.ok
    <2>1. siPend' = <<W("text", s, prog, "DSL"), W("state", s, prog, "DSL"), W("id", s, prog, "DSL")>>
      BY <1>6, <1>13, StoresThree
    <2>2. siPend' # << >> /\ Head(siPend') = W("text", s, prog, "DSL")
      BY <2>1
    <2>3. Head(siPend').s = s /\ Head(siPend').prog = prog
      BY <2>2 DEF W
    <2>4. PendInv'
      <3>1. siKept'[s] = NoProgram /\ ~SiArmed(s)'
        BY <1>1, <1>6, <1>8, <1>13 DEF SiTypes
      <3>2. PendDsl(s, prog)'
        BY <2>1, <3>1 DEF PendDsl
      <3> QED BY <1>1, <1>3, <1>4, <3>1, <3>2 DEF PendInv
    <2> DEFINE h == [Idle EXCEPT ![s] = prog]
    <2>5. Holding' = h
      <3>1. Holding' = [t \in SiSlots |-> IF t = s THEN prog ELSE IF t \in Programmed THEN siText[t] ELSE NoProgram]
        BY <1>8, <2>2, <2>3 DEF Holding, Busy
      <3> QED BY <3>1 DEF Idle
    <2>6. h \in [SiSlots -> ProgT] /\ \A t \in Programmed : h[t] = siText[t]
      <3>1. s \notin Programmed
        BY <1>1 DEF Programmed
      <3> QED BY <1>2, <1>4, <3>1 DEF Idle, Programmed
    <2> HIDE DEF h
    <2>7. TableOK(c.claims, h)
      BY <1>5, <1>13 DEF h
    <2>8. TableInv' /\ FalseInv'
      BY <1>6, <1>11, <2>5, <2>6, <2>7 DEF TableInv
    <2> QED BY <1>1, <1>7, <1>9, <1>10, <2>4, <2>8 DEF SiInv, RamInv
  <1> QED BY <1>5, <1>12, <1>13

LEMMA ArmCompiledStep == ASSUME SiInv, NEW s \in SiSlots, ArmSlotCompiled(s) PROVE SiInv'
  <1> USE DEF ArmSlotCompiled, siPersist
  <1>1. SiTypes /\ TableInv /\ FalseInv /\ KeptInv /\ FaultInv /\ siPc = "run" /\ siPend = << >> /\ siPc' = "run" /\ ~SiArmed(s)
    BY DEF SiInv, Command
  <1>2. TableOK(siClaims, Idle) /\ Idle[s] = NoProgram
    BY <1>1, HoldingIdle DEF TableInv, Idle, Programmed
  <1>3. siBudget' \in [cmds : Nat, resets : Nat, faults : Nat] /\ siBudget'.faults = 0
    BY <1>1, CommandBudget
  <1>4. SiTypes'
    <2>1. siKept' \in [SiSlots -> ProgT]
      BY <1>1, NoProgramType DEF SiTypes
    <2> QED BY <1>1, <1>3, <2>1 DEF SiTypes
  <1>5. Programmed' = Programmed /\ \A t \in SiSlots : SiArmed(t)' = SiArmed(t)
    BY DEF Programmed, SiArmed
  <1>6. siPend' = <<W("state", s, NoProgram, "NOOP"), W("id", s, NoProgram, "NOOP"), W("text", s, NoProgram, "NOOP")>>
    BY StoresThree
  <1>7. siPend' # << >> /\ Head(siPend') = W("state", s, NoProgram, "NOOP")
    BY <1>6
  <1>8. Head(siPend').s = s /\ Head(siPend').prog = NoProgram
    BY <1>7 DEF W
  <1>9. PendInv'
    <2>1. siKept'[s] = NoProgram /\ ~SiArmed(s)'
      BY <1>1, <1>5 DEF SiTypes
    <2>2. PendNoop(s)'
      BY <1>6, <2>1 DEF PendNoop
    <2> QED BY <1>1, <1>3, <2>1, <2>2 DEF PendInv
  <1>10. TableInv'
    <2>1. Holding' = [t \in SiSlots |-> IF t = s THEN NoProgram ELSE IF t \in Programmed THEN siText[t] ELSE NoProgram]
      BY <1>5, <1>7, <1>8 DEF Holding, Busy
    <2>2. Holding' = Idle
      BY <1>2, <2>1 DEF Idle
    <2> QED BY <1>2, <2>2 DEF TableInv
  <1>11. FalseInv'
    <2>1. \A t : ~Busy(t)
      BY <1>1 DEF Busy
    <2> QED BY <1>1, <1>5, <2>1 DEF FalseInv
  <1>12. KeptInv'
    BY <1>1 DEF KeptInv, SiTypes
  <1>13. FaultInv'
    <2>1. ASSUME NEW t \in SiSlots PROVE siSlot'[t].bc >= 0
      BY <1>4 DEF SiTypes, SlotRec
    <2> QED BY <1>1, <1>3, <2>1, SamdInterlockAssumption DEF FaultInv
  <1> QED BY <1>1, <1>4, <1>9, <1>10, <1>11, <1>12, <1>13 DEF SiInv, RamInv


(* A store of a running command: the rest of the slot's record is as it    *)
(* was, and the last store leaves the program the pins were claimed for.   *)
Stored(s, prog) ==
    /\ siKept[s] = NoProgram /\ prog \in ProgT
    /\ Head(siPend).s = s /\ Head(siPend).prog = prog
    /\ siSlot' \in [SiSlots -> SlotRec] /\ siText' \in [SiSlots -> ProgT]
    /\ siTf' \in [SiSlots -> {"UNEVALUATED", "TRUE", "FALSE"}]
    /\ \A t \in SiSlots \ {s} : siSlot'[t] = siSlot[t] /\ siText'[t] = siText[t] /\ siTf'[t] = siTf[t]
    /\ \/ /\ siPend' = << >> /\ siKept' = [siKept EXCEPT ![s] = prog]
          /\ SiArmed(s)'
          /\ siSlot'[s].id = "DSL" => siText'[s] = prog /\ siTf'[s] = "UNEVALUATED"
          /\ siSlot'[s].id # "DSL" => prog = NoProgram
       \/ /\ siPend' # << >> /\ Head(siPend').s = s /\ Head(siPend').prog = prog
          /\ siKept' = siKept /\ (PendNoop(s)' \/ PendDsl(s, prog)')

LEMMA StoreText ==
  ASSUME SiTypes, StoreNext, NEW s \in SiSlots, NEW prog \in ProgT, NEW id, Head(siPend) = W("text", s, prog, id)
  PROVE  /\ siSlot' = siSlot /\ siText' = [siText EXCEPT ![s] = prog] /\ siTf' = [siTf EXCEPT ![s] = "UNEVALUATED"]
         /\ Written(s, prog)'
  <1>1. siSlot' = siSlot /\ siText' = [siText EXCEPT ![s] = prog] /\ siTf' = [siTf EXCEPT ![s] = "UNEVALUATED"]
    <2>1. Head(siPend).kind = "text" /\ Head(siPend).s = s /\ Head(siPend).prog = prog /\ Head(siPend).id = id
      BY DEF W
    <2>2. /\ siText' = IF Head(siPend).kind = "text" THEN [siText EXCEPT ![Head(siPend).s] = Head(siPend).prog] ELSE siText
          /\ siTf' = IF Head(siPend).kind = "text" THEN [siTf EXCEPT ![Head(siPend).s] = "UNEVALUATED"] ELSE siTf
      BY DEF StoreNext
    <2>3. siSlot' = CASE Head(siPend).kind = "state" -> [siSlot EXCEPT ![Head(siPend).s].state = "ARMED"]
                      [] Head(siPend).kind = "id" -> [siSlot EXCEPT ![Head(siPend).s].id = Head(siPend).id, ![Head(siPend).s].bc = 0]
                      [] OTHER -> siSlot
      BY DEF StoreNext
    <2> QED BY <2>1, <2>2, <2>3
  <1> QED BY <1>1 DEF SiTypes, Written
LEMMA StoreState ==
  ASSUME SiTypes, StoreNext, NEW s \in SiSlots, NEW prog, NEW id, Head(siPend) = W("state", s, prog, id)
  PROVE  /\ siText' = siText /\ siTf' = siTf /\ siSlot' = [siSlot EXCEPT ![s].state = "ARMED"]
         /\ siSlot' \in [SiSlots -> SlotRec] /\ SiArmed(s)' /\ siSlot'[s].id = siSlot[s].id
  <1>1. siText' = siText /\ siTf' = siTf /\ siSlot' = [siSlot EXCEPT ![s].state = "ARMED"]
    <2>1. Head(siPend).kind = "state" /\ Head(siPend).s = s /\ Head(siPend).prog = prog /\ Head(siPend).id = id
      BY DEF W
    <2>2. /\ siText' = IF Head(siPend).kind = "text" THEN [siText EXCEPT ![Head(siPend).s] = Head(siPend).prog] ELSE siText
          /\ siTf' = IF Head(siPend).kind = "text" THEN [siTf EXCEPT ![Head(siPend).s] = "UNEVALUATED"] ELSE siTf
      BY DEF StoreNext
    <2>3. siSlot' = CASE Head(siPend).kind = "state" -> [siSlot EXCEPT ![Head(siPend).s].state = "ARMED"]
                      [] Head(siPend).kind = "id" -> [siSlot EXCEPT ![Head(siPend).s].id = Head(siPend).id, ![Head(siPend).s].bc = 0]
                      [] OTHER -> siSlot
      BY DEF StoreNext
    <2> QED BY <2>1, <2>2, <2>3
  <1>2. siSlot \in [SiSlots -> SlotRec]
    BY DEF SiTypes
  <1> QED BY <1>1, <1>2 DEF SlotRec, SiArmed
LEMMA StoreId ==
  ASSUME SiTypes, StoreNext, NEW s \in SiSlots, NEW prog, NEW id \in {"NOOP", "DSL"}, Head(siPend) = W("id", s, prog, id)
  PROVE  /\ siText' = siText /\ siTf' = siTf /\ siSlot' = [siSlot EXCEPT ![s].id = id, ![s].bc = 0]
         /\ siSlot' \in [SiSlots -> SlotRec] /\ (SiArmed(s)' <=> SiArmed(s)) /\ siSlot'[s].id = id
  <1>1. siText' = siText /\ siTf' = siTf /\ siSlot' = [siSlot EXCEPT ![s].id = id, ![s].bc = 0]
    <2>1. Head(siPend).kind = "id" /\ Head(siPend).s = s /\ Head(siPend).prog = prog /\ Head(siPend).id = id
      BY DEF W
    <2>2. /\ siText' = IF Head(siPend).kind = "text" THEN [siText EXCEPT ![Head(siPend).s] = Head(siPend).prog] ELSE siText
          /\ siTf' = IF Head(siPend).kind = "text" THEN [siTf EXCEPT ![Head(siPend).s] = "UNEVALUATED"] ELSE siTf
      BY DEF StoreNext
    <2>3. siSlot' = CASE Head(siPend).kind = "state" -> [siSlot EXCEPT ![Head(siPend).s].state = "ARMED"]
                      [] Head(siPend).kind = "id" -> [siSlot EXCEPT ![Head(siPend).s].id = Head(siPend).id, ![Head(siPend).s].bc = 0]
                      [] OTHER -> siSlot
      BY DEF StoreNext
    <2> QED BY <2>1, <2>2, <2>3
  <1>2. siSlot \in [SiSlots -> SlotRec] /\ 0 \in 0..SiMaxBoots
    BY SamdInterlockAssumption DEF SiTypes
  <1> QED BY <1>1, <1>2 DEF SlotRec, SiArmed

LEMMA StoreCases ==
  ASSUME SiInv, StoreNext
  PROVE  siBudget.faults = 0 /\ \E s \in SiSlots, prog \in ProgT : Stored(s, prog)
  <1>1. SiTypes /\ siPend # << >> /\ siPend' = Tail(siPend) /\ NoProgram \in ProgT
    BY NoProgramType DEF SiInv, StoreNext
  <1>2. PICK s \in SiSlots : siKept[s] = NoProgram /\ (PendNoop(s) \/ \E prog \in ProgT : PendDsl(s, prog))
    BY <1>1 DEF SiInv, PendInv
  <1>3. siBudget.faults = 0
    BY <1>1 DEF SiInv, PendInv
  <1>4. siSlot \in [SiSlots -> SlotRec] /\ siText \in [SiSlots -> ProgT] /\ siTf \in [SiSlots -> {"UNEVALUATED", "TRUE", "FALSE"}]
    BY <1>1 DEF SiTypes
  <1>5. \A a, b \in {"text", "state", "id"}, prog \in ProgT, id \in {"NOOP", "DSL"} :
           W(a, s, prog, id).s = s /\ W(a, s, prog, id).prog = prog
    BY DEF W
  <1>6. siKept' = IF Len(siPend) = 1 THEN [siKept EXCEPT ![Head(siPend).s] = Head(siPend).prog] ELSE siKept
    BY DEF StoreNext
  <1>7. ASSUME NEW prog \in ProgT, PendDsl(s, prog) PROVE Stored(s, prog)
    <2>1. CASE siPend = <<W("text", s, prog, "DSL"), W("state", s, prog, "DSL"), W("id", s, prog, "DSL")>> /\ ~SiArmed(s)
      <3>1. /\ Head(siPend) = W("text", s, prog, "DSL") /\ Len(siPend) = 3
            /\ siPend' = <<W("state", s, prog, "DSL"), W("id", s, prog, "DSL")>>
            /\ siPend' # << >> /\ Head(siPend') = W("state", s, prog, "DSL")
        BY <2>1, <1>1
      <3>2. siSlot' = siSlot /\ siText' = [siText EXCEPT ![s] = prog] /\ siTf' = [siTf EXCEPT ![s] = "UNEVALUATED"] /\ Written(s, prog)'
        BY <1>1, <3>1, StoreText
      <3>3. PendDsl(s, prog)'
        BY <2>1, <3>1, <3>2 DEF PendDsl, SiArmed
      <3> QED BY <1>2, <1>4, <1>5, <1>6, <3>1, <3>2, <3>3 DEF Stored
    <2>2. CASE siPend = <<W("state", s, prog, "DSL"), W("id", s, prog, "DSL")>> /\ ~SiArmed(s) /\ Written(s, prog)
      <3>1. /\ Head(siPend) = W("state", s, prog, "DSL") /\ Len(siPend) = 2
            /\ siPend' = <<W("id", s, prog, "DSL")>>
            /\ siPend' # << >> /\ Head(siPend') = W("id", s, prog, "DSL")
        BY <2>2, <1>1
      <3>2. siText' = siText /\ siTf' = siTf /\ siSlot' = [siSlot EXCEPT ![s].state = "ARMED"] /\ siSlot' \in [SiSlots -> SlotRec] /\ SiArmed(s)'
        BY <1>1, <3>1, StoreState
      <3>3. PendDsl(s, prog)'
        BY <2>2, <3>1, <3>2 DEF PendDsl, Written
      <3> QED BY <1>2, <1>4, <1>5, <1>6, <3>1, <3>2, <3>3 DEF Stored
    <2>3. CASE siPend = <<W("id", s, prog, "DSL")>> /\ SiArmed(s) /\ Written(s, prog)
      <3>1. Head(siPend) = W("id", s, prog, "DSL") /\ Len(siPend) = 1 /\ siPend' = << >>
        BY <2>3, <1>1
      <3>2. /\ siText' = siText /\ siTf' = siTf /\ siSlot' = [siSlot EXCEPT ![s].id = "DSL", ![s].bc = 0]
            /\ siSlot' \in [SiSlots -> SlotRec] /\ SiArmed(s)' /\ siSlot'[s].id = "DSL"
        BY <1>1, <2>3, <3>1, StoreId
      <3>3. Head(siPend).s = s /\ Head(siPend).prog = prog
        BY <3>1 DEF W
      <3>4. siKept' = [siKept EXCEPT ![s] = prog]
        BY <1>6, <3>1, <3>3
      <3>5. siText'[s] = prog /\ siTf'[s] = "UNEVALUATED"
        BY <2>3, <3>2 DEF Written
      <3>6. \A t \in SiSlots \ {s} : siSlot'[t] = siSlot[t]
        BY <1>4, <3>2
      <3> QED BY <1>2, <1>4, <3>1, <3>2, <3>3, <3>4, <3>5, <3>6 DEF Stored
    <2> QED BY <1>7, <2>1, <2>2, <2>3 DEF PendDsl
  <1>8. ASSUME PendNoop(s) PROVE Stored(s, NoProgram)
    <2> DEFINE np == NoProgram
    <2>0. np \in ProgT /\ np = NoProgram
      BY <1>1
    <2>1. CASE siPend = <<W("state", s, np, "NOOP"), W("id", s, np, "NOOP"), W("text", s, np, "NOOP")>> /\ ~SiArmed(s)
      <3>1. /\ Head(siPend) = W("state", s, np, "NOOP") /\ Len(siPend) = 3
            /\ siPend' = <<W("id", s, np, "NOOP"), W("text", s, np, "NOOP")>>
            /\ siPend' # << >> /\ Head(siPend') = W("id", s, np, "NOOP")
        BY <2>1, <1>1
      <3>2. siText' = siText /\ siTf' = siTf /\ siSlot' = [siSlot EXCEPT ![s].state = "ARMED"] /\ siSlot' \in [SiSlots -> SlotRec] /\ SiArmed(s)'
        BY <1>1, <3>1, StoreState
      <3>3. PendNoop(s)'
        BY <3>1, <3>2 DEF PendNoop
      <3> QED BY <1>2, <1>4, <1>5, <1>6, <2>0, <3>1, <3>2, <3>3 DEF Stored
    <2>2. CASE siPend = <<W("id", s, np, "NOOP"), W("text", s, np, "NOOP")>> /\ SiArmed(s)
      <3>1. /\ Head(siPend) = W("id", s, np, "NOOP") /\ Len(siPend) = 2
            /\ siPend' = <<W("text", s, np, "NOOP")>>
            /\ siPend' # << >> /\ Head(siPend') = W("text", s, np, "NOOP")
        BY <2>2, <1>1
      <3>2. /\ siText' = siText /\ siTf' = siTf /\ siSlot' = [siSlot EXCEPT ![s].id = "NOOP", ![s].bc = 0]
            /\ siSlot' \in [SiSlots -> SlotRec] /\ SiArmed(s)' /\ siSlot'[s].id = "NOOP"
        BY <1>1, <2>2, <3>1, StoreId
      <3>3. PendNoop(s)'
        BY <3>1, <3>2 DEF PendNoop
      <3> QED BY <1>2, <1>4, <1>5, <1>6, <2>0, <3>1, <3>2, <3>3 DEF Stored
    <2>3. CASE siPend = <<W("text", s, np, "NOOP")>> /\ SiArmed(s) /\ siSlot[s].id = "NOOP"
      <3>1. Head(siPend) = W("text", s, np, "NOOP") /\ Len(siPend) = 1 /\ siPend' = << >>
        BY <2>3, <1>1
      <3>2. siSlot' = siSlot /\ siText' = [siText EXCEPT ![s] = np] /\ siTf' = [siTf EXCEPT ![s] = "UNEVALUATED"]
        BY <1>1, <3>1, StoreText
      <3>3. SiArmed(s)' /\ siSlot'[s].id = "NOOP"
        BY <2>3, <3>2 DEF SiArmed
      <3>4. Head(siPend).s = s /\ Head(siPend).prog = np
        BY <3>1 DEF W
      <3>5. siKept' = [siKept EXCEPT ![s] = np]
        BY <1>6, <3>1, <3>4
      <3>6. siText' \in [SiSlots -> ProgT] /\ siTf' \in [SiSlots -> {"UNEVALUATED", "TRUE", "FALSE"}]
        BY <1>4, <2>0, <3>2
      <3> QED BY <1>2, <1>4, <2>0, <3>1, <3>2, <3>3, <3>4, <3>5, <3>6 DEF Stored
    <2> QED BY <1>8, <2>1, <2>2, <2>3 DEF PendNoop
  <1> QED BY <1>1, <1>2, <1>3, <1>7, <1>8

LEMMA StoreNextStep == ASSUME SiInv, StoreNext PROVE SiInv'
  <1>1. SiTypes /\ TableInv /\ FalseInv /\ KeptInv /\ FaultInv /\ siPc = "run" /\ siPc' = "run" /\ siPend # << >>
    BY DEF SiInv, StoreNext
  <1>2. UNCHANGED <<siMagic, siClaims, siOut, siPc, siTorn, siBudget>>
    BY DEF StoreNext
  <1>3. siBudget.faults = 0
    BY StoreCases
  <1>4. PICK s \in SiSlots, prog \in ProgT : Stored(s, prog)
    BY StoreCases
  <1>5. /\ siKept[s] = NoProgram /\ Head(siPend).s = s /\ Head(siPend).prog = prog
        /\ siSlot' \in [SiSlots -> SlotRec]
        /\ \A t \in SiSlots \ {s} : siSlot'[t] = siSlot[t] /\ siText'[t] = siText[t] /\ siTf'[t] = siTf[t]
    BY <1>4 DEF Stored
  <1>6. \/ /\ siPend' = << >> /\ siKept' = [siKept EXCEPT ![s] = prog]
           /\ SiArmed(s)'
           /\ siSlot'[s].id = "DSL" => siText'[s] = prog /\ siTf'[s] = "UNEVALUATED"
           /\ siSlot'[s].id # "DSL" => prog = NoProgram
        \/ /\ siPend' # << >> /\ Head(siPend').s = s /\ Head(siPend').prog = prog
           /\ siKept' = siKept /\ (PendNoop(s)' \/ PendDsl(s, prog)')
    BY <1>4 DEF Stored
  <1>7. SiTypes'
    <2>1. siText' \in [SiSlots -> ProgT] /\ siTf' \in [SiSlots -> {"UNEVALUATED", "TRUE", "FALSE"}] /\ siKept' \in [SiSlots -> ProgT]
      BY <1>1, <1>4, <1>6 DEF Stored, SiTypes
    <2> QED BY <1>1, <1>2, <1>5, <2>1 DEF SiTypes
  <1>8. PendInv'
    BY <1>1, <1>2, <1>3, <1>5, <1>6 DEF PendInv
  <1>9. /\ \A t \in SiSlots \ {s} : t \in Programmed' <=> t \in Programmed
        /\ \A t \in SiSlots : t \in Programmed' <=> SiArmed(t)' /\ siSlot'[t].id = "DSL"
    <2>1. Programmed' = {t \in SiSlots : SiArmed(t)' /\ siSlot'[t].id = "DSL"}
      BY DEF Programmed, SiArmed
    <2>2. \A t \in SiSlots \ {s} : SiArmed(t)' <=> SiArmed(t)
      BY <1>5 DEF SiArmed
    <2> QED BY <1>5, <2>1, <2>2 DEF Programmed
  <1>10. TableInv'
    <2>1. \A t \in SiSlots : Busy(t) <=> t = s
      BY <1>1, <1>5 DEF Busy
    <2>2. Holding = [t \in SiSlots |-> IF t = s THEN prog ELSE IF t \in Programmed THEN siText[t] ELSE NoProgram]
      BY <1>5, <2>1 DEF Holding
    <2>3. CASE siPend' = << >>
      <3>1. \A t \in SiSlots : ~Busy(t)'
        BY <2>3 DEF Busy
      <3>2. Holding' = [t \in SiSlots |-> IF t \in Programmed' THEN siText'[t] ELSE NoProgram]
        BY <3>1 DEF Holding
      <3>3. (IF s \in Programmed' THEN siText'[s] ELSE NoProgram) = prog
        BY <1>6, <1>9, <2>3
      <3>4. Holding' = Holding
        BY <1>5, <1>9, <2>2, <3>2, <3>3
      <3> QED BY <1>1, <1>2, <3>4 DEF TableInv
    <2>4. CASE siPend' # << >>
      <3>1. Head(siPend').s = s /\ Head(siPend').prog = prog
        BY <1>6, <2>4
      <3>2. \A t \in SiSlots : Busy(t)' <=> t = s
        BY <2>4, <3>1 DEF Busy
      <3>3. Holding' = [t \in SiSlots |-> IF t = s THEN prog ELSE IF t \in Programmed' THEN siText'[t] ELSE NoProgram]
        BY <3>1, <3>2 DEF Holding
      <3>4. Holding' = Holding
        BY <1>5, <1>9, <2>2, <3>3
      <3> QED BY <1>1, <1>2, <3>4 DEF TableInv
    <2> QED BY <2>3, <2>4
  <1>11. FalseInv'
    <2>1. ASSUME NEW t \in Programmed', ~Busy(t)', siTf'[t] = "FALSE", NEW o \in DOMAIN siText'[t].outs
          PROVE  siOut'[siText'[t].outs[o].pin] = siText'[t].outs[o].err
      <3>1. t \in SiSlots
        BY <2>1 DEF Programmed
      <3>2. t # s
        <4> SUFFICES ASSUME t = s PROVE FALSE
          OBVIOUS
        <4>1. siPend' = << >>
          BY <1>6, <2>1 DEF Busy
        <4> QED BY <1>6, <1>9, <2>1, <3>1, <4>1
      <3>3. t \in Programmed /\ siText'[t] = siText[t] /\ siTf[t] = "FALSE" /\ ~Busy(t)
        BY <1>5, <1>9, <2>1, <3>1, <3>2 DEF Busy
      <3> QED BY <1>1, <1>2, <2>1, <3>3 DEF FalseInv
    <2> QED BY <2>1 DEF FalseInv
  <1>12. KeptInv'
    <2>1. ASSUME ~siTorn, NEW t \in SiSlots, siKept'[t] # NoProgram
          PROVE  siSlot'[t].state \in {"ARMED", "POISONED"} /\ siText'[t] = siKept'[t]
      <3>1. CASE t # s
        <4>1. siKept'[t] = siKept[t]
          BY <1>1, <1>6, <3>1 DEF SiTypes
        <4> QED BY <1>1, <1>5, <2>1, <3>1, <4>1 DEF KeptInv
      <3>2. CASE t = s
        <4>1. siPend' = << >> /\ siKept'[s] = prog /\ prog # NoProgram
          BY <1>1, <1>5, <1>6, <2>1, <3>2 DEF SiTypes
        <4> QED BY <1>6, <3>2, <4>1 DEF SiArmed
      <3> QED BY <3>1, <3>2
    <2>2. siMagic'
      BY <1>1, <1>2 DEF KeptInv, SiTypes
    <2> QED BY <1>1, <1>2, <2>1, <2>2 DEF KeptInv
  <1>13. FaultInv'
    <2>1. ASSUME NEW t \in SiSlots PROVE siSlot'[t].bc >= 0
      BY <1>5 DEF SlotRec
    <2> QED BY <1>1, <1>2, <1>3, <2>1, SamdInterlockAssumption DEF FaultInv
  <1> QED BY <1>1, <1>7, <1>8, <1>10, <1>11, <1>12, <1>13 DEF SiInv, RamInv

-----------------------------------------------------------------------------
LEMMA SiInvSound == ASSUME SiInv PROVE ClientSound
  <1>1. SiTypes /\ TableInv /\ RamInv /\ FalseInv /\ KeptInv /\ FaultInv
    BY DEF SiInv
  <1>2. SiTypeOK
    <2>1. siClaims \in ClaimTab
      <3>1. CASE siPc = "run"
        BY <1>1, <3>1 DEF TableInv, TableOK
      <3>2. CASE siPc # "run"
        BY <1>1, <3>2, EmptyTable DEF RamInv, TableOK
      <3> QED BY <3>1, <3>2
    <2>2. \A p \in SiPins : siClaims[p].own \subseteq SiSlots /\ siOut[p] \in {0, 1}
      BY <1>1, <2>1 DEF ClaimTab, ClaimRec, SiTypes
    <2> QED BY <1>1, <2>2 DEF SiTypeOK, SiTypes, SlotRec
  <1>3. ClaimsFollowSlots
    <2> SUFFICES ASSUME siPc = "run", siPend = << >>, NEW p \in SiPins
                 PROVE  siClaims[p].own = {s \in Programmed : UsesPin(siText[s], p)}
      BY DEF ClaimsFollowSlots
    <2>1. TableOK(siClaims, Idle)
      BY <1>1, HoldingIdle DEF TableInv
    <2>2. siClaims[p].own \subseteq SiSlots
      BY <1>2 DEF SiTypeOK
    <2>3. ASSUME NEW s \in SiSlots PROVE s \in siClaims[p].own <=> s \in Programmed /\ UsesPin(siText[s], p)
      <3>1. s \in siClaims[p].own <=> UsesPin(Idle[s], p)
        BY <2>1 DEF TableOK
      <3>2. Idle[s] = IF s \in Programmed THEN siText[s] ELSE NoProgram
        BY DEF Idle
      <3> QED BY <3>1, <3>2, NoProgramType
    <2>4. Programmed \subseteq SiSlots
      BY DEF Programmed
    <2> QED BY <2>2, <2>3, <2>4
  <1>4. FalseHoldsOutputs
    BY <1>1 DEF FalseInv, FalseHoldsOutputs, Busy
  <1>5. ArmedSurvives
    BY <1>1 DEF KeptInv, ArmedSurvives
  <1>6. CrashLoopBounded
    BY <1>1 DEF FaultInv, CrashLoopBounded
  <1> QED BY <1>2, <1>3, <1>4, <1>5, <1>6 DEF ClientSound

(* For any number of slots, any pin table, any programs and any bounds:    *)
(* the client's pin table follows its slots through refused commands and   *)
(* resets, outputs of a program that said FALSE stay at their error level, *)
(* an armed program survives any reset that does not cut an arming in two, *)
(* and a faulting program resets the chip a bounded number of times.       *)
THEOREM ClientSafety == SiSpec => []ClientSound
  <1>1. SiInit => SiInv
    BY SiInitInv
  <1>2. SiInv /\ [SiNext]_siVars => SiInv'
    <2> SUFFICES ASSUME SiInv, [SiNext]_siVars PROVE SiInv'
      OBVIOUS
    <2>1. CASE UNCHANGED siVars
      <3>1. SiTypes' /\ PendInv' /\ TableInv' /\ RamInv' /\ FalseInv' /\ KeptInv' /\ FaultInv'
        BY <2>1 DEF siVars, SiInv, SiTypes, PendInv, PendDsl, PendNoop, Written, TableInv, Holding, Busy, Programmed, SiArmed, RamInv, FalseInv, KeptInv, HalfArmed, FaultInv
      <3> QED BY <3>1 DEF SiInv
    <2>2. CASE SiBoot
      BY <2>2, BootDecideStep, WarmRestoreStep DEF SiBoot
    <2>3. CASE SiRun
      BY <2>3, StoreNextStep, TickAllStep, HardFaultStep DEF SiRun
    <2>4. CASE SiHost
      BY <2>4, SetSlotStep, ArmCompiledStep, DisarmStep DEF SiHost
    <2>5. CASE WarmResetSi
      BY <2>5, WarmResetStep
    <2> QED BY <2>1, <2>2, <2>3, <2>4, <2>5 DEF SiNext
  <1>3. SiInv => ClientSound
    BY SiInvSound
  <1> QED BY <1>1, <1>2, <1>3, PTL DEF SiSpec


-----------------------------------------------------------------------------
(* The client's loop.  Frames and their bytes.                             *)
Verdicts == [state : {"EMPTY", "ARMED"}, tf : {"UNEVALUATED", "TRUE", "FALSE"}]
Views == [ClIds -> Verdicts]
Frames == {LogFrame, ReplyFrame} \cup {EventFrame(q, s, v) : q \in Nat, s \in ClIds, v \in Verdicts}
Bytes == {b \in Frames \X Nat : 1 <= b[2] /\ b[2] <= b[1].len}
Ends(b) == b[2] = b[1].len
After(a, b) == IF Ends(a) THEN b[2] = 1 ELSE b = <<a[1], a[2] + 1>>

(* No byte is missing between the first byte and the last, which ends a    *)
(* frame; the first one need not begin one.                                *)
Unbroken(w) == /\ \A i \in 1..(Len(w) - 1) : After(w[i], w[i + 1])
               /\ Len(w) > 0 => Ends(w[Len(w)])

LEMMA ClLimits ==
  /\ ClSlots \in Nat /\ ClSlots > 0 /\ TxRingSize \in Nat /\ FifoSize \in Nat /\ Chunk \in Nat
  /\ EventLen \in Nat /\ EventLen > 0 /\ ReplyLen \in Nat /\ ReplyLen > 0 /\ LogLen \in Nat /\ LogLen > 0
  /\ {ClMaxEvents, ClMaxCmds, ClMaxResets, ClMaxCloses} \subseteq Nat
  /\ SeqWidth \in Nat /\ SeqWidth > ClMaxEvents
  BY ClientLoopAssumption

LEMMA FrameFacts ==
  ASSUME NEW f \in Frames
  PROVE  /\ f.len \in Nat /\ f.len > 0
         /\ f.kind = "event" => f.seq \in Nat /\ f.slot \in ClIds /\ f.now \in Verdicts
  <1>1. CASE f \in {LogFrame, ReplyFrame}
    BY <1>1, ClLimits DEF LogFrame, ReplyFrame
  <1>2. CASE f \in {EventFrame(q, s, v) : q \in Nat, s \in ClIds, v \in Verdicts}
    <2>1. PICK q \in Nat, s \in ClIds, v \in Verdicts : f = EventFrame(q, s, v)
      BY <1>2
    <2> QED BY <2>1, ClLimits DEF EventFrame
  <1> QED BY <1>1, <1>2 DEF Frames

LEMMA TxBytesOK ==
  ASSUME NEW f \in Frames
  PROVE  /\ TxBytes(f) \in Seq(Bytes) /\ Len(TxBytes(f)) = f.len /\ f.len > 0 /\ f.len \in Nat
         /\ \A i \in 1..f.len : TxBytes(f)[i] = <<f, i>>
  <1>1. f.len \in Nat /\ f.len > 0
    BY FrameFacts
  <1>2. \A i \in 1..f.len : <<f, i>> \in Bytes
    BY <1>1 DEF Bytes
  <1>3. TxBytes(f) \in [1..f.len -> Bytes]
    BY <1>2 DEF TxBytes
  <1>4. TxBytes(f) \in Seq(Bytes) /\ Len(TxBytes(f)) = f.len
    BY <1>1, <1>3
  <1> QED BY <1>1, <1>4 DEF TxBytes

(* A frame behind an unbroken stream, and what is left of one.             *)
LEMMA JoinUnbroken ==
  ASSUME NEW w \in Seq(Bytes), NEW f \in Frames, Unbroken(w)
  PROVE  /\ w \o TxBytes(f) \in Seq(Bytes) /\ Unbroken(w \o TxBytes(f))
         /\ Len(w \o TxBytes(f)) = Len(w) + f.len
         /\ \A i \in 1..Len(w) : (w \o TxBytes(f))[i] = w[i]
         /\ \A i \in (Len(w) + 1)..(Len(w) + f.len) : (w \o TxBytes(f))[i] = <<f, i - Len(w)>>
  <1> DEFINE t == TxBytes(f)
             x == w \o t
             n == Len(w)
             L == f.len
  <1>1. t \in Seq(Bytes) /\ Len(t) = L /\ L > 0 /\ L \in Nat /\ \A i \in 1..L : t[i] = <<f, i>>
    BY TxBytesOK
  <1> HIDE DEF t
  <1>2. n \in Nat
    OBVIOUS
  <1>3. /\ x \in Seq(Bytes) /\ Len(x) = n + L
        /\ \A i \in 1..(n + L) : x[i] = IF i <= n THEN w[i] ELSE t[i - n]
    BY <1>1, ConcatProperties
  <1> HIDE DEF x, n, L
  <1>a. n \in Nat /\ L \in Nat /\ L > 0
    BY <1>1, <1>2
  <1>4. \A i \in 1..n : x[i] = w[i]
    BY <1>a, <1>3
  <1>5. \A i \in (n + 1)..(n + L) : x[i] = <<f, i - n>>
    <2> SUFFICES ASSUME NEW i \in (n + 1)..(n + L) PROVE x[i] = <<f, i - n>>
      OBVIOUS
    <2>1. i \in 1..(n + L) /\ ~(i <= n) /\ i - n \in 1..L
      BY <1>a
    <2>2. x[i] = t[i - n]
      BY <1>3, <2>1
    <2> QED BY <1>1, <2>1, <2>2
  <1>6. Unbroken(x)
    <2>1. ASSUME NEW i \in 1..(Len(x) - 1) PROVE After(x[i], x[i + 1])
      <3>1. CASE i < n
        <4>1. i \in 1..(Len(w) - 1) /\ i \in 1..n /\ i + 1 \in 1..n
          BY <1>2, <1>3, <2>1, <3>1 DEF n
        <4> QED BY <1>4, <4>1 DEF Unbroken
      <3>2. CASE i = n
        <4>1. Ends(w[n]) /\ x[i] = w[n]
          BY <1>2, <1>4, <3>2 DEF Unbroken, n
        <4>2. x[i + 1] = <<f, 1>>
          BY <1>1, <1>2, <1>5, <3>2
        <4> QED BY <4>1, <4>2 DEF After
      <3>3. CASE i > n
        <4>1. x[i] = <<f, i - n>> /\ x[i + 1] = <<f, i - n + 1>> /\ i - n # L
          <5>1. i \in (n + 1)..(n + L) /\ i + 1 \in (n + 1)..(n + L) /\ i - n # L /\ (i + 1) - n = i - n + 1
            BY <1>a, <1>3, <2>1, <3>3
          <5> QED BY <1>5, <5>1
        <4> QED BY <4>1 DEF After, Ends, L
      <3> QED BY <1>2, <3>1, <3>2, <3>3
    <2>2. Ends(x[Len(x)])
      <3>1. x[Len(x)] = <<f, L>>
        BY <1>1, <1>2, <1>3, <1>5
      <3> QED BY <3>1 DEF Ends, L
    <2> QED BY <2>1, <2>2 DEF Unbroken
  <1> QED BY <1>3, <1>4, <1>5, <1>6 DEF x, n, t, L

LEMMA SuffixUnbroken ==
  ASSUME NEW u \in Seq(Bytes), NEW w \in Seq(Bytes), Unbroken(u \o w)
  PROVE  Unbroken(w)
  <1> DEFINE x == u \o w
             n == Len(u)
  <1>1. /\ x \in Seq(Bytes) /\ Len(x) = n + Len(w) /\ n \in Nat /\ Len(w) \in Nat
        /\ \A i \in 1..(n + Len(w)) : x[i] = IF i <= n THEN u[i] ELSE w[i - n]
    BY ConcatProperties
  <1>2. Unbroken(x)
    OBVIOUS
  <1> HIDE DEF x, n
  <1>3. \A i \in 1..Len(w) : x[n + i] = w[i]
    BY <1>1
  <1>4. ASSUME NEW i \in 1..(Len(w) - 1) PROVE After(w[i], w[i + 1])
    <2>1. n + i \in 1..(Len(x) - 1) /\ i \in 1..Len(w) /\ i + 1 \in 1..Len(w) /\ n + (i + 1) = (n + i) + 1
      BY <1>1, <1>4
    <2>2. After(x[n + i], x[(n + i) + 1])
      BY <1>2, <2>1 DEF Unbroken
    <2> QED BY <1>3, <2>1, <2>2
  <1>5. Len(w) > 0 => Ends(w[Len(w)])
    <2> SUFFICES ASSUME Len(w) > 0 PROVE Ends(w[Len(w)])
      OBVIOUS
    <2>1. Len(x) > 0 /\ x[Len(x)] = w[Len(w)]
      BY <1>1, <1>3
    <2> QED BY <1>2, <2>1 DEF Unbroken
  <1> QED BY <1>4, <1>5 DEF Unbroken


(* The bytes on their way are unbroken, and the host's part of a frame is  *)
(* continued by the first of them.                                         *)
Carried(w, pt) ==
  Len(pt) > 0 => /\ Len(w) > 0 /\ pt[Len(pt)][2] < pt[Len(pt)][1].len
                 /\ w[1] = <<pt[Len(pt)][1], pt[Len(pt)][2] + 1>>
Flow(fifo, rg, pt) ==
  /\ fifo \in Seq(Bytes) /\ Len(fifo) <= FifoSize
  /\ rg \in Seq(Bytes) /\ Len(rg) <= TxRingSize
  /\ Unbroken(fifo \o rg) /\ Carried(fifo \o rg, pt)

(* V is the history of what was reported: V[n] the slots as the events up  *)
(* to number n tell them.  Every event on its way is a step of it, and a   *)
(* host without a gap is at one of its points.                             *)
Tells(f, q, V) == f.kind = "event" => f.seq \in 1..q /\ V[f.seq] = [V[f.seq - 1] EXCEPT ![f.slot] = f.now]
Told(w, q, V) == \A i \in 1..Len(w) : Tells(w[i][1], q, V)
At(h, q, V) == h.last \in 0..q /\ (~h.gap => h.view = V[h.last])
Known(w, h, q, slots) ==
  \E V \in [0..q -> Views] : /\ V[0] = [s \in ClIds |-> Nothing] /\ V[q] = slots
                             /\ Told(w, q, V) /\ At(h, q, V)

LEMMA BytesAssoc ==
  ASSUME NEW s \in Seq(Bytes), NEW t \in Seq(Bytes), NEW u \in Seq(Bytes)
  PROVE  (s \o t) \o u = s \o (t \o u)
  BY ConcatAssociative

LEMMA EncodeFlow ==
  ASSUME NEW fifo, NEW rg, NEW pt, NEW f \in Frames, Flow(fifo, rg, pt)
  PROVE  Flow(fifo, Encode(rg, f), pt)
  <1>1. CASE Encode(rg, f) = rg
    BY <1>1
  <1>2. CASE Encode(rg, f) # rg
    <2> DEFINE w == fifo \o rg
               t == TxBytes(f)
    <2>1. Encode(rg, f) = rg \o t /\ Len(rg) + f.len <= TxRingSize
      BY <1>2 DEF Encode
    <2>2. fifo \in Seq(Bytes) /\ rg \in Seq(Bytes) /\ w \in Seq(Bytes) /\ Unbroken(w) /\ Carried(w, pt)
      BY ConcatProperties DEF Flow
    <2>3. t \in Seq(Bytes) /\ Len(t) = f.len /\ f.len \in Nat
      BY TxBytesOK
    <2>4. w \o t = fifo \o (rg \o t)
      BY <2>2, <2>3, BytesAssoc, Zenon
    <2>5. /\ Unbroken(w \o t) /\ Len(w \o t) = Len(w) + f.len
          /\ \A i \in 1..Len(w) : (w \o t)[i] = w[i]
      BY <2>2, JoinUnbroken
    <2>6. rg \o t \in Seq(Bytes) /\ Len(rg \o t) = Len(rg) + f.len
      BY <2>2, <2>3, ConcatProperties
    <2> HIDE DEF w, t
    <2>7. Carried(w \o t, pt)
      <3>1. Len(w) \in Nat
        BY <2>2
      <3> QED BY <2>2, <2>3, <2>5, <3>1 DEF Carried
    <2>8. Len(rg \o t) <= TxRingSize
      BY <2>1, <2>6
    <2> QED BY <2>1, <2>2, <2>4, <2>5, <2>6, <2>7, <2>8 DEF Flow
  <1> QED BY <1>1, <1>2

(* A staged frame that tells the truth keeps what is told true.            *)
LEMMA EncodeTold ==
  ASSUME NEW fifo \in Seq(Bytes), NEW rg \in Seq(Bytes), NEW f \in Frames, NEW q, NEW V,
         Unbroken(fifo \o rg), Told(fifo \o rg, q, V), Tells(f, q, V)
  PROVE  Told(fifo \o Encode(rg, f), q, V)
  <1>1. CASE Encode(rg, f) = rg
    BY <1>1
  <1>2. CASE Encode(rg, f) # rg
    <2> DEFINE w == fifo \o rg
               t == TxBytes(f)
               L == f.len
    <2>1. Encode(rg, f) = rg \o t
      BY <1>2 DEF Encode
    <2>2. w \in Seq(Bytes) /\ Unbroken(w) /\ Len(w) \in Nat
      BY ConcatProperties
    <2>3. t \in Seq(Bytes) /\ L \in Nat
      BY TxBytesOK
    <2>4. w \o t = fifo \o (rg \o t)
      BY <2>3, BytesAssoc, Zenon
    <2>5. /\ Len(w \o t) = Len(w) + L
          /\ \A i \in 1..Len(w) : (w \o t)[i] = w[i]
          /\ \A i \in (Len(w) + 1)..(Len(w) + L) : (w \o t)[i] = <<f, i - Len(w)>>
      BY <2>2, JoinUnbroken
    <2>6. Told(w, q, V)
      OBVIOUS
    <2> HIDE DEF w, t, L
    <2>7. ASSUME NEW i \in 1..Len(w \o t) PROVE Tells((w \o t)[i][1], q, V)
      <3>1. CASE i <= Len(w)
        <4>1. i \in 1..Len(w)
          BY <2>2, <2>3, <2>5, <2>7, <3>1
        <4> QED BY <2>5, <2>6, <4>1 DEF Told
      <3>2. CASE i > Len(w)
        <4>1. i \in (Len(w) + 1)..(Len(w) + L)
          BY <2>2, <2>3, <2>5, <2>7, <3>2
        <4>2. (w \o t)[i] = <<f, i - Len(w)>>
          BY <2>5, <4>1
        <4>3. (w \o t)[i][1] = f
          BY <4>2
        <4> QED BY <4>3
      <3> QED BY <2>2, <2>3, <2>5, <2>7, <3>1, <3>2
    <2>8. Told(w \o t, q, V)
      BY <2>7 DEF Told
    <2> QED BY <2>1, <2>4, <2>8
  <1> QED BY <1>1, <1>2

LEMMA OtherFrames == /\ {LogFrame, ReplyFrame} \subseteq Frames
                     /\ \A f \in {LogFrame, ReplyFrame} : f.kind # "event"
  BY DEF Frames, LogFrame, ReplyFrame

(* A log line or a reply is staged: the history stays.                     *)
LEMMA EncodeKnown ==
  ASSUME NEW fifo, NEW rg, NEW h, NEW q, NEW slots, NEW f \in {LogFrame, ReplyFrame},
         Flow(fifo, rg, h.part), Known(fifo \o rg, h, q, slots)
  PROVE  Known(fifo \o Encode(rg, f), h, q, slots)
  <1>1. PICK V \in [0..q -> Views] : /\ V[0] = [s \in ClIds |-> Nothing] /\ V[q] = slots
                                     /\ Told(fifo \o rg, q, V) /\ At(h, q, V)
    BY DEF Known
  <1>2. f \in Frames /\ Tells(f, q, V)
    BY OtherFrames DEF Tells
  <1>3. Told(fifo \o Encode(rg, f), q, V)
    BY <1>1, <1>2, EncodeTold DEF Flow
  <1> QED BY <1>1, <1>3 DEF Known

(* An event is announced, staged or dropped: the history gains a point.    *)
LEMMA EventKnown ==
  ASSUME NEW fifo, NEW rg, NEW h, NEW q \in Nat, NEW slots \in Views, NEW s \in ClIds, NEW v \in Verdicts,
         Flow(fifo, rg, h.part), Known(fifo \o rg, h, q, slots)
  PROVE  Known(fifo \o Encode(rg, EventFrame(q + 1, s, v)), h, q + 1, [slots EXCEPT ![s] = v])
  <1> DEFINE f == EventFrame(q + 1, s, v)
             new == [slots EXCEPT ![s] = v]
             w == fifo \o rg
  <1>1. PICK V \in [0..q -> Views] : /\ V[0] = [t \in ClIds |-> Nothing] /\ V[q] = slots
                                     /\ Told(w, q, V) /\ At(h, q, V)
    BY DEF Known
  <1> DEFINE U == [n \in 0..(q + 1) |-> IF n <= q THEN V[n] ELSE new]
  <1>2. new \in Views
    BY DEF Views
  <1>3. f \in Frames /\ f.kind = "event" /\ f.seq = q + 1 /\ f.slot = s /\ f.now = v
    BY DEF Frames, EventFrame
  <1>4. w \in Seq(Bytes) /\ Unbroken(w) /\ fifo \in Seq(Bytes) /\ rg \in Seq(Bytes)
    BY ConcatProperties DEF Flow
  <1> HIDE DEF f, new, w
  <1>5. U \in [0..(q + 1) -> Views] /\ U[q + 1] = new /\ \A n \in 0..q : U[n] = V[n]
    BY <1>2
  <1> HIDE DEF U
  <1>6. U[0] = [t \in ClIds |-> Nothing] /\ U[q] = slots
    BY <1>1, <1>5
  <1>7. Tells(f, q + 1, U)
    <2>1. (q + 1) - 1 = q /\ q + 1 \in 1..(q + 1)
      OBVIOUS
    <2> QED BY <1>3, <1>5, <1>6, <2>1 DEF Tells, new
  <1>8. Told(w, q + 1, U)
    <2> SUFFICES ASSUME NEW i \in 1..Len(w) PROVE Tells(w[i][1], q + 1, U)
      BY DEF Told
    <2>1. Tells(w[i][1], q, V)
      BY <1>1 DEF Told
    <2> DEFINE g == w[i][1]
    <2>2. Tells(g, q, V)
      BY <2>1
    <2> HIDE DEF g
    <2>3. ASSUME g.kind = "event" PROVE g.seq \in 1..(q + 1) /\ U[g.seq] = [U[g.seq - 1] EXCEPT ![g.slot] = g.now]
      <3>1. g.seq \in 1..q /\ V[g.seq] = [V[g.seq - 1] EXCEPT ![g.slot] = g.now]
        BY <2>2, <2>3 DEF Tells
      <3>2. g.seq \in 0..q /\ g.seq - 1 \in 0..q /\ g.seq \in 1..(q + 1)
        BY <3>1
      <3> QED BY <1>5, <3>1, <3>2
    <2>4. Tells(g, q + 1, U)
      BY <2>3 DEF Tells
    <2> QED BY <2>4 DEF g
  <1>9. At(h, q + 1, U)
    <2>1. h.last \in 0..q /\ (~h.gap => h.view = V[h.last])
      BY <1>1 DEF At
    <2> QED BY <1>5, <2>1 DEF At
  <1>10. Told(fifo \o Encode(rg, f), q + 1, U)
    BY <1>3, <1>4, <1>7, <1>8, EncodeTold DEF w
  <1>11. Known(fifo \o Encode(rg, f), h, q + 1, new)
    BY <1>5, <1>6, <1>9, <1>10 DEF Known
  <1> QED BY <1>11 DEF f, new


-----------------------------------------------------------------------------
(* Phase 3 of a tick.                                                      *)
TickState == [seq : Nat, ring : Seq(Bytes)]

LEMMA ReportedOK == ASSUME NEW v \in Verdicts PROVE Reported(v) \in Verdicts
  BY DEF Reported, Verdicts

LEMMA EncodeType ==
  ASSUME NEW rg \in Seq(Bytes), NEW f \in Frames
  PROVE  Encode(rg, f) \in Seq(Bytes)
  <1>1. TxBytes(f) \in Seq(Bytes)
    BY TxBytesOK
  <1>2. rg \o TxBytes(f) \in Seq(Bytes)
    BY <1>1, ConcatProperties
  <1> QED BY <1>2 DEF Encode

LEMMA AnnounceType ==
  ASSUME NEW r \in TickState, NEW slots \in Views, NEW s \in ClIds
  PROVE  Announce(r, slots, s) \in TickState
  <1> DEFINE q == Bump(r.seq)
             f == EventFrame(q, s, Reported(slots[s]))
  <1>1. q \in Nat
    BY ClLimits DEF Bump, TickState
  <1>2. Reported(slots[s]) \in Verdicts
    BY ReportedOK DEF Views
  <1>3. f \in Frames
    BY <1>1, <1>2 DEF Frames
  <1>4. Encode(r.ring, f) \in Seq(Bytes)
    BY <1>3, EncodeType DEF TickState
  <1>5. Announce(r, slots, s) = r \/ Announce(r, slots, s) = [seq |-> q, ring |-> Encode(r.ring, f)]
    BY DEF Announce, BumpFor
  <1> HIDE DEF q, f
  <1> QED BY <1>1, <1>4, <1>5 DEF TickState

LEMMA Phase3Recursion ==
  ASSUME NEW slots \in Views, clStat.seq \in Nat, clRing \in Seq(Bytes)
  PROVE  \E f : /\ f[0] = [seq |-> clStat.seq, ring |-> clRing]
                /\ \A n \in 1..ClSlots : f[n] = Announce(f[n - 1], slots, n)
                /\ Phase3(slots) = f[ClSlots]
  <1> DEFINE m == ClSlots
             base == [seq |-> clStat.seq, ring |-> clRing]
             G == [a \in TickState \X (1..m) |-> Announce(a[1], slots, a[2])]
             F(f) == f = [s \in 0..ClSlots |-> IF s = 0 THEN [seq |-> clStat.seq, ring |-> clRing]
                                               ELSE Announce(f[s - 1], slots, s)]
  <1>1. base \in TickState
    BY DEF TickState
  <1>2. m \in Nat
    BY ClLimits
  <1>3. \A x \in TickState, i \in 1..m : <<x, i>> \in TickState \X (1..m) /\ G[<<x, i>>] = Announce(x, slots, i)
    OBVIOUS
  <1>4. \A x \in TickState, i \in 1..m : G[<<x, i>>] \in TickState
    BY <1>3, AnnounceType DEF ClIds
  <1> HIDE DEF base, G
  <1>5. PICK f \in [0..m -> TickState] : f[0] = base /\ \A i \in 1..m : f[i] = G[<<f[i - 1], i>>]
    <2>1. StaysIn(TickState, m, G)
      BY <1>4 DEF StaysIn
    <2>2. Solvable(TickState, m, base, G)
      BY <1>1, <1>2, <2>1, Recursion
    <2> QED BY <2>2 DEF Solvable
  <1>6. \A i \in 1..m : i - 1 \in 0..m
    BY <1>2
  <1>7. \A i \in 1..m : f[i] = Announce(f[i - 1], slots, i)
    BY <1>3, <1>5, <1>6
  <1>8. F(f)
    <2>1. f = [n \in 0..m |-> f[n]]
      BY <1>5
    <2>2. \A n \in 0..m : n = 0 \/ n \in 1..m
      BY <1>2
    <2>3. \A n \in 0..m : f[n] = IF n = 0 THEN [seq |-> clStat.seq, ring |-> clRing] ELSE Announce(f[n - 1], slots, n)
      BY <1>5, <1>7, <2>2 DEF base
    <2> QED BY <2>1, <2>3
  <1>9. PICK g : g = CHOOSE h : F(h)
    OBVIOUS
  <1>10. F(g)
    <2> HIDE DEF F
    <2> QED BY <1>8, <1>9
  <1>11. Phase3(slots) = g[ClSlots]
    BY <1>9 DEF Phase3
  <1>12. g[0] = [seq |-> clStat.seq, ring |-> clRing] /\ \A n \in 1..m : g[n] = Announce(g[n - 1], slots, n)
    <2>1. 0 \in 0..m /\ \A n \in 1..m : n \in 0..m /\ n # 0
      BY <1>2
    <2>2. \A n \in 0..m : g[n] = IF n = 0 THEN [seq |-> clStat.seq, ring |-> clRing] ELSE Announce(g[n - 1], slots, n)
      BY <1>10
    <2> QED BY <2>1, <2>2
  <1> QED BY <1>11, <1>12

(* After the first k slots: as many numbers are taken as of them changed,  *)
(* and the history ends with their new reports.                            *)
ChangedTo(slots, k) == {s \in 1..k : Reported(slots[s]) # clStat.slots[s]}
ReportTo(slots, k) == [s \in ClIds |-> IF s <= k THEN Reported(slots[s]) ELSE clStat.slots[s]]
Upto(slots, r, k) ==
  /\ r.seq = clStat.seq + Cardinality(ChangedTo(slots, k))
  /\ Flow(clFifo, r.ring, clHost.part)
  /\ Known(clFifo \o r.ring, clHost, r.seq, ReportTo(slots, k))

LEMMA ChangedCount ==
  ASSUME NEW slots, NEW k \in Nat
  PROVE  /\ IsFiniteSet(ChangedTo(slots, k)) /\ Cardinality(ChangedTo(slots, k)) \in Nat
         /\ Cardinality(ChangedTo(slots, k + 1)) =
               Cardinality(ChangedTo(slots, k)) + (IF Reported(slots[k + 1]) # clStat.slots[k + 1] THEN 1 ELSE 0)
  <1> DEFINE A == ChangedTo(slots, k)
  <1>1. IsFiniteSet(1..k) /\ A \in SUBSET (1..k)
    BY FS_Interval DEF ChangedTo
  <1>2. IsFiniteSet(A)
    BY <1>1, FS_Subset
  <1>3. Cardinality(A) \in Nat
    BY <1>2, FS_CardinalityType
  <1>4. k + 1 \notin A
    BY <1>1
  <1>5. Cardinality(A \cup {k + 1}) = Cardinality(A) + 1
    BY <1>2, <1>4, FS_AddElement
  <1>6. \A s : s \in 1..(k + 1) <=> s \in 1..k \/ s = k + 1
    OBVIOUS
  <1>7. ChangedTo(slots, k + 1) = IF Reported(slots[k + 1]) # clStat.slots[k + 1] THEN A \cup {k + 1} ELSE A
    BY <1>6 DEF ChangedTo
  <1> QED BY <1>2, <1>3, <1>5, <1>7

LEMMA CountGrows ==
  ASSUME NEW slots, NEW k \in Nat, k <= ClSlots
  PROVE  Cardinality(ChangedTo(slots, k)) <= Cardinality(Changed(slots))
  <1>1. IsFiniteSet(1..ClSlots) /\ Changed(slots) \in SUBSET (1..ClSlots)
    <2>1. 1 \in Int /\ ClSlots \in Int
      BY ClLimits
    <2>2. IsFiniteSet(1..ClSlots)
      BY <2>1, FS_Interval
    <2> QED BY <2>2 DEF Changed, ClIds
  <1>2. IsFiniteSet(Changed(slots))
    BY <1>1, FS_Subset
  <1>3. ChangedTo(slots, k) \in SUBSET Changed(slots)
    BY ClLimits DEF ChangedTo, Changed, ClIds
  <1> QED BY <1>2, <1>3, FS_Subset


LEMMA AnnounceStep ==
  ASSUME NEW slots \in Views, NEW r, NEW k \in Nat, k < ClSlots, clStat.seq \in Nat, clStat.slots \in Views,
         clStat.seq + Cardinality(Changed(slots)) < SeqWidth, Upto(slots, r, k)
  PROVE  Upto(slots, Announce(r, slots, k + 1), k + 1)
  <1> DEFINE s == k + 1
             q == r.seq
             v == Reported(slots[s])
             f == EventFrame(q + 1, s, v)
             old == ReportTo(slots, k)
             new == ReportTo(slots, s)
  <1>1. s \in ClIds
    BY ClLimits DEF ClIds
  <1>2. v \in Verdicts
    BY <1>1, ReportedOK DEF Views
  <1>3. old \in Views /\ old[s] = clStat.slots[s]
    <2>1. \A t \in ClIds : Reported(slots[t]) \in Verdicts /\ clStat.slots[t] \in Verdicts
      BY ReportedOK DEF Views
    <2>2. ~(s <= k)
      OBVIOUS
    <2> QED BY <1>1, <2>1, <2>2 DEF ReportTo, Views
  <1>4. new = [old EXCEPT ![s] = v]
    <2>1. \A t \in ClIds : t \in Nat /\ (t <= s <=> t <= k \/ t = s)
      BY ClLimits DEF ClIds
    <2> QED BY <1>1, <2>1 DEF ReportTo
  <1>5. /\ q = clStat.seq + Cardinality(ChangedTo(slots, k)) /\ q \in Nat
        /\ Flow(clFifo, r.ring, clHost.part) /\ Known(clFifo \o r.ring, clHost, q, old)
    BY ChangedCount DEF Upto
  <1>6. CASE v = clStat.slots[s]
    <2>1. Announce(r, slots, s) = r
      BY <1>6 DEF Announce
    <2>2. Cardinality(ChangedTo(slots, s)) = Cardinality(ChangedTo(slots, k))
      BY <1>6, ChangedCount
    <2>3. new = old
      BY <1>3, <1>4, <1>6 DEF Views
    <2> QED BY <1>5, <2>1, <2>2, <2>3 DEF Upto
  <1>7. CASE v # clStat.slots[s]
    <2>1. Cardinality(ChangedTo(slots, s)) = Cardinality(ChangedTo(slots, k)) + 1 /\ Cardinality(ChangedTo(slots, k)) \in Nat
      BY <1>7, ChangedCount
    <2>2. Cardinality(ChangedTo(slots, s)) <= Cardinality(Changed(slots))
      BY <1>1, CountGrows DEF ClIds
    <2>3. Cardinality(Changed(slots)) \in Nat
      <3>1. 1 \in Int /\ ClSlots \in Int
        BY ClLimits
      <3>2. IsFiniteSet(1..ClSlots) /\ Changed(slots) \in SUBSET (1..ClSlots)
        BY <3>1, FS_Interval DEF Changed, ClIds
      <3>3. IsFiniteSet(Changed(slots))
        BY <3>2, FS_Subset
      <3> QED BY <3>3, FS_CardinalityType
    <2>4. q + 1 = clStat.seq + Cardinality(ChangedTo(slots, s)) /\ q + 1 < SeqWidth
      BY <1>5, <2>1, <2>2, <2>3, ClLimits
    <2>5. Bump(q) = q + 1
      BY <1>5, <2>4, ClLimits DEF Bump
    <2>6. Announce(r, slots, s) = [seq |-> q + 1, ring |-> Encode(r.ring, f)]
      BY <1>7, <2>5 DEF Announce, BumpFor
    <2>7. f \in Frames
      <3>1. q + 1 \in Nat
        BY <1>5
      <3> HIDE DEF q, v, s
      <3> QED BY <1>1, <1>2, <3>1 DEF Frames
    <2>8. Flow(clFifo, Encode(r.ring, f), clHost.part)
      BY <1>5, <2>7, EncodeFlow
    <2>9. Known(clFifo \o Encode(r.ring, f), clHost, q + 1, new)
      <3> HIDE DEF old, new, q, v, s
      <3> QED BY <1>1, <1>2, <1>3, <1>4, <1>5, EventKnown
    <2> HIDE DEF f, new, q
    <2> QED BY <2>4, <2>6, <2>8, <2>9 DEF Upto, new
  <1> QED BY <1>6, <1>7

LEMMA Phase3OK ==
  ASSUME NEW slots \in Views, clStat.seq \in Nat, clStat.slots \in Views,
         clStat.seq + Cardinality(Changed(slots)) < SeqWidth,
         Flow(clFifo, clRing, clHost.part), Known(clFifo \o clRing, clHost, clStat.seq, clStat.slots)
  PROVE  /\ Phase3(slots).seq = clStat.seq + Cardinality(Changed(slots))
         /\ Flow(clFifo, Phase3(slots).ring, clHost.part)
         /\ Known(clFifo \o Phase3(slots).ring, clHost, Phase3(slots).seq, [s \in ClIds |-> Reported(slots[s])])
  <1>1. PICK f : /\ f[0] = [seq |-> clStat.seq, ring |-> clRing]
                 /\ \A n \in 1..ClSlots : f[n] = Announce(f[n - 1], slots, n)
                 /\ Phase3(slots) = f[ClSlots]
    BY Phase3Recursion DEF Flow
  <1> DEFINE S == {k \in Nat : k <= ClSlots => Upto(slots, f[k], k)}
  <1>2. Upto(slots, f[0], 0)
    <2>1. ChangedTo(slots, 0) = {}
      <3>1. 1..0 = {}
        OBVIOUS
      <3> QED BY <3>1 DEF ChangedTo
    <2>2. Cardinality(ChangedTo(slots, 0)) = 0
      BY <2>1, FS_EmptySet
    <2>3. ReportTo(slots, 0) = clStat.slots
      <3>1. \A s \in ClIds : ~(s <= 0)
        BY ClLimits DEF ClIds
      <3> QED BY <3>1 DEF ReportTo, Views
    <2>4. f[0].seq = clStat.seq /\ f[0].ring = clRing
      BY <1>1
    <2> QED BY <2>2, <2>3, <2>4 DEF Upto
  <1>3. 0 \in S
    BY <1>2
  <1>4. ASSUME NEW n \in Nat, n \in S PROVE n + 1 \in S
    <2>1. SUFFICES ASSUME n + 1 <= ClSlots PROVE Upto(slots, f[n + 1], n + 1)
      OBVIOUS
    <2>2. n < ClSlots /\ n + 1 \in 1..ClSlots /\ (n + 1) - 1 = n
      BY <2>1, ClLimits
    <2>3. Upto(slots, f[n], n)
      BY <1>4, <2>2, ClLimits
    <2>4. f[n + 1] = Announce(f[n], slots, n + 1)
      BY <1>1, <2>2
    <2> QED BY <2>2, <2>3, <2>4, AnnounceStep
  <1>5. Nat \subseteq S
    <2> HIDE DEF S
    <2> QED BY <1>3, <1>4, Ind
  <1>6. Upto(slots, f[ClSlots], ClSlots)
    BY <1>5, ClLimits
  <1>7. ChangedTo(slots, ClSlots) = Changed(slots)
    BY DEF ChangedTo, Changed, ClIds
  <1>8. ReportTo(slots, ClSlots) = [s \in ClIds |-> Reported(slots[s])]
    <2>1. \A s \in ClIds : s <= ClSlots
      BY ClLimits DEF ClIds
    <2> QED BY <2>1 DEF ReportTo
  <1> QED BY <1>1, <1>6, <1>7, <1>8 DEF Upto


-----------------------------------------------------------------------------
(* The inductive invariant of the loop.                                    *)
ClHostT == [part : Seq(Bytes), view : Views, last : Nat, gap : BOOLEAN, torn : BOOLEAN]
ClLeftT == [events : Nat, cmds : Nat, resets : Nat, closes : Nat]
LoopInv ==
  /\ clSlot \in Views /\ clStat \in [slots : Views, seq : Nat]
  /\ clHost \in ClHostT /\ clHost.torn = FALSE
  /\ clLeft \in ClLeftT /\ clStat.seq + clLeft.events <= ClMaxEvents
  /\ Flow(clFifo, clRing, clHost.part)
  /\ Known(clFifo \o clRing, clHost, clStat.seq, clStat.slots)

LEMMA NothingOK == Nothing \in Verdicts
  BY DEF Nothing, Verdicts

LEMMA AllNothingOK == [s \in ClIds |-> Nothing] \in Views
  BY NothingOK DEF Views

(* What a client starts from, and starts again from after a reset.         *)
LEMMA FreshFlow ==
  /\ Flow(<<>>, BootRing, <<>>)
  /\ Known(<<>> \o BootRing, Unheard, 0, [s \in ClIds |-> Nothing])
  /\ Unheard \in ClHostT /\ Unheard.torn = FALSE /\ Unheard.part = <<>>
  <1>1. Unheard \in ClHostT /\ Unheard.torn = FALSE /\ Unheard.part = <<>> /\ Unheard.last = 0
        /\ Unheard.view = [s \in ClIds |-> Nothing]
    <2>1. <<>> \in Seq(Bytes)
      BY EmptySeq
    <2> QED BY <2>1, AllNothingOK DEF Unheard, ClHostT
  <1>2. Flow(<<>>, <<>>, <<>>)
    <2>1. <<>> \in Seq(Bytes) /\ Len(<<>>) = 0
      BY EmptySeq
    <2>2. <<>> \o <<>> = <<>>
      BY <2>1, ConcatEmptySeq
    <2>3. Unbroken(<<>>) /\ Carried(<<>>, <<>>)
      BY <2>1 DEF Unbroken, Carried
    <2> QED BY <2>1, <2>2, <2>3, ClLimits DEF Flow
  <1>3. Known(<<>> \o <<>>, Unheard, 0, [s \in ClIds |-> Nothing])
    <2>1. <<>> \o <<>> = <<>> /\ Len(<<>>) = 0
      BY EmptySeq, ConcatEmptySeq
    <2> DEFINE V == [n \in 0..0 |-> [s \in ClIds |-> Nothing]]
    <2>2. V \in [0..0 -> Views] /\ V[0] = [s \in ClIds |-> Nothing]
      BY AllNothingOK
    <2> HIDE DEF V
    <2>3. Told(<<>> \o <<>>, 0, V)
      BY <2>1 DEF Told
    <2>4. At(Unheard, 0, V)
      BY <1>1, <2>2 DEF At
    <2> QED BY <2>2, <2>3, <2>4 DEF Known
  <1>4. LogFrame \in Frames
    BY OtherFrames
  <1> DEFINE one == Encode(<<>>, LogFrame)
  <1>5. Flow(<<>>, one, <<>>) /\ Known(<<>> \o one, Unheard, 0, [s \in ClIds |-> Nothing])
    BY <1>1, <1>2, <1>3, <1>4, EncodeFlow, EncodeKnown
  <1> HIDE DEF one
  <1>6. /\ Flow(<<>>, Encode(one, LogFrame), <<>>)
        /\ Known(<<>> \o Encode(one, LogFrame), Unheard, 0, [s \in ClIds |-> Nothing])
    BY <1>1, <1>4, <1>5, EncodeFlow, EncodeKnown
  <1> QED BY <1>1, <1>6 DEF one, BootRing

LEMMA LoopInitInv == ASSUME ClInit PROVE LoopInv
  <1>1. clSlot \in Views
    BY NothingOK DEF ClInit, Views, Verdicts
  <1>2. clStat \in [slots : Views, seq : Nat] /\ clStat.seq = 0 /\ clStat.slots = [s \in ClIds |-> Nothing]
    BY AllNothingOK DEF ClInit
  <1>3. clLeft \in ClLeftT /\ clLeft.events = ClMaxEvents
    BY ClLimits DEF ClInit, ClLeftT
  <1>4. clFifo = <<>> /\ clRing = BootRing /\ clHost = Unheard
    BY DEF ClInit
  <1>5. clStat.seq + clLeft.events <= ClMaxEvents
    BY <1>2, <1>3, ClLimits
  <1> QED BY <1>1, <1>2, <1>3, <1>4, <1>5, FreshFlow DEF LoopInv

LEMMA UsbCommandStep == ASSUME LoopInv, UsbCommand PROVE LoopInv'
  <1>1. /\ clRing' = Encode(clRing, ReplyFrame) /\ clLeft' = [clLeft EXCEPT !.cmds = @ - 1] /\ clLeft.cmds > 0
        /\ UNCHANGED <<clStat, clFifo, clHost>>
    BY DEF UsbCommand
  <1>2. clSlot' \in Views
    <2>1. clSlot \in Views
      BY DEF LoopInv
    <2>2. CASE clSlot' = clSlot
      BY <2>1, <2>2
    <2>3. CASE clSlot' # clSlot
      <3>1. PICK s \in ClIds : clSlot' = [clSlot EXCEPT ![s] =
             IF @.state = "ARMED" THEN Nothing ELSE [state |-> "ARMED", tf |-> "UNEVALUATED"]]
        BY <2>3 DEF UsbCommand
      <3>2. [state |-> "ARMED", tf |-> "UNEVALUATED"] \in Verdicts
        BY DEF Verdicts
      <3> QED BY <2>1, <3>1, <3>2, NothingOK DEF Views
    <2> QED BY <2>2, <2>3
  <1>3. clLeft' \in ClLeftT /\ clLeft'.events = clLeft.events
    BY <1>1 DEF LoopInv, ClLeftT
  <1>4. ReplyFrame \in Frames
    BY OtherFrames
  <1>5. Flow(clFifo, clRing, clHost.part) /\ Known(clFifo \o clRing, clHost, clStat.seq, clStat.slots)
    BY DEF LoopInv
  <1>6. Flow(clFifo, Encode(clRing, ReplyFrame), clHost.part)
    BY <1>4, <1>5, EncodeFlow
  <1>7. Known(clFifo \o Encode(clRing, ReplyFrame), clHost, clStat.seq, clStat.slots)
    BY <1>5, EncodeKnown
  <1> QED BY <1>1, <1>2, <1>3, <1>6, <1>7 DEF LoopInv

LEMMA TickStep == ASSUME LoopInv, ClTickAll PROVE LoopInv'
  <1>1. PICK v \in Evaluations :
          /\ Cardinality(Changed(v)) <= clLeft.events
          /\ clSlot' = v
          /\ clStat' = [slots |-> [s \in ClIds |-> Reported(v[s])], seq |-> Phase3(v).seq]
          /\ clRing' = Phase3(v).ring
          /\ clLeft' = [clLeft EXCEPT !.events = @ - Cardinality(Changed(v))]
    BY DEF ClTickAll
  <1>2. clFifo' = clFifo /\ clHost' = clHost
    BY DEF ClTickAll
  <1>3. v \in Views
    BY DEF Evaluations, Views, Verdicts
  <1> DEFINE n == Cardinality(Changed(v))
             rep == [s \in ClIds |-> Reported(v[s])]
  <1>4. n \in Nat
    <2>1. 1 \in Int /\ ClSlots \in Int
      BY ClLimits
    <2>2. IsFiniteSet(1..ClSlots) /\ Changed(v) \in SUBSET (1..ClSlots)
      BY <2>1, FS_Interval DEF Changed, ClIds
    <2>3. IsFiniteSet(Changed(v))
      BY <2>2, FS_Subset
    <2> QED BY <2>3, FS_CardinalityType
  <1>5. clStat.seq \in Nat /\ clStat.slots \in Views /\ clLeft.events \in Nat /\ clLeft \in ClLeftT
        /\ clStat.seq + clLeft.events <= ClMaxEvents
    BY DEF LoopInv, ClLeftT
  <1>6. clStat.seq + n < SeqWidth
    BY <1>1, <1>4, <1>5, ClLimits
  <1>7. /\ Phase3(v).seq = clStat.seq + n
        /\ Flow(clFifo, Phase3(v).ring, clHost.part)
        /\ Known(clFifo \o Phase3(v).ring, clHost, Phase3(v).seq, rep)
    BY <1>3, <1>5, <1>6, Phase3OK DEF LoopInv
  <1>8. rep \in Views
    BY <1>3, ReportedOK DEF Views
  <1>9. clStat' \in [slots : Views, seq : Nat] /\ clStat'.seq = Phase3(v).seq /\ clStat'.slots = rep
    BY <1>1, <1>4, <1>5, <1>7, <1>8
  <1>10. clLeft' \in ClLeftT /\ clLeft'.events = clLeft.events - n
    <2> HIDE DEF n
    <2>1. clLeft' = [clLeft EXCEPT !.events = @ - n] /\ n <= clLeft.events
      BY <1>1 DEF n
    <2> QED BY <1>4, <1>5, <2>1 DEF ClLeftT
  <1>11. clStat'.seq + clLeft'.events <= ClMaxEvents
    BY <1>4, <1>5, <1>7, <1>9, <1>10, ClLimits
  <1> HIDE DEF rep, n
  <1> QED BY <1>1, <1>2, <1>3, <1>7, <1>9, <1>10, <1>11 DEF LoopInv


(* Bytes that move from the ring to the FIFO stay in their order.          *)
LEMMA DrainStep == ASSUME LoopInv, Drain PROVE LoopInv'
  <1> DEFINE room == FifoSize - Len(clFifo)
             n == IF clOpen THEN DrainCount(room) ELSE 0
             k == Least2(n, room)
             L == Len(clRing)
  <1>1. clFifo' = clFifo \o SubSeq(clRing, 1, k) /\ clRing' = SubSeq(clRing, n + 1, L)
    BY DEF Drain
  <1>2. UNCHANGED <<clSlot, clStat, clHost, clLeft>>
    BY DEF Drain
  <1>3. /\ Flow(clFifo, clRing, clHost.part) /\ Known(clFifo \o clRing, clHost, clStat.seq, clStat.slots)
        /\ clFifo \in Seq(Bytes) /\ clRing \in Seq(Bytes) /\ L <= TxRingSize /\ Len(clFifo) <= FifoSize
        /\ Unbroken(clFifo \o clRing) /\ Carried(clFifo \o clRing, clHost.part)
    BY DEF LoopInv, Flow
  <1>4. L \in Nat /\ room \in Nat /\ Len(clFifo) \in Nat /\ Len(clFifo) + room = FifoSize
    BY <1>3, ClLimits
  <1> HIDE DEF room
  <1>5. n \in 0..L /\ k = n /\ n <= room
    BY <1>4, ClLimits DEF DrainCount, Least2
  <1> HIDE DEF n, k
  <1> DEFINE a == SubSeq(clRing, 1, n)
             b == SubSeq(clRing, n + 1, L)
  <1>6. a \in Seq(Bytes) /\ Len(a) = n /\ b \in Seq(Bytes) /\ Len(b) <= L
    <2>1. \A i \in 1..L : clRing[i] \in Bytes
      BY <1>3, ElementOfSeq
    <2>2. (\A i \in 1..n : clRing[i] \in Bytes) /\ (\A i \in (n + 1)..L : clRing[i] \in Bytes)
      BY <1>4, <1>5, <2>1
    <2>3. n \in Int /\ n + 1 \in Int /\ L \in Int /\ 1 \in Int
      BY <1>4, <1>5
    <2>4. a \in Seq(Bytes) /\ Len(a) = IF 1 <= n THEN n - 1 + 1 ELSE 0
      BY <2>2, <2>3, SubSeqProperties
    <2>5. b \in Seq(Bytes) /\ Len(b) = IF n + 1 <= L THEN L - (n + 1) + 1 ELSE 0
      BY <2>2, <2>3, SubSeqProperties
    <2> QED BY <1>4, <1>5, <2>4, <2>5
  <1>7. clFifo' \o clRing' = clFifo \o clRing /\ clFifo' \in Seq(Bytes) /\ clRing' \in Seq(Bytes) /\ Len(clRing') <= L
        /\ Len(clFifo') <= FifoSize
    <2>1. a \o b = SubSeq(clRing, 1, L)
      <3>1. 1 \in 1..(L + 1) /\ n \in (1 - 1)..L /\ L \in n..L
        BY <1>4, <1>5
      <3> QED BY <1>3, <3>1, ConcatAdjacentSubSeq
    <2>2. SubSeq(clRing, 1, L) = clRing
      BY <1>3, SubSeqFull
    <2>3. clFifo' = clFifo \o a /\ clRing' = b
      BY <1>1, <1>5
    <2> HIDE DEF a, b
    <2>4. (clFifo \o a) \o b = clFifo \o (a \o b)
      BY <1>3, <1>6, BytesAssoc, Zenon
    <2>5. clFifo \o a \in Seq(Bytes) /\ Len(clFifo \o a) = Len(clFifo) + n
      BY <1>3, <1>6, ConcatProperties
    <2>6. Len(clFifo \o a) <= FifoSize
      BY <1>4, <1>5, <2>5, ClLimits
    <2> QED BY <1>6, <2>1, <2>2, <2>3, <2>4, <2>5, <2>6
  <1>8. Len(clRing') <= TxRingSize
    BY <1>3, <1>4, <1>7, ClLimits
  <1>9. Flow(clFifo', clRing', clHost.part) /\ Known(clFifo' \o clRing', clHost, clStat.seq, clStat.slots)
    BY <1>3, <1>7, <1>8 DEF Flow
  <1> QED BY <1>2, <1>9 DEF LoopInv


(* The host reads a byte.                                                  *)
LEMMA FirstByte ==
  ASSUME NEW fifo \in Seq(Bytes), NEW rg \in Seq(Bytes), fifo # <<>>, Unbroken(fifo \o rg)
  PROVE  LET w == fifo \o rg
             x == Tail(fifo) \o rg
             b == Head(fifo)
         IN  /\ b \in Bytes /\ Tail(fifo) \in Seq(Bytes) /\ Len(Tail(fifo)) <= Len(fifo)
             /\ Len(w) > 0 /\ w[1] = b /\ x \in Seq(Bytes) /\ Unbroken(x)
             /\ Len(x) = Len(w) - 1 /\ Len(w) \in Nat /\ \A i \in 1..Len(x) : x[i] = w[i + 1]
             /\ ~Ends(b) => Len(x) > 0 /\ x[1] = <<b[1], b[2] + 1>>
  <1> DEFINE w == fifo \o rg
             t == Tail(fifo)
             x == t \o rg
             b == Head(fifo)
             n == Len(fifo)
             m == Len(rg)
  <1>1. n \in Nat /\ m \in Nat /\ n > 0 /\ b = fifo[1]
    OBVIOUS
  <1>2. b \in Bytes /\ t \in Seq(Bytes) /\ Len(t) = n - 1 /\ \A i \in 1..Len(t) : t[i] = fifo[i + 1]
    BY HeadTailProperties
  <1>3. w \in Seq(Bytes) /\ Len(w) = n + m /\ \A i \in 1..(n + m) : w[i] = IF i <= n THEN fifo[i] ELSE rg[i - n]
    BY ConcatProperties
  <1> HIDE DEF t
  <1>4. x \in Seq(Bytes) /\ Len(x) = (n - 1) + m
        /\ \A i \in 1..((n - 1) + m) : x[i] = IF i <= n - 1 THEN t[i] ELSE rg[i - (n - 1)]
    <2>1. /\ x \in Seq(Bytes) /\ Len(x) = Len(t) + m
          /\ \A i \in 1..(Len(t) + m) : x[i] = IF i <= Len(t) THEN t[i] ELSE rg[i - Len(t)]
      BY <1>2, ConcatProperties
    <2> HIDE DEF x
    <2> QED BY <1>2, <2>1
  <1>5. Unbroken(w)
    OBVIOUS
  <1> HIDE DEF w, x, b, n, m
  <1>6. ASSUME NEW i \in 1..Len(x) PROVE x[i] = w[i + 1]
    <2>1. i \in 1..((n - 1) + m) /\ i + 1 \in 1..(n + m)
      BY <1>1, <1>4, <1>6
    <2>2. CASE i <= n - 1
      <3>1. i \in 1..Len(t) /\ i + 1 <= n
        BY <1>1, <1>2, <2>1, <2>2
      <3> QED BY <1>2, <1>3, <1>4, <2>1, <2>2, <3>1
    <2>3. CASE ~(i <= n - 1)
      <3>1. ~(i + 1 <= n) /\ i - (n - 1) = (i + 1) - n
        BY <1>1, <2>1, <2>3
      <3> QED BY <1>3, <1>4, <2>1, <2>3, <3>1
    <2> QED BY <2>2, <2>3
  <1>7. w[1] = b /\ Len(w) > 0 /\ Len(w) \in Nat /\ Len(x) = Len(w) - 1
    BY <1>1, <1>3, <1>4 DEF n
  <1>8. Unbroken(x)
    <2>1. ASSUME NEW i \in 1..(Len(x) - 1) PROVE After(x[i], x[i + 1])
      <3>1. i \in 1..Len(x) /\ i + 1 \in 1..Len(x) /\ i + 1 \in 1..(Len(w) - 1)
        BY <1>7, <2>1
      <3>2. After(w[i + 1], w[(i + 1) + 1])
        BY <1>5, <3>1 DEF Unbroken
      <3> QED BY <1>6, <3>1, <3>2
    <2>2. ASSUME Len(x) > 0 PROVE Ends(x[Len(x)])
      <3>1. Len(x) \in 1..Len(x) /\ Len(x) + 1 = Len(w)
        BY <1>7, <2>2
      <3>2. x[Len(x)] = w[Len(w)]
        BY <1>6, <3>1
      <3> QED BY <1>5, <1>7, <3>2 DEF Unbroken
    <2> QED BY <2>1, <2>2 DEF Unbroken
  <1>9. ASSUME ~Ends(b) PROVE Len(x) > 0 /\ x[1] = <<b[1], b[2] + 1>>
    <2>1. Len(w) # 1
      BY <1>5, <1>7, <1>9 DEF Unbroken
    <2>2. 1 \in 1..(Len(w) - 1) /\ 1 \in 1..Len(x) /\ Len(x) > 0
      BY <1>7, <2>1
    <2>3. After(w[1], w[1 + 1])
      BY <1>5, <2>2 DEF Unbroken
    <2>4. w[1 + 1] = <<b[1], b[2] + 1>>
      BY <1>7, <1>9, <2>3 DEF After
    <2> QED BY <1>6, <2>2, <2>4
  <1>10. Len(t) <= n
    BY <1>1, <1>2
  <1> QED BY <1>2, <1>4, <1>6, <1>7, <1>8, <1>9, <1>10 DEF w, x, t, b, n

LEMMA NextNumber ==
  ASSUME NEW a \in Nat, NEW m \in Nat, a < m, (a + 1) % m # 0
  PROVE  (a + 1) % m = a + 1
  <1>1. CASE a + 1 < m
    BY <1>1
  <1>2. CASE a + 1 = m
    <2>1. m % m = 0
      OBVIOUS
    <2> QED BY <1>2, <2>1
  <1> QED BY <1>1, <1>2

LEMMA HostReadsStep == ASSUME LoopInv, HostReads PROVE LoopInv'
  <1> DEFINE w == clFifo \o clRing
             x == Tail(clFifo) \o clRing
             b == Head(clFifo)
             h == clHost
             pt == h.part
             last == pt[Len(pt)]
             f == b[1]
             seq == clStat.seq
  <1>1. clHost' = Feed(h, b) /\ clFifo' = Tail(clFifo) /\ clFifo # <<>>
    BY DEF HostReads
  <1>2. UNCHANGED <<clSlot, clStat, clRing, clLeft>>
    BY DEF HostReads
  <1>3. /\ clFifo \in Seq(Bytes) /\ clRing \in Seq(Bytes) /\ Len(clRing) <= TxRingSize /\ Len(clFifo) <= FifoSize
        /\ Unbroken(w) /\ Carried(w, pt) /\ Known(w, h, seq, clStat.slots)
        /\ h \in ClHostT /\ h.torn = FALSE /\ seq \in Nat /\ seq + clLeft.events <= ClMaxEvents /\ clLeft.events \in Nat
    BY DEF LoopInv, Flow, ClLeftT
  <1>4. /\ b \in Bytes /\ Tail(clFifo) \in Seq(Bytes) /\ Len(Tail(clFifo)) <= Len(clFifo)
        /\ Len(w) > 0 /\ w[1] = b /\ x \in Seq(Bytes) /\ Unbroken(x)
        /\ Len(x) = Len(w) - 1 /\ Len(w) \in Nat /\ \A i \in 1..Len(x) : x[i] = w[i + 1]
        /\ ~Ends(b) => Len(x) > 0 /\ x[1] = <<b[1], b[2] + 1>>
    BY <1>1, <1>3, FirstByte
  <1>5. PICK V \in [0..seq -> Views] : /\ V[0] = [s \in ClIds |-> Nothing] /\ V[seq] = clStat.slots
                                       /\ Told(w, seq, V) /\ At(h, seq, V)
    BY <1>3 DEF Known
  <1>6. Len(Tail(clFifo)) <= FifoSize
    BY <1>3, <1>4, ClLimits
  <1> HIDE DEF w, x, b, h
  <1>7. Told(x, seq, V) /\ Tells(f, seq, V)
    <2>1. Tells(w[1][1], seq, V)
      BY <1>4, <1>5 DEF Told
    <2>2. ASSUME NEW i \in 1..Len(x) PROVE Tells(x[i][1], seq, V)
      <3>1. i + 1 \in 1..Len(w)
        BY <1>4, <2>2
      <3>2. Tells(w[i + 1][1], seq, V)
        BY <1>5, <3>1 DEF Told
      <3> QED BY <1>4, <3>2
    <2> QED BY <1>4, <2>1, <2>2 DEF Told
  <1>8. f \in Frames /\ b[2] \in Nat /\ b[2] >= 1 /\ b[2] <= f.len /\ f.len \in Nat
    BY <1>4, FrameFacts DEF Bytes
  <1>9. pt \in Seq(Bytes) /\ Len(pt) \in Nat /\ (pt = <<>> <=> Len(pt) = 0)
    BY <1>3 DEF ClHostT
  <1>10. pt # <<>> => last \in Bytes /\ last[2] < last[1].len /\ b = <<last[1], last[2] + 1>>
    <2> SUFFICES ASSUME pt # <<>> PROVE last \in Bytes /\ last[2] < last[1].len /\ b = <<last[1], last[2] + 1>>
      OBVIOUS
    <2>1. Len(pt) > 0 /\ last \in Bytes
      BY <1>9
    <2> QED BY <1>3, <1>4, <2>1 DEF Carried
  <1> DEFINE follows == IF pt = <<>> THEN b[2] = 1 ELSE last = <<b[1], b[2] - 1>>
  <1>11. pt # <<>> => follows
    <2> SUFFICES ASSUME pt # <<>> PROVE last = <<b[1], b[2] - 1>>
      OBVIOUS
    <2>1. last = <<last[1], last[2]>> /\ last[2] \in Nat
      BY <1>10 DEF Bytes
    <2>2. b[1] = last[1] /\ b[2] = last[2] + 1
      BY <1>10
    <2> QED BY <2>1, <2>2
  <1>12. /\ ~follows => Feed(h, b) = [h EXCEPT !.torn = @ \/ pt # <<>>, !.part = IF b[2] = 1 THEN <<b>> ELSE <<>>]
         /\ follows /\ b[2] < f.len => Feed(h, b) = [h EXCEPT !.part = Append(pt, b)]
         /\ follows /\ ~(b[2] < f.len) => Feed(h, b) = [HearFrame(h, f) EXCEPT !.part = <<>>]
    BY DEF Feed
  <1>13. <<>> \in Seq(Bytes) /\ Carried(x, <<>>)
    BY EmptySeq DEF Carried
  (* It is enough to look at what the host makes of it. *)
  <1>14. SUFFICES ASSUME TRUE PROVE clHost' \in ClHostT /\ clHost'.torn = FALSE /\ Carried(x, clHost'.part) /\ At(clHost', seq, V)
    <2>1. Known(x, clHost', seq, clStat.slots)
      BY <1>5, <1>7, <1>14 DEF Known
    <2>2. Flow(clFifo', clRing', clHost'.part)
      BY <1>1, <1>2, <1>3, <1>4, <1>6, <1>14 DEF Flow, x
    <2>3. Known(clFifo' \o clRing', clHost', clStat'.seq, clStat'.slots)
      BY <1>1, <1>2, <2>1 DEF x
    <2> QED BY <1>2, <1>14, <2>2, <2>3 DEF LoopInv
  <1>15. CASE ~follows
    <2>1. pt = <<>> /\ b[2] # 1
      BY <1>11, <1>15
    <2>2. clHost' = [h EXCEPT !.torn = h.torn \/ FALSE, !.part = <<>>]
      BY <1>1, <1>12, <1>15, <2>1
    <2>3. clHost' \in ClHostT /\ clHost'.torn = FALSE /\ clHost'.part = <<>> /\ clHost'.last = h.last
          /\ clHost'.gap = h.gap /\ clHost'.view = h.view
      BY <1>3, <1>13, <2>2 DEF ClHostT
    <2> QED BY <1>5, <1>13, <2>3 DEF At
  <1>16. CASE follows /\ b[2] < f.len
    <2> DEFINE np == Append(pt, b)
    <2>1. np \in Seq(Bytes) /\ Len(np) = Len(pt) + 1 /\ np[Len(pt) + 1] = b
      BY <1>4, <1>9
    <2> HIDE DEF np
    <2>2. clHost' = [h EXCEPT !.part = np]
      BY <1>1, <1>12, <1>16 DEF np
    <2>3. clHost' \in ClHostT /\ clHost'.torn = FALSE /\ clHost'.part = np /\ clHost'.last = h.last
          /\ clHost'.gap = h.gap /\ clHost'.view = h.view
      BY <1>3, <2>1, <2>2 DEF ClHostT
    <2>4. Carried(x, np)
      <3>1. ~Ends(b)
        BY <1>8, <1>16 DEF Ends
      <3>2. np[Len(np)] = b
        BY <2>1
      <3> QED BY <1>4, <1>16, <3>1, <3>2 DEF Carried
    <2> QED BY <1>5, <2>3, <2>4 DEF At
  <1>17. CASE follows /\ ~(b[2] < f.len)
    <2>1. clHost' = [HearFrame(h, f) EXCEPT !.part = <<>>]
      BY <1>1, <1>12, <1>17
    <2>2. CASE f.kind # "event"
      <3>1. clHost' = [h EXCEPT !.part = <<>>]
        BY <2>1, <2>2 DEF HearFrame
      <3>2. clHost' \in ClHostT /\ clHost'.torn = FALSE /\ clHost'.part = <<>> /\ clHost'.last = h.last
            /\ clHost'.gap = h.gap /\ clHost'.view = h.view
        BY <1>3, <1>13, <3>1 DEF ClHostT
      <3> QED BY <1>5, <1>13, <3>2 DEF At
    <2>3. CASE f.kind = "event"
      <3> DEFINE nv == [h.view EXCEPT ![f.slot] = f.now]
                 ng == h.gap \/ f.seq # (h.last + 1) % SeqWidth
      <3>1. f.seq \in 1..seq /\ V[f.seq] = [V[f.seq - 1] EXCEPT ![f.slot] = f.now]
        BY <1>7, <2>3 DEF Tells
      <3>2. f.slot \in ClIds /\ f.now \in Verdicts /\ f.seq \in Nat
        BY <1>8, <2>3, FrameFacts
      <3>3. nv \in Views
        BY <1>3, <3>2 DEF Views, ClHostT
      <3>4. clHost' = [part |-> <<>>, view |-> nv, last |-> f.seq, gap |-> ng, torn |-> h.torn]
        <4>1. HearFrame(h, f) = [h EXCEPT !.view[f.slot] = f.now, !.last = f.seq, !.gap = @ \/ f.seq # (h.last + 1) % SeqWidth]
          BY <2>3 DEF HearFrame
        <4> QED BY <1>3, <2>1, <4>1 DEF ClHostT
      <3>5. h.last \in 0..seq /\ (~h.gap => h.view = V[h.last])
        BY <1>5 DEF At
      <3>6. ~ng => nv = V[f.seq]
        <4> SUFFICES ASSUME ~ng PROVE nv = V[f.seq]
          OBVIOUS
        <4>1. ~h.gap /\ f.seq = (h.last + 1) % SeqWidth
          OBVIOUS
        <4>2. clLeft.events \in Nat /\ seq \in Nat /\ seq + clLeft.events <= ClMaxEvents
          BY <1>3
        <4>3. h.last \in Nat /\ h.last < SeqWidth
          BY <3>5, <4>2, ClLimits
        <4>4. f.seq = h.last + 1
          BY <3>1, <4>1, <4>3, ClLimits, NextNumber
        <4>5. f.seq - 1 = h.last
          BY <3>5, <4>4, <1>3
        <4> QED BY <3>1, <3>5, <4>1, <4>5
      <3>7. f.seq \in 0..seq
        BY <1>3, <3>1
      <3>8. ng \in BOOLEAN
        BY <1>3 DEF ClHostT
      <3> HIDE DEF nv, ng
      <3>9. clHost' \in ClHostT /\ clHost'.torn = FALSE /\ clHost'.part = <<>> /\ clHost'.last = f.seq
            /\ clHost'.gap = ng /\ clHost'.view = nv
        BY <1>3, <1>13, <3>2, <3>3, <3>4, <3>8 DEF ClHostT
      <3>10. At(clHost', seq, V)
        BY <3>6, <3>7, <3>9 DEF At
      <3> QED BY <1>13, <3>9, <3>10
    <2> QED BY <2>2, <2>3
  <1> QED BY <1>15, <1>16, <1>17


LEMMA ResetStep == ASSUME LoopInv, ClReset PROVE LoopInv'
  <1>1. clStat' \in [slots : Views, seq : Nat] /\ clStat'.seq = 0 /\ clStat'.slots = [s \in ClIds |-> Nothing]
    BY AllNothingOK DEF ClReset
  <1>2. clFifo' = <<>> /\ clRing' = BootRing /\ clHost' = Unheard /\ clSlot' = clSlot
    BY DEF ClReset
  <1>3. clLeft' \in ClLeftT /\ clLeft'.events = clLeft.events /\ clLeft.events \in Nat
    BY DEF ClReset, LoopInv, ClLeftT
  <1>4. clStat'.seq + clLeft'.events <= ClMaxEvents
    BY <1>1, <1>3, ClLimits DEF LoopInv
  <1> QED BY <1>1, <1>2, <1>3, <1>4, FreshFlow DEF LoopInv

(* The bytes in the FIFO are lost, and so is what the host had of a frame. *)
LEMMA HostClosesStep == ASSUME LoopInv, HostCloses PROVE LoopInv'
  <1>1. clFifo' = <<>> /\ clHost' = [clHost EXCEPT !.part = <<>>] /\ UNCHANGED <<clSlot, clStat, clRing>>
    BY DEF HostCloses
  <1>2. clLeft' \in ClLeftT /\ clLeft'.events = clLeft.events
    BY DEF HostCloses, LoopInv, ClLeftT
  <1>3. /\ clFifo \in Seq(Bytes) /\ clRing \in Seq(Bytes) /\ Len(clRing) <= TxRingSize
        /\ Unbroken(clFifo \o clRing) /\ clHost \in ClHostT /\ clHost.torn = FALSE
    BY DEF LoopInv, Flow
  <1>4. <<>> \in Seq(Bytes) /\ Len(<<>>) = 0 /\ <<>> \o clRing = clRing
    BY <1>3, EmptySeq, ConcatEmptySeq
  <1>5. clHost' \in ClHostT /\ clHost'.torn = FALSE /\ clHost'.part = <<>> /\ clHost'.last = clHost.last
        /\ clHost'.gap = clHost.gap /\ clHost'.view = clHost.view
    BY <1>1, <1>3, <1>4 DEF ClHostT
  <1>6. Flow(clFifo', clRing', clHost'.part)
    <2>1. Unbroken(clRing)
      BY <1>3, SuffixUnbroken
    <2>2. Carried(clRing, <<>>)
      BY <1>4 DEF Carried
    <2> QED BY <1>1, <1>3, <1>4, <1>5, <2>1, <2>2, ClLimits DEF Flow
  <1>7. Known(clRing, clHost', clStat.seq, clStat.slots)
    <2> DEFINE q == clStat.seq
               w == clFifo \o clRing
    <2>1. PICK V \in [0..q -> Views] : /\ V[0] = [s \in ClIds |-> Nothing] /\ V[q] = clStat.slots
                                       /\ Told(w, q, V) /\ At(clHost, q, V)
      BY DEF LoopInv, Known
    <2>2. /\ Len(w) = Len(clFifo) + Len(clRing) /\ Len(clFifo) \in Nat /\ Len(clRing) \in Nat
          /\ \A i \in 1..(Len(clFifo) + Len(clRing)) : w[i] = IF i <= Len(clFifo) THEN clFifo[i] ELSE clRing[i - Len(clFifo)]
      BY <1>3, ConcatProperties
    <2> HIDE DEF w
    <2>3. ASSUME NEW i \in 1..Len(clRing) PROVE Tells(clRing[i][1], q, V)
      <3>1. /\ Len(clFifo) + i \in 1..Len(w) /\ Len(clFifo) + i \in 1..(Len(clFifo) + Len(clRing))
            /\ ~(Len(clFifo) + i <= Len(clFifo)) /\ (Len(clFifo) + i) - Len(clFifo) = i
        BY <2>2, <2>3
      <3>2. w[Len(clFifo) + i] = clRing[i]
        BY <2>2, <3>1
      <3>3. Tells(w[Len(clFifo) + i][1], q, V)
        BY <2>1, <3>1 DEF Told
      <3> QED BY <3>2, <3>3
    <2>4. Told(clRing, q, V)
      BY <2>3 DEF Told
    <2>5. At(clHost', q, V)
      BY <1>5, <2>1 DEF At
    <2> QED BY <2>1, <2>4, <2>5 DEF Known
  <1>8. Known(clFifo' \o clRing', clHost', clStat'.seq, clStat'.slots)
    BY <1>1, <1>4, <1>7
  <1> QED BY <1>1, <1>2, <1>5, <1>6, <1>8 DEF LoopInv

LEMMA LoopInvNext == ASSUME LoopInv, [ClNext]_clVars PROVE LoopInv'
  <1>1. CASE PollDone \/ TickNotDue \/ HostOpens \/ UNCHANGED clVars
    <2>1. UNCHANGED <<clSlot, clStat, clRing, clFifo, clHost, clLeft>>
      BY <1>1 DEF PollDone, TickNotDue, HostOpens, clVars
    <2> QED BY <2>1 DEF LoopInv
  <1>2. CASE UsbCommand
    BY <1>2, UsbCommandStep
  <1>3. CASE ClTickAll
    BY <1>3, TickStep
  <1>4. CASE Drain
    BY <1>4, DrainStep
  <1>5. CASE ClReset
    BY <1>5, ResetStep
  <1>6. CASE HostReads
    BY <1>6, HostReadsStep
  <1>7. CASE HostCloses
    BY <1>7, HostClosesStep
  <1> QED BY <1>1, <1>2, <1>3, <1>4, <1>5, <1>6, <1>7 DEF ClNext

LEMMA LoopInvSound == ASSUME LoopInv PROVE LoopSound
  <1>1. FramesWhole
    BY DEF LoopInv, Flow, FramesWhole
  <1>2. SeqTellsAll
    BY DEF LoopInv, Known, At, SeqTellsAll
  <1> QED BY <1>1, <1>2 DEF LoopSound

(* The loop of the SAMD21 client (main.c), for any number of slots, any    *)
(* sizes of the ring, the FIFO and the frames and any sequence of          *)
(* commands, ticks, resets and reads: a full FIFO never shreds a frame,    *)
(* and a host that has the current status_seq and met no gap knows every   *)
(* slot, whatever was dropped.                                             *)
THEOREM LoopSafety == ClSpec => []LoopSound
  <1>1. ClInit => LoopInv
    BY LoopInitInv
  <1>2. LoopInv /\ [ClNext]_clVars => LoopInv'
    BY LoopInvNext
  <1>3. LoopInv => LoopSound
    BY LoopInvSound
  <1> QED BY <1>1, <1>2, <1>3, PTL DEF ClSpec
=============================================================================
