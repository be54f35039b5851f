------------------------------ MODULE SamdPads ------------------------------
(***************************************************************************)
(* What the modes of the SAMD21 client do to its pads.  A pad is its       *)
(* direction and output registers and its PINCFG: off, input buffer on,    *)
(* input with pull, or handed to a peripheral.  Every operator gives the   *)
(* registers after a piece of code from the registers before it.           *)
(***************************************************************************)
EXTENDS Integers, FiniteSets

CONSTANTS
    Chans,           \* the eight bank pads
    A0, A1,          \* of these, the DAC pad and the pad of the ADC mode
    D6,              \* the INT pad; in SERVO mode the e-stop, in COUNTER a channel
    gpmp, mxmp, srvo, cntr, ilcf,   \* the commissioned files
    NoFile           \* a file that is absent, short or of another version

Pads == Chans \cup {D6}

Modes == {"IDLE", "PIO", "ADC", "MIXED", "SERVO", "COUNTER"}
BenchRoles == {"none", "gpi", "gpo", "adc", "dac", "oc", "oc_pu"}
Guarded == {"PIO", "ADC", "MIXED"}      \* the modes with an interlock

ASSUME PadsAssumption ==
    /\ A0 \in Chans /\ A1 \in Chans /\ D6 \notin Chans
    /\ gpmp # NoFile => gpmp \in [dir : SUBSET Chans, pull : SUBSET Chans,
                                  out : SUBSET Chans, od : SUBSET Chans]
    /\ mxmp # NoFile => mxmp \in [Chans -> {"safe", "in", "in_pu", "in_pd",
                                            "out", "oc", "oc_pu", "adc", "dac"}]
    /\ srvo # NoFile => srvo \in [Chans -> BenchRoles \cup {"servo"}]
    /\ cntr # NoFile => cntr \in [Pads -> [count : BOOLEAN, pull : 0..2, edge : 0..2,
                                           role : BenchRoles]]
    /\ ilcf # NoFile => ilcf \in [in : Chans, bad : BOOLEAN, out : Pads, ok : BOOLEAN,
                                  err : BOOLEAN, od : 0..2, depth : {1, 2}]
                        /\ ilcf.ok # ilcf.err /\ ilcf.in # ilcf.out

Pad == [dir : BOOLEAN, out : BOOLEAN, cfg : {"off", "in", "pull", "mux"}]

PowerOn   == [dir |-> FALSE, out |-> FALSE, cfg |-> "off"]
Input(p)  == [p EXCEPT !.dir = FALSE, !.cfg = "in"]
PullUp    == [dir |-> FALSE, out |-> TRUE,  cfg |-> "pull"]
PullDown  == [dir |-> FALSE, out |-> FALSE, cfg |-> "pull"]
Drive(v)  == [dir |-> TRUE,  out |-> v,     cfg |-> "in"]
Analog(p) == [p EXCEPT !.cfg = "mux"]
Driven(p) == p.dir /\ p.cfg # "mux"

-----------------------------------------------------------------------------
(* PIO: the expander's registers, and a channel driven through them.       *)
SafeRegs == [out |-> {}, pu |-> {}, pd |-> {}, od |-> {}, olat |-> {}]

gpmp_apply(regs) ==
    IF gpmp = NoFile THEN regs
    ELSE [out |-> gpmp.dir, olat |-> gpmp.out, od |-> gpmp.od,
          pu |-> gpmp.pull \cap gpmp.out, pd |-> gpmp.pull \ gpmp.out]

pio_phys_drive(regs, c, v, p) ==
    IF c \in regs.od /\ v
    THEN IF c \in regs.pu THEN PullUp ELSE [p EXCEPT !.dir = FALSE]
    ELSE [p EXCEPT !.dir = TRUE, !.out = v]

pio_drive_ch_out(regs, c, p) == pio_phys_drive(regs, c, c \in regs.olat, p)

pio_apply_ch(regs, c, p) ==
    CASE c \in regs.out -> pio_drive_ch_out(regs, c, [p EXCEPT !.cfg = "in"])
      [] c \in regs.pu \ regs.out -> PullUp
      [] c \in regs.pd \ regs.out -> PullDown
      [] OTHER -> Input(p)

pio_update_outputs(regs, pads) ==
    [c \in Pads |-> IF c \in regs.out THEN pio_drive_ch_out(regs, c, pads[c]) ELSE pads[c]]

(* An interlock output of the ADC and MIXED modes.                         *)
il_drive_output(v, od, p) ==
    CASE od = 2 /\ v -> PullUp
      [] od = 1 /\ v -> Input(p)
      [] OTHER -> Drive(v)

(* Asserted: driven low; released: pulled up, so that the line is wired-OR.*)
pio_int_assert(on, p) == IF on THEN [p EXCEPT !.dir = TRUE, !.out = FALSE] ELSE PullUp

-----------------------------------------------------------------------------
mxmp_apply(c, p) ==
    LET role == IF mxmp = NoFile THEN "safe" ELSE mxmp[c] IN
    CASE role \in {"in", "oc"} -> Input(p)
      [] role \in {"in_pu", "oc_pu"} -> PullUp
      [] role = "in_pd" -> PullDown
      [] role = "out" -> Drive(FALSE)
      [] role = "adc" -> Analog(p)
      [] role = "dac" -> p
      [] OTHER -> PowerOn

mixed_dac_en == mxmp # NoFile /\ \E c \in Chans : mxmp[c] = "dac"

(* The HAL claims of the interlock's pins; nobody else holds any.          *)
mixed_claim_pins(c, p) ==
    CASE ilcf = NoFile -> p
      [] ilcf # NoFile /\ c = ilcf.in -> Input(p)
      [] ilcf # NoFile /\ c = ilcf.out -> [p EXCEPT !.dir = TRUE, !.cfg = "off"]
      [] OTHER -> p

hal_pin_release_slot(c, p) ==
    IF ilcf # NoFile /\ c \in {ilcf.in, ilcf.out} THEN PowerOn ELSE p

-----------------------------------------------------------------------------
(* Bench roles of the pads that SERVO and COUNTER leave spare.             *)
declared == IF srvo = NoFile THEN {} ELSE {c \in Chans : srvo[c] = "servo"}
counting == IF cntr = NoFile THEN Pads ELSE {c \in Pads : cntr[c].count}
EdgeOf(c) == IF cntr = NoFile THEN 0 ELSE cntr[c].edge

bench_reserved(m) == IF m = "SERVO" THEN declared \cup {D6} ELSE counting

bench_role(m, c) ==
    IF c \in bench_reserved(m) THEN "none"
    ELSE CASE m = "SERVO" /\ srvo # NoFile -> srvo[c]
           [] m = "COUNTER" /\ cntr # NoFile -> cntr[c].role
           [] OTHER -> "none"

bench_apply_roles(m, c, p) ==
    LET role == bench_role(m, c) IN
    CASE role \in {"gpi", "oc"} -> Input(p)
      [] role = "oc_pu" -> PullUp
      [] role = "gpo" -> Drive(FALSE)
      [] role = "adc" -> Analog(p)
      [] OTHER -> p

counter_pin_input(c, p) ==
    LET pull == IF cntr = NoFile THEN 0 ELSE cntr[c].pull IN
    CASE pull = 1 -> PullUp [] pull = 2 -> PullDown [] OTHER -> Input(p)

-----------------------------------------------------------------------------
(* The pads after a mode is left, and after one is entered.                *)
LeavePads(m, pads) ==
    CASE m = "PIO" -> [c \in Pads |-> IF c = D6 THEN pio_int_assert(FALSE, pads[c]) ELSE Input(pads[c])]
      [] m = "MIXED" -> [c \in Pads |-> hal_pin_release_slot(c,
                            IF c = D6 THEN pio_int_assert(FALSE, pads[c]) ELSE pads[c])]
      [] m = "SERVO" -> [c \in Pads |-> IF c = D6 THEN pads[c] ELSE [pads[c] EXCEPT !.out = FALSE]]
      [] OTHER -> pads

EnterPads(m, regs, pads) ==
    CASE m = "PIO" -> [c \in Pads |-> IF c = D6 THEN pio_int_assert(FALSE, pads[c])
                                      ELSE pio_apply_ch(regs, c, pads[c])]
      [] m = "ADC" -> [c \in Pads |->
             CASE c \in {A0, A1} -> Analog(pads[c])
               [] ilcf # NoFile /\ c = ilcf.out /\ c \notin {A0, A1} ->
                     il_drive_output(ilcf.ok, ilcf.od, Input(pads[c]))
               [] OTHER -> pads[c]]
      [] m = "MIXED" -> [c \in Pads |-> mixed_claim_pins(c,
             IF c = D6 THEN Input(pads[c])
             ELSE IF c = A0 /\ mixed_dac_en THEN Analog(pads[c]) ELSE mxmp_apply(c, pads[c]))]
      [] m = "SERVO" -> [c \in Pads |->
             CASE c = D6 -> PullUp
               [] c \in declared -> [dir |-> TRUE, out |-> FALSE, cfg |-> "off"]
               [] OTHER -> bench_apply_roles(m, c, pads[c])]
      [] m = "COUNTER" -> [c \in Pads |->
             IF c \in counting THEN counter_pin_input(c, pads[c])
             ELSE IF c = A0 /\ bench_role(m, A0) = "dac" THEN Analog(pads[c])
             ELSE bench_apply_roles(m, c, pads[c])]
      [] OTHER -> pads

(* mode_go_offline: every pad an input without pull; then INT is released. *)
TriState(pads) == [c \in Pads |-> IF c = D6 THEN PullUp ELSE Input(pads[c])]
=============================================================================
