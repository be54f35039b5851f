--------------------------- MODULE SamdInterlock ---------------------------
(***************************************************************************)
(* The interlock slots of the SAMD21 client: samd21_interlocks.c on the    *)
(* pin table of samd21_hal_pin.c.  Slots live in .noinit memory and come   *)
(* back after a reset; the pin claims do not.  A program whose evaluation  *)
(* faults resets the chip; the boot counter is there to end the loop.      *)
(*                                                                         *)
(* The stores a command makes to the slot record are steps of their own,   *)
(* since a reset may fall between any two of them.  Names are prefixed so  *)
(* that the module can be extended with others.  A definition marked       *)
(* faulty is a mutant of the one below it.                                 *)
(***************************************************************************)
EXTENDS Integers, Sequences, FiniteSets

CONSTANTS
    SiSlots,          \* 0..INTERLOCK_MAX_SLOTS - 1
    SiPins, SiGpio, SiAdc, SiReserved,     \* the pin table
    SiPrograms,       \* parsed texts: [ins, outs, faults]
    SiMaxBoots,       \* INTERLOCK_MAX_BOOT_ATTEMPTS
    SiMaxCmds, SiMaxResets                 \* bounds

ASSUME SamdInterlockAssumption ==
    /\ IsFiniteSet(SiSlots) /\ SiSlots = 0..(Cardinality(SiSlots) - 1)
    /\ SiGpio \cup SiAdc \cup SiReserved \subseteq SiPins
    /\ {SiMaxBoots, SiMaxCmds, SiMaxResets} \subseteq Nat
    /\ SiPrograms \subseteq [ins : Seq([pin : SiPins, mode : {"in", "adc"}]),
                              outs : Seq([pin : SiPins, ok : {0, 1}, err : {0, 1}]),
                              faults : BOOLEAN]

VARIABLES
    siSlot,      \* state, id, boot_counter of every slot          (.noinit)
    siText,      \* the program of every slot                       (.noinit)
    siMagic,     \* the record is recognised                        (.noinit)
    siTf,        \* tf_state of every slot
    siClaims,    \* g_claims
    siOut,       \* the PORT output bits
    siPc,        \* "decide", "restore", or "run"
    siPend,      \* stores of the running command that are still to come
    siKept,      \* the programs answered with OK, by slot
    siTorn,      \* a reset has cut an arming in two
    siBudget     \* the bounds left, and the HardFaults since the last command
siVars == <<siSlot, siText, siMagic, siTf, siClaims, siOut, siPc, siPend, siKept, siTorn, siBudget>>
siPersist == <<siSlot, siText, siMagic>>

-----------------------------------------------------------------------------
NoProgram == [ins |-> << >>, outs |-> << >>, faults |-> FALSE]
EmptySlot == [state |-> "EMPTY", id |-> "NONE", bc |-> 0]
SiArmed(s) == siSlot[s].state = "ARMED"
Programmed == {s \in SiSlots : SiArmed(s) /\ siSlot[s].id = "DSL"}
Unowned == [own |-> {}, mode |-> "unclaimed", ok |-> 0, err |-> 0]

(* hal_pin_claim, hal_pin_claim_adc and hal_pin_claim_output.              *)
Usable(c, s) == c.own \subseteq {s}
ClaimIn(c, i, s) == /\ i.pin \in SiGpio \ SiReserved
                    /\ Usable(c[i.pin], s)
ClaimAdc(c, i, s) == /\ i.pin \in SiAdc \ SiReserved
                     /\ Usable(c[i.pin], s)
                     /\ c[i.pin].own = {s} => c[i.pin].mode = "adc"
ClaimOut(c, o, s) == /\ o.pin \in SiGpio \ SiReserved
                     /\ o.ok # o.err
                     /\ c[o.pin].own # {} => c[o.pin].mode = "out" /\ c[o.pin].ok = o.ok
Claims(r, pin, may, new) ==
    IF r.ok /\ may THEN [r EXCEPT !.claims[pin] = new] ELSE [r EXCEPT !.ok = FALSE]
AddIn(r, i, s) == Claims(r, i.pin, IF i.mode = "adc" THEN ClaimAdc(r.claims, i, s) ELSE ClaimIn(r.claims, i, s),
                         [own |-> {s}, mode |-> i.mode, ok |-> 0, err |-> 0])
TakeOver(c, s) == {s}                                                        \* faulty
Share(c, s) == c.own \cup {s}
AddOut(r, o, s) == Claims(r, o.pin, ClaimOut(r.claims, o, s),
                          [own |-> Share(r.claims[o.pin], s), mode |-> "out", ok |-> o.ok, err |-> o.err])

(* hal_pin_release_slot, claim_inst_pins with its rollback.                *)
Without(c, s) == IF c.own \subseteq {s} THEN Unowned ELSE [c EXCEPT !.own = @ \ {s}]
ReleaseSlot(claims, s) == [p \in SiPins |-> Without(claims[p], s)]
KeepClaims(r, s) == r                                                        \* faulty
Rollback(r, s) == IF r.ok THEN r ELSE [r EXCEPT !.claims = ReleaseSlot(r.claims, s)]
ClaimIns(claims, ins, s) ==
    LET r[n \in 0..Len(ins)] == IF n = 0 THEN [ok |-> TRUE, claims |-> claims]
                                ELSE AddIn(r[n - 1], ins[n], s)
    IN  r[Len(ins)]
ClaimOuts(from, outs, s) ==
    LET r[n \in 0..Len(outs)] == IF n = 0 THEN from ELSE AddOut(r[n - 1], outs[n], s)
    IN  r[Len(outs)]
ClaimInstPins(claims, prog, s) ==
    Rollback(ClaimOuts(ClaimIns(claims, prog.ins, s), prog.outs, s), s)
SafeOut(claims) == [p \in SiPins |-> IF claims[p].own = {} THEN 0 ELSE siOut[p]]   \* port_reset_to_safe

-----------------------------------------------------------------------------
SiInit ==       \* a power-on: the record holds anything
    /\ siMagic = FALSE
    /\ siSlot = [s \in SiSlots |-> EmptySlot] /\ siText = [s \in SiSlots |-> NoProgram]
    /\ siTf = [s \in SiSlots |-> "UNEVALUATED"]
    /\ siClaims = [p \in SiPins |-> Unowned] /\ siOut = [p \in SiPins |-> 0]
    /\ siPc = "decide" /\ siPend = << >>
    /\ siKept = [s \in SiSlots |-> NoProgram] /\ siTorn = FALSE
    /\ siBudget = [cmds |-> SiMaxCmds, resets |-> SiMaxResets, faults |-> 0]

(* interlock_boot_decide                                                   *)
KnownDslOnly == siMagic /\ \A s \in SiSlots : SiArmed(s) => siSlot[s].id = "DSL"   \* faulty
PersistOk == siMagic /\ \A s \in SiSlots : SiArmed(s) => siSlot[s].id # "NONE"
NoBump(r) == r                                                               \* faulty
BumpOnly(r) == IF r.state # "ARMED" THEN r ELSE [r EXCEPT !.bc = r.bc + 1]   \* faulty
BootBump(r) == IF r.state # "ARMED" THEN r
             ELSE IF r.bc >= SiMaxBoots THEN [r EXCEPT !.state = "POISONED"]
             ELSE [r EXCEPT !.bc = r.bc + 1]
ColdInit == [s \in SiSlots |-> EmptySlot]
SiBootDecide ==
    /\ siPc = "decide" /\ siPc' = "restore"
    /\ siMagic' = TRUE
    /\ siSlot' = IF PersistOk THEN [s \in SiSlots |-> BootBump(siSlot[s])] ELSE ColdInit
    /\ siText' = IF PersistOk THEN siText ELSE [s \in SiSlots |-> NoProgram]
    /\ siTf' = IF PersistOk THEN siTf ELSE [s \in SiSlots |-> "UNEVALUATED"]
    /\ UNCHANGED <<siClaims, siOut, siPend, siKept, siTorn, siBudget>>

(* interlock_warm_restore: slot after slot, claims from nothing.           *)
RestoreSlot(r, s) ==
    IF s \notin Programmed THEN r
    ELSE LET c == ClaimInstPins(r.claims, siText[s], s) IN
         [claims |-> c.claims, poison |-> IF c.ok THEN r.poison ELSE r.poison \cup {s}]
Restoring ==
    LET r[n \in 0..Cardinality(SiSlots)] == IF n = 0 THEN [claims |-> siClaims, poison |-> {}]
                                            ELSE RestoreSlot(r[n - 1], n - 1)
    IN  r[Cardinality(SiSlots)]
TfKept(s, r) == siTf[s]                                                      \* faulty
TfRestored(s, r) == IF s \in Programmed \ r.poison THEN "UNEVALUATED" ELSE siTf[s]
RestoredFrom(r) ==
    /\ siClaims' = r.claims
    /\ siSlot' = [s \in SiSlots |-> IF s \in r.poison THEN [siSlot[s] EXCEPT !.state = "POISONED"]
                                    ELSE siSlot[s]]
    /\ siTf' = [s \in SiSlots |-> TfRestored(s, r)]
SiWarmRestore ==
    /\ siPc = "restore" /\ siPc' = "run"
    /\ RestoredFrom(Restoring)
    /\ UNCHANGED <<siText, siMagic, siOut, siPend, siKept, siTorn, siBudget>>

-----------------------------------------------------------------------------
(* The commands.                                                           *)
Command == /\ siPc = "run" /\ siPend = << >> /\ siBudget.cmds > 0
           /\ siBudget' = [siBudget EXCEPT !.cmds = @ - 1, !.faults = 0]
Stores(s, prog, id, kinds) == [i \in DOMAIN kinds |-> [kind |-> kinds[i], s |-> s, prog |-> prog, id |-> id]]

(* interlock_set_slot_dsl: BUSY when armed or when a pin is not to be had. *)
SetFrom(c, s, prog) ==
    /\ siClaims' = c.claims
    /\ siOut' = SafeOut(c.claims)
    /\ siPend' = IF c.ok THEN Stores(s, prog, "DSL", <<"text", "state", "id">>) ELSE << >>
    /\ siKept' = IF c.ok THEN [siKept EXCEPT ![s] = NoProgram] ELSE siKept
SetSlotDsl(s, prog) ==
    /\ Command /\ ~SiArmed(s)
    /\ SetFrom(ClaimInstPins(siClaims, prog, s), s, prog)
    /\ UNCHANGED <<siPersist, siTf, siPc, siTorn>>

(* interlock_arm_slot_compiled                                             *)
ArmSlotCompiled(s) ==
    /\ Command /\ ~SiArmed(s)
    /\ siPend' = Stores(s, NoProgram, "NOOP", <<"state", "id", "text">>)
    /\ siKept' = [siKept EXCEPT ![s] = NoProgram]
    /\ UNCHANGED <<siPersist, siTf, siClaims, siOut, siPc, siTorn>>

(* interlock_disarm_slot                                                   *)
SiDisarm(s) ==
    /\ Command
    /\ siClaims' = ReleaseSlot(siClaims, s)
    /\ siOut' = SafeOut(ReleaseSlot(siClaims, s))
    /\ siSlot' = [siSlot EXCEPT ![s] = EmptySlot]
    /\ siText' = [siText EXCEPT ![s] = NoProgram]
    /\ siTf' = [siTf EXCEPT ![s] = "UNEVALUATED"]
    /\ siKept' = [siKept EXCEPT ![s] = NoProgram]
    /\ UNCHANGED <<siMagic, siPc, siPend, siTorn>>

(* The next store of a command; the answer is OK after the last one.       *)
StoreNext ==
    /\ siPc = "run" /\ siPend # << >> /\ siPend' = Tail(siPend)
    /\ LET w == Head(siPend) IN
       /\ siText' = IF w.kind = "text" THEN [siText EXCEPT ![w.s] = w.prog] ELSE siText
       /\ siSlot' = CASE w.kind = "state" -> [siSlot EXCEPT ![w.s].state = "ARMED"]
                      [] w.kind = "id" -> [siSlot EXCEPT ![w.s].id = w.id, ![w.s].bc = 0]
                      [] OTHER -> siSlot
       /\ siTf' = IF w.kind = "text" THEN [siTf EXCEPT ![w.s] = "UNEVALUATED"] ELSE siTf
       /\ siKept' = IF Len(siPend) = 1 THEN [siKept EXCEPT ![w.s] = w.prog] ELSE siKept
    /\ UNCHANGED <<siMagic, siClaims, siOut, siPc, siTorn, siBudget>>

-----------------------------------------------------------------------------
(* interlock_tick_all: evaluate, then drive every output once.             *)
Faulting == {s \in Programmed : siText[s].faults}
AllMustVeto(c, veto) == c.own \subseteq veto                                 \* faulty
AnyVeto(c, veto) == c.own \cap veto # {}
SiDriven(veto) == [p \in SiPins |-> IF siClaims[p].mode # "out" THEN siOut[p]
                                    ELSE IF AnyVeto(siClaims[p], veto) THEN siClaims[p].err ELSE siClaims[p].ok]
TfAfter(s, F) == IF s \in F THEN "FALSE" ELSE IF SiArmed(s) THEN "TRUE" ELSE siTf[s]
SiTickAll ==
    /\ siPc = "run" /\ siPend = << >> /\ Faulting = {}
    /\ \E F \in SUBSET Programmed :
          /\ siTf' = [s \in SiSlots |-> TfAfter(s, F)]
          /\ siOut' = SiDriven(F)
    /\ UNCHANGED <<siPersist, siClaims, siPc, siPend, siKept, siTorn, siBudget>>

(* A reset: RAM is lost, .noinit is not.                                   *)
HalfArmed == \E s \in SiSlots : SiArmed(s) /\ siSlot[s].id = "NONE"
LoseRam ==
    /\ siPc' = "decide" /\ siPend' = << >>
    /\ siClaims' = [p \in SiPins |-> Unowned] /\ siOut' = [p \in SiPins |-> 0]
    /\ siTorn' = (siTorn \/ HalfArmed)

(* The evaluation of a faulting program ends in HardFault_Handler.         *)
HardFault ==
    /\ siPc = "run" /\ siPend = << >> /\ Faulting # {}
    /\ siBudget' = [siBudget EXCEPT !.faults = @ + 1]
    /\ LoseRam
    /\ UNCHANGED <<siPersist, siTf, siKept>>

(* Watchdog, panic, the reset button, the 1200-baud touch.                 *)
WarmResetSi ==
    /\ siPc # "decide" /\ siBudget.resets > 0
    /\ siBudget' = [siBudget EXCEPT !.resets = @ - 1]
    /\ LoseRam
    /\ UNCHANGED <<siPersist, siTf, siKept>>

SiBoot == SiBootDecide \/ SiWarmRestore
SiRun == StoreNext \/ SiTickAll \/ HardFault
SiHost == \E s \in SiSlots : \/ \E prog \in SiPrograms : SetSlotDsl(s, prog)
                             \/ ArmSlotCompiled(s) \/ SiDisarm(s)
SiNext == SiBoot \/ SiRun \/ SiHost \/ WarmResetSi

SiSpec == SiInit /\ [][SiNext]_siVars

-----------------------------------------------------------------------------
SiTypeOK ==
    /\ siSlot \in [SiSlots -> [state : {"EMPTY", "ARMED", "POISONED"}, id : {"NONE", "NOOP", "DSL"},
                               bc : 0..SiMaxBoots]]
    /\ \A p \in SiPins : siClaims[p].own \subseteq SiSlots /\ siOut[p] \in {0, 1}
    /\ siTf \in [SiSlots -> {"UNEVALUATED", "TRUE", "FALSE"}]

(* Between commands the pin table, which a reset wipes and a refused       *)
(* command rolls back, says what the slots that survive say: a pin belongs *)
(* to exactly the armed programs that use it.                              *)
UsesPin(prog, p) == \/ \E i \in DOMAIN prog.ins : prog.ins[i].pin = p
                    \/ \E o \in DOMAIN prog.outs : prog.outs[o].pin = p
ClaimsFollowSlots ==
    (siPc = "run" /\ siPend = << >>) =>
        \A p \in SiPins : siClaims[p].own = {s \in Programmed : UsesPin(siText[s], p)}

(* The outputs of a program that said FALSE stay at their error level,     *)
(* whatever other slots share them and whatever is armed, disarmed or      *)
(* reset meanwhile, until it says TRUE or is gone.                         *)
FalseHoldsOutputs ==
    (siPc = "run" /\ siPend = << >>) => \A s \in Programmed : siTf[s] = "FALSE" =>
        \A o \in DOMAIN siText[s].outs : siOut[siText[s].outs[o].pin] = siText[s].outs[o].err

(* A program that was answered with OK is still there, armed or poisoned,  *)
(* after any reset, unless the reset cut an arming between the stores of   *)
(* `state' and `id'.                                                       *)
ArmedSurvives ==
    (siPc = "run" /\ siPend = << >> /\ ~siTorn) =>
        \A s \in SiSlots : siKept[s] # NoProgram =>
            siSlot[s].state \in {"ARMED", "POISONED"} /\ siText[s] = siKept[s]

(* A program that faults at every evaluation resets the client a bounded   *)
(* number of times, however boots, other slots and resets interleave; then *)
(* it is poisoned and the client runs without it.                          *)
CrashLoopBounded == siBudget.faults <= SiMaxBoots + 1

(* The client's pin table follows the slots through refused commands and   *)
(* resets, a program that said FALSE keeps its outputs at their error      *)
(* level whoever shares them, an armed program survives any reset, and     *)
(* the resets end after a bounded number of faults of one program          *)
(* (samd21_interlocks.c, samd21_hal_pin.c).                                *)
ClientSound == SiTypeOK /\ ClaimsFollowSlots /\ FalseHoldsOutputs /\ ArmedSurvives /\ CrashLoopBounded
=============================================================================
