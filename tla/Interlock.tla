----------------------------- MODULE Interlock -----------------------------
(***************************************************************************)
(* The interlock of one node (node/interlock/interlock.c and               *)
(* il_hal_rp2040.c) from reset to the running tick, as                     *)
(* interlock_thread2_start of app/bus_controller/main.c brings it up.      *)
(*                                                                         *)
(* The persist record lies in RAM that a watchdog reset keeps and a power  *)
(* cut loses.  A reset may hit between any two steps, so bring-up is one   *)
(* step per slot, and interlock_set_slot_dsl one step per group of stores  *)
(* that a reset can come between (in the order of the source).             *)
(*                                                                         *)
(* An interlock text is a record: whether il_parse accepts it, the input   *)
(* pins it claims with their mode, and its output pins with the drive      *)
(* (ok level, err level, open drain) they are claimed for.  Which texts    *)
(* evaluate to FALSE in a tick is the environment's choice.  The status    *)
(* buffer the tick fills for the host is a copy of what is modelled and is *)
(* left out, as are the crash record and the compiled modes, which nothing *)
(* arms.                                                                   *)
(*                                                                         *)
(* A definition marked faulty is a mutant of the one below it; nothing     *)
(* uses it.                                                                *)
(***************************************************************************)
EXTENDS Integers, FiniteSets

CONSTANTS
    N,              \* INTERLOCK_MAX_SLOTS: slot 0 is built in, 1..N-1 are configured
    Pins,           \* the GPIO numbers
    BuiltIn,        \* gp1_il, the text of slot 0
    Dsls,           \* the texts an ilc file may hold
    Flashes,        \* the flashed configurations: the ilc files and the pin capabilities
    MaxBoots,       \* INTERLOCK_MAX_BOOT_ATTEMPTS
    Grace,          \* IL_GRACE_MS, in ticks
    Wrap,           \* 2^32 ms, in ticks: board_millis is taken modulo it
    MaxUptime,      \* bound: ticks between two resets
    MaxResets,      \* bound: watchdog resets
    MaxCuts,        \* bound: power cuts
    MaxFlashes,     \* bound: configurations flashed
    MaxClears       \* bound: global clear requests

None == [parses |-> FALSE, ins |-> {}, outs |-> {}]
NoFp == << >>
Slots == 0..(N - 1)
Configured == 1..(N - 1)

ASSUME InterlockAssumption ==
    /\ N \in Nat \ {0} /\ IsFiniteSet(Pins)
    /\ Dsls \cup {BuiltIn} \subseteq
         [parses : BOOLEAN, ins : SUBSET [pin : Pins, mode : {"in", "adc"}],
          outs : SUBSET [pin : Pins, drive : {"push", "oc"}]]
    /\ None \notin Dsls \cup {BuiltIn} /\ BuiltIn.parses
    /\ Flashes \subseteq [dsl : [Configured -> Dsls \cup {None}],
                          caps : SUBSET [pin : Pins, mode : {"in", "adc", "out"}]]
       \* il_plat_pin_cap and il_plat_adc_channel: a pin has one role
    /\ \A f \in Flashes : \A a, b \in f.caps : a.pin = b.pin => a.mode = b.mode
    /\ MaxBoots \in Nat \ {0} /\ Grace \in Nat \ {0} /\ Wrap \in Nat /\ Wrap > 2 * Grace
    /\ MaxUptime \in Nat /\ MaxResets \in Nat /\ MaxCuts \in Nat
    /\ MaxFlashes \in Nat /\ MaxClears \in Nat

VARIABLES
    slot,      \* persist.slots[], with the tf_state of its instance
    text,      \* persist.dsl_text[]: None for dsl_len = 0
    fp,        \* persist.cfg_fingerprint: the ilc files it was taken from
    magic,     \* persist.magic, version and self_size are right
    flash,     \* the flashed configuration
    claims,    \* g_claims[]
    out,       \* what an output pin is driven to
    clearReq,  \* g_il_clear_request
    now,       \* board_millis()
    until,     \* g_il_grace_until_ms
    pc,        \* where bring-up is; "run" once the tick task was created
    k,         \* the slot bring-up works on
    hist,      \* history: standing trips, slots the guard stopped, files refused when
               \* they were last tried, ticks since the grace began
    budget     \* what is left of the bounds

persistVars == <<slot, text, fp, magic>>
bootVars == <<pc, k>>
pinVars == <<claims, out>>
timeVars == <<clearReq, now, until>>
vars == <<persistVars, flash, pinVars, timeVars, bootVars, hist, budget>>

-----------------------------------------------------------------------------
Empty == [state |-> "EMPTY", id |-> "NONE", bc |-> 0, latched |-> FALSE, tf |-> "UNEVALUATED"]
Armed(s) == slot[s].state = "ARMED"
Unclaimed == [own |-> {}, mode |-> "none", drive |-> "none"]
PinsOf(d) == {i.pin : i \in d.ins} \cup {o.pin : o \in d.outs}

(* hal_pin_claim, hal_pin_claim_adc and hal_pin_claim_output: a digital    *)
(* input has one owner, an ADC channel is shared, and an output is shared  *)
(* by slots that agree on its drive.                                       *)
Claimable(d, s) ==
    /\ \A i \in d.ins : /\ [pin |-> i.pin, mode |-> i.mode] \in flash.caps
                        /\ i.mode = "in" => claims[i.pin].own \subseteq {s}
    /\ \A o \in d.outs : /\ [pin |-> o.pin, mode |-> "out"] \in flash.caps
                         /\ o.pin \notin {i.pin : i \in d.ins}
                         /\ \A q \in d.outs : q.pin = o.pin => q.drive = o.drive
                         /\ claims[o.pin].own # {} =>
                              claims[o.pin].mode = "out" /\ claims[o.pin].drive = o.drive

InClaim(p, m, s) == [own |-> IF m = "adc" THEN claims[p].own \cup {s} ELSE {s},
                     mode |-> m, drive |-> "none"]
LastOwner(p, s) == {s}                                                   \* faulty
ShareOut(p, s) == claims[p].own \cup {s}
OutClaim(p, v, s) == [own |-> ShareOut(p, s), mode |-> "out", drive |-> v]
Claimed(d, s) ==
    [p \in Pins |->
        IF \E i \in d.ins : i.pin = p
        THEN InClaim(p, (CHOOSE i \in d.ins : i.pin = p).mode, s)
        ELSE IF \E o \in d.outs : o.pin = p
        THEN OutClaim(p, (CHOOSE o \in d.outs : o.pin = p).drive, s)
        ELSE claims[p]]

(* The first claim of an output drives it to its ok level.                 *)
ClaimedOut(d) ==
    [p \in Pins |-> IF claims[p].own = {} /\ p \in {o.pin : o \in d.outs} THEN "ok" ELSE out[p]]

(* hal_pin_release_slot: an output nobody shares any more is released.     *)
Released(s) ==
    [p \in Pins |-> IF claims[p].own \subseteq {s} THEN Unclaimed
                    ELSE [claims[p] EXCEPT !.own = @ \ {s}]]
ReleasedOut(s) ==
    [p \in Pins |-> IF claims[p].mode = "out" /\ claims[p].own = {s} THEN "z" ELSE out[p]]

-----------------------------------------------------------------------------
(* Everything that is not in the persist record starts from its initial    *)
(* value.                                                                  *)
Restarted ==
    /\ claims' = [p \in Pins |-> Unclaimed] /\ out' = [p \in Pins |-> "z"]
    /\ clearReq' = FALSE /\ now' = 0 /\ until' = 0
    /\ pc' = "decide" /\ k' = 0

Init ==
    /\ slot = [s \in Slots |-> Empty] /\ text = [s \in Slots |-> None]
    /\ fp = NoFp /\ magic = FALSE
    /\ flash \in Flashes
    /\ claims = [p \in Pins |-> Unclaimed] /\ out = [p \in Pins |-> "z"]
    /\ clearReq = FALSE /\ now = 0 /\ until = 0
    /\ pc = "decide" /\ k = 0
    /\ hist = [trip |-> {}, guarded |-> {}, refused |-> {}, age |-> 0]
    /\ budget = [up |-> MaxUptime, resets |-> MaxResets, cuts |-> MaxCuts,
                 flashes |-> MaxFlashes, clears |-> MaxClears]

(* persist_is_valid                                                        *)
PersistIsValid ==
    /\ magic
    /\ \A s \in Slots : Armed(s) => slot[s].id = "DSL" /\ text[s] # None

(* interlock_boot_decide: the boot-loop guard, or persist_cold_init.       *)
PastLimit(b) == b > MaxBoots                                             \* faulty
AtLimit(b) == b >= MaxBoots
Bumped(s) ==
    IF ~Armed(s) THEN slot[s]
    ELSE IF AtLimit(slot[s].bc) THEN [slot[s] EXCEPT !.state = "POISONED"]
    ELSE [slot[s] EXCEPT !.bc = @ + 1]

BootDecideWarm ==
    /\ pc = "decide" /\ PersistIsValid
    /\ slot' = [s \in Slots |-> Bumped(s)]
    /\ hist' = [hist EXCEPT !.guarded = {s \in Slots : Armed(s) /\ AtLimit(slot[s].bc)}]
    /\ pc' = "restore" /\ k' = 0
    /\ UNCHANGED <<text, fp, magic, flash, pinVars, timeVars, budget>>

BootDecideCold ==
    /\ pc = "decide" /\ ~PersistIsValid
    /\ slot' = [s \in Slots |-> Empty] /\ text' = [s \in Slots |-> None]
    /\ fp' = NoFp /\ magic' = TRUE
    /\ hist' = [hist EXCEPT !.guarded = {}]
    /\ pc' = "restore" /\ k' = 0
    /\ UNCHANGED <<flash, pinVars, timeVars, budget>>

(* interlock_warm_restore for slot k: parse and claim again, or poison.    *)
RestoreForgets(r) == [r EXCEPT !.tf = "UNEVALUATED", !.latched = FALSE]    \* faulty
Restored(r) == [r EXCEPT !.tf = "UNEVALUATED"]

WarmRestore ==
    /\ pc = "restore" /\ k < N
    /\ k' = k + 1
    /\ IF Armed(k) /\ text[k].parses /\ Claimable(text[k], k)
       THEN /\ slot' = [slot EXCEPT ![k] = Restored(@)]
            /\ claims' = Claimed(text[k], k) /\ out' = ClaimedOut(text[k])
       ELSE /\ slot' = [slot EXCEPT ![k].state = IF Armed(k) THEN "POISONED" ELSE @]
            /\ UNCHANGED pinVars
    /\ UNCHANGED <<text, fp, magic, flash, timeVars, pc, hist, budget>>

(* interlock_thread2_start: re-arm from the ilc files when they changed or *)
(* nothing is armed.                                                       *)
Stale == fp # flash.dsl \/ \A s \in Slots : ~Armed(s)

StoredEarly ==                                                           \* faulty
    /\ pc = "restore" /\ k = N
    /\ pc' = IF Stale THEN "disarm" ELSE "builtin"
    /\ k' = 1
    /\ fp' = flash.dsl
    /\ UNCHANGED <<slot, text, magic, flash, pinVars, timeVars, hist, budget>>
CheckFingerprint ==
    /\ pc = "restore" /\ k = N
    /\ pc' = IF Stale THEN "disarm" ELSE "builtin"
    /\ k' = 1
    /\ UNCHANGED <<persistVars, flash, pinVars, timeVars, hist, budget>>

(* interlock_disarm_slot                                                   *)
Disarm(s) ==
    /\ slot' = [slot EXCEPT ![s] = Empty]
    /\ text' = [text EXCEPT ![s] = None]
    /\ claims' = Released(s) /\ out' = ReleasedOut(s)

DisarmStale ==
    /\ pc = "disarm" /\ k < N
    /\ Disarm(k)
    /\ k' = k + 1
       \* the new configuration is meant to replace the slot, with its trip
    /\ hist' = [hist EXCEPT !.trip = IF fp # flash.dsl THEN @ \ {k} ELSE @,
                            !.refused = @ \ {k}]
    /\ UNCHANGED <<fp, magic, flash, timeVars, pc, budget>>

DisarmDone ==
    /\ pc = "disarm" /\ k = N
    /\ pc' = "arm" /\ k' = 1
    /\ UNCHANGED <<persistVars, flash, pinVars, timeVars, hist, budget>>

(* interlock_begin_grace, and the tick task is created.                    *)
GraceFrom(t) == (t + Grace) % Wrap
StartTick ==
    /\ pc' = "run" /\ k' = 0
    /\ until' = GraceFrom(now)

(* Where bring-up goes after the text of slot k was armed or refused.      *)
AfterArm ==
    IF k = 0 THEN StartTick
    ELSE pc' = "arm" /\ k' = k + 1 /\ UNCHANGED until

Wanted == IF k = 0 THEN BuiltIn ELSE flash.dsl[k]

(* interlock_set_slot_dsl.  No file, a text that does not parse, or pins   *)
(* that cannot be claimed (the claims made so far are rolled back).        *)
ArmRefused ==
    /\ pc = "arm" /\ k < N
    /\ ~(Wanted.parses /\ Claimable(Wanted, k))
    /\ AfterArm
    /\ hist' = [hist EXCEPT !.refused = @ \cup {k}]
    /\ UNCHANGED <<persistVars, flash, pinVars, clearReq, now, budget>>

ArmClaim ==
    /\ pc = "arm" /\ k < N
    /\ Wanted.parses /\ Claimable(Wanted, k)
    /\ claims' = Claimed(Wanted, k) /\ out' = ClaimedOut(Wanted)
    /\ text' = [text EXCEPT ![k] = Wanted]
    /\ slot' = [slot EXCEPT ![k].tf = "UNEVALUATED"]
    /\ pc' = "state"
    /\ UNCHANGED <<fp, magic, flash, timeVars, k, hist, budget>>

ArmState ==
    /\ pc = "state"
    /\ slot' = [slot EXCEPT ![k].state = "ARMED"]
    /\ pc' = "commit"
    /\ UNCHANGED <<text, fp, magic, flash, pinVars, timeVars, k, hist, budget>>

ArmCommit ==
    /\ pc = "commit"
    /\ slot' = [slot EXCEPT ![k].id = "DSL", ![k].bc = 0, ![k].latched = FALSE]
    /\ AfterArm
    /\ UNCHANGED <<text, fp, magic, flash, pinVars, clearReq, now, hist, budget>>

StoreFingerprint ==
    /\ pc = "arm" /\ k = N
    /\ fp' = flash.dsl
    /\ pc' = "builtin"
    /\ UNCHANGED <<slot, text, magic, flash, pinVars, timeVars, k, hist, budget>>

(* Slot 0 keeps its latch when the built-in text was restored; otherwise   *)
(* it is dropped and armed again.                                          *)
Preserved == Armed(0) /\ text[0] = BuiltIn
KeepBuiltIn ==
    /\ pc = "builtin" /\ Preserved
    /\ StartTick
    /\ UNCHANGED <<persistVars, flash, pinVars, clearReq, now, hist, budget>>

DropBuiltIn ==
    /\ pc = "builtin" /\ ~Preserved
    /\ Disarm(0)
    /\ pc' = "arm" /\ k' = 0
    /\ UNCHANGED <<fp, magic, flash, timeVars, hist, budget>>

-----------------------------------------------------------------------------
(* interlock_tick_all, with F the slots whose watches fail in this tick.   *)

(* il_in_grace: (int32_t)(until - now) > 0                                 *)
InGraceInclusive(u) == LET d == (u - now) % Wrap IN 2 * d < Wrap          \* faulty
InGrace(u) == LET d == (u - now) % Wrap IN d # 0 /\ 2 * d < Wrap

(* hal_pin_drive_outputs                                                   *)
AllVeto(own, veto) == own # {} /\ own \subseteq veto                       \* faulty
Vetoed(own, veto) == own \cap veto # {}
Driven(veto) ==
    [p \in Pins |-> IF claims[p].mode # "out" THEN out[p]
                    ELSE IF Vetoed(claims[p].own, veto) THEN "err" ELSE "ok"]

Evaluated(s, F) ==
    [slot[s] EXCEPT !.tf = IF Armed(s) /\ slot[s].id = "DSL"
                           THEN IF s \in F THEN "FALSE" ELSE "TRUE"
                           ELSE @,
                    !.latched = @ /\ ~clearReq]
Latch(r, grace) == [r EXCEPT !.latched = @ \/ (~grace /\ r.state = "ARMED" /\ r.tf = "FALSE")]

Older(a) == IF a > Grace THEN a ELSE a + 1

TickAll(F) ==
    LET u == IF clearReq THEN GraceFrom(now) ELSE until
        after == [s \in Slots |-> Latch(Evaluated(s, F), InGrace(u))]
        veto == {s \in Slots : after[s].state = "ARMED" /\ after[s].latched}
    IN /\ pc = "run"
       /\ budget.up > 0
       /\ slot' = after
       /\ out' = Driven(veto)
       /\ clearReq' = FALSE
       /\ until' = u
       /\ now' = (now + 1) % Wrap
       /\ hist' = [hist EXCEPT !.trip = veto \cup (IF clearReq THEN {} ELSE @),
                               !.age = IF clearReq THEN 1 ELSE Older(@)]
       /\ budget' = [budget EXCEPT !.up = @ - 1]
       /\ UNCHANGED <<text, fp, magic, flash, claims, bootVars>>

-----------------------------------------------------------------------------
(* interlock_request_global_clear, from a command or the chain tree.       *)
RequestClear ==
    /\ budget.clears > 0 /\ ~clearReq
    /\ clearReq' = TRUE
    /\ budget' = [budget EXCEPT !.clears = @ - 1]
    /\ UNCHANGED <<persistVars, flash, pinVars, now, until, bootVars, hist>>

(* A watchdog reset (or il_panic) and a power cut, at any moment.          *)
WarmReset ==
    /\ budget.resets > 0
    /\ Restarted
    /\ budget' = [budget EXCEPT !.resets = @ - 1, !.up = MaxUptime]
    /\ hist' = [hist EXCEPT !.age = 0]
    /\ UNCHANGED <<persistVars, flash>>

PowerCut ==
    /\ budget.cuts > 0
    /\ Restarted
    /\ magic' = FALSE
    /\ hist' = [hist EXCEPT !.trip = {}, !.age = 0]
    /\ budget' = [budget EXCEPT !.cuts = @ - 1, !.up = MaxUptime]
    /\ UNCHANGED <<slot, text, fp, flash>>

(* The configuration region is flashed from the boot ROM (cfg_file.c only  *)
(* reads it), which ends in a reset that keeps the RAM.                    *)
Reflash(f) ==
    /\ budget.flashes > 0
    /\ Restarted
    /\ flash' = f
    /\ budget' = [budget EXCEPT !.flashes = @ - 1, !.up = MaxUptime]
    /\ hist' = [hist EXCEPT !.age = 0, !.trip = IF f.caps = flash.caps THEN @ ELSE @ \cap {0}]
    /\ UNCHANGED persistVars

BringUp ==
    \/ BootDecideWarm \/ BootDecideCold \/ WarmRestore \/ CheckFingerprint
    \/ DisarmStale \/ DisarmDone \/ ArmRefused \/ ArmClaim \/ ArmState \/ ArmCommit
    \/ StoreFingerprint \/ KeepBuiltIn \/ DropBuiltIn

Next ==
    \/ BringUp
    \/ \E F \in SUBSET Slots : TickAll(F)
    \/ RequestClear
    \/ WarmReset
    \/ PowerCut
    \/ \E f \in Flashes : Reflash(f)

Spec == Init /\ [][Next]_vars

-----------------------------------------------------------------------------
SlotRecords == [state : {"EMPTY", "ARMED", "POISONED"}, id : {"NONE", "DSL"}, bc : 0..MaxBoots,
                latched : BOOLEAN, tf : {"UNEVALUATED", "TRUE", "FALSE"}]

(* Types; the boot counter of a slot never passes the guard's limit.       *)
IlTypeOK ==
    /\ slot \in [Slots -> SlotRecords]
    /\ text \in [Slots -> Dsls \cup {BuiltIn, None}]
    /\ fp \in [Configured -> Dsls \cup {None}] \cup {NoFp} /\ magic \in BOOLEAN /\ flash \in Flashes
    /\ claims \in [Pins -> [own : SUBSET Slots, mode : {"none", "in", "adc", "out"},
                            drive : {"none", "push", "oc"}]]
    /\ out \in [Pins -> {"z", "ok", "err"}]
    /\ clearReq \in BOOLEAN /\ now \in Nat /\ until \in Nat
    /\ pc \in {"decide", "restore", "disarm", "arm", "state", "commit", "builtin", "run"}
    /\ k \in 0..N
    /\ hist \in [trip : SUBSET Slots, guarded : SUBSET Slots, refused : SUBSET Slots, age : 0..(Grace + 1)]
    /\ budget \in [up : 0..MaxUptime, resets : 0..MaxResets, cuts : 0..MaxCuts,
                   flashes : 0..MaxFlashes, clears : 0..MaxClears]

(* A slot that tripped is armed and latched, and goes on vetoing, until a    *)
(* global clear, a power cut or a new configuration (its text, or the pin    *)
(* roles): recovery of its input, and watchdog resets at any moment of       *)
(* bring-up, do not release it (latched lies in the persist record and       *)
(* warm_restore keeps it).                                                   *)
TripHeld == pc = "run" => \A s \in hist.trip : Armed(s) /\ slot[s].latched

(* A slot whose watches fail later than the grace window after a clear or a  *)
(* boot is latched in the same tick (phase 1b under il_in_grace).            *)
TripsOutsideGrace ==
    pc = "run" /\ hist.age > Grace => \A s \in Slots : Armed(s) /\ slot[s].tf = "FALSE" => slot[s].latched

(* From the first tick on, an output is at its err level exactly when one of *)
(* the slots that drive it is latched: the veto is the union of the latches, *)
(* whatever order the slots were armed, restored and released in.            *)
VetoIsUnion ==
    pc = "run" /\ hist.age > 0 => \A p \in Pins :
        out[p] = "err" <=> \E s \in Slots : /\ Armed(s) /\ slot[s].latched
                                            /\ \E o \in text[s].outs : o.pin = p

(* In the running node the claim table says which armed slots use a pin, no  *)
(* more and no fewer, and a digital input has one user: no reset, refusal    *)
(* or re-arm leaves a claim of a slot that is gone.                          *)
ClaimsMatchArmed ==
    pc = "run" => \A p \in Pins :
        /\ claims[p].own = {s \in Slots : Armed(s) /\ p \in PinsOf(text[s])}
        /\ claims[p].mode = "in" => Cardinality(claims[p].own) = 1

(* The persistent record and the pin table stay well formed and agree.       *)
PinsSound == IlTypeOK /\ ClaimsMatchArmed

(* A running node whose stored fingerprint is that of its flashed files has  *)
(* armed every file it did not refuse (or poisoned its slot), also when      *)
(* resets interrupted the re-arming: the fingerprint is stored last.         *)
ConfigArmed ==
    pc = "run" /\ fp = flash.dsl => \A s \in Configured \ hist.refused :
        slot[s].state # "EMPTY" /\ text[s] = flash.dsl[s]

(* What comments and documents say and the code does not do; each is       *)
(* violated.                                                               *)

(* interlock.h: a clear drops every latch and any slot still violated        *)
(* re-latches in that same tick.  The tick starts a grace window first.      *)
LiveHazardStays ==
    [][pc = "run" /\ pc' = "run" /\ clearReq /\ ~clearReq' =>
          \A s \in Slots : Armed(s) /\ slot[s].latched /\ slot'[s].tf = "FALSE" =>
              slot'[s].latched]_vars

(* interlock_boot_decide: a slot that keeps rebooting the node is poisoned   *)
(* and not armed again.  The bring-up that follows arms it.                  *)
GuardHolds == pc = "run" => \A s \in hist.guarded : ~Armed(s)
=============================================================================
