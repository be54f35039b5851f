------------------------------- MODULE IlDsl -------------------------------
(***************************************************************************)
(* The interlock language: interlock_dsl.c reads a text from left to right *)
(* into an instance, and eval_slot of interlock.c runs the instance.  An   *)
(* item of a section is one step, so the texts are all the sequences of    *)
(* items; a token that fits nowhere is the item "bad".  dsText remembers   *)
(* what was written, for the properties.                                   *)
(*                                                                         *)
(* Names are prefixed so that the module can be extended with others.  A   *)
(* definition marked faulty is a mutant of the one below it.               *)
(***************************************************************************)
EXTENDS Integers, Sequences, FiniteSets, FiniteSetsExt, SequencesExt

CONSTANTS
    DsPins,        \* labels of the pin table
    DsVirtuals,    \* labels of the virtual inputs
    DsLabels,      \* labels a text may use, unknown ones included
    DsCfg,         \* cfg items: [pins, kind, mods]
    DsOps,         \* operators a text may use, unknown ones included
    DsNumbers,     \* thresholds, below DsWidth
    DsWidth,       \* 2^16
    DsMaxInputs, DsMaxOutputs, DsMaxWatches, DsMaxMods,
    DsMaxItems, DsMaxTicks    \* bounds

ASSUME IlDslAssumption ==
    /\ DsVirtuals \cap DsPins = {} /\ DsPins \cup DsVirtuals \subseteq DsLabels
    /\ {DsWidth, DsMaxInputs, DsMaxOutputs, DsMaxWatches, DsMaxMods, DsMaxItems, DsMaxTicks}
           \subseteq Nat
    /\ DsNumbers \subseteq 0..(DsWidth - 1)

VARIABLES
    dsInst,      \* il_inst_t
    dsSt,        \* il_parse_status_t, or where the parser is
    dsSeen,      \* seen_out_ok, seen_out_err
    dsGroup,     \* cur_group of the watch section being read
    dsText,      \* the clauses written, by watch section
    dsRun,       \* shift registers, debounced inputs and last passes of the slot
    dsHist,      \* the samples of every input, the newest first, and the last values
    dsLeft       \* items and ticks left
dsVars == <<dsInst, dsSt, dsSeen, dsGroup, dsText, dsRun, dsHist, dsLeft>>
dsParser == <<dsInst, dsSt, dsSeen, dsGroup, dsText>>

EmptyInst == [inputs |-> << >>, watches |-> << >>, outputs |-> << >>, tf |-> "UNEVALUATED"]
DsInit ==
    /\ dsInst = EmptyInst /\ dsSt = "section" /\ dsSeen = {} /\ dsGroup = 0
    /\ dsText = << >> /\ dsRun = << >> /\ dsHist = << >>
    /\ dsLeft = [items |-> DsMaxItems, ticks |-> DsMaxTicks]

-----------------------------------------------------------------------------
(* cfg[(pins):mode,modifiers]                                              *)
FindIdx(s, id) == LET at == {i \in DOMAIN s : s[i].id = id} IN IF at = {} THEN 0 ELSE Min(at)
SampleNums == {1, 2, 4, 8, 16}

ModOfAdc(m) ==
    CASE m.mod = "oversample" -> IF m.n \in SampleNums THEN "OK" ELSE "OVERSAMPLE_OUT_OF_RANGE"
      [] m.mod = "sh" -> IF m.n <= 63 THEN "OK" ELSE "SH_OUT_OF_RANGE"
      [] m.mod = "hyst" -> IF m.n < DsWidth THEN "OK" ELSE "THRESHOLD_OUT_OF_RANGE"
      [] m.mod = "debounce" -> "DEBOUNCE_NOT_ON_GPIO"
      [] OTHER -> "UNKNOWN_MODE"
ModOfInput(m) ==
    CASE m.mod \in {"up", "down"} -> "OK"
      [] m.mod = "debounce" -> IF m.n \in 2..15 THEN "OK" ELSE "DEBOUNCE_OUT_OF_RANGE"
      [] m.mod = "hyst" -> "HYST_NOT_ON_ADC"
      [] m.mod \in {"oversample", "sh"} -> "MODIFIER_ON_GPIO"
      [] OTHER -> "UNKNOWN_MODE"
ModOfOutput(kind, m) ==
    CASE kind = "oc" /\ m.mod = "up" -> "OK"
      [] m.mod = "hyst" -> "HYST_NOT_ON_ADC"
      [] m.mod = "debounce" -> "DEBOUNCE_NOT_ON_GPIO"
      [] m.mod \in {"oversample", "sh"} -> "MODIFIER_ON_GPIO"
      [] OTHER -> "UNKNOWN_MODE"
ModStatus(kind, m) == CASE kind = "adc" -> ModOfAdc(m) [] kind = "in" -> ModOfInput(m)
                        [] OTHER -> ModOfOutput(kind, m)
ModsStatus(kind, mods) ==
    IF kind \notin {"in", "out", "oc", "adc"} \/ Len(mods) >= DsMaxMods THEN "UNKNOWN_MODE"
    ELSE LET bad == {i \in DOMAIN mods : ModStatus(kind, mods[i]) # "OK"} IN
         IF bad = {} THEN "OK" ELSE ModStatus(kind, mods[Min(bad)])
Param(mods, mod) ==      \* the last one wins
    LET at == {i \in DOMAIN mods : mods[i].mod = mod} IN IF at = {} THEN 0 ELSE mods[Max(at)].n

Input(pin, it) == [id |-> pin, mode |-> it.kind,
                   hyst |-> IF it.kind = "adc" THEN Param(it.mods, "hyst") ELSE 0,
                   depth |-> IF it.kind = "in" THEN Param(it.mods, "debounce") ELSE 0]
TakenAsSame(inst, pin) == FindIdx(inst.inputs, pin) # 0                      \* faulty
Duplicate(inst, pin) == FindIdx(inst.inputs, pin) # 0 \/ FindIdx(inst.outputs, pin) # 0
Declare(inst, it, pin) ==
    IF it.kind \in {"in", "adc"} THEN [inst EXCEPT !.inputs = Append(inst.inputs, Input(pin, it))]
    ELSE [inst EXCEPT !.outputs = Append(inst.outputs, [id |-> pin, ok |-> 0, err |-> 0])]
FullLate(inst, it) == Len(inst.inputs) > DsMaxInputs                         \* faulty
Full(inst, it) == IF it.kind \in {"in", "adc"} THEN Len(inst.inputs) >= DsMaxInputs
                  ELSE Len(inst.outputs) >= DsMaxOutputs
DeclarePin(r, it, pin) ==
    CASE r.st # "OK" -> r
      [] pin \notin DsPins -> [r EXCEPT !.st = "UNKNOWN_PIN"]
      [] Duplicate(r.inst, pin) -> [r EXCEPT !.st = "DUPLICATE_PIN"]
      [] Full(r.inst, it) -> [r EXCEPT !.st = "TOO_MANY"]
      [] OTHER -> [r EXCEPT !.inst = Declare(r.inst, it, pin)]
CfgItem(it) == FoldLeft(LAMBDA r, pin : DeclarePin(r, it, pin),
                        [inst |-> dsInst, st |-> ModsStatus(it.kind, it.mods)], it.pins)

Spend == dsLeft' = [dsLeft EXCEPT !.items = @ - 1]
Reading(where) == dsSt \in where /\ dsLeft.items > 0 /\ Spend
Result(r, where) == /\ dsSt' = IF r.st = "OK" THEN where ELSE r.st
                    /\ dsInst' = r.inst

ParseCfg(it) ==
    /\ Reading({"section", "cfg"})
    /\ Result(CfgItem(it), "cfg")
    /\ UNCHANGED <<dsSeen, dsGroup, dsText, dsRun, dsHist>>

-----------------------------------------------------------------------------
(* watch[label:op:number, ... | ...]: AND within a group, OR between them. *)
(* A virtual input is declared where it is first used.                     *)
Virtual(l) == [id |-> l, mode |-> "virtual", hyst |-> 0, depth |-> 0]
Operand(inst, l) ==
    IF l \in DsVirtuals
    THEN IF FindIdx(inst.inputs, l) # 0 THEN [st |-> "OK", inst |-> inst]
         ELSE IF Len(inst.inputs) >= DsMaxInputs THEN [st |-> "TOO_MANY", inst |-> inst]
         ELSE [st |-> "OK", inst |-> [inst EXCEPT !.inputs = Append(inst.inputs, Virtual(l))]]
    ELSE IF l \notin DsPins THEN [st |-> "UNKNOWN_PIN", inst |-> inst]
    ELSE IF FindIdx(inst.inputs, l) = 0 THEN [st |-> "WATCH_INPUT_UNDECL", inst |-> inst]
    ELSE [st |-> "OK", inst |-> inst]
Number(n) == n % DsWidth          \* read_number keeps the low half
HystNever(inst, i, op) == FALSE                                              \* faulty
HystOnEq(inst, i, op) == inst.inputs[i].hyst # 0 /\ op \in {"eq", "ne"}
Watch(inst, i, op, n, g) ==
    IF HystOnEq(inst, i, op) THEN [st |-> "HYST_ON_EQ_NE", inst |-> inst]
    ELSE IF Len(inst.watches) >= DsMaxWatches THEN [st |-> "TOO_MANY", inst |-> inst]
    ELSE [st |-> "OK", inst |-> [inst EXCEPT !.watches =
             Append(inst.watches, [idx |-> i, op |-> op, n |-> Number(n), grp |-> g])]]
WatchItem(o, l, op, n, g) == IF o.st # "OK" THEN o ELSE Watch(o.inst, FindIdx(o.inst.inputs, l), op, n, g)

Ops == {"eq", "ne", "lt", "gt", "le", "ge"}
SameGroup(sep) == dsGroup                                                    \* faulty
NextGroup(sep) == IF sep = "bar" THEN dsGroup + 1 ELSE dsGroup
Clause(l, op, n) == [lbl |-> l, op |-> op, n |-> n]
ParseWatch(l, op, n, sep) ==
    /\ Reading(IF sep = "first" THEN {"section", "cfg", "watch", "out"} ELSE {"watch"})
    /\ IF op \in Ops
       THEN Result(WatchItem(Operand(dsInst, l), l, op, n,
                             IF sep = "first" THEN 0 ELSE NextGroup(sep)), "watch")
       ELSE dsSt' = "UNKNOWN_OP" /\ UNCHANGED dsInst
    /\ dsGroup' = IF sep = "first" THEN 0 ELSE NextGroup(sep)
    /\ dsText' = CASE sep = "first" -> Append(dsText, <<{Clause(l, op, n)}>>)
                   [] sep = "bar" -> [dsText EXCEPT ![Len(dsText)] = Append(@, {Clause(l, op, n)})]
                   [] OTHER -> [dsText EXCEPT ![Len(dsText)][Len(dsText[Len(dsText)])]
                                    = @ \cup {Clause(l, op, n)}]
    /\ UNCHANGED <<dsSeen, dsRun, dsHist>>

(* out_ok[pin:level] and out_err[pin:level]                                *)
OutItem(which, l, v) ==
    CASE v > 1 -> [st |-> "BAD_NUMBER", inst |-> dsInst]
      [] l \notin DsPins -> [st |-> "UNKNOWN_PIN", inst |-> dsInst]
      [] FindIdx(dsInst.outputs, l) = 0 -> [st |-> "OUTPUT_UNDECL", inst |-> dsInst]
      [] OTHER -> [st |-> "OK",
                   inst |-> [dsInst EXCEPT !.outputs[FindIdx(dsInst.outputs, l)][which] = v]]
ParseOutBlock(which, l, v) ==
    /\ Reading({"section", "cfg", "watch", "out"})
    /\ Result(OutItem(which, l, v), "out")
    /\ dsSeen' = dsSeen \cup {which}
    /\ UNCHANGED <<dsGroup, dsText, dsRun, dsHist>>

(* Anything else in the text.                                              *)
ParseBad ==
    /\ Reading({"section", "cfg", "watch", "out"})
    /\ dsSt' = "UNEXPECTED_CHAR"
    /\ UNCHANGED <<dsInst, dsSeen, dsGroup, dsText, dsRun, dsHist>>

(* The end of the text.                                                    *)
NoCheck == "OK"                                                              \* faulty
EndStatus ==
    CASE Len(dsInst.outputs) = 0 -> "OK"
      [] "ok" \notin dsSeen -> "MISSING_OUT_OK"
      [] "err" \notin dsSeen -> "MISSING_OUT_ERR"
      [] \E i \in DOMAIN dsInst.outputs : dsInst.outputs[i].ok = dsInst.outputs[i].err
            -> "OUTPUT_VALUE_MISMATCH"
      [] OTHER -> "OK"
ClearSlotRuntime == /\ dsRun' = [sr |-> [i \in DOMAIN dsInst.inputs |-> << >>],
                                 deb |-> [i \in DOMAIN dsInst.inputs |-> 0],
                                 last |-> [i \in DOMAIN dsInst.watches |-> FALSE]]
                    /\ dsHist' = [i \in DOMAIN dsInst.inputs |-> << >>]
EndOfText ==
    /\ dsSt \in {"section", "cfg", "watch", "out"}
    /\ dsSt' = EndStatus
    /\ ClearSlotRuntime
    /\ dsSeen' = {} /\ dsGroup' = 0 /\ dsLeft' = [dsLeft EXCEPT !.items = 0]
    /\ UNCHANGED <<dsInst, dsText>>

-----------------------------------------------------------------------------
(* eval_slot.  The shift register holds the last samples, the newest first.*)
ShiftIn(sr, raw, depth) == SubSeq(<<raw>> \o sr, 1, Min({Len(sr) + 1, depth}))
AllAre(sr, v, depth) ==       \* the register starts as zeros
    IF v = 0 THEN \A i \in DOMAIN sr : sr[i] = 0 ELSE Len(sr) = depth /\ \A i \in DOMAIN sr : sr[i] = 1
FlipAtOnce(sr, old, depth) == sr[1]                                          \* faulty
Debounce(sr, old, depth) == IF AllAre(sr, 1, depth) THEN 1 ELSE IF AllAre(sr, 0, depth) THEN 0 ELSE old
Filtered(in) == in.mode = "in" /\ in.depth >= 2

Teff(op, t, hyst, passed) ==
    CASE hyst = 0 \/ ~passed -> t
      [] op \in {"gt", "ge"} -> IF t > hyst THEN t - hyst ELSE 0
      [] op \in {"lt", "le"} -> Min({t + hyst, DsWidth - 1})
      [] OTHER -> t
Compare(op, v, t) == CASE op = "eq" -> v = t [] op = "ne" -> v # t [] op = "lt" -> v < t
                       [] op = "gt" -> v > t [] op = "le" -> v <= t [] OTHER -> v >= t
Passes(w, in, v, passed) == Compare(w.op, v, Teff(w.op, w.n, in.hyst, passed))
DnfResult(ws, pass) ==
    \/ ws = << >>
    \/ \E g \in {ws[i].grp : i \in DOMAIN ws} : \A i \in DOMAIN ws : ws[i].grp = g => pass[i]

Evaluate(sr, deb, val, pass) ==
    /\ dsRun' = [sr |-> sr, deb |-> deb, last |-> pass]
    /\ dsInst' = [dsInst EXCEPT !.tf = IF DnfResult(dsInst.watches, pass) THEN "TRUE" ELSE "FALSE"]
    /\ dsHist' = [i \in DOMAIN dsHist |-> <<val[i]>> \o dsHist[i]]
Watched(sr, deb, val, seen) ==
    Evaluate(sr, deb, val, [w \in DOMAIN dsInst.watches |->
        LET i == dsInst.watches[w].idx IN
        Passes(dsInst.watches[w], dsInst.inputs[i], seen[i], dsRun.last[w])])
Sampled(sr, val) ==
    LET deb == [i \in DOMAIN val |-> IF Filtered(dsInst.inputs[i])
                    THEN Debounce(sr[i], dsRun.deb[i], dsInst.inputs[i].depth) ELSE 0] IN
    Watched(sr, deb, val, [i \in DOMAIN val |-> IF Filtered(dsInst.inputs[i]) THEN deb[i] ELSE val[i]])
Samples(in) == IF in.mode = "adc" THEN 0..(DsWidth - 1) ELSE {0, 1}    \* what the properties tell apart
EvalSlot ==
    /\ dsSt = "OK" /\ dsLeft.ticks > 0
    /\ dsLeft' = [dsLeft EXCEPT !.ticks = @ - 1]
    /\ \E val \in [DOMAIN dsInst.inputs -> 0..(DsWidth - 1)] :
          /\ \A i \in DOMAIN val : val[i] \in Samples(dsInst.inputs[i])
          /\ Sampled([i \in DOMAIN val |-> IF Filtered(dsInst.inputs[i])
                         THEN ShiftIn(dsRun.sr[i], val[i], dsInst.inputs[i].depth) ELSE << >>], val)
    /\ UNCHANGED <<dsSt, dsSeen, dsGroup, dsText>>

DsNext ==
    \/ \E it \in DsCfg : ParseCfg(it)
    \/ \E l \in DsLabels, op \in DsOps, n \in DsNumbers, sep \in {"first", "comma", "bar"} :
          ParseWatch(l, op, n, sep)
    \/ \E which \in {"ok", "err"}, l \in DsLabels, v \in {0, 1, 2} : ParseOutBlock(which, l, v)
    \/ ParseBad \/ EndOfText \/ EvalSlot
DsSpec == DsInit /\ [][DsNext]_dsVars

-----------------------------------------------------------------------------
(* The parser stays within the tables of il_inst_t.                        *)
DsTypeOK ==
    /\ Len(dsInst.inputs) <= DsMaxInputs /\ Len(dsInst.outputs) <= DsMaxOutputs
    /\ Len(dsInst.watches) <= DsMaxWatches
    /\ \A i \in DOMAIN dsInst.watches : dsInst.watches[i].idx \in DOMAIN dsInst.inputs

(* What the parser accepts can be armed and can trip: a pin has one role   *)
(* in one place, every output has two different levels, and hysteresis     *)
(* never meets eq or ne, where eval_slot ignores it - in whatever order    *)
(* and over however many sections the text says it.                        *)
AcceptedIsSound ==
    dsSt = "OK" =>
        /\ \A i, j \in DOMAIN dsInst.inputs : dsInst.inputs[i].id = dsInst.inputs[j].id => i = j
        /\ \A i, j \in DOMAIN dsInst.outputs : dsInst.outputs[i].id = dsInst.outputs[j].id => i = j
        /\ \A i \in DOMAIN dsInst.outputs : /\ FindIdx(dsInst.inputs, dsInst.outputs[i].id) = 0
                                            /\ dsInst.outputs[i].ok # dsInst.outputs[i].err
        /\ \A i \in DOMAIN dsInst.watches :
              dsInst.inputs[dsInst.watches[i].idx].hyst # 0 => dsInst.watches[i].op \notin {"eq", "ne"}

(* An accepted text with one watch section means what it says: at every    *)
(* tick the slot is TRUE exactly when some group of the text, as written,  *)
(* holds.  A debounced input counts as the level it last held for `depth'  *)
(* ticks in a row (low at first); an ADC clause that held at the tick      *)
(* before keeps holding within its hysteresis.                             *)
DsHeld(h, v, depth) == Len(h) >= depth /\ \A i \in 1..depth : h[i] = v
Level(h, depth) ==
    LET ups == {k \in 0..Len(h) : DsHeld(SubSeq(h, k + 1, Len(h)), 1, depth)}
        downs == {k \in 0..Len(h) : DsHeld(SubSeq(h, k + 1, Len(h)), 0, depth)}
    IN IF ups = {} THEN 0 ELSE IF downs = {} THEN 1 ELSE IF Min(ups) < Min(downs) THEN 1 ELSE 0
Seen(i, h) == IF Filtered(dsInst.inputs[i]) THEN Level(h, dsInst.inputs[i].depth) ELSE Head(h)
Slack(op, n, hyst, v) == Compare(op, v, n) \/ CASE op \in {"gt", "ge"} -> Compare(op, v, Max({0, n - hyst}))
                                                [] op \in {"lt", "le"} -> Compare(op, v, Min({n + hyst, DsWidth - 1}))
                                                [] OTHER -> FALSE
Holds(c, i, h) ==       \* the clause at the newest sample of h
    LET run == {k \in 1..Len(h) : \A j \in 1..k : Slack(c.op, c.n, dsInst.inputs[i].hyst, h[j])} IN
    IF dsInst.inputs[i].mode = "adc" THEN \E k \in run : Compare(c.op, h[k], c.n)
    ELSE Compare(c.op, Seen(i, h), c.n)
MeansText ==
    (dsSt = "OK" /\ Len(dsText) = 1 /\ dsInst.tf # "UNEVALUATED") =>
        (dsInst.tf = "TRUE" <=>
            \E g \in DOMAIN dsText[1] : \A c \in dsText[1][g] :
                Holds(c, FindIdx(dsInst.inputs, c.lbl), dsHist[FindIdx(dsInst.inputs, c.lbl)]))
=============================================================================
