---------------------------- MODULE MCInterlock ----------------------------
(* Three slots: the built-in one on GP1 and GP0, and two configured ones,  *)
(* one of which shares the GP0 veto.                                       *)
EXTENDS Interlock, TLC

In(p) == [pin |-> p, mode |-> "in"]
Out(p) == [pin |-> p, drive |-> "oc"]
Text(i, o) == [parses |-> TRUE, ins |-> i, outs |-> o]

MCPins == {0, 1, 2, 3, 26}
MCBuiltIn == Text({In(1)}, {Out(0)})
OnGp2 == Text({In(2)}, {Out(0)})
OnAdc == Text({[pin |-> 26, mode |-> "adc"]}, {[pin |-> 3, drive |-> "push"]})
Clash == Text({In(2), [pin |-> 26, mode |-> "adc"]}, {Out(0)})
Broken == [parses |-> FALSE, ins |-> {In(3)}, outs |-> {}]
MCDsls == {OnGp2, OnAdc, Clash, Broken}

Caps(ps) == [pin : {0}, mode : {"out"}] \cup [pin : {1}, mode : {"in"}]
            \cup [pin : {26}, mode : {"adc"}] \cup ps
Gp2In == [pin |-> 2, mode |-> "in"]
Gp3Out == [pin |-> 3, mode |-> "out"]
Files(a, b) == [s \in {1, 2} |-> IF s = 1 THEN a ELSE b]

(* One configuration, for the runs about resets.                           *)
FixedFlash == {[dsl |-> Files(OnGp2, OnAdc), caps |-> Caps({Gp2In, Gp3Out})]}
(* The ilc files change, clash or are absent; the hwio roles change.       *)
VaryingFlashes ==
    {[dsl |-> Files(OnGp2, OnAdc), caps |-> Caps({Gp2In, Gp3Out})],
     [dsl |-> Files(OnGp2, OnAdc), caps |-> Caps({Gp3Out})],
     [dsl |-> Files(OnGp2, Clash), caps |-> Caps({Gp2In, Gp3Out})],
     [dsl |-> Files(None, Broken), caps |-> Caps({Gp2In, Gp3Out})]}
=============================================================================
