---- MODULE MCSamdModes ----
(* Three bank pads and the INT pad; every commissioned file is present.    *)
EXTENDS SamdModes, TLC

CONSTANTS c0, c1, c2

MCGpmp == [dir |-> {c2}, pull |-> {c1}, out |-> {c1}, od |-> {}]
MCMxmp == (c0 :> "dac") @@ (c1 :> "in_pu") @@ (c2 :> "out")
MCSrvo == (c0 :> "servo") @@ (c1 :> "servo") @@ (c2 :> "none")
MCCntr == LET spare == [count |-> FALSE, pull |-> 0, edge |-> 0, role |-> "none"] IN
          (c0 :> [spare EXCEPT !.role = "dac"]) @@ (c1 :> [spare EXCEPT !.count = TRUE])
          @@ (c2 :> [spare EXCEPT !.role = "gpo"]) @@ (D6 :> [spare EXCEPT !.role = "adc"])
MCIlcf == [in |-> c1, bad |-> FALSE, out |-> c2, ok |-> FALSE, err |-> TRUE, od |-> 0, depth |-> 2]
====
