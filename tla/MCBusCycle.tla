----------------------------- MODULE MCBusCycle -----------------------------
(* Model-checking instances of BusCycle.                                   *)
EXTENDS BusCycle, TLC

MCCfg12 == <<[addr |-> 2, enabled |-> TRUE], [addr |-> 1, enabled |-> TRUE]>>
MCCfg1  == <<[addr |-> 1, enabled |-> TRUE]>>
MCCfg2  == <<[addr |-> 2, enabled |-> TRUE]>>
BufSymmetry == Permutations(Bufs)
=============================================================================
