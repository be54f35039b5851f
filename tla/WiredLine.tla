------------------------------- MODULE WiredLine -------------------------------
(***************************************************************************)
(* Several nodes on one shared veto line: slot 0 of each (gp1_il of        *)
(* app/bus_controller/main.c) watches the line through a debounced input   *)
(* and pulls it low while it is latched, so every node senses its own veto *)
(* and that of the others.                                                 *)
(*                                                                         *)
(* Time is counted in rounds of the 2 ms tick task: the nodes are not      *)
(* synchronised, so each ticks once per round in any order.  Module        *)
(* Interlock has the slots of one node in full; here a node is slot 0.     *)
(* A clear of the chain is a wave: the request reaches every node within   *)
(* Skew rounds of the first.  That is the host's part of the bargain; the  *)
(* node's part is a grace window long enough for it.                       *)
(***************************************************************************)
EXTENDS Integers, FiniteSets, Sequences

CONSTANTS
    WlNodes,     \* the nodes on the line
    Depth,       \* debounce_4 of gp1_il
    Skew,        \* rounds within which a clear reaches every node
    WlGrace,     \* IL_GRACE_MS, in ticks
    WlMaxPulls,  \* bound: times a device pulls the line
    WlMaxWaves,  \* bound: clears of the whole chain
    WlMaxAlone,  \* bound: clears of one node
    WlMaxResets  \* bound: watchdog resets

(* 250 ms are 125 ticks: with a depth of 4, a clear has 120 of them.       *)
ASSUME WiredLineAssumption ==
    /\ IsFiniteSet(WlNodes) /\ Depth \in Nat \ {0, 1} /\ Skew \in Nat
    /\ WlGrace \in Nat /\ WlGrace >= Skew + Depth + 1
    /\ {WlMaxPulls, WlMaxWaves, WlMaxAlone, WlMaxResets} \subseteq Nat

VARIABLES
    wlNode,    \* per node: the latch, g_input_shift_reg, g_input_debounced, whether GP0
               \* is driven low, ticks of grace left, g_il_clear_request
    wlTicked,  \* the nodes that have ticked in this round
    wlPull,    \* a device holds the line low
    wlWave,    \* the last clear of the chain: its age in rounds, the nodes it has
               \* reached; off once a device or a reset disturbed it
    wlHeld,    \* history: whole rounds for which some node has been latched, with no
               \* latch dropped and no reset
    wlBudget

wlVars == <<wlNode, wlTicked, wlPull, wlWave, wlHeld, wlBudget>>

-----------------------------------------------------------------------------
(* interlock_begin_grace.                                                  *)
NoGrace == 0                                                             \* faulty
BeginGrace == WlGrace

(* A reset clears what is not in the persist record and GP0 floats;        *)
(* interlock_thread2_start begins the grace before the first tick.         *)
Booted(latch) == [latch |-> latch, sr |-> [i \in 1..Depth |-> 0], deb |-> 0, drive |-> FALSE,
                  grace |-> BeginGrace, req |-> FALSE]

WaveOff == [on |-> FALSE, age |-> 0, heard |-> {}]

WlInit ==
    /\ wlNode \in [WlNodes -> {Booted(FALSE), Booted(TRUE)}]
    /\ wlTicked = {} /\ wlPull = FALSE /\ wlWave = WaveOff /\ wlHeld = 0
    /\ wlBudget = [pulls |-> WlMaxPulls, waves |-> WlMaxWaves, alone |-> WlMaxAlone,
                   resets |-> WlMaxResets]

(* The open-drain outputs and the pull-ups.                                *)
LineLevel == IF wlPull \/ \E n \in WlNodes : wlNode[n].drive THEN 0 ELSE 1

(* eval_slot for gp1: the level is taken over once Depth samples agree.    *)
WlShifted(sr) == Append(Tail(sr), LineLevel)
Debounced(sr, old) ==
    IF \A i \in 1..Depth : sr[i] = sr[Depth] THEN sr[Depth] ELSE old

LatchAlways(old, deb, grace) == old \/ deb = 0                           \* faulty
Latched(old, deb, grace) == old \/ (deb = 0 /\ grace = 0)

(* interlock_tick_all: serve a clear, evaluate, latch, drive.              *)
WlTick(n) ==
    /\ n \notin wlTicked
    /\ LET v == wlNode[n]
           grace == IF v.req THEN BeginGrace ELSE v.grace
           sr == WlShifted(v.sr)
           deb == Debounced(sr, v.deb)
           latch == Latched(v.latch /\ ~v.req, deb, grace)
       IN /\ wlNode' = [wlNode EXCEPT ![n] =
                [latch |-> latch, sr |-> sr, deb |-> deb, drive |-> latch,
                 grace |-> IF grace = 0 THEN 0 ELSE grace - 1, req |-> FALSE]]
          /\ wlHeld' = IF v.req THEN 0 ELSE wlHeld
    /\ wlTicked' = wlTicked \cup {n}
    /\ UNCHANGED <<wlPull, wlWave, wlBudget>>

(* Both numbers that only grow stop at the first value the properties tell *)
(* apart.                                                                  *)
Round ==
    /\ wlTicked = WlNodes
    /\ wlWave.on /\ wlWave.age = Skew => wlWave.heard = WlNodes
    /\ wlTicked' = {}
    /\ wlWave' = IF wlWave.on /\ wlWave.age < Skew THEN [wlWave EXCEPT !.age = @ + 1] ELSE wlWave
    /\ wlHeld' = IF \E n \in WlNodes : wlNode[n].latch
                 THEN IF wlHeld < WlGrace + 2 THEN wlHeld + 1 ELSE wlHeld
                 ELSE 0
    /\ UNCHANGED <<wlNode, wlPull, wlBudget>>

-----------------------------------------------------------------------------
(* CMD_INTERLOCK_CLEAR and kbapp_on_il_clear: as part of a wave, which is  *)
(* begun when no device pulls, or at one node only.                        *)
StartWave ==
    /\ ~wlPull /\ ~wlWave.on /\ wlBudget.waves > 0
    /\ wlWave' = [WaveOff EXCEPT !.on = TRUE]
    /\ wlBudget' = [wlBudget EXCEPT !.waves = @ - 1]
    /\ UNCHANGED <<wlNode, wlTicked, wlPull, wlHeld>>

HearWave(n) ==
    /\ wlWave.on /\ n \notin wlWave.heard
    /\ wlWave' = [wlWave EXCEPT !.heard = @ \cup {n}]
    /\ wlNode' = [wlNode EXCEPT ![n].req = TRUE]
    /\ UNCHANGED <<wlTicked, wlPull, wlHeld, wlBudget>>

ClearAlone(n) ==
    /\ wlBudget.alone > 0
    /\ wlNode' = [wlNode EXCEPT ![n].req = TRUE]
    /\ wlBudget' = [wlBudget EXCEPT !.alone = @ - 1]
    /\ UNCHANGED <<wlTicked, wlPull, wlWave, wlHeld>>

DevicePulls ==
    /\ ~wlPull /\ wlBudget.pulls > 0
    /\ wlPull' = TRUE /\ wlWave' = WaveOff
    /\ wlBudget' = [wlBudget EXCEPT !.pulls = @ - 1]
    /\ UNCHANGED <<wlNode, wlTicked, wlHeld>>

DeviceLetsGo ==
    /\ wlPull /\ wlPull' = FALSE
    /\ UNCHANGED <<wlNode, wlTicked, wlWave, wlHeld, wlBudget>>

NodeResets(n) ==
    /\ wlBudget.resets > 0
    /\ wlNode' = [wlNode EXCEPT ![n] = Booted(@.latch)]
    /\ wlWave' = WaveOff /\ wlHeld' = 0
    /\ wlBudget' = [wlBudget EXCEPT !.resets = @ - 1]
    /\ UNCHANGED <<wlTicked, wlPull>>

WlNext ==
    \/ \E n \in WlNodes : WlTick(n) \/ HearWave(n) \/ ClearAlone(n) \/ NodeResets(n)
    \/ Round \/ StartWave \/ DevicePulls \/ DeviceLetsGo

WlSpec == WlInit /\ [][WlNext]_wlVars

-----------------------------------------------------------------------------
(* A clear of the chain that no device and no reset disturbs is not undone: *)
(* a node that has served it stays unlatched, although the others hold the *)
(* line low until the request has reached them (IL_GRACE_MS, interlock.c). *)
ClearHolds ==
    wlWave.on => \A n \in wlWave.heard : wlNode[n].req \/ ~wlNode[n].latch

(* One trip is everybody's: once some node has stayed latched for the      *)
(* grace and two rounds, with no latch dropped and no reset, every node is *)
(* latched and pulls the line, whatever the devices did meanwhile.         *)
OneTripsAll ==
    wlHeld >= WlGrace + 2 => \A n \in WlNodes : wlNode[n].latch /\ wlNode[n].drive

(* The shared veto line: one node's trip becomes everybody's, and a clear  *)
(* that reaches all nodes in time is not undone by the last to hear of it  *)
(* (interlock_tick_all, interlock_begin_grace).                            *)
ChainSound == OneTripsAll /\ ClearHolds
=============================================================================
