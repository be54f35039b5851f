--------------------------- MODULE InterlockProofs ---------------------------
(***************************************************************************)
(* Proofs about Interlock, for any number of slots, any pins, texts and    *)
(* configurations, and a reset or a power cut between any two steps of     *)
(* bring-up.                                                               *)
(*                                                                         *)
(* The claim table follows the slots through a set that changes with the   *)
(* place bring-up is at (Holders): nobody before the restore, the armed    *)
(* slots below k during it, all armed slots later, and with them the slot  *)
(* whose pins are claimed but which is not armed yet.  ClaimInv says what  *)
(* the table holds for such a set: the owners, and the mode and the drive  *)
(* each of them asked for.  That a claim succeeds can then be said of the  *)
(* texts alone (ClaimIff), whatever the order of the claims, which is what *)
(* lets a restore succeed where the arming did.                            *)
(*                                                                         *)
(* What a reset brings back is a second matter.  PersistPart says what the *)
(* persist record is worth at each place of bring-up; on it rest that a    *)
(* trip is held (TripPart) and that the files are armed whenever their     *)
(* fingerprint is stored (FInv), each within the resets the guard allows.  *)
(*                                                                         *)
(* At the end, several nodes on one wired line (WiredLine): ChainSound for *)
(* any number of nodes, debounce depth and skew of a clear.                *)
(***************************************************************************)
EXTENDS Interlock, WiredLine, FiniteSetTheorems, TLAPS

Texts == Dsls \cup {BuiltIn, None}
OneRole(caps) == \A a, b \in caps : a.pin = b.pin => a.mode = b.mode

(* A text the pin roles allow, and two texts that can be armed together.   *)
Fits(d, caps) ==
    /\ \A i \in d.ins : [pin |-> i.pin, mode |-> i.mode] \in caps
    /\ \A o \in d.outs : /\ [pin |-> o.pin, mode |-> "out"] \in caps
                         /\ \A q \in d.outs : q.pin = o.pin => q.drive = o.drive
Agree(d, e) ==
    /\ \A i \in d.ins, j \in e.ins : i.pin = j.pin => i.mode # "in" /\ j.mode # "in"
    /\ \A o \in d.outs, q \in e.outs : o.pin = q.pin => o.drive = q.drive

(* What the claims cl hold for the slots H with the texts tx.              *)
Owned(cl, tx, H) ==
    \A p \in Pins : /\ cl[p].own = {s \in H : p \in PinsOf(tx[s])}
                    /\ cl[p].own = {} => cl[p] = Unclaimed
                    /\ cl[p].mode = "in" => \E s \in H : cl[p].own = {s}
AsAsked(cl, tx, H) ==
    \A s \in H : /\ \A i \in tx[s].ins : cl[i.pin].mode = i.mode
                 /\ \A o \in tx[s].outs : cl[o.pin].mode = "out" /\ cl[o.pin].drive = o.drive
ClaimInv(cl, tx, caps, H) ==
    /\ \A s \in H : Fits(tx[s], caps)
    /\ \A s, t \in H : s # t => Agree(tx[s], tx[t])
    /\ Owned(cl, tx, H) /\ AsAsked(cl, tx, H)

-----------------------------------------------------------------------------
(* The parts of the invariant.                                             *)
ArmedSet == {s \in Slots : Armed(s)}
Holders == IF pc = "decide" THEN {}
           ELSE IF pc = "restore" THEN {s \in ArmedSet : s < k}
           ELSE IF pc = "state" THEN ArmedSet \cup {k}
           ELSE ArmedSet
ClaimPart == ClaimInv(claims, text, flash.caps, Holders)
CtlPart ==
    /\ (pc \in {"state", "commit"} => k < N)
    /\ (pc = "disarm" => k >= 1 /\ \A s \in Slots : s >= 1 /\ s < k => ~Armed(s))
    /\ (pc \in {"arm", "state"} => \A s \in Slots : (s = k \/ (k # 0 /\ s > k)) => ~Armed(s))
    /\ (pc = "commit" /\ k # 0 => \A s \in Slots : s > k => ~Armed(s))
OutPart ==
    /\ (pc # "run" => hist.age = 0)
    /\ (hist.age = 0 => \A p \in Pins : out[p] # "err")
    /\ VetoIsUnion

IInv == IlTypeOK /\ ClaimPart /\ CtlPart /\ OutPart

-----------------------------------------------------------------------------
LEMMA Consts ==
    /\ N \in Nat /\ N > 0 /\ 0 \in Slots /\ Slots \subseteq Nat /\ Configured \subseteq Slots
    /\ \A x \in 0..N : x < N => x \in Slots
    /\ MaxBoots \in Nat /\ Grace \in Nat /\ Wrap \in Nat /\ Wrap > 0 /\ MaxUptime \in Nat
    /\ MaxResets \in Nat /\ MaxCuts \in Nat /\ MaxFlashes \in Nat /\ MaxClears \in Nat
  <1>1. N \in Nat /\ N > 0
    BY InterlockAssumption
  <1>2. /\ MaxBoots \in Nat /\ Grace \in Nat /\ Wrap \in Nat /\ Wrap > 2 * Grace /\ MaxUptime \in Nat
        /\ MaxResets \in Nat /\ MaxCuts \in Nat /\ MaxFlashes \in Nat /\ MaxClears \in Nat
    BY InterlockAssumption
  <1> QED BY <1>1, <1>2 DEF Slots, Configured

LEMMA TextType ==
    ASSUME NEW d \in Texts
    PROVE  /\ d.parses \in BOOLEAN
           /\ \A i \in d.ins : i.pin \in Pins /\ i.mode \in {"in", "adc"}
           /\ \A o \in d.outs : o.pin \in Pins /\ o.drive \in {"push", "oc"}
  <1>1. CASE d = None
    BY <1>1 DEF None
  <1>2. CASE d # None
    <2>1. d \in [parses : BOOLEAN, ins : SUBSET [pin : Pins, mode : {"in", "adc"}],
                 outs : SUBSET [pin : Pins, drive : {"push", "oc"}]]
      BY <1>2, InterlockAssumption DEF Texts
    <2> QED BY <2>1
  <1> QED BY <1>1, <1>2

LEMMA RoleIs ==
    ASSUME NEW f \in Flashes PROVE OneRole(f.caps)
  BY InterlockAssumption DEF OneRole

LEMMA RoleEq ==
    ASSUME NEW caps, OneRole(caps), NEW p, NEW a, NEW b,
           [pin |-> p, mode |-> a] \in caps, [pin |-> p, mode |-> b] \in caps
    PROVE  a = b
  <1>1. [pin |-> p, mode |-> a].pin = [pin |-> p, mode |-> b].pin
    OBVIOUS
  <1>2. [pin |-> p, mode |-> a].mode = [pin |-> p, mode |-> b].mode
    BY <1>1 DEF OneRole
  <1> QED BY <1>2

(* Texts that fit use a pin in one way.                                    *)
LEMMA FitsTogether ==
    ASSUME NEW caps, OneRole(caps), NEW d \in Texts, NEW e \in Texts, Fits(d, caps), Fits(e, caps)
    PROVE  /\ \A i \in d.ins, j \in e.ins : i.pin = j.pin => i.mode = j.mode
           /\ \A i \in d.ins, o \in e.outs : i.pin # o.pin
           /\ \A i \in e.ins, o \in d.outs : i.pin # o.pin
  <1>1. ASSUME NEW i \in d.ins, NEW j \in e.ins, i.pin = j.pin PROVE i.mode = j.mode
    <2>1. [pin |-> i.pin, mode |-> i.mode] \in caps /\ [pin |-> i.pin, mode |-> j.mode] \in caps
      BY <1>1 DEF Fits
    <2> QED BY <2>1, RoleEq
  <1>2. ASSUME NEW i \in d.ins, NEW o \in e.outs, i.pin = o.pin PROVE FALSE
    <2>1. [pin |-> i.pin, mode |-> i.mode] \in caps /\ [pin |-> i.pin, mode |-> "out"] \in caps
      BY <1>2 DEF Fits
    <2>2. i.mode = "out"
      BY <2>1, RoleEq
    <2> QED BY <2>2, TextType
  <1>3. ASSUME NEW i \in e.ins, NEW o \in d.outs, i.pin = o.pin PROVE FALSE
    <2>1. [pin |-> i.pin, mode |-> i.mode] \in caps /\ [pin |-> i.pin, mode |-> "out"] \in caps
      BY <1>3 DEF Fits
    <2>2. i.mode = "out"
      BY <2>1, RoleEq
    <2> QED BY <2>2, TextType
  <1> QED BY <1>1, <1>2, <1>3

LEMMA PinsOfIs ==
    ASSUME NEW d, NEW p
    PROVE  p \in PinsOf(d) <=> (\E i \in d.ins : i.pin = p) \/ (\E o \in d.outs : o.pin = p)
  BY DEF PinsOf

-----------------------------------------------------------------------------
(* Claiming and releasing the pins of a slot.                              *)

(* Slot s, which holds nothing, can claim the pins of d exactly when d     *)
(* fits and agrees with the text of every holder.                          *)
LEMMA ClaimIff ==
    ASSUME NEW H, NEW s, s \notin H, NEW d \in Texts, OneRole(flash.caps),
           \A t \in H : text[t] \in Texts, ClaimInv(claims, text, flash.caps, H)
    PROVE  Claimable(d, s) <=> Fits(d, flash.caps) /\ \A t \in H : Agree(d, text[t])
  <1>o. \A p \in Pins : claims[p].own = {t \in H : p \in PinsOf(text[t])}
    BY DEF ClaimInv, Owned
  <1>1. ASSUME Claimable(d, s) PROVE Fits(d, flash.caps)
    BY <1>1 DEF Claimable, Fits
  <1>2. ASSUME Claimable(d, s), NEW t \in H PROVE Agree(d, text[t])
    <2>0. text[t] \in Texts /\ Fits(d, flash.caps) /\ Fits(text[t], flash.caps)
      BY <1>1, <1>2 DEF ClaimInv
    <2>1. ASSUME NEW i \in d.ins, NEW j \in text[t].ins, i.pin = j.pin
          PROVE  i.mode # "in" /\ j.mode # "in"
      <3>1. i.pin \in Pins /\ i.pin \in PinsOf(text[t])
        BY <2>1, TextType, PinsOfIs
      <3>2. t \in claims[i.pin].own
        BY <3>1, <1>o
      <3>3. i.mode # "in"
        BY <1>2, <3>2 DEF Claimable
      <3>4. i.mode = j.mode
        BY <2>0, <2>1, FitsTogether
      <3> QED BY <3>3, <3>4
    <2>2. ASSUME NEW o \in d.outs, NEW q \in text[t].outs, o.pin = q.pin PROVE o.drive = q.drive
      <3>1. o.pin \in Pins /\ o.pin \in PinsOf(text[t])
        BY <2>2, TextType, PinsOfIs
      <3>2. claims[o.pin].own # {}
        BY <3>1, <1>o
      <3>3. claims[o.pin].drive = o.drive
        BY <1>2, <3>2 DEF Claimable
      <3>4. claims[q.pin].drive = q.drive
        BY DEF ClaimInv, AsAsked
      <3> QED BY <2>2, <3>3, <3>4
    <2> QED BY <2>1, <2>2 DEF Agree
  <1>3. ASSUME Fits(d, flash.caps), \A t \in H : Agree(d, text[t]) PROVE Claimable(d, s)
    <2>1. ASSUME NEW i \in d.ins, i.mode = "in" PROVE claims[i.pin].own = {}
      <3> SUFFICES ASSUME claims[i.pin].own # {} PROVE FALSE
        OBVIOUS
      <3>1. PICK t \in H : i.pin \in PinsOf(text[t])
        BY <1>o, TextType
      <3>2. text[t] \in Texts /\ Fits(text[t], flash.caps) /\ Agree(d, text[t])
        BY <1>3 DEF ClaimInv
      <3>3. \A o \in text[t].outs : o.pin # i.pin
        BY <3>2, <1>3, FitsTogether
      <3>4. PICK j \in text[t].ins : j.pin = i.pin
        BY <3>1, <3>3, PinsOfIs
      <3> QED BY <3>2, <3>4, <2>1 DEF Agree
    <2>2. ASSUME NEW o \in d.outs, claims[o.pin].own # {}
          PROVE  claims[o.pin].mode = "out" /\ claims[o.pin].drive = o.drive
      <3>1. PICK t \in H : o.pin \in PinsOf(text[t])
        BY <1>o, <2>2, TextType
      <3>2. text[t] \in Texts /\ Fits(text[t], flash.caps) /\ Agree(d, text[t])
        BY <1>3 DEF ClaimInv
      <3>3. \A i \in text[t].ins : i.pin # o.pin
        BY <3>2, <1>3, FitsTogether
      <3>4. PICK q \in text[t].outs : q.pin = o.pin
        BY <3>1, <3>3, PinsOfIs
      <3>5. o.drive = q.drive
        BY <3>2, <3>4 DEF Agree
      <3> QED BY <3>4, <3>5 DEF ClaimInv, AsAsked
    <2>3. \A o \in d.outs : o.pin \notin {i.pin : i \in d.ins}
      BY <1>3, FitsTogether
    <2>4. \A i \in d.ins : /\ [pin |-> i.pin, mode |-> i.mode] \in flash.caps
                           /\ i.mode = "in" => claims[i.pin].own \subseteq {s}
      BY <1>3, <2>1 DEF Fits
    <2>5. \A o \in d.outs : /\ [pin |-> o.pin, mode |-> "out"] \in flash.caps
                            /\ \A q \in d.outs : q.pin = o.pin => q.drive = o.drive
      BY <1>3 DEF Fits
    <2> QED BY <2>2, <2>3, <2>4, <2>5 DEF Claimable
  <1> QED BY <1>1, <1>2, <1>3

LEMMA AgreeSym == \A d, e : Agree(d, e) => Agree(e, d)
  BY DEF Agree

(* The entry of pin p after slot s has claimed the pins of d.              *)
LEMMA ClaimedIn ==
    ASSUME NEW d, NEW s, NEW p \in Pins, \E i \in d.ins : i.pin = p
    PROVE  \E i \in d.ins : i.pin = p /\ Claimed(d, s)[p] = InClaim(p, i.mode, s)
  <1>1. PICK i : i = CHOOSE j \in d.ins : j.pin = p
    OBVIOUS
  <1>2. i \in d.ins /\ i.pin = p
    BY <1>1
  <1>3. Claimed(d, s)[p] = InClaim(p, i.mode, s)
    BY <1>1 DEF Claimed
  <1> QED BY <1>2, <1>3

LEMMA ClaimedShared ==
    ASSUME NEW d, NEW s, NEW p \in Pins, ~\E i \in d.ins : i.pin = p, \E o \in d.outs : o.pin = p
    PROVE  \E o \in d.outs : o.pin = p /\ Claimed(d, s)[p] = OutClaim(p, o.drive, s)
  <1>1. PICK o : o = CHOOSE q \in d.outs : q.pin = p
    OBVIOUS
  <1>2. o \in d.outs /\ o.pin = p
    BY <1>1
  <1>3. Claimed(d, s)[p] = OutClaim(p, o.drive, s)
    BY <1>1 DEF Claimed
  <1> QED BY <1>2, <1>3

LEMMA ClaimedOther ==
    ASSUME NEW d, NEW s, NEW p \in Pins, ~\E i \in d.ins : i.pin = p, ~\E o \in d.outs : o.pin = p
    PROVE  Claimed(d, s)[p] = claims[p]
  BY DEF Claimed

LEMMA ClaimDone ==
    ASSUME NEW H, NEW s, s \notin H, NEW d \in Texts, OneRole(flash.caps),
           \A t \in H : text[t] \in Texts, ClaimInv(claims, text, flash.caps, H),
           Claimable(d, s), NEW tx, tx[s] = d, \A t \in H : tx[t] = text[t]
    PROVE  ClaimInv(Claimed(d, s), tx, flash.caps, H \cup {s})
  <1>h. /\ \A t \in H : Fits(text[t], flash.caps) /\ text[t] \in Texts
        /\ \A t, u \in H : t # u => Agree(text[t], text[u])
        /\ Owned(claims, text, H) /\ AsAsked(claims, text, H)
    BY DEF ClaimInv
  <1>f. Fits(d, flash.caps) /\ \A t \in H : Agree(d, text[t])
    BY ClaimIff
  <1>o. \A p \in Pins : claims[p].own = {t \in H : p \in PinsOf(text[t])}
    BY <1>h DEF Owned
  <1>1. \A t \in H \cup {s} : Fits(tx[t], flash.caps)
    BY <1>h, <1>f
  <1>2. \A t, u \in H \cup {s} : t # u => Agree(tx[t], tx[u])
    BY <1>h, <1>f, AgreeSym
  <1>3. PICK cl : cl = Claimed(d, s)
    OBVIOUS
  <1>4. ASSUME NEW p \in Pins, NEW i \in d.ins, i.pin = p
        PROVE  /\ cl[p].mode = i.mode /\ cl[p].own = claims[p].own \cup {s}
               /\ i.mode = "in" => cl[p].own = {s}
    <2>0. \E j \in d.ins : j.pin = p /\ Claimed(d, s)[p] = InClaim(p, j.mode, s)
      BY <1>4, ClaimedIn
    <2>a. PICK j \in d.ins : j.pin = p /\ cl[p] = InClaim(p, j.mode, s)
      BY <1>3, <2>0
    <2>1. /\ j.pin = p /\ cl[p].mode = j.mode
          /\ cl[p].own = IF j.mode = "adc" THEN claims[p].own \cup {s} ELSE {s}
      BY <2>a DEF InClaim
    <2>2. j.mode = i.mode
      BY <1>4, <1>f, <2>1, FitsTogether
    <2>3. i.mode = "in" \/ i.mode = "adc"
      BY TextType
    <2>4. i.mode = "in" => claims[p].own = {}
      BY <1>4, <1>o DEF Claimable
    <2> QED BY <2>1, <2>2, <2>3, <2>4
  <1>5. ASSUME NEW p \in Pins, NEW o \in d.outs, o.pin = p
        PROVE  /\ cl[p].mode = "out" /\ cl[p].drive = o.drive /\ cl[p].own = claims[p].own \cup {s}
               /\ ~\E i \in d.ins : i.pin = p
    <2>1. ~\E i \in d.ins : i.pin = p
      BY <1>5, <1>f, FitsTogether
    <2>0. \E q \in d.outs : q.pin = p /\ Claimed(d, s)[p] = OutClaim(p, q.drive, s)
      BY <1>5, <2>1, ClaimedShared
    <2>a. PICK q \in d.outs : q.pin = p /\ cl[p] = OutClaim(p, q.drive, s)
      BY <1>3, <2>0
    <2>2. /\ q.pin = p /\ cl[p].mode = "out" /\ cl[p].drive = q.drive
          /\ cl[p].own = claims[p].own \cup {s}
      BY <2>a DEF OutClaim, ShareOut
    <2>3. q.drive = o.drive
      BY <1>5, <1>f, <2>2 DEF Fits
    <2> QED BY <2>1, <2>2, <2>3
  <1>6. ASSUME NEW p \in Pins, p \notin PinsOf(d) PROVE cl[p] = claims[p]
    <2>1. (~\E i \in d.ins : i.pin = p) /\ ~\E o \in d.outs : o.pin = p
      BY <1>6, PinsOfIs
    <2>2. Claimed(d, s)[p] = claims[p]
      BY <2>1, ClaimedOther
    <2> QED BY <1>3, <2>2
  <1>7. Owned(cl, tx, H \cup {s})
    <2> SUFFICES ASSUME NEW p \in Pins
                 PROVE  /\ cl[p].own = {t \in H \cup {s} : p \in PinsOf(tx[t])}
                        /\ cl[p].own = {} => cl[p] = Unclaimed
                        /\ cl[p].mode = "in" => \E t \in H \cup {s} : cl[p].own = {t}
      BY DEF Owned
    <2>1. CASE p \in PinsOf(d)
      <3>1. cl[p].own = claims[p].own \cup {s}
        BY <2>1, <1>4, <1>5, PinsOfIs
      <3>2. cl[p].own = {t \in H \cup {s} : p \in PinsOf(tx[t])}
        BY <3>1, <2>1, <1>o
      <3>3. cl[p].mode = "in" => cl[p].own = {s}
        BY <2>1, <1>4, <1>5, PinsOfIs
      <3> QED BY <3>1, <3>2, <3>3
    <2>2. CASE p \notin PinsOf(d)
      <3>1. cl[p] = claims[p]
        BY <2>2, <1>6
      <3>2. cl[p].own = {t \in H \cup {s} : p \in PinsOf(tx[t])}
        BY <3>1, <2>2, <1>o
      <3> QED BY <3>1, <3>2, <1>h DEF Owned
    <2> QED BY <2>1, <2>2
  <1>8. AsAsked(cl, tx, H \cup {s})
    <2> SUFFICES ASSUME NEW t \in H \cup {s}
                 PROVE  /\ \A i \in tx[t].ins : cl[i.pin].mode = i.mode
                        /\ \A o \in tx[t].outs : cl[o.pin].mode = "out" /\ cl[o.pin].drive = o.drive
      BY DEF AsAsked
    <2>1. CASE t = s
      BY <2>1, <1>4, <1>5, TextType
    <2>2. CASE t \in H
      <3>0. tx[t] = text[t] /\ text[t] \in Texts /\ Fits(text[t], flash.caps) /\ Agree(d, text[t])
        BY <2>2, <1>h, <1>f
      <3>1. ASSUME NEW i \in text[t].ins PROVE cl[i.pin].mode = i.mode
        <4>1. i.pin \in Pins /\ claims[i.pin].mode = i.mode
          BY <2>2, <3>0, <1>h, TextType DEF AsAsked
        <4>2. CASE \E j \in d.ins : j.pin = i.pin
          BY <4>1, <4>2, <3>0, <1>4, <1>f, FitsTogether
        <4>3. CASE ~\E j \in d.ins : j.pin = i.pin
          <5>1. i.pin \notin PinsOf(d)
            BY <4>3, <3>0, <1>f, FitsTogether, PinsOfIs
          <5> QED BY <4>1, <5>1, <1>6
        <4> QED BY <4>2, <4>3
      <3>2. ASSUME NEW o \in text[t].outs PROVE cl[o.pin].mode = "out" /\ cl[o.pin].drive = o.drive
        <4>1. o.pin \in Pins /\ claims[o.pin].mode = "out" /\ claims[o.pin].drive = o.drive
          BY <2>2, <3>0, <1>h, TextType DEF AsAsked
        <4>2. CASE \E q \in d.outs : q.pin = o.pin
          <5>1. PICK q \in d.outs : q.pin = o.pin
            BY <4>2
          <5>2. q.drive = o.drive
            BY <5>1, <3>0 DEF Agree
          <5> QED BY <5>1, <5>2, <4>1, <1>5
        <4>3. CASE ~\E q \in d.outs : q.pin = o.pin
          <5>1. o.pin \notin PinsOf(d)
            BY <4>3, <3>0, <1>f, FitsTogether, PinsOfIs
          <5> QED BY <4>1, <5>1, <1>6
        <4> QED BY <4>2, <4>3
      <3> QED BY <3>0, <3>1, <3>2
    <2> QED BY <2>1, <2>2
  <1> QED BY <1>1, <1>2, <1>3, <1>7, <1>8 DEF ClaimInv

LEMMA ReleaseDone ==
    ASSUME NEW H, NEW s, claims \in [Pins -> [own : SUBSET Slots, mode : {"none", "in", "adc", "out"},
                                             drive : {"none", "push", "oc"}]],
           \A t \in H : text[t] \in Texts,
           ClaimInv(claims, text, flash.caps, H), NEW tx, \A t \in H \ {s} : tx[t] = text[t]
    PROVE  ClaimInv(Released(s), tx, flash.caps, H \ {s})
  <1>h. /\ \A t \in H : Fits(text[t], flash.caps)
        /\ \A t, u \in H : t # u => Agree(text[t], text[u])
        /\ Owned(claims, text, H) /\ AsAsked(claims, text, H)
    BY DEF ClaimInv
  <1>1. PICK cl : cl = Released(s)
    OBVIOUS
  <1>2. ASSUME NEW p \in Pins
        PROVE  /\ claims[p].own \subseteq {s} => cl[p] = Unclaimed
               /\ ~(claims[p].own \subseteq {s}) =>
                    /\ cl[p].own = claims[p].own \ {s} /\ cl[p].mode = claims[p].mode
                    /\ cl[p].drive = claims[p].drive
    BY <1>1 DEF Released
  <1>3. Unclaimed.own = {} /\ Unclaimed.mode # "in"
    BY DEF Unclaimed
  <1>4. Owned(cl, tx, H \ {s})
    <2> SUFFICES ASSUME NEW p \in Pins
                 PROVE  /\ cl[p].own = {t \in H \ {s} : p \in PinsOf(tx[t])}
                        /\ cl[p].own = {} => cl[p] = Unclaimed
                        /\ cl[p].mode = "in" => \E t \in H \ {s} : cl[p].own = {t}
      BY DEF Owned
    <2>1. /\ claims[p].own = {t \in H : p \in PinsOf(text[t])}
          /\ (claims[p].mode = "in" => \E t \in H : claims[p].own = {t})
      BY <1>h DEF Owned
    <2>2. claims[p].own \ {s} = {t \in H \ {s} : p \in PinsOf(tx[t])}
      BY <2>1
    <2>3. CASE claims[p].own \subseteq {s}
      <3>1. cl[p] = Unclaimed /\ claims[p].own \ {s} = {}
        BY <1>2, <2>3
      <3> QED BY <3>1, <2>2, <1>3
    <2>4. CASE ~(claims[p].own \subseteq {s})
      <3>1. cl[p].own = claims[p].own \ {s} /\ cl[p].mode = claims[p].mode
        BY <1>2, <2>4
      <3>2. cl[p].own # {}
        BY <3>1, <2>4
      <3>3. ASSUME cl[p].mode = "in" PROVE \E t \in H \ {s} : cl[p].own = {t}
        <4>1. PICK t \in H : claims[p].own = {t}
          BY <3>1, <3>3, <2>1
        <4>2. t # s
          BY <4>1, <2>4
        <4> QED BY <3>1, <4>1, <4>2
      <3> QED BY <3>1, <3>2, <3>3, <2>2
    <2> QED BY <2>3, <2>4
  <1>5. AsAsked(cl, tx, H \ {s})
    <2> SUFFICES ASSUME NEW t \in H \ {s}
                 PROVE  /\ \A i \in text[t].ins : cl[i.pin].mode = i.mode
                        /\ \A o \in text[t].outs : cl[o.pin].mode = "out" /\ cl[o.pin].drive = o.drive
      BY DEF AsAsked
    <2>1. ASSUME NEW p \in Pins, p \in PinsOf(text[t])
          PROVE  cl[p].mode = claims[p].mode /\ cl[p].drive = claims[p].drive
      <3>1. t \in claims[p].own
        BY <2>1, <1>h DEF Owned
      <3>2. ~(claims[p].own \subseteq {s})
        BY <3>1
      <3> QED BY <3>2, <1>2
    <2>2. \A i \in text[t].ins : i.pin \in Pins /\ i.pin \in PinsOf(text[t])
      BY TextType, PinsOfIs
    <2>3. \A o \in text[t].outs : o.pin \in Pins /\ o.pin \in PinsOf(text[t])
      BY TextType, PinsOfIs
    <2> QED BY <2>1, <2>2, <2>3, <1>h DEF AsAsked
  <1>6. /\ \A t \in H \ {s} : Fits(tx[t], flash.caps)
        /\ \A t, u \in H \ {s} : t # u => Agree(tx[t], tx[u])
    BY <1>h
  <1> QED BY <1>1, <1>4, <1>5, <1>6 DEF ClaimInv

-----------------------------------------------------------------------------
(* What the steps share.                                                   *)
ClaimTables == [Pins -> [own : SUBSET Slots, mode : {"none", "in", "adc", "out"},
                         drive : {"none", "push", "oc"}]]
HistRecords == [trip : SUBSET Slots, guarded : SUBSET Slots, refused : SUBSET Slots,
                age : 0..(Grace + 1)]
BudgetRecords == [up : 0..MaxUptime, resets : 0..MaxResets, cuts : 0..MaxCuts,
                  flashes : 0..MaxFlashes, clears : 0..MaxClears]
OutLevels == [Pins -> {"z", "ok", "err"}]
Calm(o) == \A p \in Pins : o[p] # "err"

LEMMA NoClaims ==
    ASSUME NEW tx, NEW caps
    PROVE  ClaimInv([p \in Pins |-> Unclaimed], tx, caps, {})
  BY DEF ClaimInv, Owned, AsAsked, Unclaimed

LEMMA RestartTypes ==
    /\ [p \in Pins |-> Unclaimed] \in ClaimTables
    /\ [p \in Pins |-> "z"] \in OutLevels
    /\ Calm([p \in Pins |-> "z"])
  BY DEF ClaimTables, Unclaimed, OutLevels, Calm

LEMMA ClaimTypes ==
    ASSUME NEW d \in Texts, NEW s \in Slots, claims \in ClaimTables, out \in OutLevels
    PROVE  /\ Claimed(d, s) \in ClaimTables
           /\ ClaimedOut(d) \in OutLevels
           /\ Calm(out) => Calm(ClaimedOut(d))
  <1>1. ASSUME NEW p \in Pins
        PROVE  Claimed(d, s)[p] \in [own : SUBSET Slots, mode : {"none", "in", "adc", "out"},
                                     drive : {"none", "push", "oc"}]
    <2>1. CASE \E i \in d.ins : i.pin = p
      <3>1. PICK i \in d.ins : i.pin = p /\ Claimed(d, s)[p] = InClaim(p, i.mode, s)
        BY <2>1, ClaimedIn
      <3>2. i.mode \in {"in", "adc"}
        BY TextType
      <3> QED BY <3>1, <3>2 DEF InClaim, ClaimTables
    <2>2. CASE (~\E i \in d.ins : i.pin = p) /\ \E o \in d.outs : o.pin = p
      <3>1. PICK o \in d.outs : o.pin = p /\ Claimed(d, s)[p] = OutClaim(p, o.drive, s)
        BY <2>2, ClaimedShared
      <3>2. o.drive \in {"push", "oc"}
        BY TextType
      <3> QED BY <3>1, <3>2 DEF OutClaim, ShareOut, ClaimTables
    <2>3. CASE (~\E i \in d.ins : i.pin = p) /\ ~\E o \in d.outs : o.pin = p
      <3>1. Claimed(d, s)[p] = claims[p]
        BY <2>3, ClaimedOther
      <3> QED BY <3>1 DEF ClaimTables
    <2> QED BY <2>1, <2>2, <2>3
  <1>2. Claimed(d, s) \in ClaimTables
    <2>1. Claimed(d, s) = [p \in Pins |-> Claimed(d, s)[p]]
      BY DEF Claimed
    <2> QED BY <1>1, <2>1 DEF ClaimTables
  <1>3. ClaimedOut(d) \in OutLevels /\ (Calm(out) => Calm(ClaimedOut(d)))
    BY DEF ClaimedOut, OutLevels, Calm
  <1> QED BY <1>2, <1>3

LEMMA ReleaseTypes ==
    ASSUME NEW s \in Slots, claims \in ClaimTables, out \in OutLevels
    PROVE  /\ Released(s) \in ClaimTables
           /\ ReleasedOut(s) \in OutLevels
           /\ Calm(out) => Calm(ReleasedOut(s))
  <1>1. Released(s) \in ClaimTables
    BY DEF Released, ClaimTables, Unclaimed
  <1>2. ReleasedOut(s) \in OutLevels /\ (Calm(out) => Calm(ReleasedOut(s)))
    BY DEF ReleasedOut, OutLevels, Calm
  <1> QED BY <1>1, <1>2

(* The types as the steps use them.                                        *)
LEMMA TypesAre ==
    IlTypeOK <=>
      /\ slot \in [Slots -> SlotRecords] /\ text \in [Slots -> Texts]
      /\ fp \in [Configured -> Dsls \cup {None}] \cup {NoFp} /\ magic \in BOOLEAN /\ flash \in Flashes
      /\ claims \in ClaimTables /\ out \in OutLevels
      /\ clearReq \in BOOLEAN /\ now \in Nat /\ until \in Nat
      /\ pc \in {"decide", "restore", "disarm", "arm", "state", "commit", "builtin", "run"}
      /\ k \in 0..N
      /\ hist \in HistRecords
      /\ budget \in BudgetRecords
  BY Zenon DEF IlTypeOK, ClaimTables, OutLevels, Texts, HistRecords, BudgetRecords

LEMMA FlashTypes ==
    ASSUME NEW f \in Flashes
    PROVE  /\ f.dsl \in [Configured -> Dsls \cup {None}]
           /\ \A s \in Configured : f.dsl[s] \in Texts
  <1>1. f.dsl \in [Configured -> Dsls \cup {None}]
    BY InterlockAssumption
  <1> QED BY <1>1 DEF Texts

(* Before the first tick no output is at its err level.                    *)
LEMMA Quiet ==
    ASSUME OutPart, pc # "run" PROVE hist.age = 0 /\ Calm(out)
  BY DEF OutPart, Calm

LEMMA StillQuiet ==
    ASSUME hist'.age = 0, Calm(out') PROVE OutPart'
  BY DEF OutPart, Calm, VetoIsUnion

(* The slots that hold pins, place by place.                               *)
LEMMA HoldersAre ==
    /\ pc = "decide" => Holders = {}
    /\ pc = "restore" => Holders = {s \in ArmedSet : s < k}
    /\ pc = "state" => Holders = ArmedSet \cup {k}
    /\ pc \in {"disarm", "arm", "commit", "builtin", "run"} => Holders = ArmedSet
  BY DEF Holders

LEMMA HoldersTexts ==
    ASSUME IlTypeOK, CtlPart
    PROVE  /\ Holders \subseteq Slots
           /\ \A t \in Holders : text[t] \in Texts
           /\ OneRole(flash.caps)
  <1>1. text \in [Slots -> Texts] /\ flash \in Flashes /\ k \in 0..N
    BY TypesAre
  <1>2. ArmedSet \subseteq Slots
    BY DEF ArmedSet
  <1>3. pc = "state" => k \in Slots
    BY <1>1, Consts DEF CtlPart
  <1>4. Holders \subseteq Slots
    BY <1>2, <1>3 DEF Holders
  <1> QED BY <1>1, <1>4, RoleIs

-----------------------------------------------------------------------------
(* The steps preserve the invariant.                                       *)
LEMMA InitIInv == Init => IInv
  <1> SUFFICES ASSUME Init PROVE IInv
    OBVIOUS
  <1>1. IlTypeOK
    <2>1. slot \in [Slots -> SlotRecords]
      BY Consts DEF Init, Empty, SlotRecords
    <2>2. text \in [Slots -> Texts]
      BY DEF Init, Texts
    <2>3. claims \in ClaimTables /\ out \in OutLevels
      BY RestartTypes DEF Init
    <2>4. hist \in HistRecords
      BY Consts DEF Init, HistRecords
    <2>5. budget \in BudgetRecords
      BY Consts DEF Init, BudgetRecords
    <2>6. now \in Nat /\ until \in Nat /\ k \in 0..N /\ pc = "decide"
      BY Consts DEF Init
    <2>7. magic \in BOOLEAN /\ clearReq \in BOOLEAN /\ flash \in Flashes /\ fp = NoFp
      BY DEF Init
    <2> QED BY <2>1, <2>2, <2>3, <2>4, <2>5, <2>6, <2>7, TypesAre
  <1>2. ClaimPart
    <2>1. Holders = {} /\ claims = [p \in Pins |-> Unclaimed]
      BY HoldersAre DEF Init
    <2> QED BY <2>1, NoClaims DEF ClaimPart
  <1>3. CtlPart
    BY DEF CtlPart, Init
  <1>4. OutPart
    BY DEF OutPart, Init, VetoIsUnion
  <1> QED BY <1>1, <1>2, <1>3, <1>4 DEF IInv

(* A reset of any kind.                                                    *)
LEMMA RestartStep ==
    ASSUME IInv, Restarted, UNCHANGED <<slot, text, fp>>, magic' \in BOOLEAN, flash' \in Flashes,
           hist' \in HistRecords,
           hist'.age = 0,
           budget' \in BudgetRecords
    PROVE  IInv'
  <1>u. /\ claims' = [p \in Pins |-> Unclaimed] /\ out' = [p \in Pins |-> "z"]
        /\ clearReq' = FALSE /\ now' = 0 /\ until' = 0 /\ pc' = "decide" /\ k' = 0
        /\ slot' = slot /\ text' = text /\ fp' = fp
    BY DEF Restarted
  <1>1. IlTypeOK'
    <2>1. /\ slot \in [Slots -> SlotRecords] /\ text \in [Slots -> Texts]
          /\ fp \in [Configured -> Dsls \cup {None}] \cup {NoFp}
      BY TypesAre DEF IInv
    <2>2. claims' \in ClaimTables /\ out' \in OutLevels
      BY <1>u, RestartTypes
    <2>3. now' \in Nat /\ until' \in Nat /\ k' \in 0..N
      BY <1>u, Consts
    <2>4. clearReq' \in BOOLEAN
      BY <1>u
    <2> QED BY <1>u, <2>1, <2>2, <2>3, <2>4 DEF IlTypeOK, ClaimTables, OutLevels, Texts, HistRecords, BudgetRecords
  <1>2. ClaimPart'
    <2>1. Holders' = {}
      BY <1>u, HoldersAre DEF Holders
    <2> QED BY <1>u, <2>1, NoClaims DEF ClaimPart
  <1>3. CtlPart'
    BY <1>u DEF CtlPart
  <1>4. OutPart'
    <2>1. Calm(out')
      BY <1>u, RestartTypes
    <2> QED BY <2>1, StillQuiet
  <1> QED BY <1>1, <1>2, <1>3, <1>4 DEF IInv

(* Records with new fields.                                                *)
LEMMA HistWith ==
    ASSUME NEW h \in HistRecords, NEW T \in SUBSET Slots, NEW a \in 0..(Grace + 1)
    PROVE  /\ [h EXCEPT !.age = a] \in HistRecords
           /\ [h EXCEPT !.trip = T, !.age = a] \in HistRecords
           /\ [h EXCEPT !.age = a, !.trip = T] \in HistRecords
           /\ [h EXCEPT !.age = a].age = a /\ [h EXCEPT !.trip = T, !.age = a].age = a
           /\ [h EXCEPT !.age = a, !.trip = T].age = a
  BY DEF HistRecords

LEMMA Spend ==
    ASSUME NEW b \in BudgetRecords
    PROVE  /\ b.resets > 0 => [b EXCEPT !.resets = @ - 1, !.up = MaxUptime] \in BudgetRecords
           /\ b.cuts > 0 => [b EXCEPT !.cuts = @ - 1, !.up = MaxUptime] \in BudgetRecords
           /\ b.flashes > 0 => [b EXCEPT !.flashes = @ - 1, !.up = MaxUptime] \in BudgetRecords
           /\ b.clears > 0 => [b EXCEPT !.clears = @ - 1] \in BudgetRecords
           /\ b.up > 0 => [b EXCEPT !.up = @ - 1] \in BudgetRecords
  <1>0. MaxUptime \in 0..MaxUptime
    BY Consts
  <1>1. b.resets > 0 => b.resets - 1 \in 0..MaxResets
    BY Consts DEF BudgetRecords
  <1>2. b.cuts > 0 => b.cuts - 1 \in 0..MaxCuts
    BY Consts DEF BudgetRecords
  <1>3. b.flashes > 0 => b.flashes - 1 \in 0..MaxFlashes
    BY Consts DEF BudgetRecords
  <1>4. b.clears > 0 => b.clears - 1 \in 0..MaxClears
    BY Consts DEF BudgetRecords
  <1>5. b.up > 0 => b.up - 1 \in 0..MaxUptime
    BY Consts DEF BudgetRecords
  <1>6. b.resets > 0 => [b EXCEPT !.resets = @ - 1, !.up = MaxUptime] \in BudgetRecords
    BY <1>0, <1>1 DEF BudgetRecords
  <1>7. b.cuts > 0 => [b EXCEPT !.cuts = @ - 1, !.up = MaxUptime] \in BudgetRecords
    BY <1>0, <1>2 DEF BudgetRecords
  <1>8. b.flashes > 0 => [b EXCEPT !.flashes = @ - 1, !.up = MaxUptime] \in BudgetRecords
    BY <1>0, <1>3 DEF BudgetRecords
  <1>9. b.clears > 0 => [b EXCEPT !.clears = @ - 1] \in BudgetRecords
    BY <1>4 DEF BudgetRecords
  <1>10. b.up > 0 => [b EXCEPT !.up = @ - 1] \in BudgetRecords
    BY <1>5 DEF BudgetRecords
  <1> QED BY <1>6, <1>7, <1>8, <1>9, <1>10

LEMMA WarmResetStep == IInv /\ WarmReset => IInv'
  <1> SUFFICES ASSUME IInv, WarmReset PROVE IInv'
    OBVIOUS
  <1>u. /\ slot' = slot /\ text' = text /\ fp' = fp /\ magic' = magic /\ flash' = flash /\ Restarted
        /\ budget' = [budget EXCEPT !.resets = @ - 1, !.up = MaxUptime] /\ budget.resets > 0
        /\ hist' = [hist EXCEPT !.age = 0]
    BY DEF WarmReset, persistVars
  <1>t. hist \in HistRecords /\ budget \in BudgetRecords /\ magic \in BOOLEAN /\ flash \in Flashes
    BY TypesAre DEF IInv
  <1>1. hist' \in HistRecords /\ hist'.age = 0
    <2>1. 0 \in 0..(Grace + 1)
      BY Consts
    <2>2. {} \in SUBSET Slots
      OBVIOUS
    <2> QED BY <1>u, <1>t, <2>1, <2>2, HistWith
  <1>2. budget' \in BudgetRecords
    BY <1>u, <1>t, Spend
  <1>3. magic' \in BOOLEAN /\ flash' \in Flashes
    BY <1>u, <1>t
  <1> QED BY <1>u, <1>1, <1>2, <1>3, RestartStep

LEMMA PowerCutStep == IInv /\ PowerCut => IInv'
  <1> SUFFICES ASSUME IInv, PowerCut PROVE IInv'
    OBVIOUS
  <1>u. /\ slot' = slot /\ text' = text /\ fp' = fp /\ magic' = FALSE /\ flash' = flash /\ Restarted
        /\ budget' = [budget EXCEPT !.cuts = @ - 1, !.up = MaxUptime] /\ budget.cuts > 0
        /\ hist' = [hist EXCEPT !.trip = {}, !.age = 0]
    BY DEF PowerCut
  <1>t. hist \in HistRecords /\ budget \in BudgetRecords /\ magic \in BOOLEAN /\ flash \in Flashes
    BY TypesAre DEF IInv
  <1>1. hist' \in HistRecords /\ hist'.age = 0
    <2>1. 0 \in 0..(Grace + 1)
      BY Consts
    <2>2. {} \in SUBSET Slots
      OBVIOUS
    <2> QED BY <1>u, <1>t, <2>1, <2>2, HistWith, ZenonT(60)
  <1>2. budget' \in BudgetRecords
    BY <1>u, <1>t, Spend
  <1>3. magic' \in BOOLEAN /\ flash' \in Flashes
    BY <1>u, <1>t
  <1> QED BY <1>u, <1>1, <1>2, <1>3, RestartStep

LEMMA ReflashStep == ASSUME NEW f \in Flashes PROVE IInv /\ Reflash(f) => IInv'
  <1> SUFFICES ASSUME IInv, Reflash(f) PROVE IInv'
    OBVIOUS
  <1>u. /\ slot' = slot /\ text' = text /\ fp' = fp /\ magic' = magic /\ flash' = f /\ Restarted
        /\ budget' = [budget EXCEPT !.flashes = @ - 1, !.up = MaxUptime] /\ budget.flashes > 0
        /\ hist' = [hist EXCEPT !.age = 0,
                                !.trip = IF f.caps = flash.caps THEN @ ELSE @ \cap {0}]
    BY DEF Reflash, persistVars
  <1>t. hist \in HistRecords /\ budget \in BudgetRecords /\ magic \in BOOLEAN /\ flash \in Flashes
    BY TypesAre DEF IInv
  <1>1. hist' \in HistRecords /\ hist'.age = 0
    <2>1. 0 \in 0..(Grace + 1)
      BY Consts
    <2>2. PICK T \in SUBSET Slots : T = IF f.caps = flash.caps THEN hist.trip ELSE hist.trip \cap {0}
      BY <1>t DEF HistRecords
    <2>3. hist' = [hist EXCEPT !.age = 0, !.trip = T]
      BY <1>u, <2>2
    <2>4. hist \in HistRecords
      BY <1>t
    <2>5. /\ [hist EXCEPT !.age = 0, !.trip = T] \in HistRecords
          /\ [hist EXCEPT !.age = 0, !.trip = T].age = 0
      <3>1. T \in SUBSET Slots
        BY <2>2
      <3> QED BY <2>4, <2>1, <3>1 DEF HistRecords
    <2> QED BY <2>3, <2>5
  <1>2. budget' \in BudgetRecords
    BY <1>u, <1>t, Spend
  <1>3. magic' \in BOOLEAN /\ flash' \in Flashes
    BY <1>u, <1>t
  <1> QED BY <1>u, <1>1, <1>2, <1>3, RestartStep

(* A step of bring-up that leaves the claims and the outputs alone, arms   *)
(* and disarms nobody that holds pins, and begins no tick.                 *)
LEMMA SameClaims ==
    ASSUME ClaimPart, claims' = claims, text' = text, flash' = flash, Holders' = Holders
    PROVE  ClaimPart'
  BY DEF ClaimPart

LEMMA SameTypes ==
    ASSUME IlTypeOK, flash' = flash, budget' = budget, magic' \in BOOLEAN, clearReq' = clearReq,
           now' = now, until' \in Nat, slot' \in [Slots -> SlotRecords], text' \in [Slots -> Texts],
           fp' \in [Configured -> Dsls \cup {None}] \cup {NoFp},
           claims' \in ClaimTables, out' \in OutLevels, hist' \in HistRecords, k' \in 0..N,
           pc' \in {"decide", "restore", "disarm", "arm", "state", "commit", "builtin", "run"}
    PROVE  IlTypeOK'
  BY DEF IlTypeOK, ClaimTables, OutLevels, Texts, HistRecords, BudgetRecords

LEMMA BootDecideWarmStep == IInv /\ BootDecideWarm => IInv'
  <1> SUFFICES ASSUME IInv, BootDecideWarm PROVE IInv'
    OBVIOUS
  <1>u. /\ pc = "decide" /\ slot' = [s \in Slots |-> Bumped(s)]
        /\ hist' = [hist EXCEPT !.guarded = {s \in Slots : Armed(s) /\ AtLimit(slot[s].bc)}]
        /\ pc' = "restore" /\ k' = 0 /\ text' = text /\ fp' = fp /\ magic' = magic /\ flash' = flash
        /\ claims' = claims /\ out' = out /\ clearReq' = clearReq /\ now' = now /\ until' = until
        /\ budget' = budget
    BY DEF BootDecideWarm, pinVars, timeVars
  <1>t. /\ IlTypeOK /\ slot \in [Slots -> SlotRecords] /\ text \in [Slots -> Texts]
        /\ fp \in [Configured -> Dsls \cup {None}] \cup {NoFp} /\ magic \in BOOLEAN
        /\ claims \in ClaimTables /\ out \in OutLevels /\ hist \in HistRecords /\ until \in Nat
    BY TypesAre DEF IInv
  <1>1. slot' \in [Slots -> SlotRecords]
    <2>1. ASSUME NEW s \in Slots PROVE Bumped(s) \in SlotRecords
      BY <1>t, Consts DEF Bumped, AtLimit, SlotRecords
    <2> QED BY <1>u, <2>1
  <1>2. hist' \in HistRecords /\ hist'.age = hist.age
    BY <1>u, <1>t DEF HistRecords
  <1>3. IlTypeOK'
    <2>1. k' \in 0..N
      BY <1>u, Consts
    <2> QED BY <1>u, <1>t, <1>1, <1>2, <2>1, SameTypes
  <1>4. ClaimPart'
    <2>1. Holders = {}
      BY <1>u, HoldersAre
    <2>2. Holders' = {}
      BY <1>u, Consts DEF Holders, ArmedSet
    <2> QED BY <1>u, <2>1, <2>2, SameClaims DEF IInv
  <1>5. CtlPart'
    BY <1>u DEF CtlPart
  <1>6. OutPart'
    <2>1. hist.age = 0 /\ Calm(out)
      BY <1>u, Quiet DEF IInv
    <2> QED BY <1>u, <1>2, <2>1, StillQuiet
  <1> QED BY <1>3, <1>4, <1>5, <1>6 DEF IInv

LEMMA BootDecideColdStep == IInv /\ BootDecideCold => IInv'
  <1> SUFFICES ASSUME IInv, BootDecideCold PROVE IInv'
    OBVIOUS
  <1>u. /\ pc = "decide" /\ slot' = [s \in Slots |-> Empty] /\ text' = [s \in Slots |-> None]
        /\ fp' = NoFp /\ magic' = TRUE /\ hist' = [hist EXCEPT !.guarded = {}]
        /\ pc' = "restore" /\ k' = 0 /\ flash' = flash
        /\ claims' = claims /\ out' = out /\ clearReq' = clearReq /\ now' = now /\ until' = until
        /\ budget' = budget
    BY DEF BootDecideCold, pinVars, timeVars
  <1>t. /\ IlTypeOK /\ claims \in ClaimTables /\ out \in OutLevels /\ hist \in HistRecords
        /\ until \in Nat
    BY TypesAre DEF IInv
  <1>1. slot' \in [Slots -> SlotRecords] /\ text' \in [Slots -> Texts]
    BY <1>u, Consts DEF Empty, SlotRecords, Texts
  <1>2. hist' \in HistRecords /\ hist'.age = hist.age
    BY <1>u, <1>t DEF HistRecords
  <1>3. IlTypeOK'
    <2>1. k' \in 0..N
      BY <1>u, Consts
    <2> QED BY <1>u, <1>t, <1>1, <1>2, <2>1, SameTypes
  <1>4. ClaimPart'
    <2>1. Holders = {}
      BY <1>u, HoldersAre
    <2>2. Holders' = {}
      BY <1>u, Consts DEF Holders, ArmedSet
    <2> QED BY <1>u, <2>1, <2>2 DEF IInv, ClaimPart, ClaimInv, Owned, AsAsked
  <1>5. CtlPart'
    BY <1>u DEF CtlPart
  <1>6. OutPart'
    <2>1. hist.age = 0 /\ Calm(out)
      BY <1>u, Quiet DEF IInv
    <2> QED BY <1>u, <1>2, <2>1, StillQuiet
  <1> QED BY <1>3, <1>4, <1>5, <1>6 DEF IInv

LEMMA WarmRestoreStep == IInv /\ WarmRestore => IInv'
  <1> SUFFICES ASSUME IInv, WarmRestore PROVE IInv'
    OBVIOUS
  <1>u. /\ pc = "restore" /\ k < N /\ k' = k + 1 /\ pc' = pc /\ hist' = hist
        /\ text' = text /\ fp' = fp /\ magic' = magic /\ flash' = flash
        /\ clearReq' = clearReq /\ now' = now /\ until' = until /\ budget' = budget
    BY DEF WarmRestore, timeVars
  <1>t. /\ IlTypeOK /\ slot \in [Slots -> SlotRecords] /\ text \in [Slots -> Texts]
        /\ fp \in [Configured -> Dsls \cup {None}] \cup {NoFp} /\ magic \in BOOLEAN
        /\ claims \in ClaimTables /\ out \in OutLevels /\ hist \in HistRecords /\ until \in Nat
        /\ k \in 0..N
    BY TypesAre DEF IInv
  <1>k. k \in Slots /\ k + 1 \in 0..N /\ text[k] \in Texts /\ k \in Nat
    BY <1>u, <1>t, Consts
  <1>q. hist.age = 0 /\ Calm(out)
    BY <1>u, Quiet DEF IInv
  <1>h. Holders = {s \in ArmedSet : s < k} /\ Holders' = {s \in ArmedSet' : s < k + 1}
    BY <1>u DEF Holders
  <1>c. CtlPart'
    BY <1>u DEF CtlPart
  <1>1. CASE Armed(k) /\ text[k].parses /\ Claimable(text[k], k)
    <2>u. /\ slot' = [slot EXCEPT ![k] = Restored(@)]
          /\ claims' = Claimed(text[k], k) /\ out' = ClaimedOut(text[k])
      BY <1>1 DEF WarmRestore
    <2>1. slot' \in [Slots -> SlotRecords]
      BY <2>u, <1>t, <1>k DEF Restored, SlotRecords
    <2>2. claims' \in ClaimTables /\ out' \in OutLevels /\ Calm(out')
      BY <2>u, <1>t, <1>k, <1>q, ClaimTypes
    <2>3. IlTypeOK'
      BY <1>u, <1>t, <1>k, <2>1, <2>2, SameTypes
    <2>4. ArmedSet' = ArmedSet
      BY <2>u, <1>t, <1>k DEF ArmedSet, Armed, Restored, SlotRecords
    <2>5. Holders' = Holders \cup {k}
      <3>1. k \in ArmedSet
        BY <1>1, <1>k DEF ArmedSet
      <3>2. \A s \in ArmedSet : s < k + 1 <=> s < k \/ s = k
        BY <1>k, Consts DEF ArmedSet
      <3> QED BY <3>1, <3>2, <2>4, <1>h
    <2>6. ClaimPart'
      <3>1. k \notin Holders
        BY <1>h, <1>k
      <3>2. (\A t \in Holders : text[t] \in Texts) /\ OneRole(flash.caps)
        BY HoldersTexts DEF IInv
      <3>3. ClaimInv(claims, text, flash.caps, Holders)
        BY DEF IInv, ClaimPart
      <3>4. ClaimInv(Claimed(text[k], k), text, flash.caps, Holders \cup {k})
        BY <1>1, <1>k, <3>1, <3>2, <3>3, ClaimDone
      <3> QED BY <3>4, <2>5, <2>u, <1>u DEF ClaimPart
    <2>7. OutPart'
      BY <1>u, <1>q, <2>2, StillQuiet
    <2> QED BY <1>c, <2>3, <2>6, <2>7 DEF IInv
  <1>2. CASE ~(Armed(k) /\ text[k].parses /\ Claimable(text[k], k))
    <2>u. /\ slot' = [slot EXCEPT ![k].state = IF Armed(k) THEN "POISONED" ELSE @]
          /\ claims' = claims /\ out' = out
      BY <1>2 DEF WarmRestore, pinVars
    <2>1. slot' \in [Slots -> SlotRecords]
      BY <2>u, <1>t, <1>k DEF SlotRecords
    <2>3. IlTypeOK'
      BY <1>u, <1>t, <1>k, <2>1, <2>u, SameTypes
    <2>4. ArmedSet' = ArmedSet \ {k}
      BY <2>u, <1>t, <1>k DEF ArmedSet, Armed, SlotRecords
    <2>5. Holders' = Holders
      <3>2. \A s \in ArmedSet : s < k + 1 /\ s # k <=> s < k
        BY <1>k, Consts DEF ArmedSet
      <3> QED BY <3>2, <2>4, <1>h
    <2>6. ClaimPart'
      BY <2>5, <2>u, <1>u, SameClaims DEF IInv
    <2>7. OutPart'
      BY <1>u, <1>q, <2>u, StillQuiet
    <2> QED BY <1>c, <2>3, <2>6, <2>7 DEF IInv
  <1> QED BY <1>1, <1>2

(* A step that changes only where bring-up is, and the fingerprint or the  *)
(* grace window.                                                           *)
LEMMA MoveStep ==
    ASSUME IInv, pc # "run", pc # "decide", pc # "state",
           slot' = slot, text' = text, magic' = magic, flash' = flash, claims' = claims, out' = out,
           clearReq' = clearReq, now' = now, budget' = budget, until' \in Nat,
           fp' \in [Configured -> Dsls \cup {None}] \cup {NoFp},
           hist' \in HistRecords, hist'.age = hist.age,
           k' \in 0..N, pc' \in {"disarm", "arm", "builtin", "run"},
           pc = "restore" => k = N, CtlPart'
    PROVE  IInv'
  <1>t. /\ IlTypeOK /\ slot \in [Slots -> SlotRecords] /\ text \in [Slots -> Texts]
        /\ magic \in BOOLEAN /\ claims \in ClaimTables /\ out \in OutLevels
        /\ pc \in {"decide", "restore", "disarm", "arm", "state", "commit", "builtin", "run"}
    BY TypesAre DEF IInv
  <1>1. IlTypeOK'
    BY <1>t, SameTypes
  <1>2. ClaimPart'
    <2>1. ArmedSet' = ArmedSet
      BY DEF ArmedSet, Armed
    <2>2. Holders' = ArmedSet'
      BY DEF Holders
    <2>3. Holders = ArmedSet
      <3>1. CASE pc = "restore"
        <4>1. \A s \in ArmedSet : s < N
          BY Consts DEF ArmedSet, Slots
        <4> QED BY <3>1, <4>1 DEF Holders
      <3> QED BY <3>1, <1>t, HoldersAre
    <2> QED BY <2>1, <2>2, <2>3, SameClaims DEF IInv
  <1>3. OutPart'
    <2>1. hist.age = 0 /\ Calm(out)
      BY Quiet DEF IInv
    <2> QED BY <2>1, StillQuiet
  <1> QED BY <1>1, <1>2, <1>3 DEF IInv

LEMMA CheckFingerprintStep == IInv /\ CheckFingerprint => IInv'
  <1> SUFFICES ASSUME IInv, CheckFingerprint PROVE IInv'
    OBVIOUS
  <1>u. /\ pc = "restore" /\ k = N /\ k' = 1 /\ pc' \in {"disarm", "builtin"} /\ hist' = hist
        /\ slot' = slot /\ text' = text /\ fp' = fp /\ magic' = magic /\ flash' = flash
        /\ claims' = claims /\ out' = out /\ clearReq' = clearReq /\ now' = now /\ until' = until
        /\ budget' = budget
    BY DEF CheckFingerprint, persistVars, pinVars, timeVars
  <1>t. /\ fp \in [Configured -> Dsls \cup {None}] \cup {NoFp} /\ hist \in HistRecords /\ until \in Nat
    BY TypesAre DEF IInv
  <1>1. k' \in 0..N
    BY <1>u, Consts
  <1>2. CtlPart'
    BY <1>u, Consts DEF CtlPart
  <1> QED BY <1>u, <1>t, <1>1, <1>2, MoveStep

LEMMA DisarmDoneStep == IInv /\ DisarmDone => IInv'
  <1> SUFFICES ASSUME IInv, DisarmDone PROVE IInv'
    OBVIOUS
  <1>u. /\ pc = "disarm" /\ k = N /\ k' = 1 /\ pc' = "arm" /\ hist' = hist
        /\ slot' = slot /\ text' = text /\ fp' = fp /\ magic' = magic /\ flash' = flash
        /\ claims' = claims /\ out' = out /\ clearReq' = clearReq /\ now' = now /\ until' = until
        /\ budget' = budget
    BY DEF DisarmDone, persistVars, pinVars, timeVars
  <1>t. /\ fp \in [Configured -> Dsls \cup {None}] \cup {NoFp} /\ hist \in HistRecords /\ until \in Nat
    BY TypesAre DEF IInv
  <1>1. k' \in 0..N
    BY <1>u, Consts
  <1>2. CtlPart'
    <2>1. \A s \in Slots : s >= 1 => ~Armed(s)
      BY <1>u, Consts DEF IInv, CtlPart, Slots
    <2>2. \A s \in Slots : s >= 1 => ~Armed(s)'
      BY <2>1, <1>u DEF Armed
    <2> QED BY <1>u, <2>2, Consts DEF CtlPart
  <1> QED BY <1>u, <1>t, <1>1, <1>2, MoveStep

LEMMA GraceType == ASSUME NEW t \in Nat PROVE GraceFrom(t) \in Nat
  BY Consts DEF GraceFrom

LEMMA ArmRefusedStep == IInv /\ ArmRefused => IInv'
  <1> SUFFICES ASSUME IInv, ArmRefused PROVE IInv'
    OBVIOUS
  <1>u. /\ pc = "arm" /\ k < N /\ hist' = [hist EXCEPT !.refused = @ \cup {k}]
        /\ slot' = slot /\ text' = text /\ fp' = fp /\ magic' = magic /\ flash' = flash
        /\ claims' = claims /\ out' = out /\ clearReq' = clearReq /\ now' = now
        /\ budget' = budget /\ AfterArm
    BY DEF ArmRefused, persistVars, pinVars
  <1>t. /\ fp \in [Configured -> Dsls \cup {None}] \cup {NoFp} /\ hist \in HistRecords
        /\ until \in Nat /\ now \in Nat /\ k \in 0..N
    BY TypesAre DEF IInv
  <1>k. k \in Slots /\ k \in Nat
    BY <1>u, <1>t, Consts
  <1>1. hist' \in HistRecords /\ hist'.age = hist.age
    BY <1>u, <1>t, <1>k DEF HistRecords
  <1>2. CASE k = 0
    <2>1. pc' = "run" /\ k' = 0 /\ until' = GraceFrom(now)
      BY <1>u, <1>2 DEF AfterArm, StartTick
    <2>2. until' \in Nat /\ k' \in 0..N
      BY <2>1, <1>t, Consts, GraceType
    <2>3. CtlPart'
      BY <2>1 DEF CtlPart
    <2> QED BY <1>u, <1>t, <1>1, <2>1, <2>2, <2>3, MoveStep
  <1>3. CASE k # 0
    <2>1. pc' = "arm" /\ k' = k + 1 /\ until' = until
      BY <1>u, <1>3 DEF AfterArm
    <2>2. k' \in 0..N
      BY <2>1, <1>t, <1>u, Consts
    <2>3. CtlPart'
      <3>1. \A s \in Slots : s > k => ~Armed(s)
        BY <1>u, <1>3 DEF IInv, CtlPart
      <3>2. \A s \in Slots : s > k => ~Armed(s)'
        BY <3>1, <1>u DEF Armed
      <3>3. \A s \in Slots : s = k + 1 \/ s > k + 1 => s > k
        BY <1>k, Consts
      <3> QED BY <2>1, <3>2, <3>3 DEF CtlPart
    <2> QED BY <1>u, <1>t, <1>1, <2>1, <2>2, <2>3, MoveStep
  <1> QED BY <1>2, <1>3

LEMMA StoreFingerprintStep == IInv /\ StoreFingerprint => IInv'
  <1> SUFFICES ASSUME IInv, StoreFingerprint PROVE IInv'
    OBVIOUS
  <1>u. /\ pc = "arm" /\ k = N /\ k' = k /\ pc' = "builtin" /\ hist' = hist
        /\ slot' = slot /\ text' = text /\ fp' = flash.dsl /\ magic' = magic /\ flash' = flash
        /\ claims' = claims /\ out' = out /\ clearReq' = clearReq /\ now' = now /\ until' = until
        /\ budget' = budget
    BY DEF StoreFingerprint, pinVars, timeVars
  <1>t. flash \in Flashes /\ hist \in HistRecords /\ until \in Nat /\ k \in 0..N
    BY TypesAre DEF IInv
  <1>1. fp' \in [Configured -> Dsls \cup {None}] \cup {NoFp}
    BY <1>u, <1>t, FlashTypes
  <1>2. CtlPart'
    BY <1>u DEF CtlPart
  <1> QED BY <1>u, <1>t, <1>1, <1>2, MoveStep

LEMMA KeepBuiltInStep == IInv /\ KeepBuiltIn => IInv'
  <1> SUFFICES ASSUME IInv, KeepBuiltIn PROVE IInv'
    OBVIOUS
  <1>u. /\ pc = "builtin" /\ k' = 0 /\ pc' = "run" /\ hist' = hist /\ until' = GraceFrom(now)
        /\ slot' = slot /\ text' = text /\ fp' = fp /\ magic' = magic /\ flash' = flash
        /\ claims' = claims /\ out' = out /\ clearReq' = clearReq /\ now' = now
        /\ budget' = budget
    BY DEF KeepBuiltIn, StartTick, persistVars, pinVars
  <1>t. /\ fp \in [Configured -> Dsls \cup {None}] \cup {NoFp} /\ hist \in HistRecords /\ now \in Nat
    BY TypesAre DEF IInv
  <1>1. k' \in 0..N /\ until' \in Nat
    BY <1>u, <1>t, Consts, GraceType
  <1>2. CtlPart'
    BY <1>u DEF CtlPart
  <1> QED BY <1>u, <1>t, <1>1, <1>2, MoveStep

(* interlock_disarm_slot                                                   *)
LEMMA DisarmDoes ==
    ASSUME IInv, NEW s \in Slots, Disarm(s), pc \in {"disarm", "builtin"}, flash' = flash,
           pc' \in {"disarm", "arm"}
    PROVE  /\ slot' \in [Slots -> SlotRecords] /\ text' \in [Slots -> Texts]
           /\ claims' \in ClaimTables /\ out' \in OutLevels /\ Calm(out')
           /\ ArmedSet' = ArmedSet \ {s}
           /\ ClaimPart'
  <1>u. /\ slot' = [slot EXCEPT ![s] = Empty] /\ text' = [text EXCEPT ![s] = None]
        /\ claims' = Released(s) /\ out' = ReleasedOut(s)
    BY DEF Disarm
  <1>t. /\ slot \in [Slots -> SlotRecords] /\ text \in [Slots -> Texts]
        /\ claims \in ClaimTables /\ out \in OutLevels
    BY TypesAre DEF IInv
  <1>1. slot' \in [Slots -> SlotRecords] /\ text' \in [Slots -> Texts]
    BY <1>u, <1>t, Consts DEF Empty, SlotRecords, Texts
  <1>2. Calm(out)
    BY Quiet DEF IInv
  <1>3. claims' \in ClaimTables /\ out' \in OutLevels /\ Calm(out')
    BY <1>u, <1>t, <1>2, ReleaseTypes
  <1>4. ArmedSet' = ArmedSet \ {s}
    BY <1>u, <1>t DEF ArmedSet, Armed, Empty, SlotRecords
  <1>5. ClaimPart'
    <2>1. Holders = ArmedSet /\ Holders' = ArmedSet \ {s}
      BY <1>4 DEF Holders
    <2>2. ClaimInv(claims, text, flash.caps, ArmedSet)
      BY <2>1 DEF IInv, ClaimPart
    <2>3. \A t \in ArmedSet : text[t] \in Texts
      BY <1>t DEF ArmedSet
    <2>4. \A t \in ArmedSet \ {s} : text'[t] = text[t]
      BY <1>u, <1>t DEF ArmedSet
    <2>5. ClaimInv(Released(s), text', flash.caps, ArmedSet \ {s})
      BY <1>t, <2>2, <2>3, <2>4, ReleaseDone DEF ClaimTables
    <2> QED BY <1>u, <2>1, <2>5 DEF ClaimPart
  <1> QED BY <1>1, <1>3, <1>4, <1>5

LEMMA DisarmStaleStep == IInv /\ DisarmStale => IInv'
  <1> SUFFICES ASSUME IInv, DisarmStale PROVE IInv'
    OBVIOUS
  <1>u. /\ pc = "disarm" /\ k < N /\ k' = k + 1 /\ pc' = pc /\ Disarm(k)
        /\ hist' = [hist EXCEPT !.trip = IF fp # flash.dsl THEN @ \ {k} ELSE @,
                                !.refused = @ \ {k}]
        /\ fp' = fp /\ magic' = magic /\ flash' = flash
        /\ clearReq' = clearReq /\ now' = now /\ until' = until /\ budget' = budget
    BY DEF DisarmStale, timeVars
  <1>t. /\ IlTypeOK /\ fp \in [Configured -> Dsls \cup {None}] \cup {NoFp} /\ magic \in BOOLEAN
        /\ hist \in HistRecords /\ until \in Nat /\ k \in 0..N
    BY TypesAre DEF IInv
  <1>k. k \in Slots /\ k + 1 \in 0..N /\ k \in Nat
    BY <1>u, <1>t, Consts
  <1>d. /\ slot' \in [Slots -> SlotRecords] /\ text' \in [Slots -> Texts]
        /\ claims' \in ClaimTables /\ out' \in OutLevels /\ Calm(out')
        /\ ArmedSet' = ArmedSet \ {k} /\ ClaimPart'
    BY <1>u, <1>k, DisarmDoes
  <1>1. hist' \in HistRecords /\ hist'.age = hist.age
    BY <1>u, <1>t DEF HistRecords
  <1>2. IlTypeOK'
    BY <1>u, <1>t, <1>k, <1>d, <1>1, SameTypes
  <1>3. CtlPart'
    <2>1. k >= 1 /\ \A s \in Slots : s >= 1 /\ s < k => s \notin ArmedSet
      BY <1>u DEF IInv, CtlPart, ArmedSet
    <2>2. \A s \in Slots : s >= 1 /\ s < k + 1 => s \notin ArmedSet'
      BY <2>1, <1>d, <1>k, Consts
    <2>3. \A s \in Slots : s >= 1 /\ s < k + 1 => ~Armed(s)'
      BY <2>2 DEF ArmedSet
    <2> QED BY <1>u, <2>1, <2>3, <1>k DEF CtlPart
  <1>4. OutPart'
    <2>1. hist.age = 0
      BY <1>u, Quiet DEF IInv
    <2> QED BY <1>1, <1>d, <2>1, StillQuiet
  <1> QED BY <1>d, <1>2, <1>3, <1>4 DEF IInv

LEMMA DropBuiltInStep == IInv /\ DropBuiltIn => IInv'
  <1> SUFFICES ASSUME IInv, DropBuiltIn PROVE IInv'
    OBVIOUS
  <1>u. /\ pc = "builtin" /\ pc' = "arm" /\ k' = 0 /\ Disarm(0) /\ hist' = hist
        /\ fp' = fp /\ magic' = magic /\ flash' = flash
        /\ clearReq' = clearReq /\ now' = now /\ until' = until /\ budget' = budget
    BY DEF DropBuiltIn, timeVars
  <1>t. /\ IlTypeOK /\ fp \in [Configured -> Dsls \cup {None}] \cup {NoFp} /\ magic \in BOOLEAN
        /\ hist \in HistRecords /\ until \in Nat
    BY TypesAre DEF IInv
  <1>k. 0 \in Slots /\ 0 \in 0..N
    BY Consts
  <1>d. /\ slot' \in [Slots -> SlotRecords] /\ text' \in [Slots -> Texts]
        /\ claims' \in ClaimTables /\ out' \in OutLevels /\ Calm(out')
        /\ ArmedSet' = ArmedSet \ {0} /\ ClaimPart'
    BY <1>u, <1>k, DisarmDoes
  <1>2. IlTypeOK'
    BY <1>u, <1>t, <1>k, <1>d, SameTypes
  <1>3. CtlPart'
    <2>1. ~Armed(0)'
      BY <1>d, <1>k DEF ArmedSet
    <2> QED BY <1>u, <2>1 DEF CtlPart
  <1>4. OutPart'
    <2>1. hist.age = 0
      BY <1>u, Quiet DEF IInv
    <2> QED BY <1>u, <1>d, <2>1, StillQuiet
  <1> QED BY <1>d, <1>2, <1>3, <1>4 DEF IInv

LEMMA WantedType ==
    ASSUME IlTypeOK, k < N PROVE k \in Slots /\ k \in Nat /\ Wanted \in Texts
  <1>1. k \in 0..N /\ flash \in Flashes
    BY TypesAre
  <1>2. k \in Slots /\ k \in Nat
    BY <1>1, Consts
  <1>3. k # 0 => k \in Configured
    BY <1>1, Consts DEF Configured
  <1>4. k # 0 => flash.dsl[k] \in Texts
    BY <1>1, <1>3, FlashTypes
  <1>5. BuiltIn \in Texts
    BY DEF Texts
  <1> QED BY <1>2, <1>4, <1>5 DEF Wanted

LEMMA ArmClaimStep == IInv /\ ArmClaim => IInv'
  <1> SUFFICES ASSUME IInv, ArmClaim PROVE IInv'
    OBVIOUS
  <1>u. /\ pc = "arm" /\ k < N /\ Claimable(Wanted, k)
        /\ claims' = Claimed(Wanted, k) /\ out' = ClaimedOut(Wanted)
        /\ text' = [text EXCEPT ![k] = Wanted] /\ slot' = [slot EXCEPT ![k].tf = "UNEVALUATED"]
        /\ pc' = "state" /\ k' = k /\ fp' = fp /\ magic' = magic /\ flash' = flash /\ hist' = hist
        /\ clearReq' = clearReq /\ now' = now /\ until' = until /\ budget' = budget
    BY DEF ArmClaim, timeVars
  <1>t. /\ IlTypeOK /\ slot \in [Slots -> SlotRecords] /\ text \in [Slots -> Texts]
        /\ fp \in [Configured -> Dsls \cup {None}] \cup {NoFp} /\ magic \in BOOLEAN
        /\ claims \in ClaimTables /\ out \in OutLevels /\ hist \in HistRecords /\ until \in Nat
        /\ k \in 0..N
    BY TypesAre DEF IInv
  <1>w. PICK d : d = Wanted
    OBVIOUS
  <1>k. k \in Slots /\ k \in Nat /\ d \in Texts
    BY <1>u, <1>t, <1>w, WantedType
  <1>v. /\ Claimable(d, k) /\ claims' = Claimed(d, k) /\ out' = ClaimedOut(d)
        /\ text' = [text EXCEPT ![k] = d]
    BY <1>u, <1>w
  <1>q. hist.age = 0 /\ Calm(out)
    BY <1>u, Quiet DEF IInv
  <1>1. slot' \in [Slots -> SlotRecords] /\ text' \in [Slots -> Texts]
    BY <1>u, <1>v, <1>t, <1>k DEF SlotRecords
  <1>2. claims' \in ClaimTables /\ out' \in OutLevels /\ Calm(out')
    BY <1>v, <1>t, <1>k, <1>q, ClaimTypes
  <1>3. IlTypeOK'
    BY <1>u, <1>t, <1>1, <1>2, SameTypes
  <1>4. ArmedSet' = ArmedSet
    BY <1>u, <1>t, <1>k DEF ArmedSet, Armed, SlotRecords
  <1>5. ClaimPart'
    <2>1. Holders = ArmedSet /\ Holders' = ArmedSet \cup {k}
      BY <1>u, <1>4 DEF Holders
    <2>2. ClaimInv(claims, text, flash.caps, ArmedSet)
      BY <2>1 DEF IInv, ClaimPart
    <2>3. (\A t \in ArmedSet : text[t] \in Texts) /\ OneRole(flash.caps)
      BY <2>1, HoldersTexts DEF IInv
    <2>4. k \notin ArmedSet
      BY <1>u DEF IInv, CtlPart, ArmedSet
    <2>5. text'[k] = d /\ \A t \in ArmedSet : text'[t] = text[t]
      BY <1>v, <1>t, <1>k, <2>4 DEF ArmedSet
    <2>6. ClaimInv(Claimed(d, k), text', flash.caps, ArmedSet \cup {k})
      BY <1>v, <1>k, <2>2, <2>3, <2>4, <2>5, ClaimDone
    <2> QED BY <1>u, <1>v, <2>1, <2>6 DEF ClaimPart
  <1>6. CtlPart'
    <2>1. \A s \in Slots : (s = k \/ (k # 0 /\ s > k)) => s \notin ArmedSet
      BY <1>u DEF IInv, CtlPart, ArmedSet
    <2>2. \A s \in Slots : (s = k \/ (k # 0 /\ s > k)) => ~Armed(s)'
      BY <2>1, <1>4 DEF ArmedSet
    <2> QED BY <1>u, <2>2 DEF CtlPart
  <1>7. OutPart'
    BY <1>u, <1>q, <1>2, StillQuiet
  <1> QED BY <1>3, <1>5, <1>6, <1>7 DEF IInv

LEMMA ArmStateStep == IInv /\ ArmState => IInv'
  <1> SUFFICES ASSUME IInv, ArmState PROVE IInv'
    OBVIOUS
  <1>u. /\ pc = "state" /\ slot' = [slot EXCEPT ![k].state = "ARMED"]
        /\ pc' = "commit" /\ k' = k /\ fp' = fp /\ magic' = magic /\ flash' = flash /\ hist' = hist
        /\ text' = text /\ claims' = claims /\ out' = out
        /\ clearReq' = clearReq /\ now' = now /\ until' = until /\ budget' = budget
    BY DEF ArmState, timeVars, pinVars
  <1>t. /\ IlTypeOK /\ slot \in [Slots -> SlotRecords] /\ text \in [Slots -> Texts]
        /\ fp \in [Configured -> Dsls \cup {None}] \cup {NoFp} /\ magic \in BOOLEAN
        /\ claims \in ClaimTables /\ out \in OutLevels /\ hist \in HistRecords /\ until \in Nat
        /\ k \in 0..N
    BY TypesAre DEF IInv
  <1>k. k < N /\ k \in Slots /\ k \in Nat
    BY <1>u, <1>t, Consts DEF IInv, CtlPart
  <1>1. slot' \in [Slots -> SlotRecords]
    BY <1>u, <1>t, <1>k DEF SlotRecords
  <1>2. IlTypeOK'
    BY <1>u, <1>t, <1>1, SameTypes
  <1>3. ArmedSet' = ArmedSet \cup {k}
    BY <1>u, <1>t, <1>k DEF ArmedSet, Armed, SlotRecords
  <1>4. ClaimPart'
    <2>1. Holders' = Holders
      BY <1>u, <1>3 DEF Holders
    <2> QED BY <1>u, <2>1, SameClaims DEF IInv
  <1>5. CtlPart'
    <2>1. \A s \in Slots : k # 0 /\ s > k => s \notin ArmedSet /\ s # k
      BY <1>u, <1>k DEF IInv, CtlPart, ArmedSet
    <2>2. \A s \in Slots : k # 0 /\ s > k => ~Armed(s)'
      BY <2>1, <1>3 DEF ArmedSet
    <2> QED BY <1>u, <1>k, <2>2 DEF CtlPart
  <1>6. OutPart'
    <2>1. hist.age = 0 /\ Calm(out)
      BY <1>u, Quiet DEF IInv
    <2> QED BY <1>u, <2>1, StillQuiet
  <1> QED BY <1>2, <1>4, <1>5, <1>6 DEF IInv

LEMMA ArmCommitStep == IInv /\ ArmCommit => IInv'
  <1> SUFFICES ASSUME IInv, ArmCommit PROVE IInv'
    OBVIOUS
  <1>u. /\ pc = "commit"
        /\ slot' = [slot EXCEPT ![k].id = "DSL", ![k].bc = 0, ![k].latched = FALSE]
        /\ fp' = fp /\ magic' = magic /\ flash' = flash /\ hist' = hist
        /\ text' = text /\ claims' = claims /\ out' = out
        /\ clearReq' = clearReq /\ now' = now /\ budget' = budget /\ AfterArm
    BY DEF ArmCommit, pinVars
  <1>t. /\ IlTypeOK /\ slot \in [Slots -> SlotRecords] /\ text \in [Slots -> Texts]
        /\ fp \in [Configured -> Dsls \cup {None}] \cup {NoFp} /\ magic \in BOOLEAN
        /\ claims \in ClaimTables /\ out \in OutLevels /\ hist \in HistRecords /\ until \in Nat
        /\ now \in Nat /\ k \in 0..N
    BY TypesAre DEF IInv
  <1>k. k < N /\ k \in Slots /\ k \in Nat
    BY <1>u, <1>t, Consts DEF IInv, CtlPart
  <1>a. \/ k = 0 /\ pc' = "run" /\ k' = 0 /\ until' = GraceFrom(now)
        \/ k # 0 /\ pc' = "arm" /\ k' = k + 1 /\ until' = until
    BY <1>u DEF AfterArm, StartTick
  <1>b. until' \in Nat /\ k' \in 0..N
    BY <1>a, <1>t, <1>k, Consts, GraceType
  <1>1. slot' \in [Slots -> SlotRecords]
    <2>0. 0 \in 0..MaxBoots
      BY Consts
    <2>1. /\ DOMAIN slot' = Slots /\ \A s \in Slots \ {k} : slot'[s] = slot[s]
          /\ slot' = [s \in Slots |-> slot'[s]]
      BY <1>u, <1>t
    <2>2. slot'[k] = [slot[k] EXCEPT !.id = "DSL", !.bc = 0, !.latched = FALSE]
      BY <1>u, <1>t, <1>k
    <2>3. slot'[k] \in SlotRecords
      BY <2>0, <2>2, <1>t, <1>k DEF SlotRecords
    <2> QED BY <2>1, <2>3, <1>t
  <1>2. IlTypeOK'
    BY <1>u, <1>t, <1>a, <1>b, <1>1, SameTypes
  <1>3. ArmedSet' = ArmedSet
    BY <1>u, <1>t, <1>k DEF ArmedSet, Armed, SlotRecords
  <1>4. ClaimPart'
    <2>1. Holders' = Holders
      BY <1>u, <1>a, <1>3 DEF Holders
    <2> QED BY <1>u, <2>1, SameClaims DEF IInv
  <1>5. CtlPart'
    <2>1. \A s \in Slots : k # 0 /\ s > k => s \notin ArmedSet
      BY <1>u DEF IInv, CtlPart, ArmedSet
    <2>2. \A s \in Slots : k # 0 /\ s > k => ~Armed(s)'
      BY <2>1, <1>3 DEF ArmedSet
    <2>3. \A s \in Slots : s = k + 1 \/ s > k + 1 => s > k
      BY <1>k, Consts
    <2>4. CASE k = 0
      BY <2>4, <1>a DEF CtlPart
    <2>5. CASE k # 0
      BY <2>5, <1>a, <2>2, <2>3 DEF CtlPart
    <2> QED BY <2>4, <2>5
  <1>6. OutPart'
    <2>1. hist.age = 0 /\ Calm(out)
      BY <1>u, Quiet DEF IInv
    <2> QED BY <1>u, <2>1, StillQuiet
  <1> QED BY <1>2, <1>4, <1>5, <1>6 DEF IInv

(* interlock_tick_all keeps the state of every slot, and latches the ones  *)
(* that fail outside the grace window.                                     *)
Window == IF clearReq THEN GraceFrom(now) ELSE until
LatchedSlots == {s \in Slots : Armed(s) /\ slot[s].latched}

LEMMA TickDoes ==
    ASSUME IlTypeOK, NEW F \in SUBSET Slots, TickAll(F)
    PROVE  /\ pc = "run" /\ slot' \in [Slots -> SlotRecords]
           /\ \A s \in Slots : /\ slot'[s].state = slot[s].state /\ slot'[s].id = slot[s].id
                               /\ slot'[s].bc = slot[s].bc
                               /\ ~clearReq /\ slot[s].latched => slot'[s].latched
                               /\ ~InGrace(Window) /\ Armed(s) /\ slot'[s].tf = "FALSE" =>
                                    slot'[s].latched
           /\ out' = Driven(LatchedSlots')
           /\ hist'.trip = LatchedSlots' \cup (IF clearReq THEN {} ELSE hist.trip)
           /\ hist'.age = (IF clearReq THEN 1 ELSE Older(hist.age))
           /\ hist' \in HistRecords
           /\ until' = Window /\ now' = (now + 1) % Wrap /\ clearReq' = FALSE
           /\ budget.up > 0 /\ budget' = [budget EXCEPT !.up = @ - 1]
           /\ text' = text /\ fp' = fp /\ magic' = magic /\ flash' = flash /\ claims' = claims
           /\ pc' = pc /\ k' = k
  <1>t. slot \in [Slots -> SlotRecords] /\ hist \in HistRecords /\ clearReq \in BOOLEAN
    BY TypesAre
  <1>g. PICK g \in BOOLEAN : g = InGrace(Window)
    BY DEF InGrace
  <1>v. PICK after : after = [s \in Slots |-> Latch(Evaluated(s, F), g)]
    OBVIOUS
  <1>w. PICK veto : veto = {s \in Slots : after[s].state = "ARMED" /\ after[s].latched}
    OBVIOUS
  <1>u. /\ pc = "run" /\ budget.up > 0 /\ slot' = after /\ out' = Driven(veto) /\ clearReq' = FALSE
        /\ until' = Window /\ now' = (now + 1) % Wrap
        /\ hist' = [hist EXCEPT !.trip = veto \cup (IF clearReq THEN {} ELSE @),
                                !.age = IF clearReq THEN 1 ELSE Older(@)]
        /\ budget' = [budget EXCEPT !.up = @ - 1]
        /\ text' = text /\ fp' = fp /\ magic' = magic /\ flash' = flash /\ claims' = claims
        /\ pc' = pc /\ k' = k
    BY <1>g, <1>v, <1>w DEF TickAll, Window, bootVars
  <1>1. ASSUME NEW s \in Slots
        PROVE  /\ after[s] \in SlotRecords
               /\ after[s].state = slot[s].state /\ after[s].id = slot[s].id
               /\ after[s].bc = slot[s].bc
               /\ ~clearReq /\ slot[s].latched => after[s].latched
               /\ ~g /\ slot[s].state = "ARMED" /\ after[s].tf = "FALSE" => after[s].latched
    <2>1. PICK e : e = Evaluated(s, F)
      OBVIOUS
    <2>2. /\ e \in SlotRecords /\ e.state = slot[s].state /\ e.id = slot[s].id /\ e.bc = slot[s].bc
          /\ e.latched = (slot[s].latched /\ ~clearReq)
      <3>1. PICK r, v, l : /\ r = slot[s] /\ l = (slot[s].latched /\ ~clearReq)
                           /\ v = IF Armed(s) /\ slot[s].id = "DSL"
                                  THEN IF s \in F THEN "FALSE" ELSE "TRUE"
                                  ELSE slot[s].tf
        OBVIOUS
      <3>2. e = [r EXCEPT !.tf = v, !.latched = l]
        BY <2>1, <3>1 DEF Evaluated
      <3>3. r \in SlotRecords
        BY <1>t, <3>1, Zenon
      <3>4. v \in {"UNEVALUATED", "TRUE", "FALSE"} /\ l \in BOOLEAN
        <4>1. slot[s].tf \in {"UNEVALUATED", "TRUE", "FALSE"}
          BY <3>1, <3>3 DEF SlotRecords
        <4> QED BY <3>1, <4>1, Zenon
      <3>5. e \in SlotRecords /\ e.state = r.state /\ e.id = r.id /\ e.bc = r.bc /\ e.latched = l
        BY ONLY <3>2, <3>3, <3>4 DEF SlotRecords
      <3> QED BY <3>1, <3>5, Zenon
    <2>3. after[s] = Latch(e, g)
      BY <1>v, <2>1
    <2>4. /\ after[s] \in SlotRecords /\ after[s].state = e.state /\ after[s].id = e.id
          /\ after[s].bc = e.bc /\ after[s].tf = e.tf
          /\ after[s].latched = (e.latched \/ (~g /\ e.state = "ARMED" /\ e.tf = "FALSE"))
      BY <2>2, <2>3, <1>g DEF Latch, SlotRecords
    <2> QED BY <2>2, <2>4
  <1>2. slot' \in [Slots -> SlotRecords]
    BY <1>u, <1>v, <1>1
  <1>3. veto = LatchedSlots'
    BY <1>u, <1>w DEF LatchedSlots, Armed
  <1>4. hist' \in HistRecords /\ hist'.age = (IF clearReq THEN 1 ELSE Older(hist.age))
        /\ hist'.trip = veto \cup (IF clearReq THEN {} ELSE hist.trip)
    <2>1. PICK a : a = IF clearReq THEN 1 ELSE Older(hist.age)
      OBVIOUS
    <2>2. PICK T : T = veto \cup (IF clearReq THEN {} ELSE hist.trip)
      OBVIOUS
    <2>3. a \in 0..(Grace + 1)
      BY <1>t, <2>1, Consts DEF Older, HistRecords
    <2>4. T \subseteq Slots
      BY <1>t, <1>w, <2>2 DEF HistRecords
    <2>5. hist' = [hist EXCEPT !.trip = T, !.age = a]
      BY <1>u, <2>1, <2>2
    <2>6. hist' \in HistRecords /\ hist'.age = a /\ hist'.trip = T
      BY <1>t, <2>3, <2>4, <2>5 DEF HistRecords
    <2> QED BY <2>1, <2>2, <2>6
  <1> QED BY <1>u, <1>g, <1>1, <1>2, <1>3, <1>4 DEF Armed

LEMMA TickAllStep == ASSUME NEW F \in SUBSET Slots PROVE IInv /\ TickAll(F) => IInv'
  <1> SUFFICES ASSUME IInv, TickAll(F) PROVE IInv'
    OBVIOUS
  <1>t. /\ IlTypeOK /\ text \in [Slots -> Texts]
        /\ fp \in [Configured -> Dsls \cup {None}] \cup {NoFp} /\ magic \in BOOLEAN /\ flash \in Flashes
        /\ claims \in ClaimTables /\ out \in OutLevels /\ hist \in HistRecords /\ until \in Nat
        /\ now \in Nat /\ k \in 0..N /\ budget \in BudgetRecords /\ clearReq \in BOOLEAN
    BY TypesAre DEF IInv
  <1>u. /\ pc = "run" /\ slot' \in [Slots -> SlotRecords] /\ hist' \in HistRecords
        /\ \A s \in Slots : slot'[s].state = slot[s].state
        /\ out' = Driven(LatchedSlots') /\ hist'.age = (IF clearReq THEN 1 ELSE Older(hist.age))
        /\ until' = Window /\ now' = (now + 1) % Wrap /\ clearReq' = FALSE
        /\ budget.up > 0 /\ budget' = [budget EXCEPT !.up = @ - 1]
        /\ text' = text /\ fp' = fp /\ magic' = magic /\ flash' = flash /\ claims' = claims
        /\ pc' = pc /\ k' = k
    BY <1>t, TickDoes
  <1>1. IlTypeOK'
    <2>1. out' \in OutLevels
      BY <1>u, <1>t DEF Driven, OutLevels
    <2>2. until' \in Nat /\ now' \in Nat
      BY <1>u, <1>t, GraceType, Consts DEF Window
    <2>3. budget' \in BudgetRecords
      BY <1>u, <1>t, Spend
    <2>4. clearReq' \in BOOLEAN
      BY <1>u
    <2> QED BY <1>u, <1>t, <2>1, <2>2, <2>3, <2>4
            DEF IlTypeOK, ClaimTables, OutLevels, Texts, HistRecords, BudgetRecords
  <1>2. ArmedSet' = ArmedSet
    BY <1>u DEF ArmedSet, Armed
  <1>3. Holders = ArmedSet /\ Holders' = ArmedSet
    BY <1>u, <1>2 DEF Holders
  <1>4. ClaimPart'
    BY <1>u, <1>3, SameClaims DEF IInv
  <1>5. CtlPart'
    BY <1>u DEF CtlPart
  <1>6. OutPart'
    <2>1. hist'.age > 0
      BY <1>u, <1>t, Consts DEF Older, HistRecords
    <2>c. Owned(claims, text, ArmedSet) /\ AsAsked(claims, text, ArmedSet)
      BY <1>3 DEF IInv, ClaimPart, ClaimInv
    <2>2. ASSUME NEW p \in Pins
          PROVE  out'[p] = "err" <=> \E s \in Slots : /\ Armed(s)' /\ slot'[s].latched
                                                      /\ \E o \in text[s].outs : o.pin = p
      <3>1. CASE claims[p].mode # "out"
        <4>1. ASSUME NEW s \in ArmedSet, NEW o \in text[s].outs, o.pin = p PROVE FALSE
          BY <4>1, <3>1, <2>c DEF AsAsked
        <4>2. out'[p] = out[p]
          BY <3>1, <1>u DEF Driven
        <4>3. out[p] # "err"
          <5>1. CASE hist.age = 0
            BY <5>1 DEF IInv, OutPart
          <5>2. CASE hist.age > 0
            BY <5>2, <1>u, <4>1 DEF IInv, OutPart, VetoIsUnion, ArmedSet
          <5> QED BY <5>1, <5>2, <1>t, Consts DEF HistRecords
        <4> QED BY <4>1, <4>2, <4>3, <1>2 DEF ArmedSet
      <3>2. CASE claims[p].mode = "out"
        <4>1. out'[p] = "err" <=> claims[p].own \cap LatchedSlots' # {}
          BY <3>2, <1>u DEF Driven, Vetoed
        <4>2. claims[p].own = {s \in ArmedSet : p \in PinsOf(text[s])}
          BY <2>c DEF Owned
        <4>3. ASSUME NEW s \in ArmedSet
              PROVE  p \in PinsOf(text[s]) <=> \E o \in text[s].outs : o.pin = p
          <5>1. text[s] \in Texts
            BY <1>t DEF ArmedSet
          <5>2. \A i \in text[s].ins : i.pin # p
            BY <5>1, <3>2, <2>c, TextType DEF AsAsked
          <5> QED BY <5>2, PinsOfIs
        <4>4. \A s \in Slots : s \in LatchedSlots' <=> s \in ArmedSet /\ slot'[s].latched
          BY <1>2 DEF LatchedSlots, ArmedSet
        <4>5. \A s \in Slots : s \in ArmedSet <=> Armed(s)'
          BY <1>2 DEF ArmedSet
        <4>6. ArmedSet \subseteq Slots
          BY DEF ArmedSet
        <4> QED BY <4>1, <4>2, <4>3, <4>4, <4>5, <4>6
      <3> QED BY <3>1, <3>2
    <2> QED BY <1>u, <2>1, <2>2 DEF OutPart, VetoIsUnion
  <1> QED BY <1>1, <1>4, <1>5, <1>6 DEF IInv

LEMMA RequestClearStep == IInv /\ RequestClear => IInv'
  <1> SUFFICES ASSUME IInv, RequestClear PROVE IInv'
    OBVIOUS
  <1>u. /\ slot' = slot /\ text' = text /\ fp' = fp /\ magic' = magic /\ flash' = flash
        /\ claims' = claims /\ out' = out /\ clearReq' = TRUE /\ now' = now /\ until' = until
        /\ pc' = pc /\ k' = k /\ hist' = hist
        /\ budget.clears > 0 /\ budget' = [budget EXCEPT !.clears = @ - 1]
    BY DEF RequestClear, persistVars, pinVars, bootVars
  <1>1. IlTypeOK'
    <2>1. budget' \in BudgetRecords
      BY <1>u, TypesAre, Spend DEF IInv
    <2>2. clearReq' \in BOOLEAN
      BY <1>u
    <2> QED BY <1>u, <2>1, <2>2 DEF IInv, IlTypeOK, BudgetRecords
  <1>2. Holders' = Holders
    BY <1>u DEF Holders, ArmedSet, Armed
  <1>3. ClaimPart'
    BY <1>u, <1>2, SameClaims DEF IInv
  <1>4. CtlPart'
    BY <1>u DEF IInv, CtlPart, Armed
  <1>5. OutPart'
    BY <1>u DEF IInv, OutPart, VetoIsUnion, Armed
  <1> QED BY <1>1, <1>3, <1>4, <1>5 DEF IInv

LEMMA StutterStep == IInv /\ UNCHANGED vars => IInv'
  <1> SUFFICES ASSUME IInv, UNCHANGED vars PROVE IInv'
    OBVIOUS
  <1>u. /\ slot' = slot /\ text' = text /\ fp' = fp /\ magic' = magic /\ flash' = flash
        /\ claims' = claims /\ out' = out /\ clearReq' = clearReq /\ now' = now /\ until' = until
        /\ pc' = pc /\ k' = k /\ hist' = hist /\ budget' = budget
    BY DEF vars, persistVars, pinVars, timeVars, bootVars
  <1>1. IlTypeOK'
    BY <1>u DEF IInv, IlTypeOK
  <1>2. Holders' = Holders
    BY <1>u DEF Holders, ArmedSet, Armed
  <1>3. ClaimPart'
    BY <1>u, <1>2, SameClaims DEF IInv
  <1>4. CtlPart'
    BY <1>u DEF IInv, CtlPart, Armed
  <1>5. OutPart'
    BY <1>u DEF IInv, OutPart, VetoIsUnion, Armed
  <1> QED BY <1>1, <1>3, <1>4, <1>5 DEF IInv

LEMMA NextIInv == IInv /\ [Next]_vars => IInv'
  <1> SUFFICES ASSUME IInv, [Next]_vars PROVE IInv'
    OBVIOUS
  <1>1. CASE BringUp
    BY <1>1, BootDecideWarmStep, BootDecideColdStep, WarmRestoreStep, CheckFingerprintStep,
       DisarmStaleStep, DisarmDoneStep, ArmRefusedStep, ArmClaimStep, ArmStateStep, ArmCommitStep,
       StoreFingerprintStep, KeepBuiltInStep, DropBuiltInStep DEF BringUp
  <1>2. CASE \E F \in SUBSET Slots : TickAll(F)
    BY <1>2, TickAllStep
  <1>3. CASE RequestClear
    BY <1>3, RequestClearStep
  <1>4. CASE WarmReset \/ PowerCut
    BY <1>4, WarmResetStep, PowerCutStep
  <1>5. CASE \E f \in Flashes : Reflash(f)
    BY <1>5, ReflashStep
  <1>6. CASE UNCHANGED vars
    BY <1>6, StutterStep
  <1> QED BY <1>1, <1>2, <1>3, <1>4, <1>5, <1>6 DEF Next

-----------------------------------------------------------------------------
LEMMA Inductive == Spec => []IInv
  BY InitIInv, NextIInv, PTL DEF Spec

(* Whatever resets, power cuts and new configurations come between the     *)
(* steps of bring-up, the tick starts with a claim table that names the    *)
(* armed slots of each pin, no more and no fewer, and a digital input has  *)
(* one user (hal_pin_claim*, hal_pin_release_slot).                        *)
THEOREM PinsSafety == Spec => []PinsSound
  <1>1. IInv => PinsSound
    <2> SUFFICES ASSUME IInv PROVE PinsSound
      OBVIOUS
    <2>1. IlTypeOK
      BY DEF IInv
    <2>2. ASSUME pc = "run", NEW p \in Pins
          PROVE  /\ claims[p].own = {s \in Slots : Armed(s) /\ p \in PinsOf(text[s])}
                 /\ claims[p].mode = "in" => Cardinality(claims[p].own) = 1
      <3>1. Owned(claims, text, ArmedSet)
        BY <2>2, HoldersAre DEF IInv, ClaimPart, ClaimInv
      <3>2. claims[p].own = {s \in Slots : Armed(s) /\ p \in PinsOf(text[s])}
        BY <3>1 DEF Owned, ArmedSet
      <3>3. ASSUME claims[p].mode = "in" PROVE Cardinality(claims[p].own) = 1
        <4>1. PICK s \in ArmedSet : claims[p].own = {s}
          BY <3>1, <3>3 DEF Owned
        <4>2. Cardinality({s}) = 1
          BY FS_Singleton
        <4> QED BY <4>1, <4>2
      <3> QED BY <3>2, <3>3
    <2>3. ClaimsMatchArmed
      BY <2>2 DEF ClaimsMatchArmed
    <2> QED BY <2>1, <2>3 DEF PinsSound
  <1> QED BY <1>1, Inductive, PTL

(* From the first tick on, an output is at its err level exactly when one  *)
(* of the armed slots that drive it is latched (interlock_tick_all and     *)
(* hal_pin_drive_outputs): for every number of slots sharing the pin.      *)
THEOREM VetoSafety == Spec => []VetoIsUnion
  <1>1. IInv => VetoIsUnion
    BY DEF IInv, OutPart
  <1> QED BY <1>1, Inductive, PTL

-----------------------------------------------------------------------------
(* The grace window.  board_millis wraps, and il_in_grace compares it with *)
(* the end of the window modulo the wrap: while a node has been up for at  *)
(* most half a wrap, the comparison is right.                              *)
InHalfWrap == 2 * MaxUptime <= Wrap

TimePart ==
    /\ now = MaxUptime - budget.up
    /\ (pc # "run" => now = 0)
    /\ (pc = "run" /\ hist.age <= Grace => until = now - hist.age + Grace /\ hist.age <= now)
    /\ (pc = "run" /\ hist.age > Grace => until < now)
    /\ TripsOutsideGrace

LEMMA ModSmall == ASSUME NEW w \in Nat, NEW x \in Nat, x < w PROVE x % w = x
  OBVIOUS

LEMMA ModBelow == ASSUME NEW w \in Nat, NEW x \in Int, x < 0, x + w >= 0 PROVE x % w = x + w
  OBVIOUS

LEMMA WindowOver ==
    ASSUME NEW u \in Nat, now \in Nat, u <= now, now <= MaxUptime, InHalfWrap
    PROVE  ~InGrace(u)
  <1>1. CASE u = now
    <2>1. u - now = 0 /\ 0 < Wrap
      BY <1>1, Consts
    <2>2. (u - now) % Wrap = 0
      BY <2>1, ModSmall, Consts
    <2> QED BY <2>2 DEF InGrace
  <1>2. CASE u < now
    <2>1. u - now \in Int /\ u - now < 0 /\ u - now + Wrap >= 0
      BY <1>2, Consts DEF InHalfWrap
    <2>2. (u - now) % Wrap = u - now + Wrap
      BY <2>1, ModBelow, Consts
    <2>3. ~(2 * (u - now + Wrap) < Wrap)
      BY Consts DEF InHalfWrap
    <2> QED BY <2>2, <2>3 DEF InGrace
  <1> QED BY <1>1, <1>2

(* A reset, and the steps of bring-up that do not end it.                  *)
LEMMA TimeRestart ==
    ASSUME IlTypeOK, Restarted, budget'.up = MaxUptime PROVE TimePart'
  BY Consts DEF Restarted, TimePart, TripsOutsideGrace

LEMMA TimeBoot ==
    ASSUME TimePart, pc # "run", pc' # "run", now' = now, budget' = budget
    PROVE  TimePart'
  BY DEF TimePart, TripsOutsideGrace

(* interlock_begin_grace                                                   *)
LEMMA TimeStart ==
    ASSUME IlTypeOK, OutPart, TimePart, pc # "run", StartTick, now' = now, budget' = budget,
           hist'.age = hist.age
    PROVE  TimePart'
  <1>1. pc' = "run" /\ until' = (now + Grace) % Wrap
    BY DEF StartTick, GraceFrom
  <1>2. now = 0 /\ hist.age = 0 /\ now = MaxUptime - budget.up
    BY DEF TimePart, OutPart
  <1>3. Grace \in Nat /\ 0 + Grace = Grace /\ Grace < Wrap
    BY InterlockAssumption
  <1>4. until' = Grace
    BY <1>1, <1>2, <1>3, ModSmall, Consts
  <1> QED BY <1>1, <1>2, <1>3, <1>4 DEF TimePart, TripsOutsideGrace

LEMMA TimeTick ==
    ASSUME IInv, InHalfWrap, TimePart, NEW F \in SUBSET Slots, TickAll(F)
    PROVE  TimePart'
  <1>t. /\ IlTypeOK /\ hist \in HistRecords /\ until \in Nat
        /\ now \in Nat /\ budget \in BudgetRecords /\ clearReq \in BOOLEAN
    BY TypesAre DEF IInv
  <1>u. /\ pc = "run" /\ pc' = pc
        /\ \A s \in Slots : /\ slot'[s].state = slot[s].state
                            /\ ~InGrace(Window) /\ Armed(s) /\ slot'[s].tf = "FALSE" => slot'[s].latched
        /\ hist'.age = (IF clearReq THEN 1 ELSE Older(hist.age))
        /\ until' = Window /\ now' = (now + 1) % Wrap
        /\ budget.up > 0 /\ budget' = [budget EXCEPT !.up = @ - 1]
    BY <1>t, TickDoes
  <1>b. /\ budget.up \in 0..MaxUptime /\ budget'.up = budget.up - 1 /\ hist.age \in 0..(Grace + 1)
    BY <1>t, <1>u DEF BudgetRecords, HistRecords
  <1>c. Grace \in Nat /\ Grace >= 1 /\ Wrap > 2 * Grace /\ Wrap \in Nat /\ MaxUptime \in Nat
    BY InterlockAssumption
  <1>p. /\ now = MaxUptime - budget.up
        /\ (hist.age <= Grace => until = now - hist.age + Grace /\ hist.age <= now)
        /\ (hist.age > Grace => until < now)
    BY <1>u DEF TimePart
  <1>1. now' = now + 1 /\ now + 1 <= MaxUptime /\ now' = MaxUptime - budget'.up
    <2>1. now + 1 <= MaxUptime /\ now + 1 < Wrap
      BY <1>t, <1>u, <1>b, <1>c, <1>p DEF InHalfWrap
    <2>2. (now + 1) % Wrap = now + 1
      BY <2>1, <1>t, <1>c, ModSmall
    <2> QED BY <2>1, <2>2, <1>u, <1>b, <1>c, <1>p
  <1>2. CASE clearReq
    <2>1. until' = (now + Grace) % Wrap
      BY <1>2, <1>u DEF Window, GraceFrom
    <2>2. now + Grace \in Nat /\ now + Grace < Wrap
      BY <1>1, <1>t, <1>c DEF InHalfWrap
    <2>3. until' = now + Grace
      BY <2>1, <2>2, <1>c, ModSmall
    <2>4. hist'.age = 1
      BY <1>2, <1>u
    <2> QED BY <1>u, <1>1, <1>c, <1>t, <2>3, <2>4 DEF TimePart, TripsOutsideGrace
  <1>3. CASE ~clearReq
    <2>1. until' = until /\ Window = until /\ hist'.age = Older(hist.age)
      BY <1>3, <1>u DEF Window
    <2>2. CASE hist.age < Grace
      <3>1. hist'.age = hist.age + 1
        BY <2>1, <2>2, <1>b, <1>c DEF Older
      <3> QED BY <1>u, <1>1, <1>b, <1>c, <1>p, <1>t, <2>1, <2>2, <3>1 DEF TimePart, TripsOutsideGrace
    <2>3. CASE hist.age >= Grace
      <3>1. hist'.age = Grace + 1
        BY <2>1, <2>3, <1>b, <1>c DEF Older
      <3>2. until <= now
        BY <2>3, <1>b, <1>c, <1>p, <1>t
      <3>3. ~InGrace(until)
        BY <3>2, <1>t, <1>1, <1>c, WindowOver
      <3>4. TripsOutsideGrace'
        BY <3>3, <2>1, <1>u DEF TripsOutsideGrace, Armed
      <3> QED BY <1>u, <1>1, <1>c, <1>t, <2>1, <3>1, <3>2, <3>4 DEF TimePart
    <2> QED BY <2>2, <2>3, <1>b, <1>c
  <1> QED BY <1>2, <1>3

LEMMA TimeNext == IInv /\ InHalfWrap /\ TimePart /\ [Next]_vars => TimePart'
  <1> SUFFICES ASSUME IInv, InHalfWrap, TimePart, [Next]_vars PROVE TimePart'
    OBVIOUS
  <1>t. IlTypeOK /\ OutPart /\ hist \in HistRecords /\ budget \in BudgetRecords
    BY TypesAre DEF IInv
  <1>1. CASE BootDecideWarm \/ BootDecideCold
    <2>1. pc = "decide" /\ pc' = "restore" /\ now' = now /\ budget' = budget
      BY <1>1 DEF BootDecideWarm, BootDecideCold, timeVars
    <2> QED BY <2>1, TimeBoot
  <1>2. CASE WarmRestore \/ CheckFingerprint \/ DisarmStale \/ DisarmDone
    <2>1. pc # "run" /\ pc' # "run" /\ now' = now /\ budget' = budget
      BY <1>2 DEF WarmRestore, CheckFingerprint, DisarmStale, DisarmDone, timeVars
    <2> QED BY <2>1, TimeBoot
  <1>3. CASE ArmClaim \/ ArmState \/ StoreFingerprint \/ DropBuiltIn
    <2>1. pc # "run" /\ pc' # "run" /\ now' = now /\ budget' = budget
      BY <1>3 DEF ArmClaim, ArmState, StoreFingerprint, DropBuiltIn, timeVars
    <2> QED BY <2>1, TimeBoot
  <1>4. CASE ArmRefused \/ ArmCommit
    <2>1. pc # "run" /\ now' = now /\ budget' = budget /\ AfterArm
      BY <1>4 DEF ArmRefused, ArmCommit
    <2>2. hist'.age = hist.age
      BY <1>4, <1>t DEF ArmRefused, ArmCommit, HistRecords
    <2>3. CASE k = 0
      BY <2>1, <2>2, <2>3, <1>t, TimeStart DEF AfterArm
    <2>4. CASE k # 0
      <3>1. pc' # "run"
        BY <2>1, <2>4 DEF AfterArm
      <3> QED BY <2>1, <3>1, TimeBoot
    <2> QED BY <2>3, <2>4
  <1>5. CASE KeepBuiltIn
    BY <1>5, <1>t, TimeStart DEF KeepBuiltIn
  <1>6. CASE \E F \in SUBSET Slots : TickAll(F)
    BY <1>6, TimeTick
  <1>7. CASE RequestClear
    <2>1. /\ slot' = slot /\ now' = now /\ until' = until /\ pc' = pc /\ hist' = hist
          /\ budget' = [budget EXCEPT !.clears = @ - 1]
      BY <1>7 DEF RequestClear, persistVars, bootVars
    <2>2. budget'.up = budget.up
      BY <2>1, <1>t DEF BudgetRecords
    <2> QED BY <2>1, <2>2 DEF TimePart, TripsOutsideGrace, Armed
  <1>8. CASE WarmReset \/ PowerCut \/ \E f \in Flashes : Reflash(f)
    <2>1. Restarted /\ budget'.up = MaxUptime
      BY <1>8, <1>t DEF WarmReset, PowerCut, Reflash, BudgetRecords
    <2> QED BY <2>1, <1>t, TimeRestart
  <1>9. CASE UNCHANGED vars
    <2>1. /\ slot' = slot /\ now' = now /\ until' = until /\ pc' = pc /\ hist' = hist
          /\ budget' = budget
      BY <1>9 DEF vars, persistVars, bootVars, timeVars
    <2> QED BY <2>1 DEF TimePart, TripsOutsideGrace, Armed
  <1> QED BY <1>1, <1>2, <1>3, <1>4, <1>5, <1>6, <1>7, <1>8, <1>9 DEF Next, BringUp

(* While a node has been up for at most half a wrap of board_millis, a     *)
(* slot whose watches fail later than the grace window after the boot or   *)
(* the last clear is latched in the same tick (il_in_grace).               *)
THEOREM TripsSafety == InHalfWrap => (Spec => []TripsOutsideGrace)
  <1> SUFFICES ASSUME InHalfWrap PROVE Spec => []TripsOutsideGrace
    OBVIOUS
  <1>1. Init => TimePart
    BY Consts DEF Init, TimePart, TripsOutsideGrace
  <1>2. IInv /\ TimePart /\ [Next]_vars => TimePart'
    BY TimeNext
  <1>3. TimePart => TripsOutsideGrace
    BY DEF TimePart
  <1> QED BY <1>1, <1>2, <1>3, Inductive, PTL DEF Spec

-----------------------------------------------------------------------------
(* A trip is held.  The hypothesis: the flashed configuration does not     *)
(* change, and the node resets at most MaxBoots times.  Beyond it          *)
(* the code lets go of trips: a changed pin role makes a slot's claim fail *)
(* and the slot is poisoned, and the boot-loop guard poisons every slot    *)
(* that has seen MaxBoots resets, stable uptime or not.                    *)
Steady == (\E f : Flashes = {f}) /\ MaxResets + MaxFlashes <= MaxBoots

(* The resets so far, which bound every boot counter.                      *)
Used == (MaxResets - budget.resets) + (MaxFlashes - budget.flashes)
ResetPart ==
    \A s \in Slots : IF pc = "decide" /\ magic THEN slot[s].bc + 1 <= Used ELSE slot[s].bc <= Used

LEMMA UsedType ==
    ASSUME IlTypeOK
    PROVE  /\ Used \in Nat /\ Used <= MaxResets + MaxFlashes
           /\ \A s \in Slots : slot[s].bc \in 0..MaxBoots
  <1>1. budget \in BudgetRecords /\ slot \in [Slots -> SlotRecords]
    BY TypesAre
  <1>2. budget.resets \in 0..MaxResets /\ budget.flashes \in 0..MaxFlashes
    BY <1>1 DEF BudgetRecords
  <1>3. \A s \in Slots : slot[s].bc \in 0..MaxBoots
    BY <1>1 DEF SlotRecords
  <1> QED BY <1>2, <1>3, Consts DEF Used

LEMMA ResetKeep ==
    ASSUME IlTypeOK, IlTypeOK', ResetPart, Used' = Used, pc' # "decide",
           \A s \in Slots : slot'[s].bc <= slot[s].bc
    PROVE  ResetPart'
  <1>1. \A s \in Slots : slot[s].bc \in Nat /\ slot'[s].bc \in Nat
    <2>1. \A s \in Slots : slot[s].bc \in 0..MaxBoots
      BY UsedType
    <2>2. \A s \in Slots : slot'[s].bc \in 0..MaxBoots
      BY DEF IlTypeOK, SlotRecords
    <2>3. 0..MaxBoots \subseteq Nat
      OBVIOUS
    <2> QED BY <2>1, <2>2, <2>3
  <1>2. \A s \in Slots : slot[s].bc <= Used
    BY <1>1, UsedType DEF ResetPart
  <1>3. \A s \in Slots : slot'[s].bc <= Used
    BY <1>1, <1>2, UsedType
  <1> QED BY <1>3 DEF ResetPart

LEMMA ResetMore ==
    ASSUME IlTypeOK, ResetPart, slot' = slot, Used' = Used + 1 PROVE ResetPart'
  BY UsedType, Consts DEF ResetPart

LEMMA ResetNext == IInv /\ ResetPart /\ [Next]_vars => ResetPart'
  <1> SUFFICES ASSUME IInv, ResetPart, [Next]_vars PROVE ResetPart'
    OBVIOUS
  <1>t. /\ IlTypeOK /\ IlTypeOK' /\ slot \in [Slots -> SlotRecords] /\ budget \in BudgetRecords
        /\ k \in 0..N
    BY TypesAre, NextIInv DEF IInv
  <1>z. \A s \in Slots : slot[s].bc \in Nat
    BY <1>t, UsedType, Consts
  <1>1. CASE BootDecideWarm
    <2>1. /\ pc = "decide" /\ magic /\ pc' = "restore" /\ budget' = budget
          /\ slot' = [s \in Slots |-> Bumped(s)]
      BY <1>1 DEF BootDecideWarm, PersistIsValid
    <2>2. \A s \in Slots : slot'[s].bc <= slot[s].bc + 1
      BY <2>1, <1>t, <1>z DEF Bumped, SlotRecords
    <2>3. \A s \in Slots : slot'[s].bc \in 0..MaxBoots
      BY <1>t DEF IlTypeOK, SlotRecords
    <2>4. \A s \in Slots : slot'[s].bc <= Used
      BY <2>1, <2>2, <2>3, <1>t, <1>z, UsedType, Consts DEF ResetPart
    <2> QED BY <2>1, <2>4 DEF ResetPart, Used
  <1>2. CASE BootDecideCold
    <2>1. pc' = "restore" /\ budget' = budget /\ slot' = [s \in Slots |-> Empty]
      BY <1>2 DEF BootDecideCold
    <2>2. \A s \in Slots : slot'[s].bc = 0
      BY <2>1 DEF Empty
    <2>3. Used' = Used
      BY <2>1 DEF Used
    <2> QED BY <2>1, <2>2, <2>3, <1>t, <1>z, ResetKeep
  <1>3. CASE WarmRestore
    <2>1. pc' # "decide" /\ budget' = budget /\ k \in Slots
      BY <1>3, <1>t, Consts DEF WarmRestore
    <2>2. \A s \in Slots : slot'[s].bc = slot[s].bc
      BY <1>3, <1>t, <2>1 DEF WarmRestore, Restored, SlotRecords
    <2>3. Used' = Used
      BY <2>1 DEF Used
    <2>4. \A s \in Slots : slot'[s].bc <= slot[s].bc
      BY <2>2, <1>z
    <2> QED BY <2>1, <2>3, <2>4, <1>t, ResetKeep
  <1>4. CASE CheckFingerprint \/ DisarmDone \/ ArmRefused \/ StoreFingerprint \/ KeepBuiltIn
    <2>1. pc' # "decide" /\ budget' = budget /\ slot' = slot
      BY <1>4 DEF CheckFingerprint, DisarmDone, ArmRefused, AfterArm, StartTick, StoreFingerprint,
                  KeepBuiltIn, persistVars
    <2>3. Used' = Used
      BY <2>1 DEF Used
    <2> QED BY <2>1, <2>3, <1>t, <1>z, ResetKeep
  <1>5. CASE DisarmStale \/ DropBuiltIn
    <2>1. /\ pc' # "decide" /\ budget' = budget
          /\ \E j \in Slots : slot' = [slot EXCEPT ![j] = Empty]
      BY <1>5, <1>t, Consts DEF DisarmStale, DropBuiltIn, Disarm
    <2>2. \A s \in Slots : slot'[s].bc <= slot[s].bc
      BY <2>1, <1>t, <1>z DEF Empty
    <2>3. Used' = Used
      BY <2>1 DEF Used
    <2> QED BY <2>1, <2>2, <2>3, <1>t, ResetKeep
  <1>6. CASE ArmClaim \/ ArmState \/ ArmCommit
    <2>1. /\ pc' # "decide" /\ budget' = budget /\ k \in Slots
      BY <1>6, <1>t, Consts DEF ArmClaim, ArmState, ArmCommit, AfterArm, StartTick, IInv, CtlPart
    <2>2. \A s \in Slots : slot'[s].bc <= slot[s].bc
      BY <1>6, <2>1, <1>t, <1>z DEF ArmClaim, ArmState, ArmCommit, SlotRecords
    <2>3. Used' = Used
      BY <2>1 DEF Used
    <2> QED BY <2>1, <2>2, <2>3, <1>t, ResetKeep
  <1>7. CASE \E F \in SUBSET Slots : TickAll(F)
    <2>1. /\ pc' = "run" /\ budget' = [budget EXCEPT !.up = @ - 1]
          /\ \A s \in Slots : slot'[s].bc = slot[s].bc
      BY <1>7, <1>t, TickDoes
    <2>2. Used' = Used
      BY <2>1, <1>t DEF Used, BudgetRecords
    <2> QED BY <2>1, <2>2, <1>t, <1>z, ResetKeep
  <1>8. CASE RequestClear
    <2>1. pc' = pc /\ magic' = magic /\ slot' = slot /\ budget' = [budget EXCEPT !.clears = @ - 1]
      BY <1>8 DEF RequestClear, persistVars, bootVars
    <2>2. Used' = Used
      BY <2>1, <1>t DEF Used, BudgetRecords
    <2> QED BY <2>1, <2>2 DEF ResetPart
  <1>9. CASE WarmReset \/ \E f \in Flashes : Reflash(f)
    <2>1. slot' = slot
      BY <1>9 DEF WarmReset, Reflash, persistVars
    <2>2. Used' = Used + 1
      <3>1. CASE WarmReset
        <4>1. budget'.resets = budget.resets - 1 /\ budget'.flashes = budget.flashes
          BY <3>1, <1>t DEF WarmReset, BudgetRecords
        <4>2. budget.resets \in Nat /\ budget.flashes \in Nat
          BY <1>t, Consts DEF BudgetRecords
        <4> QED BY <4>1, <4>2, Consts DEF Used
      <3>2. CASE \E f \in Flashes : Reflash(f)
        <4>1. budget'.resets = budget.resets /\ budget'.flashes = budget.flashes - 1
          BY <3>2, <1>t DEF Reflash, BudgetRecords
        <4>2. budget.resets \in Nat /\ budget.flashes \in Nat
          BY <1>t, Consts DEF BudgetRecords
        <4> QED BY <4>1, <4>2, Consts DEF Used
      <3> QED BY <1>9, <3>1, <3>2
    <2> QED BY <2>1, <2>2, <1>t, ResetMore
  <1>10. CASE PowerCut
    <2>1. slot' = slot /\ magic' = FALSE /\ budget' = [budget EXCEPT !.cuts = @ - 1, !.up = MaxUptime]
      BY <1>10 DEF PowerCut
    <2>2. Used' = Used
      BY <2>1, <1>t DEF Used, BudgetRecords
    <2>3. \A s \in Slots : slot[s].bc <= Used
      BY <1>t, <1>z, UsedType DEF ResetPart
    <2> QED BY <2>1, <2>2, <2>3 DEF ResetPart
  <1>11. CASE UNCHANGED vars
    <2>1. pc' = pc /\ magic' = magic /\ slot' = slot /\ budget' = budget
      BY <1>11 DEF vars, persistVars, bootVars
    <2> QED BY <2>1 DEF ResetPart, Used
  <1> QED BY <1>1, <1>2, <1>3, <1>4, <1>5, <1>6, <1>7, <1>8, <1>9, <1>10, <1>11 DEF Next, BringUp

(* What the persist record is worth, place by place of bring-up.           *)
ArmedOK(s) == slot[s].id = "DSL" /\ text[s] # None
Fit0 == Fits(BuiltIn, flash.caps) /\ \A t \in ArmedSet : Agree(BuiltIn, text[t])
Late == pc \in {"builtin", "run"} \/ (pc \in {"arm", "state", "commit"} /\ k = 0)
PersistPart ==
    /\ (pc # "decide" => magic)
    /\ text[0] \in {BuiltIn, None}
    /\ (pc # "decide" => \A s \in ArmedSet : (pc = "commit" /\ s = k) \/ ArmedOK(s))
    /\ (Late => fp = flash.dsl)
    /\ (pc \in {"state", "commit"} => text[k] # None /\ text[k].parses)
    /\ (pc = "commit" => Armed(k))
    /\ (\A s \in Holders : text[s].parses)
    /\ (pc = "run" => Armed(0) \/ ~Fit0)

(* A reset keeps the record: nothing is claimed of it but the built-in     *)
(* text of slot 0.                                                         *)
LEMMA PersistRestart ==
    ASSUME PersistPart, Restarted, text' = text PROVE PersistPart'
  <1>1. pc' = "decide"
    BY DEF Restarted
  <1>2. Holders' = {}
    BY <1>1 DEF Holders
  <1> QED BY <1>1, <1>2 DEF PersistPart, Late

LEMMA PersistDecide ==
    ASSUME IInv, PersistPart, BootDecideWarm \/ BootDecideCold PROVE PersistPart'
  <1>t. slot \in [Slots -> SlotRecords]
    BY TypesAre DEF IInv
  <1>1. pc' = "restore" /\ k' = 0
    BY DEF BootDecideWarm, BootDecideCold
  <1>2. Holders' = {}
    <2>1. Holders' = {s \in ArmedSet' : s < 0}
      BY <1>1 DEF Holders
    <2>2. \A s \in ArmedSet' : s \in Nat
      BY Consts DEF ArmedSet
    <2> QED BY <2>1, <2>2
  <1>3. CASE BootDecideWarm
    <2>1. /\ magic /\ magic' = magic /\ text' = text /\ slot' = [s \in Slots |-> Bumped(s)]
          /\ \A s \in Slots : Armed(s) => ArmedOK(s)
      BY <1>3 DEF BootDecideWarm, PersistIsValid, ArmedOK
    <2>2. \A s \in Slots : Armed(s)' => Armed(s) /\ slot'[s].id = slot[s].id
      BY <2>1, <1>t DEF Armed, Bumped, SlotRecords
    <2>3. \A s \in ArmedSet' : ArmedOK(s)'
      BY <2>1, <2>2 DEF ArmedSet, ArmedOK
    <2> QED BY <1>1, <1>2, <2>1, <2>3 DEF PersistPart, Late
  <1>4. CASE BootDecideCold
    <2>1. magic' = TRUE /\ text' = [s \in Slots |-> None] /\ slot' = [s \in Slots |-> Empty]
      BY <1>4 DEF BootDecideCold
    <2>2. ArmedSet' = {}
      BY <2>1 DEF ArmedSet, Armed, Empty
    <2>3. text'[0] = None
      BY <2>1, Consts
    <2> QED BY <1>1, <1>2, <2>1, <2>2, <2>3 DEF PersistPart, Late
  <1> QED BY <1>3, <1>4

LEMMA PersistRestore ==
    ASSUME IInv, PersistPart, WarmRestore PROVE PersistPart'
  <1>t. slot \in [Slots -> SlotRecords] /\ k \in 0..N
    BY TypesAre DEF IInv
  <1>1. /\ pc = "restore" /\ pc' = pc /\ k < N /\ k' = k + 1 /\ text' = text /\ magic' = magic
    BY DEF WarmRestore
  <1>k. k \in Slots /\ k \in Nat
    BY <1>t, <1>1, Consts
  <1>2. \A s \in Slots : Armed(s)' => Armed(s) /\ slot'[s].id = slot[s].id
    BY <1>t, <1>k DEF WarmRestore, Restored, Armed, SlotRecords
  <1>3. slot'[k].state = "ARMED" => text[k].parses
    <2>1. CASE Armed(k) /\ text[k].parses /\ Claimable(text[k], k)
      BY <2>1
    <2>2. CASE ~(Armed(k) /\ text[k].parses /\ Claimable(text[k], k))
      <3>1. slot' = [slot EXCEPT ![k].state = IF Armed(k) THEN "POISONED" ELSE @]
        BY <2>2 DEF WarmRestore
      <3>2. slot'[k].state # "ARMED"
        BY <3>1, <1>t, <1>k DEF Armed, SlotRecords
      <3> QED BY <3>2
    <2> QED BY <2>1, <2>2
  <1>4. \A s \in ArmedSet' : ArmedOK(s)'
    BY <1>1, <1>2 DEF ArmedSet, ArmedOK, PersistPart
  <1>5. \A s \in Holders' : text'[s].parses
    <2> SUFFICES ASSUME NEW s \in Slots, Armed(s)', s < k + 1 PROVE text[s].parses
      BY <1>1 DEF Holders, ArmedSet
    <2>1. CASE s = k
      BY <2>1, <1>3 DEF Armed
    <2>2. CASE s # k
      <3>1. s < k
        BY <2>2, <1>k, Consts
      <3>2. s \in Holders
        BY <3>1, <1>1, <1>2 DEF Holders, ArmedSet
      <3> QED BY <3>2 DEF PersistPart
    <2> QED BY <2>1, <2>2
  <1> QED BY <1>1, <1>4, <1>5 DEF PersistPart, Late

(* Steps that leave the slots and the texts alone.                         *)
LEMMA PersistMove ==
    ASSUME IInv, PersistPart, pc \notin {"decide", "state", "commit"}, pc = "restore" => k = N,
           slot' = slot, text' = text, magic' = magic, flash' = flash,
           pc' \in {"disarm", "arm", "builtin", "run"},
           Late' => fp' = flash.dsl, pc' = "run" => Armed(0) \/ ~Fit0
    PROVE  PersistPart'
  <1>t. pc \in {"decide", "restore", "disarm", "arm", "state", "commit", "builtin", "run"}
    BY TypesAre DEF IInv
  <1>1. ArmedSet' = ArmedSet /\ (Armed(0)' <=> Armed(0))
    BY DEF ArmedSet, Armed
  <1>2. Fit0' <=> Fit0
    BY <1>1 DEF Fit0
  <1>3. Holders' = ArmedSet /\ Holders = ArmedSet
    <2>1. CASE pc = "restore"
      <3>1. \A s \in ArmedSet : s < N
        BY Consts DEF ArmedSet, Slots
      <3> QED BY <1>1, <2>1, <3>1 DEF Holders
    <2> QED BY <1>1, <2>1, <1>t DEF Holders
  <1>4. \A s \in ArmedSet : ArmedOK(s)'
    BY DEF PersistPart, ArmedOK
  <1> QED BY <1>1, <1>2, <1>3, <1>4 DEF PersistPart

(* With nothing of slot 0 armed, its claim is refused exactly when the     *)
(* built-in text does not fit.                                             *)
LEMMA BuiltInClaim ==
    ASSUME IInv, pc = "arm", k = 0 PROVE Claimable(BuiltIn, 0) <=> Fit0
  <1>1. 0 \notin ArmedSet
    BY DEF IInv, CtlPart, ArmedSet
  <1>2. Holders = ArmedSet
    BY HoldersAre
  <1>3. (\A t \in ArmedSet : text[t] \in Texts) /\ OneRole(flash.caps)
    BY <1>2, HoldersTexts DEF IInv
  <1>4. ClaimInv(claims, text, flash.caps, ArmedSet)
    BY <1>2 DEF IInv, ClaimPart
  <1>5. BuiltIn \in Texts
    BY DEF Texts
  <1> QED BY <1>1, <1>3, <1>4, <1>5, ClaimIff DEF Fit0

LEMMA PersistMoves ==
    ASSUME IInv, PersistPart,
           CheckFingerprint \/ DisarmDone \/ ArmRefused \/ StoreFingerprint \/ KeepBuiltIn
    PROVE  PersistPart'
  <1>1. CASE CheckFingerprint
    <2>1. /\ pc = "restore" /\ k = N /\ k' = 1 /\ slot' = slot /\ text' = text /\ magic' = magic
          /\ flash' = flash /\ fp' = fp /\ pc' \in {"disarm", "builtin"}
          /\ pc' = "builtin" => fp = flash.dsl
      BY <1>1 DEF CheckFingerprint, persistVars, Stale
    <2> QED BY <2>1, PersistMove DEF Late
  <1>2. CASE DisarmDone
    <2>1. /\ pc = "disarm" /\ k' = 1 /\ slot' = slot /\ text' = text /\ magic' = magic
          /\ flash' = flash /\ fp' = fp /\ pc' = "arm"
      BY <1>2 DEF DisarmDone, persistVars
    <2> QED BY <2>1, PersistMove DEF Late
  <1>3. CASE StoreFingerprint
    <2>1. /\ pc = "arm" /\ slot' = slot /\ text' = text /\ magic' = magic
          /\ flash' = flash /\ fp' = flash.dsl /\ pc' = "builtin"
      BY <1>3 DEF StoreFingerprint
    <2> QED BY <2>1, PersistMove
  <1>4. CASE KeepBuiltIn
    <2>1. /\ pc = "builtin" /\ slot' = slot /\ text' = text /\ magic' = magic
          /\ flash' = flash /\ fp' = fp /\ pc' = "run" /\ Armed(0)
      BY <1>4 DEF KeepBuiltIn, StartTick, persistVars, Preserved
    <2>2. fp = flash.dsl
      BY <2>1 DEF PersistPart, Late
    <2> QED BY <2>1, <2>2, PersistMove
  <1>5. CASE ArmRefused
    <2>1. /\ pc = "arm" /\ slot' = slot /\ text' = text /\ magic' = magic
          /\ flash' = flash /\ fp' = fp /\ ~(Wanted.parses /\ Claimable(Wanted, k)) /\ AfterArm
          /\ k \in 0..N
      BY <1>5, TypesAre DEF ArmRefused, persistVars, IInv
    <2>2. CASE k = 0
      <3>1. fp = flash.dsl /\ pc' = "run"
        BY <2>1, <2>2 DEF PersistPart, Late, AfterArm, StartTick
      <3>2. ~Fit0
        <4>1. BuiltIn.parses /\ Wanted = BuiltIn
          BY <2>2, InterlockAssumption DEF Wanted
        <4> QED BY <2>1, <2>2, <4>1, BuiltInClaim
      <3> QED BY <2>1, <3>1, <3>2, PersistMove
    <2>3. CASE k # 0
      <3>1. pc' = "arm" /\ k' # 0
        BY <2>1, <2>3 DEF AfterArm
      <3> QED BY <2>1, <3>1, PersistMove DEF Late
    <2> QED BY <2>2, <2>3
  <1> QED BY <1>1, <1>2, <1>3, <1>4, <1>5

LEMMA PersistDisarm ==
    ASSUME IInv, PersistPart, DisarmStale \/ DropBuiltIn PROVE PersistPart'
  <1>t. /\ slot \in [Slots -> SlotRecords] /\ k \in 0..N /\ text \in [Slots -> Texts]
        /\ pc \in {"decide", "restore", "disarm", "arm", "state", "commit", "builtin", "run"}
    BY TypesAre DEF IInv
  <1>1. PICK j \in Slots : /\ slot' = [slot EXCEPT ![j] = Empty] /\ text' = [text EXCEPT ![j] = None]
                           /\ Disarm(j)
    BY <1>t, Consts DEF DisarmStale, DropBuiltIn, Disarm
  <1>2. /\ pc \in {"disarm", "builtin"} /\ pc' \in {"disarm", "arm"} /\ magic' = magic /\ flash' = flash
        /\ fp' = fp /\ (pc' = "arm" => k' = 0 /\ pc = "builtin")
    BY DEF DisarmStale, DropBuiltIn
  <1>3. ArmedSet' = ArmedSet \ {j}
    BY <1>1, <1>2, DisarmDoes
  <1>4. \A s \in ArmedSet' : s \in ArmedSet /\ slot'[s] = slot[s] /\ text'[s] = text[s]
    BY <1>1, <1>3, <1>t DEF ArmedSet
  <1>5. \A s \in ArmedSet' : ArmedOK(s)'
    BY <1>2, <1>4 DEF PersistPart, ArmedOK
  <1>6. Holders = ArmedSet /\ Holders' = ArmedSet'
    BY <1>2 DEF Holders
  <1>7. text'[0] \in {BuiltIn, None}
    BY <1>1, <1>t, Consts DEF PersistPart
  <1> QED BY <1>2, <1>4, <1>5, <1>6, <1>7 DEF PersistPart, Late

LEMMA PersistArm ==
    ASSUME IInv, PersistPart, ArmClaim \/ ArmState \/ ArmCommit PROVE PersistPart'
  <1>t. /\ IlTypeOK /\ slot \in [Slots -> SlotRecords] /\ k \in 0..N /\ text \in [Slots -> Texts]
    BY TypesAre DEF IInv
  <1>k. k < N /\ k \in Slots /\ k \in Nat
    BY <1>t, Consts DEF IInv, CtlPart, ArmClaim, ArmState, ArmCommit
  <1>1. CASE ArmClaim
    <2>1. /\ pc = "arm" /\ pc' = "state" /\ k' = k /\ magic' = magic /\ fp' = fp /\ flash' = flash
          /\ text' = [text EXCEPT ![k] = Wanted] /\ Wanted.parses
          /\ slot' = [slot EXCEPT ![k].tf = "UNEVALUATED"]
      BY <1>1 DEF ArmClaim
    <2>2. ArmedSet' = ArmedSet /\ \A s \in Slots : slot'[s].id = slot[s].id
      BY <2>1, <1>t, <1>k DEF ArmedSet, Armed, SlotRecords
    <2>3. k \notin ArmedSet
      BY <2>1 DEF IInv, CtlPart, ArmedSet
    <2>4. Wanted # None /\ text'[k] = Wanted /\ \A s \in ArmedSet : text'[s] = text[s]
      BY <2>1, <2>3, <1>t, <1>k DEF None, ArmedSet
    <2>5. text'[0] \in {BuiltIn, None}
      BY <2>1, <1>t, <1>k, Consts DEF Wanted, PersistPart
    <2>6. \A s \in ArmedSet' : ArmedOK(s)'
      BY <2>1, <2>2, <2>4 DEF PersistPart, ArmedOK, ArmedSet
    <2>7. Holders = ArmedSet /\ Holders' = ArmedSet \cup {k}
      BY <2>1, <2>2 DEF Holders
    <2>8. \A s \in Holders' : text'[s].parses
      BY <2>1, <2>4, <2>7 DEF PersistPart
    <2> QED BY <2>1, <2>4, <2>5, <2>6, <2>8 DEF PersistPart, Late
  <1>2. CASE ArmState
    <2>1. /\ pc = "state" /\ pc' = "commit" /\ k' = k /\ magic' = magic /\ fp' = fp /\ flash' = flash
          /\ text' = text /\ slot' = [slot EXCEPT ![k].state = "ARMED"]
      BY <1>2 DEF ArmState
    <2>2. /\ ArmedSet' = ArmedSet \cup {k} /\ \A s \in Slots : slot'[s].id = slot[s].id
          /\ Armed(k)'
      BY <2>1, <1>t, <1>k DEF ArmedSet, Armed, SlotRecords
    <2>3. Holders' = Holders
      BY <2>1, <2>2 DEF Holders
    <2>4. \A s \in ArmedSet' : s = k \/ ArmedOK(s)'
      BY <2>1, <2>2 DEF PersistPart, ArmedOK, ArmedSet
    <2> QED BY <2>1, <2>2, <2>3, <2>4 DEF PersistPart, Late
  <1>3. CASE ArmCommit
    <2>1. /\ pc = "commit" /\ magic' = magic /\ fp' = fp /\ flash' = flash /\ text' = text
          /\ slot' = [slot EXCEPT ![k].id = "DSL", ![k].bc = 0, ![k].latched = FALSE]
          /\ (k = 0 => pc' = "run") /\ (k # 0 => pc' = "arm" /\ k' = k + 1)
      BY <1>3 DEF ArmCommit, AfterArm, StartTick
    <2>2. /\ ArmedSet' = ArmedSet /\ \A s \in Slots \ {k} : slot'[s].id = slot[s].id
          /\ slot'[k].id = "DSL" /\ \A s \in Slots : Armed(s)' <=> Armed(s)
      BY <2>1, <1>t, <1>k DEF ArmedSet, Armed, SlotRecords
    <2>3. \A s \in ArmedSet' : ArmedOK(s)'
      BY <2>1, <2>2 DEF PersistPart, ArmedOK, ArmedSet
    <2>4. Holders = ArmedSet /\ Holders' = ArmedSet
      BY <2>1, <2>2 DEF Holders
    <2>5. k = 0 => Armed(0)' /\ fp = flash.dsl
      BY <2>1, <2>2, <1>k DEF PersistPart, Late
    <2>6. \A s \in Holders' : text'[s].parses
      BY <2>1, <2>4 DEF PersistPart
    <2>7. CASE k = 0
      BY <2>1, <2>3, <2>5, <2>6, <2>7 DEF PersistPart
    <2>8. CASE k # 0
      <3>1. k' # 0 /\ pc' = "arm"
        BY <2>1, <2>8, <1>k
      <3> QED BY <2>1, <2>3, <2>6, <3>1 DEF PersistPart, Late
    <2> QED BY <2>7, <2>8
  <1> QED BY <1>1, <1>2, <1>3

LEMMA PersistTick ==
    ASSUME IInv, PersistPart, NEW F \in SUBSET Slots, TickAll(F) PROVE PersistPart'
  <1>1. /\ pc = "run" /\ pc' = pc /\ text' = text /\ fp' = fp /\ magic' = magic /\ flash' = flash
        /\ \A s \in Slots : slot'[s].state = slot[s].state /\ slot'[s].id = slot[s].id
    BY TickDoes DEF IInv
  <1>2. ArmedSet' = ArmedSet /\ (Armed(0)' <=> Armed(0))
    BY <1>1, Consts DEF ArmedSet, Armed
  <1>3. Holders = ArmedSet /\ Holders' = ArmedSet
    BY <1>1, <1>2 DEF Holders
  <1>4. \A s \in ArmedSet' : ArmedOK(s)'
    BY <1>1, <1>2 DEF PersistPart, ArmedOK, ArmedSet
  <1>5. Fit0' <=> Fit0
    BY <1>1, <1>2 DEF Fit0
  <1> QED BY <1>1, <1>2, <1>3, <1>4, <1>5 DEF PersistPart, Late

LEMMA PersistNext == IInv /\ PersistPart /\ [Next]_vars => PersistPart'
  <1> SUFFICES ASSUME IInv, PersistPart, [Next]_vars PROVE PersistPart'
    OBVIOUS
  <1>1. CASE BringUp
    BY <1>1, PersistDecide, PersistRestore, PersistMoves, PersistDisarm, PersistArm DEF BringUp
  <1>2. CASE \E F \in SUBSET Slots : TickAll(F)
    BY <1>2, PersistTick
  <1>3. CASE WarmReset \/ PowerCut \/ \E f \in Flashes : Reflash(f)
    <2>1. Restarted /\ text' = text
      BY <1>3 DEF WarmReset, PowerCut, Reflash, persistVars
    <2> QED BY <2>1, PersistRestart
  <1>4. CASE RequestClear \/ UNCHANGED vars
    <2>1. /\ slot' = slot /\ text' = text /\ fp' = fp /\ magic' = magic /\ flash' = flash
          /\ pc' = pc /\ k' = k
      BY <1>4 DEF RequestClear, vars, persistVars, bootVars
    <2>2. ArmedSet' = ArmedSet
      BY <2>1 DEF ArmedSet, Armed
    <2>3. Holders' = Holders /\ (Fit0' <=> Fit0) /\ (Late' <=> Late)
      BY <2>1, <2>2 DEF Holders, Fit0, Late
    <2> QED BY <2>1, <2>2, <2>3 DEF PersistPart, ArmedOK, Armed
  <1> QED BY <1>1, <1>2, <1>3, <1>4 DEF Next

(* While a trip stands, every armed slot can be restored, so that the trip *)
(* comes back from every reset.                                            *)
Restorable ==
    /\ magic /\ fp = flash.dsl
    /\ \A s \in ArmedSet : ArmedOK(s) /\ text[s].parses /\ Fits(text[s], flash.caps)
    /\ \A s, t \in ArmedSet : s # t => Agree(text[s], text[t])
    /\ Armed(0) \/ ~Fit0
    /\ \A s \in hist.trip : Armed(s) /\ slot[s].latched
TripPlace == pc \in {"decide", "restore", "builtin", "run"} \/ (pc = "arm" /\ k = 0)
TripPart == hist.trip # {} => Restorable /\ TripPlace

(* Restorable follows the armed slots: their number, texts and latches.    *)
LEMMA RestorableKeep ==
    ASSUME Restorable, magic' = magic, fp' = fp, flash' = flash, ArmedSet' = ArmedSet,
           \A s \in ArmedSet : slot'[s].id = slot[s].id /\ text'[s] = text[s],
           \A s \in hist'.trip : s \in hist.trip,
           \A s \in ArmedSet : slot[s].latched => slot'[s].latched, hist.trip \subseteq Slots
    PROVE  Restorable'
  <1>1. \A s \in Slots : Armed(s)' <=> Armed(s)
    BY DEF ArmedSet
  <1>2. \A s \in hist.trip : s \in ArmedSet /\ slot[s].latched
    BY DEF Restorable, ArmedSet
  <1>3. \A s \in hist'.trip : Armed(s)' /\ slot'[s].latched
    <2> SUFFICES ASSUME NEW s, s \in hist'.trip PROVE Armed(s)' /\ slot'[s].latched
      OBVIOUS
    <2>1. s \in ArmedSet /\ slot[s].latched /\ s \in Slots
      BY <1>2
    <2> QED BY <2>1, <1>1 DEF ArmedSet
  <1>4. Fit0' <=> Fit0
    BY DEF Fit0
  <1>5. Armed(0)' \/ ~Fit0'
    BY <1>1, <1>4, Consts DEF Restorable
  <1>6. \A s \in ArmedSet : ArmedOK(s)'
    BY DEF Restorable, ArmedOK
  <1> QED BY <1>3, <1>5, <1>6 DEF Restorable

LEMMA TripKeep ==
    ASSUME IlTypeOK, TripPart, TripPlace', magic' = magic, fp' = fp, flash' = flash,
           ArmedSet' = ArmedSet,
           \A s \in ArmedSet : slot'[s].id = slot[s].id /\ text'[s] = text[s],
           hist'.trip = hist.trip, \A s \in ArmedSet : slot[s].latched => slot'[s].latched
    PROVE  TripPart'
  <1>1. hist.trip \subseteq Slots
    BY TypesAre DEF HistRecords
  <1> QED BY <1>1, RestorableKeep DEF TripPart

(* The boot-loop guard stops nobody within MaxBoots resets.                *)
LEMMA TripDecide ==
    ASSUME IInv, Steady, ResetPart, PersistPart, TripPart, BootDecideWarm \/ BootDecideCold
    PROVE  TripPart'
  <1>t. IlTypeOK /\ slot \in [Slots -> SlotRecords] /\ hist \in HistRecords
    BY TypesAre DEF IInv
  <1>1. /\ pc = "decide" /\ pc' = "restore" /\ flash' = flash
    BY DEF BootDecideWarm, BootDecideCold
  <1>2. hist'.trip = hist.trip
    BY <1>t DEF BootDecideWarm, BootDecideCold, HistRecords
  <1>3. CASE hist.trip = {}
    BY <1>2, <1>3 DEF TripPart
  <1>4. CASE hist.trip # {}
    <2>1. Restorable
      BY <1>4 DEF TripPart
    <2>2. PersistIsValid
      BY <2>1 DEF Restorable, PersistIsValid, ArmedOK, ArmedSet
    <2>3. /\ magic' = magic /\ fp' = fp /\ text' = text /\ slot' = [s \in Slots |-> Bumped(s)]
      BY <2>2 DEF BootDecideWarm, BootDecideCold
    <2>4. ASSUME NEW s \in Slots PROVE ~AtLimit(slot[s].bc)
      <3>1. slot[s].bc + 1 <= Used
        BY <1>1, <2>1 DEF ResetPart, Restorable
      <3>2. Used <= MaxBoots /\ Used \in Nat /\ slot[s].bc \in Nat
        BY <1>t, UsedType, Consts DEF Steady
      <3> QED BY <3>1, <3>2, Consts DEF AtLimit
    <2>5. \A s \in Slots : /\ slot'[s].state = slot[s].state /\ slot'[s].id = slot[s].id
                           /\ slot'[s].latched = slot[s].latched
      BY <2>3, <2>4, <1>t DEF Bumped, SlotRecords
    <2>6. ArmedSet' = ArmedSet /\ ArmedSet \subseteq Slots
      BY <2>5 DEF ArmedSet, Armed
    <2>7. TripPlace'
      BY <1>1 DEF TripPlace
    <2> QED BY <1>1, <1>2, <1>t, <2>3, <2>5, <2>6, <2>7, TripKeep
  <1> QED BY <1>3, <1>4

(* A slot that was armed beside the others can claim its pins again.       *)
LEMMA TripRestore ==
    ASSUME IInv, TripPart, WarmRestore
    PROVE  TripPart'
  <1>t. /\ IlTypeOK /\ slot \in [Slots -> SlotRecords] /\ hist \in HistRecords /\ k \in 0..N
        /\ text \in [Slots -> Texts]
    BY TypesAre DEF IInv
  <1>1. /\ pc = "restore" /\ pc' = pc /\ k < N /\ k' = k + 1 /\ text' = text /\ magic' = magic
        /\ fp' = fp /\ flash' = flash /\ hist' = hist
    BY DEF WarmRestore
  <1>k. k \in Slots /\ k \in Nat
    BY <1>t, <1>1, Consts
  <1>3. CASE hist.trip = {}
    BY <1>1, <1>3 DEF TripPart
  <1>4. CASE hist.trip # {}
    <2>1. Restorable
      BY <1>4 DEF TripPart
    <2>2. ASSUME Armed(k) PROVE text[k].parses /\ Claimable(text[k], k)
      <3>1. k \in ArmedSet
        BY <2>2, <1>k DEF ArmedSet
      <3>2. Holders = {s \in ArmedSet : s < k}
        BY <1>1, HoldersAre
      <3>3. k \notin Holders /\ Holders \subseteq ArmedSet
        BY <3>2, <1>k
      <3>4. (\A t \in Holders : text[t] \in Texts) /\ OneRole(flash.caps)
        BY HoldersTexts DEF IInv
      <3>5. ClaimInv(claims, text, flash.caps, Holders)
        BY DEF IInv, ClaimPart
      <3>6. Fits(text[k], flash.caps) /\ text[k].parses /\ \A t \in Holders : Agree(text[k], text[t])
        BY <2>1, <3>1, <3>3 DEF Restorable
      <3>7. text[k] \in Texts
        BY <1>t, <1>k
      <3>8. Claimable(text[k], k)
        BY <3>3, <3>4, <3>5, <3>6, <3>7, ClaimIff
      <3> QED BY <3>6, <3>8
    <2>3. \A s \in Slots : /\ slot'[s].state = slot[s].state /\ slot'[s].id = slot[s].id
                           /\ slot'[s].latched = slot[s].latched
      <3>1. CASE Armed(k)
        <4>1. slot' = [slot EXCEPT ![k] = Restored(@)]
          BY <2>2, <3>1 DEF WarmRestore
        <4> QED BY <4>1, <1>t, <1>k DEF Restored, SlotRecords
      <3>2. CASE ~Armed(k)
        <4>1. slot' = [slot EXCEPT ![k].state = IF Armed(k) THEN "POISONED" ELSE @]
          BY <3>2 DEF WarmRestore
        <4> QED BY <4>1, <3>2, <1>t, <1>k DEF SlotRecords
      <3> QED BY <3>1, <3>2
    <2>4. ArmedSet' = ArmedSet /\ ArmedSet \subseteq Slots
      BY <2>3 DEF ArmedSet, Armed
    <2>5. TripPlace'
      BY <1>1 DEF TripPlace
    <2> QED BY <1>1, <1>t, <2>3, <2>4, <2>5, TripKeep
  <1> QED BY <1>3, <1>4

LEMMA TripMoves ==
    ASSUME IInv, PersistPart, TripPart,
           CheckFingerprint \/ DisarmDone \/ ArmRefused \/ StoreFingerprint \/ KeepBuiltIn
    PROVE  TripPart'
  <1>t. IlTypeOK /\ hist \in HistRecords /\ k \in 0..N
    BY TypesAre DEF IInv
  <1>1. slot' = slot /\ text' = text /\ magic' = magic /\ flash' = flash
    BY DEF CheckFingerprint, DisarmDone, ArmRefused, StoreFingerprint, KeepBuiltIn, persistVars
  <1>2. hist'.trip = hist.trip
    BY <1>t DEF CheckFingerprint, DisarmDone, ArmRefused, StoreFingerprint, KeepBuiltIn, HistRecords
  <1>3. CASE hist.trip = {}
    BY <1>2, <1>3 DEF TripPart
  <1>4. CASE hist.trip # {}
    <2>1. Restorable /\ TripPlace
      BY <1>4 DEF TripPart
    <2>2. ArmedSet' = ArmedSet
      BY <1>1 DEF ArmedSet, Armed
    <2>3. TripPlace' /\ fp' = fp
      <3>1. CASE CheckFingerprint
        <4>1. PICK s \in hist.trip : s \in Slots /\ Armed(s)
          BY <1>4, <1>t, <2>1 DEF Restorable, HistRecords
        <4>2. ~Stale
          BY <2>1, <4>1 DEF Stale, Restorable
        <4> QED BY <3>1, <4>2 DEF CheckFingerprint, persistVars, TripPlace
      <3>2. CASE DisarmDone
        BY <3>2, <2>1 DEF DisarmDone, TripPlace
      <3>3. CASE ArmRefused
        <4>1. pc = "arm" /\ fp' = fp /\ AfterArm
          BY <3>3 DEF ArmRefused, persistVars
        <4>2. k = 0
          BY <4>1, <2>1 DEF TripPlace
        <4> QED BY <4>1, <4>2 DEF AfterArm, StartTick, TripPlace
      <3>4. CASE StoreFingerprint
        <4>1. fp' = flash.dsl /\ pc' = "builtin"
          BY <3>4 DEF StoreFingerprint
        <4> QED BY <4>1, <2>1 DEF TripPlace, Restorable
      <3>5. CASE KeepBuiltIn
        BY <3>5 DEF KeepBuiltIn, StartTick, persistVars, TripPlace
      <3> QED BY <3>1, <3>2, <3>3, <3>4, <3>5
    <2> QED BY <1>1, <1>2, <1>t, <2>2, <2>3, TripKeep
  <1> QED BY <1>3, <1>4

(* Nothing is disarmed or armed again under a standing trip, but slot 0    *)
(* when its built-in text does not fit the pins anyway.                    *)
LEMMA TripRearm ==
    ASSUME IInv, PersistPart, TripPart, DisarmStale \/ DropBuiltIn \/ ArmClaim \/ ArmState \/ ArmCommit
    PROVE  TripPart'
  <1>t. /\ IlTypeOK /\ hist \in HistRecords /\ k \in 0..N /\ slot \in [Slots -> SlotRecords]
        /\ text \in [Slots -> Texts]
    BY TypesAre DEF IInv
  <1>1. CASE hist.trip = {}
    <2>1. hist'.trip = {}
      BY <1>1, <1>t DEF DisarmStale, DropBuiltIn, ArmClaim, ArmState, ArmCommit, HistRecords
    <2> QED BY <2>1 DEF TripPart
  <1>2. CASE hist.trip # {}
    <2>1. Restorable /\ TripPlace
      BY <1>2 DEF TripPart
    <2>2. CASE DisarmStale \/ ArmState \/ ArmCommit
      BY <2>1, <2>2 DEF TripPlace, DisarmStale, ArmState, ArmCommit
    <2>3. CASE ArmClaim
      <3>1. pc = "arm" /\ Claimable(Wanted, k) /\ k = 0
        BY <2>1, <2>3 DEF ArmClaim, TripPlace
      <3>2. Fit0
        BY <3>1, BuiltInClaim DEF Wanted
      <3>3. ~Armed(0)
        BY <3>1, Consts DEF IInv, CtlPart
      <3> QED BY <2>1, <3>2, <3>3 DEF Restorable
    <2>4. CASE DropBuiltIn
      <3>1. /\ pc = "builtin" /\ pc' = "arm" /\ k' = 0 /\ ~Preserved /\ Disarm(0) /\ fp' = fp
            /\ magic' = magic /\ flash' = flash /\ hist' = hist
            /\ slot' = [slot EXCEPT ![0] = Empty] /\ text' = [text EXCEPT ![0] = None]
        BY <2>4 DEF DropBuiltIn, Disarm
      <3>2. ~Armed(0)
        <4> SUFFICES ASSUME Armed(0) PROVE FALSE
          OBVIOUS
        <4>1. text[0] # None
          BY <2>1, Consts DEF Restorable, ArmedOK, ArmedSet
        <4> QED BY <3>1, <4>1 DEF PersistPart, Preserved
      <3>3. ArmedSet' = ArmedSet /\ 0 \notin ArmedSet /\ ArmedSet \subseteq Slots
        <4>1. ArmedSet' = ArmedSet \ {0}
          BY <3>1, Consts, DisarmDoes
        <4> QED BY <4>1, <3>2 DEF ArmedSet
      <3>4. \A s \in ArmedSet : slot'[s] = slot[s] /\ text'[s] = text[s]
        BY <3>1, <3>3, <1>t
      <3>5. TripPlace'
        BY <3>1 DEF TripPlace
      <3> QED BY <1>t, <3>1, <3>3, <3>4, <3>5, TripKeep
    <2> QED BY <2>2, <2>3, <2>4
  <1> QED BY <1>1, <1>2

LEMMA TripTick ==
    ASSUME IInv, PersistPart, TripPart, NEW F \in SUBSET Slots, TickAll(F)
    PROVE  TripPart'
  <1>t. IlTypeOK /\ hist \in HistRecords
    BY TypesAre DEF IInv
  <1>1. /\ pc = "run" /\ pc' = pc /\ text' = text /\ fp' = fp /\ magic' = magic /\ flash' = flash
        /\ \A s \in Slots : /\ slot'[s].state = slot[s].state /\ slot'[s].id = slot[s].id
                            /\ ~clearReq /\ slot[s].latched => slot'[s].latched
        /\ hist'.trip = LatchedSlots' \cup (IF clearReq THEN {} ELSE hist.trip)
    BY <1>t, TickDoes
  <1>2. ArmedSet' = ArmedSet /\ (Armed(0)' <=> Armed(0))
    BY <1>1, Consts DEF ArmedSet, Armed
  <1>3. ClaimInv(claims, text, flash.caps, ArmedSet) /\ Holders = ArmedSet
    BY <1>1, HoldersAre DEF IInv, ClaimPart
  <1>4. magic /\ fp = flash.dsl /\ (Armed(0) \/ ~Fit0)
    BY <1>1 DEF PersistPart, Late
  <1>5. \A s \in ArmedSet' : ArmedOK(s)' /\ text'[s].parses /\ Fits(text'[s], flash'.caps)
    BY <1>1, <1>2, <1>3 DEF PersistPart, ArmedOK, ArmedSet, ClaimInv
  <1>6. \A s, t \in ArmedSet' : s # t => Agree(text'[s], text'[t])
    BY <1>1, <1>2, <1>3 DEF ClaimInv
  <1>7. Fit0' <=> Fit0
    BY <1>1, <1>2 DEF Fit0
  <1>8. ASSUME NEW s \in hist'.trip PROVE Armed(s)' /\ slot'[s].latched
    <2>1. CASE s \in LatchedSlots'
      BY <2>1 DEF LatchedSlots
    <2>2. CASE s \notin LatchedSlots'
      <3>1. ~clearReq /\ s \in hist.trip
        BY <2>2, <1>1
      <3>2. s \in Slots /\ Armed(s) /\ slot[s].latched
        BY <3>1, <1>t DEF TripPart, Restorable, HistRecords
      <3> QED BY <3>1, <3>2, <1>1 DEF Armed
    <2> QED BY <2>1, <2>2
  <1>9. TripPlace'
    BY <1>1 DEF TripPlace
  <1> QED BY <1>1, <1>2, <1>4, <1>5, <1>6, <1>7, <1>8, <1>9 DEF TripPart, Restorable

LEMMA TripReset ==
    ASSUME IInv, Steady, TripPart, WarmReset \/ PowerCut \/ \E f \in Flashes : Reflash(f)
    PROVE  TripPart'
  <1>t. IlTypeOK /\ hist \in HistRecords /\ flash \in Flashes
    BY TypesAre DEF IInv
  <1>1. CASE PowerCut
    <2>1. hist'.trip = {}
      BY <1>1, <1>t DEF PowerCut, HistRecords
    <2> QED BY <2>1 DEF TripPart
  <1>2. CASE WarmReset \/ \E f \in Flashes : Reflash(f)
    <2>1. slot' = slot /\ text' = text /\ fp' = fp /\ magic' = magic /\ pc' = "decide"
      BY <1>2 DEF WarmReset, Reflash, persistVars, Restarted
    <2>2. flash' = flash /\ hist'.trip = hist.trip
      <3>1. CASE WarmReset
        BY <3>1, <1>t DEF WarmReset, HistRecords
      <3>2. CASE \E f \in Flashes : Reflash(f)
        <4>1. PICK f \in Flashes : Reflash(f)
          BY <3>2
        <4>2. f = flash
          BY <1>t DEF Steady
        <4>3. flash' = flash /\ hist' = [hist EXCEPT !.age = 0, !.trip = @]
          BY <4>1, <4>2 DEF Reflash
        <4> QED BY <4>3, <1>t DEF HistRecords
      <3> QED BY <1>2, <3>1, <3>2
    <2>3. ArmedSet' = ArmedSet
      BY <2>1 DEF ArmedSet, Armed
    <2>4. TripPlace'
      BY <2>1 DEF TripPlace
    <2> QED BY <1>t, <2>1, <2>2, <2>3, <2>4, TripKeep
  <1> QED BY <1>1, <1>2

LEMMA TripNext ==
    IInv /\ Steady /\ ResetPart /\ PersistPart /\ TripPart /\ [Next]_vars => TripPart'
  <1> SUFFICES ASSUME IInv, Steady, ResetPart, PersistPart, TripPart, [Next]_vars PROVE TripPart'
    OBVIOUS
  <1>1. CASE BringUp
    BY <1>1, TripDecide, TripRestore, TripMoves, TripRearm DEF BringUp
  <1>2. CASE \E F \in SUBSET Slots : TickAll(F)
    BY <1>2, TripTick
  <1>3. CASE WarmReset \/ PowerCut \/ \E f \in Flashes : Reflash(f)
    BY <1>3, TripReset
  <1>4. CASE RequestClear \/ UNCHANGED vars
    <2>1. /\ slot' = slot /\ text' = text /\ fp' = fp /\ magic' = magic /\ flash' = flash
          /\ pc' = pc /\ k' = k /\ hist' = hist
      BY <1>4 DEF RequestClear, vars, persistVars, bootVars
    <2>2. ArmedSet' = ArmedSet /\ IlTypeOK
      BY <2>1 DEF ArmedSet, Armed, IInv
    <2>3. TripPlace' <=> TripPlace
      BY <2>1 DEF TripPlace
    <2>4. CASE hist.trip = {}
      BY <2>1, <2>4 DEF TripPart
    <2>5. CASE hist.trip # {}
      BY <2>1, <2>2, <2>3, <2>5, TripKeep DEF TripPart
    <2> QED BY <2>4, <2>5
  <1> QED BY <1>1, <1>2, <1>3, <1>4 DEF Next

(* With one flashed configuration and at most MaxBoots resets, a slot that *)
(* tripped is armed and latched in every running node until a clear or a   *)
(* power cut, whatever moments of bring-up the resets hit: the record      *)
(* stays valid, and a slot that was armed beside the others can claim its  *)
(* pins again in any order (interlock_boot_decide, interlock_warm_restore).*)
THEOREM TripSafety == Steady => (Spec => []TripHeld)
  <1> SUFFICES ASSUME Steady PROVE Spec => []TripHeld
    OBVIOUS
  <1>1. Init => ResetPart /\ PersistPart /\ TripPart
    <2> SUFFICES ASSUME Init PROVE ResetPart /\ PersistPart /\ TripPart
      OBVIOUS
    <2>1. ResetPart
      BY Consts DEF Init, ResetPart, Used, Empty
    <2>2. PersistPart
      <3>1. pc = "decide" /\ text[0] = None
        BY Consts DEF Init
      <3> QED BY <3>1, HoldersAre DEF PersistPart, Late
    <2>3. TripPart
      BY DEF Init, TripPart
    <2> QED BY <2>1, <2>2, <2>3
  <1>2. IInv /\ ResetPart /\ PersistPart /\ TripPart /\ [Next]_vars
          => (ResetPart /\ PersistPart /\ TripPart)'
    BY ResetNext, PersistNext, TripNext
  <1>3. TripPart => TripHeld
    BY DEF TripPart, Restorable, TripHeld
  <1> QED BY <1>1, <1>2, <1>3, Inductive, PTL DEF Spec


-----------------------------------------------------------------------------
(* The files are armed.  The hypothesis: at most one new configuration is  *)
(* flashed, with the pin roles of the old one, and the resets are within   *)
(* the boot guard.  Beyond it the code leaves files unarmed: flashing the  *)
(* old files back during a re-arm finds its fingerprint in place, and      *)
(* where nothing was armed (all files refused for their pins, or all slots *)
(* stopped by the guard) bring-up arms under a fingerprint that is right   *)
(* already, so that a reset after the first file skips the others.         *)
OneUpdate ==
    /\ MaxFlashes <= 1 /\ \A f, g \in Flashes : f.caps = g.caps
    /\ MaxResets + MaxFlashes <= MaxBoots

(* A configured slot runs its file, or the file was refused.               *)
Settled(s) == IF s \in ArmedSet THEN text[s] = flash.dsl[s] ELSE s \in hist.refused
Armable(s) == flash.dsl[s].parses /\ Fits(flash.dsl[s], flash.caps)
Done == \A s \in Configured : Settled(s)
Unarmable == \A s \in Configured : ~Armable(s)
Rearming == pc \in {"arm", "state", "commit"} /\ k # 0

(* Every armed slot can be restored beside the others.                     *)
FitPart ==
    /\ \A s \in ArmedSet : text[s].parses /\ Fits(text[s], flash.caps)
    /\ \A s, t \in ArmedSet : s # t => Agree(text[s], text[t])
FpPart == budget.flashes > 0 => fp \in {NoFp, flash.dsl}

(* How far a re-arm is.  If nothing is armed by then, no file can be.      *)
ArmPart == Rearming =>
    /\ \A s \in Configured : s < k => Settled(s)
    /\ (ArmedSet = {} => \A s \in Configured : s < k => ~Armable(s))
    /\ (pc \in {"state", "commit"} => text[k] = flash.dsl[k])

(* Under the right fingerprint the files are settled, but while bring-up   *)
(* tries them again, which it does only when none of them can be armed.    *)
FilePart == fp = flash.dsl =>
    /\ (magic \/ pc # "decide" => (ArmedSet = {} => Unarmable))
    /\ ((magic /\ pc = "decide") \/ pc = "restore" => ArmedSet = {} \/ Done)
    /\ (pc = "disarm" \/ Rearming => ArmedSet = {})
    /\ (Rearming => pc = "arm")
    /\ (Late => Done)
FInv == FitPart /\ FpPart /\ ArmPart /\ FilePart

LEMMA FitNext ==
    ASSUME IInv, IInv', PersistPart', FitPart, OneUpdate, [Next]_vars PROVE FitPart'
  <1>t. slot \in [Slots -> SlotRecords] /\ k \in 0..N /\ flash \in Flashes
    BY TypesAre DEF IInv
  <1>1. CASE pc' \notin {"decide", "restore"}
    <2>1. pc' \in {"decide", "restore", "disarm", "arm", "state", "commit", "builtin", "run"}
      BY DEF IInv, IlTypeOK
    <2>2. ArmedSet' \subseteq Holders'
      BY <1>1, <2>1 DEF Holders
    <2>3. ClaimInv(claims', text', flash'.caps, Holders')
      BY DEF IInv, ClaimPart
    <2>4. \A s \in Holders' : text'[s].parses
      BY DEF PersistPart
    <2> QED BY <2>2, <2>3, <2>4 DEF FitPart, ClaimInv
  <1>2. CASE pc' \in {"decide", "restore"}
    <2>1. ASSUME ArmedSet' \subseteq ArmedSet, text' = text, flash'.caps = flash.caps PROVE FitPart'
      BY <2>1 DEF FitPart
    <2>2. CASE BootDecideWarm
      <3>1. text' = text /\ flash' = flash /\ slot' = [s \in Slots |-> Bumped(s)]
        BY <2>2 DEF BootDecideWarm
      <3>2. ArmedSet' \subseteq ArmedSet
        BY <3>1, <1>t DEF ArmedSet, Armed, Bumped, SlotRecords
      <3> QED BY <2>1, <3>1, <3>2
    <2>3. CASE BootDecideCold
      <3>1. slot' = [s \in Slots |-> Empty]
        BY <2>3 DEF BootDecideCold
      <3>2. ArmedSet' = {}
        BY <3>1 DEF ArmedSet, Armed, Empty
      <3> QED BY <3>2 DEF FitPart
    <2>4. CASE WarmRestore
      <3>1. text' = text /\ flash' = flash /\ k \in Slots
        BY <2>4, <1>t, Consts DEF WarmRestore
      <3>2. ArmedSet' \subseteq ArmedSet
        BY <2>4, <3>1, <1>t DEF WarmRestore, ArmedSet, Armed, Restored, SlotRecords
      <3> QED BY <2>1, <3>1, <3>2
    <2>5. CASE WarmReset \/ PowerCut \/ \E f \in Flashes : Reflash(f)
      <3>1. slot' = slot /\ text' = text /\ flash'.caps = flash.caps
        BY <2>5, <1>t DEF WarmReset, PowerCut, Reflash, persistVars, OneUpdate
      <3>2. ArmedSet' = ArmedSet
        BY <3>1 DEF ArmedSet, Armed
      <3> QED BY <2>1, <3>1, <3>2
    <2>6. CASE RequestClear \/ UNCHANGED vars
      <3>1. slot' = slot /\ text' = text /\ flash' = flash
        BY <2>6 DEF RequestClear, vars, persistVars
      <3>2. ArmedSet' = ArmedSet
        BY <3>1 DEF ArmedSet, Armed
      <3> QED BY <2>1, <3>1, <3>2
    <2>7. CASE CheckFingerprint \/ DisarmStale \/ DisarmDone \/ ArmRefused \/ ArmClaim \/ ArmState
               \/ ArmCommit \/ StoreFingerprint \/ KeepBuiltIn \/ DropBuiltIn
               \/ \E F \in SUBSET Slots : TickAll(F)
      BY <1>2, <2>7 DEF CheckFingerprint, DisarmStale, DisarmDone, ArmRefused, ArmClaim, ArmState,
           ArmCommit, StoreFingerprint, KeepBuiltIn, DropBuiltIn, TickAll, AfterArm, StartTick, bootVars
    <2> QED BY <2>2, <2>3, <2>4, <2>5, <2>6, <2>7 DEF Next, BringUp
  <1> QED BY <1>1, <1>2

LEMMA FpNext ==
    ASSUME IInv, FpPart, OneUpdate, [Next]_vars PROVE FpPart'
  <1>t. budget \in BudgetRecords /\ MaxFlashes \in Nat
    BY TypesAre, Consts DEF IInv
  <1>f. budget.flashes \in 0..MaxFlashes
    BY <1>t DEF BudgetRecords
  <1>1. CASE \E f \in Flashes : Reflash(f)
    <2>1. budget.flashes > 0 /\ budget'.flashes = budget.flashes - 1
      BY <1>1, <1>t DEF Reflash, BudgetRecords
    <2>2. ~(budget'.flashes > 0)
      BY <1>t, <1>f, <2>1 DEF OneUpdate
    <2> QED BY <2>2 DEF FpPart
  <1>2. CASE BootDecideCold
    <2>1. fp' = NoFp
      BY <1>2 DEF BootDecideCold
    <2> QED BY <2>1 DEF FpPart
  <1>3. CASE StoreFingerprint
    <2>1. fp' = flash.dsl /\ flash' = flash
      BY <1>3 DEF StoreFingerprint
    <2> QED BY <2>1 DEF FpPart
  <1>4. CASE WarmReset \/ PowerCut \/ RequestClear \/ \E F \in SUBSET Slots : TickAll(F)
    <2>1. fp' = fp /\ flash' = flash
      BY <1>4 DEF WarmReset, PowerCut, RequestClear, TickAll, persistVars
    <2>2. budget'.flashes = budget.flashes
      BY <1>4, <1>t DEF WarmReset, PowerCut, RequestClear, TickAll, BudgetRecords
    <2> QED BY <2>1, <2>2 DEF FpPart
  <1>5. CASE BootDecideWarm \/ WarmRestore \/ CheckFingerprint \/ DisarmStale \/ DisarmDone \/ ArmRefused
             \/ ArmClaim \/ ArmState \/ ArmCommit \/ KeepBuiltIn \/ DropBuiltIn \/ UNCHANGED vars
    <2>1. fp' = fp /\ flash' = flash /\ budget' = budget
      BY <1>5 DEF BootDecideWarm, WarmRestore, CheckFingerprint, DisarmStale, DisarmDone, ArmRefused,
           ArmClaim, ArmState, ArmCommit, KeepBuiltIn, DropBuiltIn, vars, persistVars
    <2> QED BY <2>1 DEF FpPart
  <1> QED BY <1>1, <1>2, <1>3, <1>4, <1>5 DEF Next, BringUp


(* What is armed, and with which texts, decides what is settled.           *)
LEMMA SettledKeep ==
    ASSUME ArmedSet' = ArmedSet, flash' = flash, hist'.refused = hist.refused,
           \A s \in Configured : text'[s] = text[s]
    PROVE  /\ \A s \in Configured : (Settled(s)' <=> Settled(s)) /\ (Armable(s)' <=> Armable(s))
           /\ Done' <=> Done
           /\ Unarmable' <=> Unarmable
  <1>1. ASSUME NEW s \in Configured PROVE (Settled(s)' <=> Settled(s)) /\ (Armable(s)' <=> Armable(s))
    BY DEF Settled, Armable
  <1> QED BY <1>1 DEF Done, Unarmable

LEMMA NoFileNoSlot ==
    ASSUME IInv, NoFp = flash.dsl PROVE Configured = {}
  <1>1. flash.dsl \in [Configured -> Dsls \cup {None}]
    BY TypesAre, FlashTypes DEF IInv
  <1>2. DOMAIN NoFp = {}
    BY DEF NoFp
  <1> QED BY <1>1, <1>2

LEMMA FileDecide ==
    ASSUME IInv, OneUpdate, ResetPart, FilePart, BootDecideWarm \/ BootDecideCold
    PROVE  ArmPart' /\ FilePart'
  <1>t. IlTypeOK /\ slot \in [Slots -> SlotRecords] /\ hist \in HistRecords
    BY TypesAre DEF IInv
  <1>1. pc = "decide" /\ pc' = "restore" /\ flash' = flash
    BY DEF BootDecideWarm, BootDecideCold
  <1>2. hist'.refused = hist.refused
    BY <1>t DEF BootDecideWarm, BootDecideCold, HistRecords
  <1>3. ~Rearming' /\ ~Late'
    BY <1>1 DEF Rearming, Late
  <1>4. ArmPart'
    BY <1>3 DEF ArmPart
  <1>5. CASE BootDecideWarm
    <2>1. magic /\ fp' = fp /\ text' = text /\ slot' = [s \in Slots |-> Bumped(s)]
      BY <1>5 DEF BootDecideWarm, PersistIsValid
    <2>2. ASSUME NEW s \in Slots PROVE ~AtLimit(slot[s].bc)
      <3>1. slot[s].bc + 1 <= Used
        BY <1>1, <2>1 DEF ResetPart
      <3>2. Used <= MaxBoots /\ Used \in Nat /\ slot[s].bc \in Nat
        BY <1>t, UsedType, Consts DEF OneUpdate
      <3> QED BY <3>1, <3>2, Consts DEF AtLimit
    <2>3. \A s \in Slots : slot'[s].state = slot[s].state
      BY <2>1, <2>2, <1>t DEF Bumped, SlotRecords
    <2>4. ArmedSet' = ArmedSet
      BY <2>3 DEF ArmedSet, Armed
    <2>5. (Done' <=> Done) /\ (Unarmable' <=> Unarmable)
      BY <1>1, <1>2, <2>1, <2>4, SettledKeep
    <2> QED BY <1>1, <1>3, <1>4, <2>1, <2>4, <2>5 DEF FilePart
  <1>6. CASE BootDecideCold
    <2>1. fp' = NoFp /\ slot' = [s \in Slots |-> Empty]
      BY <1>6 DEF BootDecideCold
    <2>2. ArmedSet' = {}
      BY <2>1 DEF ArmedSet, Armed, Empty
    <2>3. fp' = flash'.dsl => Unarmable'
      BY <1>1, <2>1, NoFileNoSlot DEF Unarmable
    <2> QED BY <1>1, <1>3, <1>4, <2>2, <2>3 DEF FilePart
  <1> QED BY <1>5, <1>6

(* A slot that was armed beside the others can claim its pins again.       *)
LEMMA FileRestore ==
    ASSUME IInv, FitPart, FilePart, WarmRestore
    PROVE  ArmPart' /\ FilePart'
  <1>t. /\ slot \in [Slots -> SlotRecords] /\ k \in 0..N /\ text \in [Slots -> Texts]
    BY TypesAre DEF IInv
  <1>1. /\ pc = "restore" /\ pc' = pc /\ k < N /\ k' = k + 1 /\ text' = text
        /\ fp' = fp /\ flash' = flash /\ hist' = hist
    BY DEF WarmRestore
  <1>k. k \in Slots /\ k \in Nat
    BY <1>t, <1>1, Consts
  <1>2. ASSUME Armed(k) PROVE text[k].parses /\ Claimable(text[k], k)
    <2>1. k \in ArmedSet
      BY <1>2, <1>k DEF ArmedSet
    <2>2. Holders = {s \in ArmedSet : s < k}
      BY <1>1, HoldersAre
    <2>3. k \notin Holders /\ Holders \subseteq ArmedSet
      BY <2>2, <1>k
    <2>4. (\A t \in Holders : text[t] \in Texts) /\ OneRole(flash.caps)
      BY HoldersTexts DEF IInv
    <2>5. ClaimInv(claims, text, flash.caps, Holders)
      BY DEF IInv, ClaimPart
    <2>6. Fits(text[k], flash.caps) /\ text[k].parses /\ \A t \in Holders : Agree(text[k], text[t])
      BY <2>1, <2>3 DEF FitPart
    <2>7. text[k] \in Texts
      BY <1>t, <1>k
    <2>8. Claimable(text[k], k)
      BY <2>3, <2>4, <2>5, <2>6, <2>7, ClaimIff
    <2> QED BY <2>6, <2>8
  <1>3. \A s \in Slots : slot'[s].state = slot[s].state
    <2>1. CASE Armed(k)
      <3>1. slot' = [slot EXCEPT ![k] = Restored(@)]
        BY <1>2, <2>1 DEF WarmRestore
      <3> QED BY <3>1, <1>t, <1>k DEF Restored, SlotRecords
    <2>2. CASE ~Armed(k)
      <3>1. slot' = [slot EXCEPT ![k].state = IF Armed(k) THEN "POISONED" ELSE @]
        BY <2>2 DEF WarmRestore
      <3> QED BY <3>1, <2>2, <1>t, <1>k DEF SlotRecords
    <2> QED BY <2>1, <2>2
  <1>4. ArmedSet' = ArmedSet
    BY <1>3 DEF ArmedSet, Armed
  <1>5. (Done' <=> Done) /\ (Unarmable' <=> Unarmable)
    BY <1>1, <1>4, SettledKeep
  <1>6. ~Rearming' /\ ~Late'
    BY <1>1 DEF Rearming, Late
  <1> QED BY <1>1, <1>4, <1>5, <1>6 DEF ArmPart, FilePart

LEMMA FileCheck ==
    ASSUME IInv, FilePart, CheckFingerprint
    PROVE  ArmPart' /\ FilePart'
  <1>1. /\ pc = "restore" /\ pc' = (IF Stale THEN "disarm" ELSE "builtin") /\ slot' = slot
        /\ text' = text /\ fp' = fp /\ magic' = magic /\ flash' = flash /\ hist' = hist
    BY DEF CheckFingerprint, persistVars
  <1>2. ArmedSet' = ArmedSet
    BY <1>1 DEF ArmedSet, Armed
  <1>3. (Done' <=> Done) /\ (Unarmable' <=> Unarmable)
    BY <1>1, <1>2, SettledKeep
  <1>4. ~Rearming' /\ (Late' => ~Stale)
    BY <1>1 DEF Rearming, Late
  <1>5. fp = flash.dsl => (Stale <=> ArmedSet = {})
    BY DEF Stale, ArmedSet
  <1> QED BY <1>1, <1>2, <1>3, <1>4, <1>5 DEF ArmPart, FilePart

LEMMA FileDisarm ==
    ASSUME IInv, PersistPart, FilePart, DisarmStale \/ DisarmDone
    PROVE  ArmPart' /\ FilePart'
  <1>t. k \in 0..N /\ hist \in HistRecords
    BY TypesAre DEF IInv
  <1>1. pc = "disarm" /\ fp' = fp /\ magic' = magic /\ flash' = flash
    BY DEF DisarmStale, DisarmDone, persistVars
  <1>2. Unarmable' <=> Unarmable
    BY <1>1 DEF Unarmable, Armable
  <1>3. CASE DisarmStale
    <2>1. pc' = pc /\ Disarm(k) /\ k \in Slots
      BY <1>3, <1>t, Consts DEF DisarmStale
    <2>2. ArmedSet' = ArmedSet \ {k}
      BY <1>1, <2>1, DisarmDoes
    <2>3. ~Rearming' /\ ~Late'
      BY <1>1, <2>1 DEF Rearming, Late
    <2> QED BY <1>1, <1>2, <2>1, <2>2, <2>3 DEF ArmPart, FilePart
  <1>4. CASE DisarmDone
    <2>1. pc' = "arm" /\ k' = 1 /\ slot' = slot
      BY <1>4 DEF DisarmDone, persistVars
    <2>2. ArmedSet' = ArmedSet
      BY <2>1 DEF ArmedSet, Armed
    <2>3. Rearming' /\ ~Late'
      BY <2>1 DEF Rearming, Late
    <2>4. \A s \in Configured : ~(s < 1)
      BY DEF Configured
    <2>5. ArmPart'
      BY <2>1, <2>4 DEF ArmPart
    <2> QED BY <1>1, <1>2, <2>1, <2>2, <2>3, <2>5 DEF FilePart
  <1> QED BY <1>3, <1>4


(* With nothing armed, a file is refused only for what it is itself.       *)
LEMMA RefusedAlone ==
    ASSUME IInv, pc = "arm", k \in Configured, ArmedSet = {}, ~(Wanted.parses /\ Claimable(Wanted, k))
    PROVE  ~Armable(k)
  <1>1. Wanted = flash.dsl[k] /\ Wanted \in Texts
    <2>1. flash.dsl \in [Configured -> Dsls \cup {None}]
      BY TypesAre, FlashTypes DEF IInv
    <2>2. k # 0
      BY DEF Configured
    <2> QED BY <2>1, <2>2 DEF Wanted, Texts
  <1>2. Holders = {}
    BY HoldersAre
  <1>3. OneRole(flash.caps) /\ ClaimInv(claims, text, flash.caps, {})
    BY <1>2, HoldersTexts DEF IInv, ClaimPart
  <1>4. Claimable(Wanted, k) <=> Fits(Wanted, flash.caps)
    BY <1>1, <1>3, ClaimIff
  <1> QED BY <1>1, <1>4 DEF Armable

LEMMA ClaimFits ==
    ASSUME Claimable(Wanted, k), Wanted.parses, k \in Configured PROVE Armable(k)
  <1>1. Wanted = flash.dsl[k]
    BY DEF Wanted, Configured
  <1> QED BY <1>1 DEF Armable, Claimable, Fits

LEMMA FileRefused ==
    ASSUME IInv, PersistPart, ArmPart, FilePart, ArmRefused
    PROVE  ArmPart' /\ FilePart'
  <1>t. k \in 0..N /\ hist \in HistRecords /\ N \in Nat
    BY TypesAre, Consts DEF IInv
  <1>1. /\ pc = "arm" /\ k < N /\ AfterArm /\ slot' = slot /\ text' = text /\ fp' = fp
        /\ magic' = magic /\ flash' = flash /\ ~(Wanted.parses /\ Claimable(Wanted, k))
    BY DEF ArmRefused, persistVars
  <1>2. hist'.refused = hist.refused \cup {k}
    BY <1>t DEF ArmRefused, HistRecords
  <1>3. ArmedSet' = ArmedSet
    BY <1>1 DEF ArmedSet, Armed
  <1>4. \A s \in Configured : /\ Settled(s) => Settled(s)'
                              /\ Armable(s)' <=> Armable(s)
    BY <1>1, <1>2, <1>3 DEF Settled, Armable
  <1>5. (Done => Done') /\ (Unarmable' <=> Unarmable)
    BY <1>4 DEF Done, Unarmable
  <1>6. CASE k = 0
    <2>1. pc' = "run" /\ k' = 0
      BY <1>1, <1>6 DEF AfterArm, StartTick
    <2>2. ~Rearming' /\ Late /\ Late'
      BY <1>1, <1>6, <2>1 DEF Rearming, Late
    <2> QED BY <1>1, <1>3, <1>5, <2>1, <2>2 DEF ArmPart, FilePart
  <1>7. CASE k # 0
    <2>1. pc' = "arm" /\ k' = k + 1 /\ k \in Configured
      BY <1>1, <1>7, <1>t DEF AfterArm, Configured
    <2>2. Rearming /\ Rearming' /\ ~Late'
      BY <1>1, <1>7, <1>t, <2>1 DEF Rearming, Late
    <2>3. k \notin ArmedSet
      BY <1>1 DEF IInv, CtlPart, ArmedSet
    <2>4. \A s \in Configured : s = k => Settled(s)'
      BY <1>2, <1>3, <2>3 DEF Settled
    <2>5. \A s \in Configured : s < k + 1 => s < k \/ s = k
      BY <1>t DEF Configured
    <2>6. \A s \in Configured : s < k' => Settled(s)'
      BY <1>4, <2>1, <2>2, <2>4, <2>5 DEF ArmPart
    <2>7. ArmedSet' = {} => \A s \in Configured : s < k' => ~Armable(s)'
      <3> SUFFICES ASSUME ArmedSet = {}, NEW s \in Configured, s < k + 1 PROVE ~Armable(s)
        BY <1>3, <1>4, <2>1
      <3>1. ~Armable(k)
        BY <1>1, <2>1, RefusedAlone
      <3> QED BY <3>1, <2>2, <2>5 DEF ArmPart
    <2>8. ArmPart'
      BY <2>1, <2>6, <2>7 DEF ArmPart
    <2> QED BY <1>1, <1>3, <1>5, <2>1, <2>2, <2>8 DEF FilePart
  <1> QED BY <1>6, <1>7

LEMMA FileClaim ==
    ASSUME IInv, PersistPart, ArmPart, FilePart, ArmClaim
    PROVE  ArmPart' /\ FilePart'
  <1>t. k \in 0..N /\ hist \in HistRecords /\ slot \in [Slots -> SlotRecords] /\ text \in [Slots -> Texts]
    BY TypesAre DEF IInv
  <1>1. /\ pc = "arm" /\ pc' = "state" /\ k < N /\ k' = k /\ slot' = [slot EXCEPT ![k].tf = "UNEVALUATED"]
        /\ text' = [text EXCEPT ![k] = Wanted] /\ fp' = fp /\ hist' = hist
        /\ magic' = magic /\ flash' = flash /\ Wanted.parses /\ Claimable(Wanted, k)
    BY DEF ArmClaim
  <1>k. k \in Slots
    BY <1>t, <1>1, Consts
  <1>2. ArmedSet' = ArmedSet
    BY <1>1, <1>t, <1>k DEF ArmedSet, Armed, SlotRecords
  <1>3. k \notin ArmedSet
    BY <1>1 DEF IInv, CtlPart, ArmedSet
  <1>4. \A s \in Configured : (Settled(s)' <=> Settled(s)) /\ (Armable(s)' <=> Armable(s))
    <2>1. \A s \in ArmedSet : text'[s] = text[s]
      BY <1>1, <1>3, <1>t DEF ArmedSet
    <2> QED BY <1>1, <1>2, <2>1 DEF Settled, Armable
  <1>5. (Done' <=> Done) /\ (Unarmable' <=> Unarmable)
    BY <1>4 DEF Done, Unarmable
  <1>6. CASE k = 0
    <2>1. ~Rearming' /\ Late
      BY <1>1, <1>6 DEF Rearming, Late
    <2> QED BY <1>1, <1>2, <1>5, <2>1 DEF ArmPart, FilePart
  <1>7. CASE k # 0
    <2>1. k \in Configured /\ Rearming /\ ~Late'
      BY <1>1, <1>7, <1>t, Consts DEF Rearming, Configured, Late
    <2>2. Armable(k)
      BY <1>1, <2>1, ClaimFits
    <2>3. fp # flash.dsl
      BY <1>1, <2>1, <2>2 DEF FilePart, Unarmable
    <2>4. text'[k'] = flash'.dsl[k']
      BY <1>1, <1>7, <1>t, <1>k DEF Wanted
    <2>5. ArmPart'
      BY <1>1, <1>2, <1>4, <2>1, <2>4 DEF ArmPart
    <2> QED BY <1>1, <2>3, <2>5 DEF FilePart
  <1> QED BY <1>6, <1>7

LEMMA FileState ==
    ASSUME IInv, PersistPart, ArmPart, FilePart, ArmState \/ ArmCommit
    PROVE  ArmPart' /\ FilePart'
  <1>t. k \in 0..N /\ hist \in HistRecords /\ slot \in [Slots -> SlotRecords] /\ N \in Nat
    BY TypesAre, Consts DEF IInv
  <1>1. /\ pc \in {"state", "commit"} /\ k < N /\ text' = text /\ fp' = fp /\ hist' = hist
        /\ magic' = magic /\ flash' = flash
    BY DEF ArmState, ArmCommit, IInv, CtlPart
  <1>k. k \in Slots
    BY <1>t, <1>1, Consts
  <1>2. ArmedSet' = ArmedSet \cup {k}
    <2>1. CASE ArmState
      <3>1. slot' = [slot EXCEPT ![k].state = "ARMED"]
        BY <2>1 DEF ArmState
      <3> QED BY <3>1, <1>t, <1>k DEF ArmedSet, Armed, SlotRecords
    <2>2. CASE ArmCommit
      <3>1. slot' = [slot EXCEPT ![k].id = "DSL", ![k].bc = 0, ![k].latched = FALSE] /\ pc = "commit"
        BY <2>2 DEF ArmCommit
      <3>2. \A s \in Slots : slot'[s].state = slot[s].state
        BY <3>1, <1>t, <1>k DEF SlotRecords
      <3> QED BY <3>1, <3>2, <1>k DEF ArmedSet, Armed, PersistPart
    <2> QED BY <2>1, <2>2
  <1>3. \A s \in Configured : s # k => (Settled(s)' <=> Settled(s))
    BY <1>1, <1>2 DEF Settled
  <1>4. CASE k = 0
    <2>1. ~Rearming' /\ Late
      BY <1>1, <1>4 DEF Rearming, Late, ArmState, ArmCommit, AfterArm, StartTick
    <2>2. \A s \in Configured : s # k
      BY <1>4 DEF Configured
    <2>3. Done' <=> Done
      BY <1>3, <2>2 DEF Done
    <2>4. pc' \in {"commit", "run"}
      BY <1>4 DEF ArmState, ArmCommit, AfterArm, StartTick
    <2> QED BY <1>1, <1>2, <2>1, <2>3, <2>4 DEF ArmPart, FilePart
  <1>5. CASE k # 0
    <2>1. k \in Configured /\ Rearming
      BY <1>1, <1>5, <1>t DEF Rearming, Configured
    <2>2. fp # flash.dsl /\ text[k] = flash.dsl[k] /\ \A s \in Configured : s < k => Settled(s)
      BY <1>1, <2>1 DEF FilePart, ArmPart
    <2>3. \A s \in Configured : s = k => Settled(s)'
      BY <1>1, <1>2, <2>2 DEF Settled
    <2>4. \A s \in Configured : s < k + 1 => (s # k /\ s < k) \/ s = k
      BY <1>t DEF Configured
    <2>5. \A s \in Configured : s < k + 1 => Settled(s)'
      BY <1>3, <2>2, <2>3, <2>4
    <2>6. (pc' = "commit" /\ k' = k) \/ (pc' = "arm" /\ k' = k + 1)
      BY <1>5 DEF ArmState, ArmCommit, AfterArm
    <2>7. \A s \in Configured : s < k' => Settled(s)'
      BY <1>t, <2>5, <2>6 DEF Configured
    <2>8. ArmPart'
      BY <1>1, <1>2, <2>2, <2>6, <2>7 DEF ArmPart
    <2> QED BY <1>1, <2>2, <2>8 DEF FilePart
  <1> QED BY <1>4, <1>5

LEMMA FileStored ==
    ASSUME IInv, PersistPart, ArmPart, FilePart, StoreFingerprint \/ KeepBuiltIn \/ DropBuiltIn
    PROVE  ArmPart' /\ FilePart'
  <1>t. /\ k \in 0..N /\ N \in Nat /\ N > 0 /\ hist \in HistRecords /\ slot \in [Slots -> SlotRecords]
        /\ text \in [Slots -> Texts]
    BY TypesAre, Consts DEF IInv
  <1>1. hist' = hist /\ magic' = magic /\ flash' = flash
    BY DEF StoreFingerprint, KeepBuiltIn, DropBuiltIn, persistVars
  <1>2. CASE StoreFingerprint
    <2>1. pc = "arm" /\ k = N /\ pc' = "builtin" /\ slot' = slot /\ text' = text
      BY <1>2 DEF StoreFingerprint
    <2>2. ArmedSet' = ArmedSet
      BY <2>1 DEF ArmedSet, Armed
    <2>3. Rearming /\ \A s \in Configured : s < k
      BY <1>t, <2>1 DEF Rearming, Configured
    <2>4. Done /\ (ArmedSet = {} => Unarmable)
      BY <2>3 DEF ArmPart, Done, Unarmable
    <2>5. (Done' <=> Done) /\ (Unarmable' <=> Unarmable)
      BY <1>1, <2>1, <2>2, SettledKeep
    <2>6. ~Rearming'
      BY <2>1 DEF Rearming
    <2> QED BY <2>1, <2>2, <2>4, <2>5, <2>6 DEF ArmPart, FilePart
  <1>3. CASE KeepBuiltIn \/ DropBuiltIn
    <2>1. pc = "builtin" /\ fp' = fp /\ ~Rearming' /\ Late /\ pc' \in {"arm", "run"}
      BY <1>3 DEF KeepBuiltIn, DropBuiltIn, StartTick, Rearming, Late, persistVars
    <2>2. ArmedSet' = ArmedSet /\ \A s \in Configured : text'[s] = text[s]
      <3>1. CASE KeepBuiltIn
        <4>1. slot' = slot /\ text' = text
          BY <3>1 DEF KeepBuiltIn, persistVars
        <4> QED BY <4>1 DEF ArmedSet, Armed
      <3>2. CASE DropBuiltIn
        <4>1. Disarm(0) /\ pc' = "arm" /\ ~Preserved
          BY <3>2 DEF DropBuiltIn
        <4>2. ArmedSet' = ArmedSet \ {0}
          BY <1>1, <2>1, <4>1, Consts, DisarmDoes
        <4>3. 0 \notin ArmedSet
          <5> SUFFICES ASSUME 0 \in ArmedSet PROVE FALSE
            OBVIOUS
          <5>1. Armed(0) /\ ArmedOK(0)
            BY <2>1 DEF PersistPart, ArmedSet
          <5> QED BY <4>1, <5>1 DEF PersistPart, Preserved, ArmedOK
        <4>4. \A s \in Configured : s \in Slots /\ s # 0
          BY Consts DEF Configured
        <4>5. \A s \in Configured : text'[s] = text[s]
          BY <1>t, <4>1, <4>4 DEF Disarm
        <4> QED BY <4>2, <4>3, <4>5
      <3> QED BY <1>3, <3>1, <3>2
    <2>3. (Done' <=> Done) /\ (Unarmable' <=> Unarmable)
      BY <1>1, <2>2, SettledKeep
    <2> QED BY <1>1, <2>1, <2>2, <2>3 DEF ArmPart, FilePart
  <1> QED BY <1>2, <1>3


(* A reset comes at any place of bring-up; a new configuration either has  *)
(* the same files or does not find its fingerprint.                        *)
LEMMA FileReset ==
    ASSUME IInv, OneUpdate, FpPart, FilePart, WarmReset \/ PowerCut \/ \E f \in Flashes : Reflash(f)
    PROVE  ArmPart' /\ FilePart'
  <1>t. /\ hist \in HistRecords /\ flash \in Flashes /\ k \in 0..N
        /\ pc \in {"decide", "restore", "disarm", "arm", "state", "commit", "builtin", "run"}
    BY TypesAre DEF IInv
  <1>1. pc' = "decide" /\ slot' = slot /\ text' = text /\ fp' = fp
    BY DEF WarmReset, PowerCut, Reflash, persistVars, Restarted
  <1>2. hist'.refused = hist.refused
    BY <1>t DEF WarmReset, PowerCut, Reflash, HistRecords
  <1>3. ArmedSet' = ArmedSet
    BY <1>1 DEF ArmedSet, Armed
  <1>4. ~Rearming' /\ ~Late'
    BY <1>1 DEF Rearming, Late
  <1>5. ArmPart'
    BY <1>4 DEF ArmPart
  <1>6. CASE PowerCut
    <2>1. magic' = FALSE
      BY <1>6 DEF PowerCut
    <2> QED BY <1>1, <1>4, <1>5, <2>1 DEF FilePart
  <1>7. ASSUME flash' = flash, magic' = magic PROVE FilePart'
    <2>1. (Done' <=> Done) /\ (Unarmable' <=> Unarmable)
      BY <1>1, <1>2, <1>3, <1>7, SettledKeep
    <2>2. pc \in {"decide", "restore", "disarm"} \/ Rearming \/ Late
      BY <1>t DEF Rearming, Late
    <2> QED BY <1>1, <1>3, <1>4, <1>7, <2>1, <2>2 DEF FilePart
  <1>8. CASE WarmReset
    <2>1. flash' = flash /\ magic' = magic
      BY <1>8 DEF WarmReset, persistVars
    <2> QED BY <1>5, <1>7, <2>1
  <1>9. CASE \E f \in Flashes : Reflash(f)
    <2>1. PICK f \in Flashes : Reflash(f)
      BY <1>9
    <2>2. flash' = f /\ magic' = magic /\ budget.flashes > 0 /\ f.caps = flash.caps
      BY <2>1, <1>t DEF Reflash, persistVars, OneUpdate
    <2>3. CASE f.dsl = flash.dsl
      <3>1. f = flash
        <4>1. Flashes \subseteq [dsl : [Configured -> Dsls \cup {None}],
                                caps : SUBSET [pin : Pins, mode : {"in", "adc", "out"}]]
          BY InterlockAssumption
        <4> QED BY <1>t, <2>2, <2>3, <4>1
      <3> QED BY <1>5, <1>7, <2>2, <3>1
    <2>4. CASE f.dsl # flash.dsl
      <3>1. f.dsl \in [Configured -> Dsls \cup {None}] /\ flash.dsl \in [Configured -> Dsls \cup {None}]
        BY <1>t, FlashTypes
      <3>2. fp # f.dsl
        <4> SUFFICES ASSUME fp = f.dsl PROVE FALSE
          OBVIOUS
        <4>1. f.dsl = NoFp
          BY <2>2, <2>4 DEF FpPart
        <4>2. DOMAIN NoFp = {}
          BY DEF NoFp
        <4>3. Configured = {}
          BY <3>1, <4>1, <4>2
        <4>4. f.dsl = flash.dsl
          BY <3>1, <4>3
        <4> QED BY <2>4, <4>4
      <3> QED BY <1>1, <1>5, <2>2, <3>2 DEF FilePart
    <2> QED BY <2>3, <2>4
  <1> QED BY <1>5, <1>6, <1>8, <1>9

LEMMA FileRest ==
    ASSUME IInv, ArmPart, FilePart,
           RequestClear \/ UNCHANGED vars \/ \E F \in SUBSET Slots : TickAll(F)
    PROVE  ArmPart' /\ FilePart'
  <1>t. hist \in HistRecords /\ IlTypeOK
    BY TypesAre DEF IInv
  <1>1. pc' = pc /\ k' = k /\ text' = text /\ fp' = fp /\ magic' = magic /\ flash' = flash
    BY DEF RequestClear, TickAll, vars, persistVars, bootVars
  <1>2. hist'.refused = hist.refused
    BY <1>t DEF RequestClear, TickAll, vars, HistRecords
  <1>3. \A s \in Slots : slot'[s].state = slot[s].state
    <2>1. CASE RequestClear \/ UNCHANGED vars
      BY <2>1 DEF RequestClear, vars, persistVars
    <2> QED BY <2>1, <1>t, TickDoes
  <1>4. ArmedSet' = ArmedSet
    BY <1>3 DEF ArmedSet, Armed
  <1>5. /\ \A s \in Configured : (Settled(s)' <=> Settled(s)) /\ (Armable(s)' <=> Armable(s))
        /\ Done' <=> Done
        /\ Unarmable' <=> Unarmable
    BY <1>1, <1>2, <1>4, SettledKeep
  <1>6. (Rearming' <=> Rearming) /\ (Late' <=> Late)
    BY <1>1 DEF Rearming, Late
  <1>7. ArmPart'
    BY <1>1, <1>4, <1>5, <1>6 DEF ArmPart
  <1> QED BY <1>1, <1>4, <1>5, <1>6, <1>7 DEF FilePart

LEMMA FileNext ==
    IInv /\ OneUpdate /\ ResetPart /\ PersistPart /\ FInv /\ [Next]_vars => FInv'
  <1> SUFFICES ASSUME IInv, OneUpdate, ResetPart, PersistPart, FInv, [Next]_vars PROVE FInv'
    OBVIOUS
  <1>1. FitPart /\ FpPart /\ ArmPart /\ FilePart
    BY DEF FInv
  <1>2. IInv' /\ PersistPart'
    BY NextIInv, PersistNext
  <1>3. FitPart' /\ FpPart'
    BY <1>1, <1>2, FitNext, FpNext
  <1>4. ArmPart' /\ FilePart'
    BY <1>1, FileDecide, FileRestore, FileCheck, FileDisarm, FileRefused, FileClaim, FileState,
       FileStored, FileReset, FileRest DEF Next, BringUp
  <1> QED BY <1>3, <1>4 DEF FInv

(* Up to one new configuration and MaxBoots resets, at whatever steps of   *)
(* the re-arm they come, a running node whose stored fingerprint is that   *)
(* of its files has armed each of them that it did not refuse: the         *)
(* fingerprint is stored last, and a re-arm cut short starts over          *)
(* (interlock_thread2_start).                                              *)
THEOREM ConfigSafety == OneUpdate => (Spec => []ConfigArmed)
  <1> SUFFICES ASSUME OneUpdate PROVE Spec => []ConfigArmed
    OBVIOUS
  <1>1. Init => ResetPart /\ PersistPart /\ FInv
    <2> SUFFICES ASSUME Init PROVE ResetPart /\ PersistPart /\ FInv
      OBVIOUS
    <2>1. ResetPart
      BY Consts DEF Init, ResetPart, Used, Empty
    <2>2. pc = "decide" /\ text[0] = None /\ fp = NoFp /\ magic = FALSE /\ slot = [s \in Slots |-> Empty]
      BY Consts DEF Init
    <2>3. PersistPart
      BY <2>2, HoldersAre DEF PersistPart, Late
    <2>4. ArmedSet = {}
      BY <2>2 DEF ArmedSet, Armed, Empty
    <2>5. ~Rearming /\ ~Late
      BY <2>2 DEF Rearming, Late
    <2> QED BY <2>1, <2>2, <2>3, <2>4, <2>5 DEF FInv, FitPart, FpPart, ArmPart, FilePart
  <1>2. IInv /\ ResetPart /\ PersistPart /\ FInv /\ [Next]_vars
          => (ResetPart /\ PersistPart /\ FInv)'
    BY ResetNext, PersistNext, FileNext
  <1>3. IInv /\ FInv => ConfigArmed
    <2> SUFFICES ASSUME IInv, FInv, pc = "run", fp = flash.dsl, NEW s \in Configured \ hist.refused
                 PROVE  slot[s].state # "EMPTY" /\ text[s] = flash.dsl[s]
      BY DEF ConfigArmed
    <2>1. Settled(s)
      BY DEF FInv, FilePart, Late, Done
    <2> QED BY <2>1 DEF Settled, ArmedSet, Armed
  <1> QED BY <1>1, <1>2, <1>3, Inductive, PTL DEF Spec

-----------------------------------------------------------------------------
(***************************************************************************)
(* Proofs about WiredLine, for any number of nodes on the line, any depth  *)
(* of the debounce, any skew of a clear and any grace that is long enough. *)
(*                                                                         *)
(* Neither property is inductive.  That a clear holds needs how much of    *)
(* the grace is left when the line goes up: with e rounds since the wave   *)
(* began, a node that has served it has grace for all but e rounds; after  *)
(* Skew rounds everybody has heard it, after one more everybody has served *)
(* it, and from then on the line is up and every tick shifts a 1 into the  *)
(* debounce register.  That a trip reaches everybody needs the same for    *)
(* zeros, from the round on in which a latched node pulls.                 *)
(***************************************************************************)


NodeRec == [latch : BOOLEAN, sr : [1..Depth -> {0, 1}], deb : {0, 1},
            drive : BOOLEAN, grace : 0..WlGrace, req : BOOLEAN]

WlType ==
    /\ wlNode \in [WlNodes -> NodeRec]
    /\ wlTicked \subseteq WlNodes /\ wlPull \in BOOLEAN
    /\ wlWave \in [on : BOOLEAN, age : 0..Skew, heard : SUBSET WlNodes]
    /\ wlHeld \in 0..(WlGrace + 2)
    /\ wlBudget \in [pulls : Nat, waves : Nat, alone : Nat, resets : Nat]

(* 1 for a node that has had its tick of this round.                       *)
WlLate(n) == IF n \in wlTicked THEN 1 ELSE 0

(* The newest kk samples of a node are v.                                   *)
Newest(n, kk, v) == \A i \in 1..Depth : i > Depth - kk => wlNode[n].sr[i] = v

(* A node pulls only while it is latched, and Depth equal samples have     *)
(* been taken over.                                                        *)
NodePart == \A n \in WlNodes :
    /\ wlNode[n].drive => wlNode[n].latch
    /\ \A v \in {0, 1} : Newest(n, Depth, v) => wlNode[n].deb = v

(* The wave began e rounds ago.                                            *)
WaveAt(e) ==
    /\ wlWave.age < Skew => e = wlWave.age
    /\ wlWave.age = Skew => e >= Skew
    /\ e > Skew => /\ wlWave.heard = WlNodes
                   /\ \A n \in WlNodes : wlNode[n].latch => wlNode[n].req /\ n \notin wlTicked
    /\ e > Skew + 1 => \A n \in WlNodes : /\ ~wlNode[n].latch
                                          /\ Newest(n, e - Skew - 2 + WlLate(n), 1)
    /\ \A n \in wlWave.heard : ~wlNode[n].req => /\ ~wlNode[n].latch
                                                 /\ wlNode[n].grace >= WlGrace - e - WlLate(n)

WavePart == wlWave.on => ~wlPull /\ \E e \in Nat : WaveAt(e)

(* Some node has stayed latched: it pulls from its next tick on, the grace *)
(* of every node runs out, and every node's samples become 0.              *)
HeldPart == wlHeld >= 1 =>
    /\ \E m \in WlNodes : /\ wlNode[m].latch
                          /\ m \in wlTicked \/ wlHeld >= 2 => wlNode[m].drive
    /\ \A n \in WlNodes :
          /\ wlNode[n].grace = 0 \/ wlNode[n].grace + wlHeld + WlLate(n) <= WlGrace + 1
          /\ wlHeld >= 2 => Newest(n, wlHeld - 2 + WlLate(n), 0)
          /\ wlHeld >= WlGrace + 2 \/ (wlHeld = WlGrace + 1 /\ n \in wlTicked)
                => wlNode[n].latch /\ wlNode[n].drive

(* The inductive invariant.                                                *)
WlInv == WlType /\ NodePart /\ WavePart /\ HeldPart

-----------------------------------------------------------------------------
LEMMA WlConsts ==
    /\ Depth \in Nat /\ Depth >= 2 /\ Skew \in Nat /\ WlGrace \in Nat
    /\ WlGrace >= Skew + Depth + 1
  BY WiredLineAssumption

LEMMA LevelIsBit == LineLevel \in {0, 1}
  BY DEF LineLevel

(* The register moves by one and takes the level in at its end.            *)
LEMMA ShiftProps ==
    ASSUME NEW sr \in [1..Depth -> {0, 1}]
    PROVE  /\ WlShifted(sr) \in [1..Depth -> {0, 1}]
           /\ \A i \in 1..Depth : WlShifted(sr)[i] = IF i < Depth THEN sr[i + 1] ELSE LineLevel
  <1>1. sr \in Seq({0, 1}) /\ Len(sr) = Depth
    BY WlConsts
  <1> DEFINE t == Tail(sr)
  <1>2. t \in Seq({0, 1}) /\ Len(t) = Depth - 1 /\ \A i \in 1..(Depth - 1) : t[i] = sr[i + 1]
    BY <1>1, WlConsts
  <1> HIDE DEF t
  <1>3. Append(t, LineLevel) \in Seq({0, 1}) /\ Len(Append(t, LineLevel)) = Depth
    BY <1>2, LevelIsBit, WlConsts
  <1>4. \A i \in 1..Depth : Append(t, LineLevel)[i] = IF i < Depth THEN sr[i + 1] ELSE LineLevel
    BY <1>2, WlConsts
  <1>5. WlShifted(sr) = Append(t, LineLevel)
    BY DEF WlShifted, t
  <1> DEFINE a == Append(t, LineLevel)
  <1> HIDE DEF a
  <1>6. a \in [1..Depth -> {0, 1}]
    <2>1. a \in Seq({0, 1}) /\ Len(a) = Depth
      BY <1>3 DEF a
    <2> QED BY <2>1
  <1>7. \A i \in 1..Depth : a[i] = IF i < Depth THEN sr[i + 1] ELSE LineLevel
    BY <1>4 DEF a
  <1> QED BY <1>5, <1>6, <1>7 DEF a

LEMMA DebounceProps ==
    ASSUME NEW sr \in [1..Depth -> {0, 1}], NEW old \in {0, 1}
    PROVE  /\ Debounced(sr, old) \in {0, 1}
           /\ \A v \in {0, 1} : (\A i \in 1..Depth : sr[i] = v) => Debounced(sr, old) = v
  <1>1. Depth \in 1..Depth
    BY WlConsts
  <1> QED BY <1>1 DEF Debounced

(* What a tick of node n leaves in it.                                     *)
Ticked(n) ==
    LET v == wlNode[n]
        grace == IF v.req THEN BeginGrace ELSE v.grace
        sr == WlShifted(v.sr)
        deb == Debounced(sr, v.deb)
        latch == Latched(v.latch /\ ~v.req, deb, grace)
    IN [latch |-> latch, sr |-> sr, deb |-> deb, drive |-> latch,
        grace |-> IF grace = 0 THEN 0 ELSE grace - 1, req |-> FALSE]

LEMMA TickStep ==
    ASSUME WlType, NEW n \in WlNodes, WlTick(n)
    PROVE  /\ n \notin wlTicked /\ wlTicked' = wlTicked \cup {n}
           /\ wlNode' = [wlNode EXCEPT ![n] = Ticked(n)]
           /\ wlHeld' = IF wlNode[n].req THEN 0 ELSE wlHeld
           /\ wlPull' = wlPull /\ wlWave' = wlWave /\ wlBudget' = wlBudget
  BY DEF WlTick, Ticked

(* The fields of the ticked node, one by one.                              *)
LEMMA TickProps ==
    ASSUME WlType, NEW n \in WlNodes
    PROVE  /\ Ticked(n) \in NodeRec
           /\ Ticked(n).drive = Ticked(n).latch
           /\ ~Ticked(n).req
           /\ wlNode[n].req => ~Ticked(n).latch /\ Ticked(n).grace = WlGrace - 1
           /\ ~wlNode[n].req => /\ wlNode[n].grace = 0 => Ticked(n).grace = 0
                                /\ wlNode[n].grace > 0 => Ticked(n).grace = wlNode[n].grace - 1
                                /\ wlNode[n].latch => Ticked(n).latch
                                /\ ~wlNode[n].latch /\ (wlNode[n].grace > 0 \/ Ticked(n).deb = 1)
                                      => ~Ticked(n).latch
                                /\ wlNode[n].grace = 0 /\ Ticked(n).deb = 0 => Ticked(n).latch
           /\ \A i \in 1..Depth : Ticked(n).sr[i] = IF i < Depth THEN wlNode[n].sr[i + 1] ELSE LineLevel
           /\ \A v \in {0, 1} : (\A i \in 1..Depth : Ticked(n).sr[i] = v) => Ticked(n).deb = v
  <1> DEFINE v == wlNode[n]
             g == IF v.req THEN BeginGrace ELSE v.grace
             s == WlShifted(v.sr)
             d == Debounced(s, v.deb)
             l == Latched(v.latch /\ ~v.req, d, g)
  <1>1. v.sr \in [1..Depth -> {0, 1}] /\ v.deb \in {0, 1} /\ v.grace \in 0..WlGrace
        /\ v.req \in BOOLEAN /\ v.latch \in BOOLEAN
    BY DEF WlType, NodeRec
  <1>2. s \in [1..Depth -> {0, 1}]
        /\ \A i \in 1..Depth : s[i] = IF i < Depth THEN v.sr[i + 1] ELSE LineLevel
    BY <1>1, ShiftProps
  <1>3. d \in {0, 1} /\ \A w \in {0, 1} : (\A i \in 1..Depth : s[i] = w) => d = w
    BY <1>1, <1>2, DebounceProps
  <1>4. Ticked(n) = [latch |-> l, sr |-> s, deb |-> d, drive |-> l,
                     grace |-> IF g = 0 THEN 0 ELSE g - 1, req |-> FALSE]
    BY DEF Ticked
  <1>5. g \in 0..WlGrace /\ (v.req => g = WlGrace) /\ (~v.req => g = v.grace)
    BY <1>1, WlConsts DEF BeginGrace
  <1>6. l \in BOOLEAN /\ (l <=> ((v.latch /\ ~v.req) \/ (d = 0 /\ g = 0)))
    BY <1>1 DEF Latched
  <1> HIDE DEF v, g, s, d, l
  <1>7. /\ Ticked(n).latch = l /\ Ticked(n).drive = l /\ Ticked(n).sr = s /\ Ticked(n).deb = d
        /\ Ticked(n).req = FALSE /\ Ticked(n).grace = IF g = 0 THEN 0 ELSE g - 1
    BY <1>4
  <1>8. (IF g = 0 THEN 0 ELSE g - 1) \in 0..WlGrace
    BY <1>5, WlConsts
  <1>9. Ticked(n) \in NodeRec
    BY <1>2, <1>3, <1>4, <1>6, <1>8 DEF NodeRec
  <1>10. v.req => ~l /\ Ticked(n).grace = WlGrace - 1
    BY <1>5, <1>6, <1>7, WlConsts
  <1>11. ~v.req => /\ v.grace = 0 => Ticked(n).grace = 0
                   /\ v.grace > 0 => Ticked(n).grace = v.grace - 1
                   /\ v.latch => l
                   /\ ~v.latch /\ (v.grace > 0 \/ d = 1) => ~l
                   /\ v.grace = 0 /\ d = 0 => l
    BY <1>1, <1>3, <1>5, <1>6, <1>7, WlConsts
  <1> QED BY <1>2, <1>3, <1>7, <1>9, <1>10, <1>11 DEF v

(* If the level is v, one more of the newest samples is.                   *)
LEMMA NewestShift ==
    ASSUME WlType, NEW n \in WlNodes, NEW kk \in Int, NEW v \in {0, 1},
           Newest(n, kk, v), LineLevel = v
    PROVE  \A i \in 1..Depth : i > Depth - (kk + 1) => Ticked(n).sr[i] = v
  <1> TAKE i \in 1..Depth
  <1> HAVE i > Depth - (kk + 1)
  <1>1. Ticked(n).sr[i] = IF i < Depth THEN wlNode[n].sr[i + 1] ELSE LineLevel
    BY TickProps
  <1>2. CASE i < Depth
    <2>1. i + 1 \in 1..Depth /\ i + 1 > Depth - kk
      BY <1>2, WlConsts
    <2>2. wlNode[n].sr[i + 1] = v
      BY <2>1 DEF Newest
    <2> QED BY <1>1, <1>2, <2>2
  <1> QED BY <1>1, <1>2

(* Every step keeps the type.                                              *)
LEMMA TypeKept == ASSUME WlType, [WlNext]_wlVars PROVE WlType'
  <1> USE WlConsts
  <1> DEFINE BudgetRec == [pulls : Nat, waves : Nat, alone : Nat, resets : Nat]
             WaveRec == [on : BOOLEAN, age : 0..Skew, heard : SUBSET WlNodes]
  <1>a. /\ wlNode \in [WlNodes -> NodeRec] /\ wlTicked \subseteq WlNodes /\ wlPull \in BOOLEAN
        /\ wlWave \in WaveRec /\ wlHeld \in 0..(WlGrace + 2) /\ wlBudget \in BudgetRec
    BY DEF WlType
  <1>b. WaveOff \in WaveRec /\ [WaveOff EXCEPT !.on = TRUE] \in WaveRec
    <2>1. 0 \in 0..Skew /\ {} \in SUBSET WlNodes
      OBVIOUS
    <2>2. \A b \in BOOLEAN : [on |-> b, age |-> 0, heard |-> {}] \in WaveRec
      BY <2>1, Zenon
    <2>3. WaveOff \in WaveRec
      BY <2>2, Zenon DEF WaveOff
    <2> QED BY <2>3
  <1>c. SUFFICES /\ wlNode' \in [WlNodes -> NodeRec] /\ wlTicked' \subseteq WlNodes
                 /\ wlPull' \in BOOLEAN /\ wlWave' \in WaveRec
                 /\ wlHeld' \in 0..(WlGrace + 2) /\ wlBudget' \in BudgetRec
    BY DEF WlType
  <1>d. \A n \in WlNodes : [wlNode EXCEPT ![n].req = TRUE] \in [WlNodes -> NodeRec]
    <2> SUFFICES ASSUME NEW n \in WlNodes
                 PROVE  [wlNode EXCEPT ![n].req = TRUE] \in [WlNodes -> NodeRec]
      OBVIOUS
    <2>1. PICK r : r = [wlNode[n] EXCEPT !.req = TRUE]
      OBVIOUS
    <2>2. wlNode[n] \in NodeRec /\ wlNode \in [WlNodes -> NodeRec]
      BY <1>a, Zenon
    <2>3. r \in NodeRec
      BY ONLY <2>1, <2>2 DEF NodeRec
    <2>4. [wlNode EXCEPT ![n] = r] \in [WlNodes -> NodeRec]
      BY ONLY <2>2, <2>3, Zenon
    <2> QED BY <2>1, <2>4, Zenon
  <1> HIDE DEF WaveRec
  <1>1. ASSUME NEW n \in WlNodes, WlTick(n)
        PROVE  /\ wlNode' \in [WlNodes -> NodeRec] /\ wlTicked' \subseteq WlNodes
               /\ wlHeld' \in 0..(WlGrace + 2) /\ UNCHANGED <<wlPull, wlWave, wlBudget>>
    <2>1. Ticked(n) \in NodeRec
      BY TickProps
    <2> QED BY <1>1, <1>a, <2>1, TickStep
  <1>2. ASSUME NEW n \in WlNodes, HearWave(n)
        PROVE  /\ wlNode' \in [WlNodes -> NodeRec] /\ wlWave' \in WaveRec
               /\ UNCHANGED <<wlTicked, wlPull, wlHeld, wlBudget>>
    BY <1>2, <1>a, <1>d DEF HearWave, WaveRec
  <1>3. ASSUME NEW n \in WlNodes, ClearAlone(n)
        PROVE  /\ wlNode' \in [WlNodes -> NodeRec] /\ wlBudget' \in BudgetRec
               /\ UNCHANGED <<wlTicked, wlPull, wlHeld, wlWave>>
    BY <1>3, <1>a, <1>d DEF ClearAlone
  <1>4. ASSUME NEW n \in WlNodes, NodeResets(n)
        PROVE  /\ wlNode' \in [WlNodes -> NodeRec] /\ wlBudget' \in BudgetRec
               /\ wlWave' \in WaveRec /\ wlHeld' = 0 /\ UNCHANGED <<wlTicked, wlPull>>
    <2>1. Booted(wlNode[n].latch) \in NodeRec
      BY <1>a DEF NodeRec, Booted, BeginGrace
    <2> QED BY <1>4, <1>a, <1>b, <2>1 DEF NodeResets
  <1>5. CASE Round
    <2>1. wlWave' \in WaveRec
      <3>1. CASE wlWave.on /\ wlWave.age < Skew
        BY <1>5, <3>1, <1>a DEF Round, WaveRec
      <3>2. CASE ~(wlWave.on /\ wlWave.age < Skew)
        BY <1>5, <3>2, <1>a DEF Round
      <3> QED BY <3>1, <3>2
    <2>2. wlHeld' \in 0..(WlGrace + 2)
      BY <1>5, <1>a DEF Round
    <2> QED BY <1>5, <1>a, <2>1, <2>2 DEF Round
  <1>6. CASE StartWave
    BY <1>6, <1>a, <1>b DEF StartWave
  <1>7. CASE DevicePulls
    BY <1>7, <1>a, <1>b DEF DevicePulls
  <1>8. CASE DeviceLetsGo
    BY <1>8, <1>a DEF DeviceLetsGo
  <1>9. CASE UNCHANGED wlVars
    BY <1>9, <1>a DEF wlVars
  <1> HIDE DEF BudgetRec
  <1> QED BY <1>a, <1>1, <1>2, <1>3, <1>4, <1>5, <1>6, <1>7, <1>8, <1>9 DEF WlNext

(* A node that has heard the wave stays unlatched in its tick.             *)
LEMMA ClearedTick ==
    ASSUME WlInv, NEW n \in WlNodes, n \notin wlTicked, NEW e \in Nat, WaveAt(e),
           ~wlPull, n \in wlWave.heard
    PROVE  ~Ticked(n).latch /\ Ticked(n).grace >= WlGrace - e - 1
  <1> USE WlConsts
  <1>1. wlNode[n].grace \in 0..WlGrace
    BY DEF WlInv, WlType, NodeRec
  <1>2. CASE wlNode[n].req
    BY <1>2, TickProps DEF WlInv
  <1>3. CASE ~wlNode[n].req
    <2>1. ~wlNode[n].latch /\ wlNode[n].grace >= WlGrace - e
      BY <1>3 DEF WaveAt, WlLate
    <2>2. CASE wlNode[n].grace > 0
      BY <1>1, <1>3, <2>1, <2>2, TickProps DEF WlInv
    <2>3. CASE wlNode[n].grace = 0
      <3>1. e >= WlGrace /\ e > Skew + 1 /\ e - Skew - 2 \in Int
        BY <2>1, <2>3
      <3>2. \A m \in WlNodes : ~wlNode[m].drive
        BY <3>1 DEF WaveAt, WlInv, NodePart
      <3>3. LineLevel = 1
        BY <3>2 DEF LineLevel
      <3>4. Newest(n, e - Skew - 2, 1)
        <4>1. Newest(n, e - Skew - 2 + WlLate(n), 1)
          BY <3>1 DEF WaveAt
        <4>2. e - Skew - 2 + WlLate(n) = e - Skew - 2
          BY <3>1 DEF WlLate
        <4> QED BY <4>1, <4>2
      <3>5. \A i \in 1..Depth : i > Depth - (e - Skew - 2 + 1) => Ticked(n).sr[i] = 1
        BY <3>1, <3>3, <3>4, NewestShift DEF WlInv
      <3>6. \A i \in 1..Depth : Ticked(n).sr[i] = 1
        BY <3>1, <3>5
      <3>7. Ticked(n).deb = 1
        BY <3>6, TickProps DEF WlInv
      <3>8. ~Ticked(n).latch
        BY <1>3, <2>1, <3>7, TickProps DEF WlInv
      <3>9. Ticked(n).grace = 0
        BY <1>3, <2>3, TickProps DEF WlInv
      <3> QED BY <3>1, <3>8, <3>9
    <2> QED BY <1>1, <2>2, <2>3
  <1> QED BY <1>2, <1>3

-----------------------------------------------------------------------------
(* The tick of a node.                                                     *)
LEMMA TickKeeps == ASSUME WlInv, NEW n \in WlNodes, WlTick(n) PROVE (NodePart /\ WavePart /\ HeldPart)'
  <1> USE WlConsts
  <1> DEFINE t == Ticked(n)
  <1>a. WlType /\ NodePart /\ WavePart /\ HeldPart
    BY DEF WlInv
  <1>b. /\ n \notin wlTicked /\ wlTicked' = wlTicked \cup {n}
        /\ wlNode' = [wlNode EXCEPT ![n] = t]
        /\ wlHeld' = IF wlNode[n].req THEN 0 ELSE wlHeld
        /\ wlPull' = wlPull /\ wlWave' = wlWave
    BY <1>a, TickStep
  <1>c. /\ t \in NodeRec /\ t.drive = t.latch /\ ~t.req
        /\ \A v \in {0, 1} : (\A i \in 1..Depth : t.sr[i] = v) => t.deb = v
    BY <1>a, TickProps
  <1>d. wlNode'[n] = t /\ \A m \in WlNodes \ {n} : wlNode'[m] = wlNode[m]
    BY <1>a, <1>b DEF WlType
  <1>e. WlLate(n) = 0 /\ WlLate(n)' = 1 /\ \A m \in WlNodes \ {n} : WlLate(m)' = WlLate(m)
    BY <1>b DEF WlLate
  <1>f. wlHeld \in Nat /\ wlWave.heard \subseteq WlNodes
    BY <1>a DEF WlType
  <1> HIDE DEF t
  <1>1. NodePart'
    <2> SUFFICES ASSUME NEW m \in WlNodes
                 PROVE  /\ wlNode'[m].drive => wlNode'[m].latch
                        /\ \A v \in {0, 1} : Newest(m, Depth, v)' => wlNode'[m].deb = v
      BY DEF NodePart
    <2>1. CASE m = n
      <3>1. ASSUME NEW v \in {0, 1}, Newest(m, Depth, v)' PROVE \A i \in 1..Depth : t.sr[i] = v
        BY <2>1, <3>1, <1>d DEF Newest
      <3> QED BY <2>1, <3>1, <1>c, <1>d
    <2>2. CASE m # n
      BY <2>2, <1>a, <1>d DEF NodePart, Newest
    <2> QED BY <2>1, <2>2
  <1>2. WavePart'
    <2> SUFFICES ASSUME wlWave.on PROVE ~wlPull /\ \E e \in Nat : WaveAt(e)'
      BY <1>b DEF WavePart
    <2>1. ~wlPull
      BY <1>a DEF WavePart
    <2>2. PICK e \in Nat : WaveAt(e)
      BY <1>a DEF WavePart
    <2>3. n \in wlWave.heard => ~t.latch /\ t.grace >= WlGrace - e - 1
      BY <1>b, <2>1, <2>2, ClearedTick DEF t
    <2>4. (wlWave'.age < Skew => e = wlWave'.age) /\ (wlWave'.age = Skew => e >= Skew)
      BY <1>b, <2>2 DEF WaveAt
    <2>5. e > Skew => /\ wlWave'.heard = WlNodes
                      /\ \A m \in WlNodes : wlNode'[m].latch => wlNode'[m].req /\ m \notin wlTicked'
      <3> SUFFICES ASSUME e > Skew, NEW m \in WlNodes, wlNode'[m].latch
                   PROVE  wlNode'[m].req /\ m \notin wlTicked'
        BY <1>b, <2>2 DEF WaveAt
      <3>1. wlWave.heard = WlNodes /\ (wlNode[m].latch => wlNode[m].req /\ m \notin wlTicked)
        BY <2>2 DEF WaveAt
      <3>2. m # n
        BY <1>d, <2>3, <3>1
      <3> QED BY <1>b, <1>d, <3>1, <3>2
    <2>6. ASSUME e > Skew + 1, NEW m \in WlNodes
          PROVE  ~wlNode'[m].latch /\ Newest(m, e - Skew - 2 + WlLate(m), 1)'
      <3>1. wlWave.heard = WlNodes
        BY <2>2, <2>6 DEF WaveAt
      <3>2. \A kk \in WlNodes : ~wlNode[kk].latch /\ Newest(kk, e - Skew - 2 + WlLate(kk), 1)
        BY <2>2, <2>6 DEF WaveAt
      <3>3. CASE m # n
        BY <3>2, <3>3, <1>d, <1>e DEF Newest
      <3>4. CASE m = n
        <4>1. LineLevel = 1
          BY <1>a, <2>1, <3>2 DEF NodePart, LineLevel
        <4>2. Newest(n, e - Skew - 2, 1)
          <5>1. e - Skew - 2 + WlLate(n) = e - Skew - 2
            BY <1>e
          <5> QED BY <3>2, <5>1
        <4>3. \A i \in 1..Depth : i > Depth - (e - Skew - 2 + 1) => t.sr[i] = 1
          BY <1>a, <4>1, <4>2, NewestShift DEF t
        <4>4. Newest(n, e - Skew - 2 + WlLate(n), 1)'
          BY <1>d, <1>e, <4>3 DEF Newest
        <4> QED BY <1>d, <2>3, <3>1, <3>4, <4>4
      <3> QED BY <3>3, <3>4
    <2>7. ASSUME NEW m \in wlWave.heard, ~wlNode'[m].req
          PROVE  ~wlNode'[m].latch /\ wlNode'[m].grace >= WlGrace - e - WlLate(m)'
      <3>1. CASE m = n
        BY <3>1, <1>d, <1>e, <2>3
      <3>2. CASE m # n
        BY <3>2, <1>d, <1>e, <1>f, <2>2, <2>7 DEF WaveAt
      <3> QED BY <3>1, <3>2
    <2>8. WaveAt(e)'
      BY <1>b, <2>4, <2>5, <2>6, <2>7 DEF WaveAt
    <2> QED BY <2>1, <2>8
  <1>3. HeldPart'
    <2> SUFFICES ASSUME wlHeld' >= 1
                 PROVE  /\ \E m \in WlNodes : /\ wlNode'[m].latch
                                              /\ m \in wlTicked' \/ wlHeld' >= 2 => wlNode'[m].drive
                        /\ \A m \in WlNodes :
                              /\ wlNode'[m].grace = 0 \/ wlNode'[m].grace + wlHeld' + WlLate(m)' <= WlGrace + 1
                              /\ wlHeld' >= 2 => Newest(m, wlHeld - 2 + WlLate(m), 0)'
                              /\ wlHeld' >= WlGrace + 2 \/ (wlHeld' = WlGrace + 1 /\ m \in wlTicked')
                                    => wlNode'[m].latch /\ wlNode'[m].drive
      BY DEF HeldPart
    <2>1. ~wlNode[n].req /\ wlHeld' = wlHeld
      BY <1>b
    <2>2. \A m \in WlNodes :
              /\ wlNode[m].grace = 0 \/ wlNode[m].grace + wlHeld + WlLate(m) <= WlGrace + 1
              /\ wlHeld >= 2 => Newest(m, wlHeld - 2 + WlLate(m), 0)
              /\ wlHeld >= WlGrace + 2 \/ (wlHeld = WlGrace + 1 /\ m \in wlTicked)
                    => wlNode[m].latch /\ wlNode[m].drive
      BY <1>a, <2>1 DEF HeldPart
    <2>3. PICK w \in WlNodes : wlNode[w].latch /\ (w \in wlTicked \/ wlHeld >= 2 => wlNode[w].drive)
      BY <1>a, <2>1 DEF HeldPart
    <2>4. /\ wlNode[n].grace \in 0..WlGrace
          /\ wlNode[n].grace = 0 => t.grace = 0
          /\ wlNode[n].grace > 0 => t.grace = wlNode[n].grace - 1
          /\ wlNode[n].latch => t.latch
          /\ wlNode[n].grace = 0 /\ t.deb = 0 => t.latch
      BY <1>a, <2>1, TickProps DEF t, WlType, NodeRec
    <2>5. wlNode'[w].latch /\ (w \in wlTicked' \/ wlHeld' >= 2 => wlNode'[w].drive)
      <3>1. CASE w = n
        BY <3>1, <1>c, <1>d, <2>3, <2>4
      <3>2. CASE w # n
        BY <3>2, <1>b, <1>d, <2>1, <2>3
      <3> QED BY <3>1, <3>2
    <2>6. wlHeld >= 2 => \A i \in 1..Depth : i > Depth - (wlHeld - 1) => t.sr[i] = 0
      <3> SUFFICES ASSUME wlHeld >= 2 PROVE \A i \in 1..Depth : i > Depth - (wlHeld - 1) => t.sr[i] = 0
        OBVIOUS
      <3>1. LineLevel = 0
        BY <2>3 DEF LineLevel
      <3>2. Newest(n, wlHeld - 2, 0)
        <4>1. wlHeld - 2 + WlLate(n) = wlHeld - 2
          BY <1>e, <1>f
        <4> QED BY <2>2, <4>1
      <3>3. \A i \in 1..Depth : i > Depth - (wlHeld - 2 + 1) => t.sr[i] = 0
        BY <1>a, <1>f, <3>1, <3>2, NewestShift DEF t
      <3> QED BY <1>f, <3>3
    <2>7. t.grace = 0 \/ t.grace + wlHeld + 1 <= WlGrace + 1
      <3>1. wlNode[n].grace = 0 \/ wlNode[n].grace + wlHeld + 0 <= WlGrace + 1
        BY <1>e, <2>2
      <3> QED BY <1>f, <2>4, <3>1
    <2>8. wlHeld >= WlGrace + 1 => t.latch
      <3> SUFFICES ASSUME wlHeld >= WlGrace + 1 PROVE t.latch
        OBVIOUS
      <3>1. wlNode[n].grace = 0 \/ wlNode[n].grace + wlHeld + 0 <= WlGrace + 1
        BY <1>e, <2>2
      <3>2. wlNode[n].grace = 0
        BY <1>f, <2>4, <3>1
      <3>3. \A i \in 1..Depth : t.sr[i] = 0
        BY <1>f, <2>6
      <3> QED BY <1>c, <2>4, <3>2, <3>3
    <2>9. ASSUME NEW m \in WlNodes
          PROVE  /\ wlNode'[m].grace = 0 \/ wlNode'[m].grace + wlHeld' + WlLate(m)' <= WlGrace + 1
                 /\ wlHeld' >= 2 => Newest(m, wlHeld - 2 + WlLate(m), 0)'
                 /\ wlHeld' >= WlGrace + 2 \/ (wlHeld' = WlGrace + 1 /\ m \in wlTicked')
                       => wlNode'[m].latch /\ wlNode'[m].drive
      <3>1. CASE m # n
        BY <3>1, <1>b, <1>d, <1>e, <2>1, <2>2 DEF Newest
      <3>2. CASE m = n
        <4>1. wlHeld' >= 2 => Newest(n, wlHeld - 2 + WlLate(n), 0)'
          BY <1>d, <1>e, <1>f, <2>1, <2>6 DEF Newest
        <4>2. wlHeld' >= WlGrace + 1 => wlNode'[n].latch /\ wlNode'[n].drive
          BY <1>c, <1>d, <2>1, <2>8
        <4>3. wlNode'[n].grace = 0 \/ wlNode'[n].grace + wlHeld' + WlLate(n)' <= WlGrace + 1
          BY <1>d, <1>e, <2>1, <2>7
        <4> QED BY <1>f, <2>1, <3>2, <4>1, <4>2, <4>3
      <3> QED BY <3>1, <3>2
    <2> QED BY <2>5, <2>9
  <1> QED BY <1>1, <1>2, <1>3

(* The end of a round: e grows by one.                                     *)
LEMMA RoundKeeps == ASSUME WlInv, Round PROVE (NodePart /\ WavePart /\ HeldPart)'
  <1> USE WlConsts
  <1>a. WlType /\ NodePart /\ WavePart /\ HeldPart
    BY DEF WlInv
  <1>b. /\ wlTicked = WlNodes /\ wlTicked' = {} /\ wlNode' = wlNode /\ wlPull' = wlPull
        /\ wlWave.on /\ wlWave.age = Skew => wlWave.heard = WlNodes
        /\ wlWave' = IF wlWave.on /\ wlWave.age < Skew THEN [wlWave EXCEPT !.age = @ + 1] ELSE wlWave
        /\ wlHeld' = IF \E n \in WlNodes : wlNode[n].latch
                     THEN IF wlHeld < WlGrace + 2 THEN wlHeld + 1 ELSE wlHeld
                     ELSE 0
    BY DEF Round
  <1>c. \A n \in WlNodes : WlLate(n) = 1 /\ WlLate(n)' = 0
    BY <1>b DEF WlLate
  <1>d. /\ wlHeld \in 0..(WlGrace + 2) /\ wlWave.age \in 0..Skew /\ wlWave.heard \subseteq WlNodes
        /\ \A n \in WlNodes : wlNode[n].grace \in 0..WlGrace
    BY <1>a DEF WlType, NodeRec
  <1>e. wlWave'.on = wlWave.on /\ wlWave'.heard = wlWave.heard
        /\ (wlWave.on => wlWave'.age = IF wlWave.age < Skew THEN wlWave.age + 1 ELSE wlWave.age)
    BY <1>a, <1>b DEF WlType
  <1>1. NodePart'
    BY <1>a, <1>b DEF NodePart, Newest
  <1>2. WavePart'
    <2> SUFFICES ASSUME wlWave.on PROVE ~wlPull /\ \E e \in Nat : WaveAt(e)'
      BY <1>b, <1>e DEF WavePart
    <2>1. ~wlPull
      BY <1>a DEF WavePart
    <2>2. PICK e \in Nat : WaveAt(e)
      BY <1>a DEF WavePart
    <2>3. /\ wlWave.age < Skew => e = wlWave.age
          /\ wlWave.age = Skew => e >= Skew
      BY <2>2 DEF WaveAt
    <2>4. \A n \in wlWave.heard : ~wlNode[n].req => /\ ~wlNode[n].latch
                                                    /\ wlNode[n].grace >= WlGrace - e - 1
      BY <1>c, <1>d, <2>2 DEF WaveAt
    <2>5. (wlWave'.age < Skew => e + 1 = wlWave'.age) /\ (wlWave'.age = Skew => e + 1 >= Skew)
      BY <1>d, <1>e, <2>3
    <2>6. ASSUME e + 1 > Skew
          PROVE  /\ wlWave'.heard = WlNodes
                 /\ \A n \in WlNodes : wlNode'[n].latch => wlNode'[n].req /\ n \notin wlTicked'
      <3>1. wlWave.age = Skew
        BY <1>d, <2>3, <2>6
      <3>2. wlWave.heard = WlNodes
        BY <1>b, <3>1
      <3> QED BY <1>b, <1>e, <2>4, <3>2
    <2>7. ASSUME e + 1 > Skew + 1, NEW n \in WlNodes
          PROVE  ~wlNode'[n].latch /\ Newest(n, e + 1 - Skew - 2 + WlLate(n), 1)'
      <3>1. ~wlNode[n].latch
        BY <1>b, <2>2, <2>7 DEF WaveAt
      <3>2. CASE e = Skew + 1
        <4>1. e + 1 - Skew - 2 + WlLate(n)' = 0
          BY <1>c, <3>2
        <4> QED BY <1>b, <3>1, <4>1 DEF Newest
      <3>3. CASE e > Skew + 1
        <4>1. Newest(n, e - Skew - 2 + WlLate(n), 1)
          BY <2>2, <3>3 DEF WaveAt
        <4>2. e + 1 - Skew - 2 + WlLate(n)' = e - Skew - 2 + WlLate(n)
          BY <1>c
        <4> QED BY <1>b, <3>1, <4>1, <4>2 DEF Newest
      <3> QED BY <2>7, <3>2, <3>3
    <2>8. \A n \in wlWave'.heard : ~wlNode'[n].req =>
              /\ ~wlNode'[n].latch /\ wlNode'[n].grace >= WlGrace - (e + 1) - WlLate(n)'
      BY <1>b, <1>c, <1>d, <1>e, <2>4
    <2>9. WaveAt(e + 1)'
      BY <2>5, <2>6, <2>7, <2>8 DEF WaveAt
    <2> QED BY <2>1, <2>9
  <1>3. HeldPart'
    <2> SUFFICES ASSUME wlHeld' >= 1
                 PROVE  /\ \E m \in WlNodes : /\ wlNode[m].latch
                                              /\ m \in wlTicked' \/ wlHeld' >= 2 => wlNode[m].drive
                        /\ \A n \in WlNodes :
                              /\ wlNode[n].grace = 0 \/ wlNode[n].grace + wlHeld' + WlLate(n)' <= WlGrace + 1
                              /\ wlHeld' >= 2 => Newest(n, wlHeld - 2 + WlLate(n), 0)'
                              /\ wlHeld' >= WlGrace + 2 \/ (wlHeld' = WlGrace + 1 /\ n \in wlTicked')
                                    => wlNode[n].latch /\ wlNode[n].drive
      BY <1>b DEF HeldPart
    <2>1. /\ \E n \in WlNodes : wlNode[n].latch
          /\ wlHeld' = IF wlHeld < WlGrace + 2 THEN wlHeld + 1 ELSE wlHeld
      BY <1>b
    <2>2. CASE wlHeld = 0
      <3>1. wlHeld' = 1
        BY <2>1, <2>2
      <3> QED BY <1>b, <1>c, <1>d, <2>1, <3>1
    <2>3. CASE wlHeld >= 1
      <3>1. \A n \in WlNodes :
              /\ wlNode[n].grace = 0 \/ wlNode[n].grace + wlHeld + 1 <= WlGrace + 1
              /\ wlHeld >= 2 => Newest(n, wlHeld - 2 + 1, 0)
              /\ wlHeld >= WlGrace + 1 => wlNode[n].latch /\ wlNode[n].drive
        BY <1>a, <1>b, <1>c, <1>d, <2>3 DEF HeldPart
      <3>2. \E m \in WlNodes : wlNode[m].latch /\ wlNode[m].drive
        BY <1>a, <1>b, <2>3 DEF HeldPart
      <3>3. ASSUME NEW n \in WlNodes
            PROVE  wlNode[n].grace = 0 \/ wlNode[n].grace + wlHeld' + WlLate(n)' <= WlGrace + 1
        BY <1>c, <1>d, <2>1, <3>1
      <3>4. ASSUME NEW n \in WlNodes PROVE Newest(n, wlHeld - 2 + WlLate(n), 0)'
        <4>1. CASE wlHeld = 1
          <5>1. wlHeld' - 2 + WlLate(n)' = 0
            BY <1>c, <2>1, <4>1
          <5> QED BY <5>1 DEF Newest
        <4>2. CASE wlHeld >= 2
          <5>1. Newest(n, wlHeld - 2 + 1, 0)
            BY <3>1, <4>2
          <5>2. wlHeld' - 2 + WlLate(n)' <= wlHeld - 2 + 1
            BY <1>c, <1>d, <2>1
          <5>3. wlHeld' - 2 + WlLate(n)' \in Int
            BY <1>c, <1>d, <2>1
          <5> QED BY <1>b, <1>d, <5>1, <5>2, <5>3 DEF Newest
        <4> QED BY <1>d, <2>3, <4>1, <4>2
      <3>5. wlHeld' >= WlGrace + 2 => wlHeld >= WlGrace + 1
        BY <1>d, <2>1
      <3> QED BY <1>b, <1>d, <2>1, <3>1, <3>2, <3>3, <3>4, <3>5
    <2> QED BY <1>d, <2>2, <2>3
  <1> QED BY <1>1, <1>2, <1>3

(* A clear request at node n, part of the wave or not.                     *)
LEMMA RequestKeeps ==
    ASSUME WlInv, NEW n \in WlNodes, HearWave(n) \/ ClearAlone(n)
    PROVE  (NodePart /\ WavePart /\ HeldPart)'
  <1> USE WlConsts
  <1>a. WlType /\ NodePart /\ WavePart /\ HeldPart
    BY DEF WlInv
  <1>b. /\ wlNode' = [wlNode EXCEPT ![n].req = TRUE]
        /\ UNCHANGED <<wlTicked, wlPull, wlHeld>>
        /\ \/ wlWave' = wlWave
           \/ wlWave.on /\ n \notin wlWave.heard /\ wlWave' = [wlWave EXCEPT !.heard = @ \cup {n}]
    BY DEF HearWave, ClearAlone
  <1>c. /\ wlNode'[n].req
        /\ \A m \in WlNodes : /\ wlNode'[m].latch = wlNode[m].latch /\ wlNode'[m].sr = wlNode[m].sr
                              /\ wlNode'[m].deb = wlNode[m].deb /\ wlNode'[m].drive = wlNode[m].drive
                              /\ wlNode'[m].grace = wlNode[m].grace
                              /\ m # n => wlNode'[m].req = wlNode[m].req
    BY <1>a, <1>b DEF WlType, NodeRec
  <1>d. \A m : WlLate(m)' = WlLate(m)
    BY <1>b DEF WlLate
  <1>e. /\ wlWave'.on = wlWave.on /\ wlWave'.age = wlWave.age /\ wlWave.heard \subseteq WlNodes
        /\ wlWave'.heard = wlWave.heard \/ (n \notin wlWave.heard /\ wlWave'.heard = wlWave.heard \cup {n})
    BY <1>a, <1>b DEF WlType
  <1>1. NodePart'
    BY <1>a, <1>c DEF NodePart, Newest
  <1>2. WavePart'
    <2> SUFFICES ASSUME wlWave.on PROVE ~wlPull /\ \E e \in Nat : WaveAt(e)'
      BY <1>b, <1>e DEF WavePart
    <2>1. PICK e \in Nat : WaveAt(e)
      BY <1>a DEF WavePart
    <2>2. (wlWave'.age < Skew => e = wlWave'.age) /\ (wlWave'.age = Skew => e >= Skew)
      BY <1>e, <2>1 DEF WaveAt
    <2>3. e > Skew => /\ wlWave'.heard = WlNodes
                      /\ \A m \in WlNodes : wlNode'[m].latch => wlNode'[m].req /\ m \notin wlTicked'
      BY <1>b, <1>c, <1>e, <2>1 DEF WaveAt
    <2>4. ASSUME e > Skew + 1, NEW m \in WlNodes
          PROVE  ~wlNode'[m].latch /\ Newest(m, e - Skew - 2 + WlLate(m), 1)'
      BY <1>c, <1>d, <2>1, <2>4 DEF WaveAt, Newest
    <2>5. ASSUME NEW m \in wlWave'.heard, ~wlNode'[m].req
          PROVE  ~wlNode'[m].latch /\ wlNode'[m].grace >= WlGrace - e - WlLate(m)'
      <3>1. m \in WlNodes /\ m # n /\ m \in wlWave.heard
        BY <1>c, <1>e, <2>5
      <3> QED BY <1>c, <1>d, <2>1, <2>5, <3>1 DEF WaveAt
    <2>6. WaveAt(e)'
      BY <2>2, <2>3, <2>4, <2>5 DEF WaveAt
    <2> QED BY <1>a, <2>6 DEF WavePart
  <1>3. HeldPart'
    BY <1>a, <1>b, <1>c, <1>d DEF HeldPart, Newest
  <1> QED BY <1>1, <1>2, <1>3

(* A reset starts the node over, and with it the wave and the history.     *)
LEMMA ResetKeeps == ASSUME WlInv, NEW n \in WlNodes, NodeResets(n) PROVE (NodePart /\ WavePart /\ HeldPart)'
  <1> USE WlConsts
  <1>a. WlType /\ NodePart
    BY DEF WlInv
  <1>b. wlNode' = [wlNode EXCEPT ![n] = Booted(wlNode[n].latch)] /\ wlWave' = WaveOff /\ wlHeld' = 0
    BY DEF NodeResets
  <1>c. wlNode'[n] = Booted(wlNode[n].latch) /\ \A m \in WlNodes \ {n} : wlNode'[m] = wlNode[m]
    BY <1>a, <1>b DEF WlType
  <1>1. NodePart'
    <2> SUFFICES ASSUME NEW m \in WlNodes
                 PROVE  /\ wlNode'[m].drive => wlNode'[m].latch
                        /\ \A v \in {0, 1} : Newest(m, Depth, v)' => wlNode'[m].deb = v
      BY DEF NodePart
    <2>1. CASE m = n
      <3>1. ~wlNode'[m].drive /\ wlNode'[m].deb = 0 /\ wlNode'[m].sr[1] = 0
        BY <1>c, <2>1 DEF Booted
      <3>2. ~Newest(m, Depth, 1)'
        BY <3>1 DEF Newest
      <3> QED BY <3>1, <3>2
    <2>2. CASE m # n
      BY <2>2, <1>a, <1>c DEF NodePart, Newest
    <2> QED BY <2>1, <2>2
  <1> QED BY <1>1, <1>b DEF WavePart, HeldPart, WaveOff

LEMMA StartKeeps == ASSUME WlInv, StartWave PROVE (NodePart /\ WavePart /\ HeldPart)'
  <1> USE WlConsts
  <1>1. /\ wlNode' = wlNode /\ wlTicked' = wlTicked /\ wlHeld' = wlHeld /\ ~wlPull'
        /\ wlWave'.on /\ wlWave'.age = 0 /\ wlWave'.heard = {}
    BY DEF StartWave, WaveOff
  <1>2. WaveAt(0)'
    BY <1>1 DEF WaveAt
  <1>3. NodePart' /\ HeldPart'
    BY <1>1 DEF WlInv, NodePart, HeldPart, Newest, WlLate
  <1> QED BY <1>1, <1>2, <1>3 DEF WavePart

LEMMA DeviceKeeps ==
    ASSUME WlInv, DevicePulls \/ DeviceLetsGo PROVE (NodePart /\ WavePart /\ HeldPart)'
  <1>1. /\ wlNode' = wlNode /\ wlTicked' = wlTicked /\ wlHeld' = wlHeld
        /\ wlWave' = WaveOff \/ (wlPull /\ wlWave' = wlWave)
    BY DEF DevicePulls, DeviceLetsGo
  <1>2. ~wlWave'.on
    BY <1>1 DEF WaveOff, WlInv, WavePart
  <1>3. NodePart' /\ HeldPart'
    BY <1>1 DEF WlInv, NodePart, HeldPart, Newest, WlLate
  <1> QED BY <1>2, <1>3 DEF WavePart

LEMMA WlInitInv == WlInit => WlInv
  <1> USE WlConsts
  <1> SUFFICES ASSUME WlInit PROVE WlInv
    OBVIOUS
  <1>1. wlNode \in [WlNodes -> NodeRec]
    <2>1. \A l \in BOOLEAN : Booted(l) \in NodeRec
      BY DEF Booted, BeginGrace, NodeRec
    <2> QED BY <2>1 DEF WlInit
  <1>2. wlWave \in [on : BOOLEAN, age : 0..Skew, heard : SUBSET WlNodes]
    <2>1. wlWave = [on |-> FALSE, age |-> 0, heard |-> {}]
      BY DEF WlInit, WaveOff
    <2> QED BY <2>1
  <1>3. WlType
    <2>1. wlBudget \in [pulls : Nat, waves : Nat, alone : Nat, resets : Nat]
      BY WiredLineAssumption DEF WlInit
    <2>2. wlTicked = {} /\ wlPull = FALSE /\ wlHeld = 0
      BY DEF WlInit
    <2>3. wlTicked \subseteq WlNodes /\ wlPull \in BOOLEAN /\ wlHeld \in 0..(WlGrace + 2)
      <3>1. 0 \in 0..(WlGrace + 2)
        OBVIOUS
      <3> QED BY <2>2, <3>1, Zenon
    <2> QED BY <1>1, <1>2, <2>1, <2>3, Zenon DEF WlType
  <1>4. NodePart
    <2> SUFFICES ASSUME NEW m \in WlNodes
                 PROVE  /\ wlNode[m].drive => wlNode[m].latch
                        /\ \A v \in {0, 1} : Newest(m, Depth, v) => wlNode[m].deb = v
      BY DEF NodePart
    <2>1. ~wlNode[m].drive /\ wlNode[m].deb = 0 /\ wlNode[m].sr[1] = 0
      BY DEF WlInit, Booted
    <2>2. ~Newest(m, Depth, 1)
      BY <2>1 DEF Newest
    <2> QED BY <2>1, <2>2
  <1> QED BY <1>3, <1>4 DEF WlInv, WlInit, WavePart, HeldPart, WaveOff

LEMMA WlNextInv == WlInv /\ [WlNext]_wlVars => WlInv'
  <1> SUFFICES ASSUME WlInv, [WlNext]_wlVars PROVE WlInv'
    OBVIOUS
  <1>1. WlType'
    BY TypeKept DEF WlInv
  <1>2. CASE UNCHANGED wlVars
    BY <1>2 DEF wlVars, WlInv, WlType, NodePart, WavePart, HeldPart, WaveAt, Newest, WlLate
  <1>3. CASE WlNext
    BY <1>1, <1>3, TickKeeps, RoundKeeps, RequestKeeps, ResetKeeps, StartKeeps, DeviceKeeps
    DEF WlNext, WlInv
  <1> QED BY <1>2, <1>3

LEMMA WlInvHolds == WlSpec => []WlInv
  BY WlInitInv, WlNextInv, PTL DEF WlSpec

(* A clear of the whole chain that no device and no reset disturbs holds   *)
(* at every node that has served it, for any number of nodes, as long as   *)
(* the grace of interlock_begin_grace covers the skew of the clear, the    *)
(* debounce and one round more.                                            *)
THEOREM ClearSafety == WlSpec => []ClearHolds
  <1>1. WlInv => ClearHolds
    BY DEF WlInv, WavePart, WaveAt, ClearHolds
  <1> QED BY <1>1, WlInvHolds, PTL

(* A trip that stays is everybody's after the grace and two rounds, for    *)
(* any number of nodes: interlock_tick_all of each has sensed the veto of  *)
(* the others and pulls the line itself.                                   *)
THEOREM TripSpreads == WlSpec => []OneTripsAll
  <1>1. WlInv => OneTripsAll
    BY WlConsts DEF WlInv, WlType, HeldPart, OneTripsAll
  <1> QED BY <1>1, WlInvHolds, PTL


(* Both together, for every node of the chain: the line carries a trip to  *)
(* all of them and lets a clear of all of them stand (interlock_tick_all,  *)
(* interlock_begin_grace).                                                 *)
THEOREM ChainSafety == WlSpec => []ChainSound
  BY ClearSafety, TripSpreads, PTL DEF ChainSound
=============================================================================
