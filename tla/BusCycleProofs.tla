--------------------------- MODULE BusCycleProofs ---------------------------
(***************************************************************************)
(* Proofs about BusCycle, for any pool, any addresses, any roster (also    *)
(* one longer than the table) and any number of messages, flaps, roster    *)
(* commands and re-attachments.                                            *)
(*                                                                         *)
(* Everything rests on IInv: types, where each buffer is, and what the     *)
(* private lists hold at each control point.  The buffers move by two      *)
(* lemmas on families of lists, MoveOne and HandOver.  On top of it come   *)
(* the owner of each list (delivery), the shadow against what the host was *)
(* told, the table against the roster, and the two miss counters.          *)
(***************************************************************************)
EXTENDS BusCycle, FiniteSetTheorems, TLAPS

LEMMA PushProps ==
    ASSUME NEW S, NEW s \in Seq(S), NEW b \in S
    PROVE  /\ Push(b, s) \in Seq(S)
           /\ Len(Push(b, s)) = Len(s) + 1
           /\ Push(b, s)[1] = b
           /\ \A i \in 1..Len(s) : Push(b, s)[i + 1] = s[i]
  BY DEF Push

LEMMA TailProps ==
    ASSUME NEW S, NEW s \in Seq(S), s # << >>
    PROVE  /\ Tail(s) \in Seq(S)
           /\ Len(s) \in Nat \ {0}
           /\ Len(Tail(s)) = Len(s) - 1
           /\ Head(s) \in S /\ Head(s) = s[1]
           /\ \A i \in 1..(Len(s) - 1) : Tail(s)[i] = s[i + 1]
  OBVIOUS

LEMMA SeqElt ==
    ASSUME NEW S, NEW s \in Seq(S)
    PROVE  Len(s) \in Nat /\ DOMAIN s = 1..Len(s) /\ \A i \in 1..Len(s) : s[i] \in S
  OBVIOUS

LEMMA HeadsDistinct ==
    /\ Free # Drain
    /\ \A p \in Producers : Hold(p) # Free /\ Hold(p) # Drain
    /\ \A p, q \in Producers : Hold(p) = Hold(q) => p = q
    /\ \A i \in Slots, k \in {0, 1} : /\ List(i, k) # Free /\ List(i, k) # Drain
                                      /\ Orphan(i, k) # Free /\ Orphan(i, k) # Drain
    /\ \A p \in Producers, i \in Slots, k \in {0, 1} :
           List(i, k) # Hold(p) /\ Orphan(i, k) # Hold(p)
    /\ \A i, j \in Slots, k, l \in {0, 1} :
           /\ List(i, k) # Orphan(j, l)
           /\ List(i, k) = List(j, l) => i = j /\ k = l
           /\ Orphan(i, k) = Orphan(j, l) => i = j /\ k = l
  BY DEF Free, Drain, Hold, List, Orphan, Producers

-----------------------------------------------------------------------------
(* Conservation as a predicate of a family of lists.                       *)
Lists == [Heads -> Seq(Bufs)]
Covers(c) == \A b \in Bufs : \E h \in Heads : \E i \in 1..Len(c[h]) : c[h][i] = b
Disjoint(c) == \A h, g \in Heads : \A i \in 1..Len(c[h]), j \in 1..Len(c[g]) :
                   c[h][i] = c[g][j] => h = g /\ i = j

(* d is c with the head buffer of x moved to the head of y.                *)
Moved(c, d, x, y) ==
    /\ x \in Heads /\ y \in Heads /\ x # y
    /\ c[x] # << >>
    /\ d[x] = Tail(c[x])
    /\ Len(d[y]) = Len(c[y]) + 1
    /\ d[y][1] = Head(c[x])
    /\ \A i \in 1..Len(c[y]) : d[y][i + 1] = c[y][i]
    /\ \A h \in Heads \ {x, y} : d[h] = c[h]

(* Moving one buffer from the head of a list to the head of another loses  *)
(* none and duplicates none.                                               *)
LEMMA MoveOne ==
    ASSUME NEW c \in Lists, NEW d \in Lists, NEW x, NEW y, Moved(c, d, x, y),
           Covers(c), Disjoint(c)
    PROVE  Covers(d) /\ Disjoint(d)
  <1>0. /\ x \in Heads /\ y \in Heads /\ x # y
        /\ c[x] \in Seq(Bufs) /\ c[x] # << >> /\ c[y] \in Seq(Bufs)
    BY DEF Moved, Lists
  <1>1. /\ Len(c[x]) \in Nat \ {0} /\ Len(d[x]) = Len(c[x]) - 1
        /\ d[y][1] = c[x][1] /\ Len(c[y]) \in Nat /\ Len(d[y]) = Len(c[y]) + 1
        /\ \A i \in 1..Len(d[x]) : d[x][i] = c[x][i + 1]
    BY <1>0, TailProps DEF Moved
  <1>2. \A h \in Heads : Len(c[h]) \in Nat /\ Len(d[h]) \in Nat
    BY DEF Lists
  <1>3. Covers(d)
    <2> SUFFICES ASSUME NEW b \in Bufs
                 PROVE  \E h \in Heads : \E i \in 1..Len(d[h]) : d[h][i] = b
      BY DEF Covers
    <2>0. PICK h \in Heads : \E i \in 1..Len(c[h]) : c[h][i] = b
      BY DEF Covers
    <2>1. PICK i \in 1..Len(c[h]) : c[h][i] = b
      BY <2>0
    <2>2. CASE h = x /\ i = 1
      BY <2>1, <2>2, <1>0, <1>1
    <2>3. CASE h = x /\ i # 1
      <3>1. i - 1 \in 1..Len(d[x]) /\ d[x][i - 1] = b
        BY <2>1, <2>3, <1>1
      <3> QED BY <3>1, <1>0
    <2>4. CASE h = y
      <3>1. i + 1 \in 1..Len(d[y]) /\ d[y][i + 1] = b
        BY <2>1, <2>4, <1>1 DEF Moved
      <3> QED BY <3>1, <1>0
    <2>5. CASE h # x /\ h # y
      BY <2>1, <2>5 DEF Moved
    <2> QED BY <2>2, <2>3, <2>4, <2>5
  <1>4. Disjoint(d)
    (* every position of d comes from one position of c, injectively *)
    <2> DEFINE Src(h, i) == IF h = x THEN <<x, i + 1>>
                            ELSE IF h = y THEN (IF i = 1 THEN <<x, 1>> ELSE <<y, i - 1>>)
                            ELSE <<h, i>>
    <2>1. \A h \in Heads : \A i \in 1..Len(d[h]) :
            /\ Src(h, i)[1] \in Heads
            /\ Src(h, i)[2] \in 1..Len(c[Src(h, i)[1]])
            /\ d[h][i] = c[Src(h, i)[1]][Src(h, i)[2]]
      <3> SUFFICES ASSUME NEW h \in Heads, NEW i \in 1..Len(d[h])
                   PROVE  /\ Src(h, i)[1] \in Heads
                          /\ Src(h, i)[2] \in 1..Len(c[Src(h, i)[1]])
                          /\ d[h][i] = c[Src(h, i)[1]][Src(h, i)[2]]
        OBVIOUS
      <3>1. CASE h = x
        BY <3>1, <1>0, <1>1
      <3>2. CASE h = y /\ i = 1
        BY <3>2, <1>0, <1>1
      <3>3. CASE h = y /\ i # 1
        <4>0. i \in 1..(Len(c[y]) + 1) /\ i # 1 /\ Len(c[y]) \in Nat
          BY <3>3, <1>1
        <4>1. i - 1 \in 1..Len(c[y]) /\ (i - 1) + 1 = i
          BY ONLY <4>0
        <4>2. d[y][i] = c[y][i - 1]
          <5>1. \A k \in 1..Len(c[y]) : d[y][k + 1] = c[y][k]
            BY DEF Moved
          <5> QED BY <5>1, <4>1
        <4> QED BY <4>1, <4>2, <3>3, <1>0
      <3>4. CASE h # x /\ h # y
        BY <3>4 DEF Moved
      <3> QED BY <3>1, <3>2, <3>3, <3>4
    <2>2. \A h, g \in Heads : \A i \in 1..Len(d[h]), j \in 1..Len(d[g]) :
            Src(h, i)[1] = Src(g, j)[1] /\ Src(h, i)[2] = Src(g, j)[2] => h = g /\ i = j
      BY <1>0, <1>1, <1>2
    <2> HIDE DEF Src
    <2> SUFFICES ASSUME NEW h \in Heads, NEW g \in Heads,
                        NEW i \in 1..Len(d[h]), NEW j \in 1..Len(d[g]), d[h][i] = d[g][j]
                 PROVE  h = g /\ i = j
      BY DEF Disjoint
    <2>3. c[Src(h, i)[1]][Src(h, i)[2]] = c[Src(g, j)[1]][Src(g, j)[2]]
      BY <2>1
    <2>4. Src(h, i)[1] = Src(g, j)[1] /\ Src(h, i)[2] = Src(g, j)[2]
      <3>1. PICK s, t, u, v : s = Src(h, i)[1] /\ t = Src(g, j)[1] /\ u = Src(h, i)[2] /\ v = Src(g, j)[2]
        OBVIOUS
      <3>2. s \in Heads /\ t \in Heads /\ u \in 1..Len(c[s]) /\ v \in 1..Len(c[t]) /\ c[s][u] = c[t][v]
        BY <2>1, <2>3, <3>1
      <3>3. s = t /\ u = v
        BY ONLY <3>2, Disjoint(c) DEF Disjoint
      <3> QED BY <3>1, <3>3, Zenon
    <2> QED BY <2>2, <2>4
  <1> QED BY <1>3, <1>4

(* d is c with the lists of the heads in X handed over to the empty lists  *)
(* m[x] of as many other heads.                                            *)
HandedOver(c, d, X, m) ==
    /\ X \subseteq Heads
    /\ \A x \in X : /\ m[x] \in Heads \ X /\ c[m[x]] = << >>
                     /\ d[m[x]] = c[x] /\ d[x] = << >>
    /\ \A x, z \in X : m[x] = m[z] => x = z
    /\ \A h \in Heads \ X : (\A x \in X : h # m[x]) => d[h] = c[h]

(* Handing whole lists over loses and duplicates nothing either.           *)
LEMMA HandOver ==
    ASSUME NEW c \in Lists, NEW d \in Lists, NEW X, NEW m, HandedOver(c, d, X, m),
           Covers(c), Disjoint(c)
    PROVE  Covers(d) /\ Disjoint(d)
  <1>1. \A h \in Heads : Len(c[h]) \in Nat /\ Len(d[h]) \in Nat
    BY DEF Lists
  <1>2. Covers(d)
    <2> SUFFICES ASSUME NEW b \in Bufs
                 PROVE  \E h \in Heads : \E i \in 1..Len(d[h]) : d[h][i] = b
      BY DEF Covers
    <2>0. PICK h \in Heads : \E i \in 1..Len(c[h]) : c[h][i] = b
      BY DEF Covers
    <2>1. PICK i \in 1..Len(c[h]) : c[h][i] = b
      BY <2>0
    <2>2. CASE h \in X
      BY <2>1, <2>2 DEF HandedOver
    <2>3. CASE h \notin X /\ \E x \in X : h = m[x]
      BY <2>1, <2>3 DEF HandedOver
    <2>4. CASE h \notin X /\ \A x \in X : h # m[x]
      BY <2>1, <2>4 DEF HandedOver
    <2> QED BY <2>2, <2>3, <2>4
  <1>3. ASSUME NEW h \in Heads, NEW i \in 1..Len(d[h])
        PROVE  /\ h \notin X
               /\ \/ \E x \in X : h = m[x] /\ i \in 1..Len(c[x]) /\ d[h][i] = c[x][i]
                  \/ /\ \A x \in X : h # m[x]
                     /\ i \in 1..Len(c[h]) /\ d[h][i] = c[h][i]
    BY <1>1, <1>3 DEF HandedOver
  <1>4. Disjoint(d)
    <2> SUFFICES ASSUME NEW h \in Heads, NEW g \in Heads,
                        NEW i \in 1..Len(d[h]), NEW j \in 1..Len(d[g]), d[h][i] = d[g][j]
                 PROVE  h = g /\ i = j
      BY DEF Disjoint
    <2>1. X \subseteq Heads
      BY DEF HandedOver
    <2>2. \A x, z \in X : m[x] = m[z] => x = z
      BY DEF HandedOver
    <2>a. ASSUME NEW k \in Heads, NEW l \in 1..Len(d[k])
          PROVE  \E s \in Heads : /\ l \in 1..Len(c[s]) /\ d[k][l] = c[s][l]
                                  /\ \/ s \in X /\ k = m[s]
                                     \/ s = k /\ k \notin X
      <3>1. CASE \E x \in X : k = m[x] /\ l \in 1..Len(c[x]) /\ d[k][l] = c[x][l]
        BY <3>1, <2>1, Zenon
      <3>2. CASE l \in 1..Len(c[k]) /\ d[k][l] = c[k][l]
        BY <3>2, <1>3, <2>a, Zenon
      <3> QED BY <1>3, <2>a, <3>1, <3>2, Zenon
    <2>3. PICK s \in Heads : /\ i \in 1..Len(c[s]) /\ d[h][i] = c[s][i]
                             /\ \/ s \in X /\ h = m[s]
                                \/ s = h /\ h \notin X
      BY <2>a, Zenon
    <2>4. PICK t \in Heads : /\ j \in 1..Len(c[t]) /\ d[g][j] = c[t][j]
                             /\ \/ t \in X /\ g = m[t]
                                \/ t = g /\ g \notin X
      BY <2>a, Zenon
    <2>5. s = t /\ i = j
      <3>1. c[s][i] = c[t][j]
        BY <2>3, <2>4
      <3> QED BY ONLY <3>1, <2>3, <2>4, Disjoint(c) DEF Disjoint
    <2> QED BY <2>3, <2>4, <2>5, Zenon
  <1> QED BY <1>2, <1>4

-----------------------------------------------------------------------------
(* Types.                                                                  *)
LEMMA CommissionedType ==
    /\ Commissioned \in Seq(RosterType) /\ Len(Commissioned) \in 0..ROSTER_MAX
    /\ Len(Commissioned) \in Nat
    /\ \A i \in 1..Len(Commissioned) : Commissioned[i] \in RosterType
  <1> DEFINE n == IF Len(CfgRoster) < ROSTER_MAX THEN Len(CfgRoster) ELSE ROSTER_MAX
  <1>1. n \in 0..ROSTER_MAX /\ n <= Len(CfgRoster) /\ n \in Nat
    BY BusCycleAssumption
  <1>a. CfgRoster \in Seq([addr : Addrs, enabled : BOOLEAN])
    BY BusCycleAssumption, Zenon
  <1>b. /\ Len(CfgRoster) \in Nat
        /\ \A i \in 1..Len(CfgRoster) : CfgRoster[i] \in [addr : Addrs, enabled : BOOLEAN]
    BY <1>a, SeqElt, Zenon
  <1>3. Commissioned = [i \in 1..n |-> RosterEntry(CfgRoster[i].addr, CfgRoster[i].enabled)]
    BY DEF Commissioned
  <1> HIDE DEF n
  <1>2. \A i \in 1..n : RosterEntry(CfgRoster[i].addr, CfgRoster[i].enabled) \in RosterType
    <2> SUFFICES ASSUME NEW i \in 1..n
                 PROVE RosterEntry(CfgRoster[i].addr, CfgRoster[i].enabled) \in RosterType
      OBVIOUS
    <2>1. CfgRoster[i] \in [addr : Addrs, enabled : BOOLEAN]
      <3>1. i \in 1..Len(CfgRoster)
        BY <1>1, <1>b
      <3> QED BY <3>1, <1>b
    <2> QED BY <2>1, BusCycleAssumption DEF RosterEntry, RosterType, Liveness
  <1> QED BY <1>1, <1>2, <1>3

LEMMA TableOfType ==
    ASSUME NEW r \in Seq(RosterType), Len(r) <= ROSTER_MAX, NEW p \in SortOrder(r)
    PROVE  TableOf(r, p) \in Seq(NodeType) /\ Len(TableOf(r, p)) = Len(r)
  <1>1. Len(r) \in Nat /\ DOMAIN r = 1..Len(r)
    OBVIOUS
  <1>2. \A i \in 1..Len(r) : NodeEntry(r[p[i]]) \in NodeType
    <2> SUFFICES ASSUME NEW i \in 1..Len(r) PROVE NodeEntry(r[p[i]]) \in NodeType
      OBVIOUS
    <2>1. r[p[i]] \in RosterType
      BY <1>1 DEF SortOrder
    <2>2. 0 \in 0..MissTop
      BY BusCycleAssumption
    <2> QED BY <2>1, <2>2 DEF NodeEntry, NodeType, RosterType
  <1> QED BY <1>1, <1>2 DEF TableOf

LEMMA TypeInit == Init => BusTypes
  <1> SUFFICES ASSUME Init PROVE BusTypes
    OBVIOUS
  <1>1. PICK f \in [1..Cardinality(Bufs) -> Bufs], p \in SortOrder(Commissioned) :
          /\ chain = [h \in Heads |-> IF h = Free THEN f ELSE << >>]
          /\ nodes = TableOf(Commissioned, p)
    BY DEF Init
  <1>2. Cardinality(Bufs) \in Nat
    BY BusCycleAssumption, FS_CardinalityType
  <1>3. PoolType
    <2>1. chain \in [Heads -> Seq(Bufs)]
      BY <1>1, <1>2
    <2> QED BY <2>1, <1>2 DEF PoolType, Init, NoJob, NoAddr
  <1>4. TableType
    <2>1. nodes \in Seq(NodeType) /\ Len(nodes) = Len(Commissioned)
      BY <1>1, CommissionedType, TableOfType
    <2>2. roster = Commissioned /\ active = 1 /\ dirty = FALSE /\ ilNodesDead = 0
      BY DEF Init
    <2>3. roster \in Seq(RosterType) /\ Len(roster) <= ROSTER_MAX /\ Len(nodes) <= ROSTER_MAX
      BY <2>1, <2>2, CommissionedType, BusCycleAssumption
    <2>4. active \in {0, 1} /\ ilNodesDead \in 0..ROSTER_MAX
      BY <2>2, BusCycleAssumption
    <2> QED BY <2>1, <2>2, <2>3, <2>4, Zenon DEF TableType
  <1>5. CycType /\ UpType /\ EnvType
    BY BusCycleAssumption DEF CycType, UpType, EnvType, Init, NoAddr, Idle, Silent
  <1> QED BY <1>3, <1>4, <1>5 DEF BusTypes

-----------------------------------------------------------------------------
(* What each action that touches a list does to the family of lists.       *)

LEMMA HeadsIn ==
    /\ Free \in Heads /\ Drain \in Heads
    /\ \A p \in Producers : Hold(p) \in Heads
    /\ \A i \in Slots, k \in {0, 1} : List(i, k) \in Heads /\ Orphan(i, k) \in Heads
  BY DEF Heads

LEMMA NodeIdxInSlots ==
    ASSUME TableType
    PROVE  /\ DOMAIN nodes \subseteq Slots
           /\ \A a : NodeIdx(a) \subseteq DOMAIN nodes
           /\ active \in {0, 1} /\ 1 - active \in {0, 1}
  <1>1. Len(nodes) \in Nat /\ DOMAIN nodes = 1..Len(nodes) /\ Len(nodes) <= ROSTER_MAX
    BY SeqElt DEF TableType
  <1>2. DOMAIN nodes \subseteq Slots
    BY <1>1, BusCycleAssumption DEF Slots
  <1>3. active \in {0, 1}
    BY DEF TableType
  <1> QED BY <1>2, <1>3 DEF NodeIdx

(* A push of b onto one list, as an update of the family.                  *)
LEMMA PushMoves ==
    ASSUME NEW c \in Lists, NEW x \in Heads, NEW y \in Heads, x # y, c[x] # << >>,
           NEW d, d = [c EXCEPT ![x] = Tail(@), ![y] = Push(Head(c[x]), @)]
    PROVE  d \in Lists /\ Moved(c, d, x, y)
  <1>1. c[x] \in Seq(Bufs) /\ c[y] \in Seq(Bufs)
    BY DEF Lists
  <1>2. Tail(c[x]) \in Seq(Bufs) /\ Head(c[x]) \in Bufs
    BY <1>1, TailProps
  <1>3. /\ Push(Head(c[x]), c[y]) \in Seq(Bufs)
        /\ Len(Push(Head(c[x]), c[y])) = Len(c[y]) + 1
        /\ Push(Head(c[x]), c[y])[1] = Head(c[x])
        /\ \A i \in 1..Len(c[y]) : Push(Head(c[x]), c[y])[i + 1] = c[y][i]
    <2> DEFINE b == Head(c[x])
               v == c[y]
    <2>1. b \in Bufs /\ v \in Seq(Bufs)
      BY <1>1, <1>2
    <2> HIDE DEF b, v
    <2>2. /\ Push(b, v) \in Seq(Bufs) /\ Len(Push(b, v)) = Len(v) + 1 /\ Push(b, v)[1] = b
          /\ \A i \in 1..Len(v) : Push(b, v)[i + 1] = v[i]
      BY <2>1, PushProps
    <2> QED BY <2>2 DEF b, v
  <1> DEFINE t == Tail(c[x])
             u == Push(Head(c[x]), c[y])
  <1>4. t \in Seq(Bufs) /\ u \in Seq(Bufs)
    BY <1>2, <1>3
  <1>6. d = [c EXCEPT ![x] = t, ![y] = u]
    BY Zenon
  <1> HIDE DEF t, u
  <1>5. d[x] = t /\ d[y] = u /\ d \in Lists /\ \A h \in Heads \ {x, y} : d[h] = c[h]
    BY <1>4, <1>6 DEF Lists
  <1> QED BY <1>3, <1>5 DEF Moved, t, u

LEMMA EmptySeq == ASSUME NEW S, NEW s \in Seq(S), Len(s) = 0 PROVE s = << >>
  OBVIOUS

LEMMA OneElement ==
    ASSUME NEW S, NEW s \in Seq(S), Len(s) = 1
    PROVE  s # << >> /\ Tail(s) = << >> /\ Head(s) \in S /\ s[1] \in S
  <1>1. s # << >>
    OBVIOUS
  <1>2. Tail(s) \in Seq(S) /\ Len(Tail(s)) = 0
    BY <1>1, TailProps
  <1>3. Tail(s) = << >>
    BY <1>2, EmptySeq
  <1> QED BY <1>1, <1>3, TailProps

LEMMA PushEmpty == ASSUME NEW S, NEW b \in S PROVE Push(b, << >>) = <<b>>
  BY DEF Push

LEMMA GrabMoves ==
    ASSUME PoolType, ControlInv, NEW p \in Producers, PoolGrab(p)
    PROVE  chain' \in Lists /\ Moved(chain, chain', Free, Hold(p)) /\ chain'[Hold(p)] = <<Head(chain[Free])>>
  <1>1. chain \in Lists /\ chain[Free] # << >> /\ chain[Hold(p)] = << >>
    BY DEF PoolType, Lists, PoolGrab, ControlInv, HoldsMatch
  <1>2. Free \in Heads /\ Hold(p) \in Heads /\ Free # Hold(p)
    BY HeadsIn, HeadsDistinct
  <1>3. Head(chain[Free]) \in Bufs
    BY <1>1, <1>2, TailProps DEF Lists
  <1>4. chain' = [chain EXCEPT ![Free] = Tail(@), ![Hold(p)] = Push(Head(chain[Free]), @)]
    BY <1>1, <1>2, <1>3, PushEmpty DEF PoolGrab, Lists
  <1>5. chain'[Hold(p)] = <<Head(chain[Free])>>
    BY <1>1, <1>2 DEF PoolGrab, Lists
  <1> QED BY <1>1, <1>2, <1>4, <1>5, PushMoves

LEMMA AttachMoves ==
    ASSUME PoolType, TableType, ControlInv, NEW p \in Producers, Attach(p)
    PROVE  /\ chain' \in Lists
           /\ chain'[Hold(p)] = << >>
           /\ \E i \in NodeIdx(job[p].to) :
                /\ Moved(chain, chain', Hold(p), List(i, 1 - active))
                /\ buf' = [buf EXCEPT ![Head(chain[Hold(p)])].id = accepted + 1]
  <1>1. chain \in Lists /\ Len(chain[Hold(p)]) = 1
    BY DEF PoolType, Lists, Attach, ControlInv, HoldsMatch
  <1>2. PICK i \in NodeIdx(job[p].to) :
          /\ chain' = [chain EXCEPT ![Hold(p)] = << >>,
                                   ![List(i, 1 - active)] = Push(Head(chain[Hold(p)]), @)]
          /\ buf' = [buf EXCEPT ![Head(chain[Hold(p)])].id = accepted + 1]
    BY DEF Attach
  <1>3. /\ Hold(p) \in Heads /\ List(i, 1 - active) \in Heads
        /\ Hold(p) # List(i, 1 - active)
    BY NodeIdxInSlots, HeadsIn, HeadsDistinct
  <1>4. chain[Hold(p)] # << >> /\ Tail(chain[Hold(p)]) = << >>
    BY <1>1, <1>3, OneElement DEF Lists
  <1>5. chain' = [chain EXCEPT ![Hold(p)] = Tail(@),
                               ![List(i, 1 - active)] = Push(Head(chain[Hold(p)]), @)]
    BY <1>2, <1>4
  <1>6. chain'[Hold(p)] = << >>
    BY <1>1, <1>2, <1>3 DEF Lists
  <1> QED BY <1>1, <1>2, <1>3, <1>4, <1>5, <1>6, PushMoves

LEMMA RecoverMoves ==
    ASSUME PoolType, ControlInv, NEW p \in Producers, SendRecover(p)
    PROVE  chain' \in Lists /\ Moved(chain, chain', Hold(p), Free) /\ chain'[Hold(p)] = << >>
  <1>1. chain \in Lists /\ Len(chain[Hold(p)]) = 1
    BY DEF PoolType, Lists, SendRecover, ControlInv, HoldsMatch
  <1>2. Free \in Heads /\ Hold(p) \in Heads /\ Free # Hold(p)
    BY HeadsIn, HeadsDistinct
  <1>3. chain[Hold(p)] # << >> /\ Tail(chain[Hold(p)]) = << >>
    BY <1>1, <1>2, OneElement DEF Lists
  <1>4. chain' = [chain EXCEPT ![Hold(p)] = Tail(@), ![Free] = Push(Head(chain[Hold(p)]), @)]
    BY <1>3 DEF SendRecover
  <1>5. chain'[Hold(p)] = << >>
    BY <1>1, <1>2 DEF SendRecover, Lists
  <1> QED BY <1>1, <1>2, <1>3, <1>4, <1>5, PushMoves

LEMMA OrphanMoves ==
    ASSUME PoolType, RecoverOrphan
    PROVE  chain' \in Lists /\ \E i \in Slots, k \in {0, 1} : Moved(chain, chain', Orphan(i, k), Free)
  <1>1. chain \in Lists
    BY DEF PoolType, Lists
  <1>a. PICK h \in Orphaned :
          chain' = [chain EXCEPT ![h] = Tail(@), ![Free] = Push(Head(chain[h]), @)]
    BY DEF RecoverOrphan
  <1>b. chain[h] # << >> /\ \E i \in Slots, k \in {0, 1} : h = Orphan(i, k)
    BY DEF Orphaned
  <1>2. PICK i \in Slots, k \in {0, 1} : h = Orphan(i, k)
    BY <1>b
  <1>3. Orphan(i, k) \in Heads /\ Free \in Heads /\ Orphan(i, k) # Free
    BY HeadsIn, HeadsDistinct
  <1>4. chain' \in Lists /\ Moved(chain, chain', h, Free)
    BY <1>1, <1>a, <1>b, <1>2, <1>3, PushMoves
  <1> QED BY <1>2, <1>4

LEMMA TransmitMoves ==
    ASSUME PoolType, ControlInv, Transmit
    PROVE  chain' \in Lists /\ Moved(chain, chain', Drain, Free) /\ chain'[Drain] = Tail(chain[Drain])
  <1>1. chain \in Lists /\ chain[Drain] # << >>
    BY DEF PoolType, Lists, Transmit, ControlInv, DrainMatches
  <1>2. Free \in Heads /\ Drain \in Heads /\ Free # Drain
    BY HeadsIn, HeadsDistinct
  <1>3. chain' = [chain EXCEPT ![Drain] = Tail(@), ![Free] = Push(Head(chain[Drain]), @)]
    BY DEF Transmit
  <1>4. chain' \in Lists /\ Moved(chain, chain', Drain, Free)
    BY <1>1, <1>2, <1>3, PushMoves
  <1> QED BY <1>4 DEF Moved

LEMMA TakeMoves ==
    ASSUME PoolType, TableType, ControlInv, TakeList
    PROVE  /\ chain' \in Lists
           /\ idx \in Slots /\ active \in {0, 1}
           /\ chain'[Drain] = chain[List(idx, active)]
           /\ chain'[List(idx, active)] = << >>
           /\ \A h \in Heads \ {Drain, List(idx, active)} : chain'[h] = chain[h]
           /\ HandedOver(chain, chain', {List(idx, active)}, [x \in {List(idx, active)} |-> Drain])
  <1>1. chain \in Lists /\ chain[Drain] = << >>
    BY DEF PoolType, Lists, TakeList, ControlInv, DrainMatches
  <1>2. idx \in Slots /\ active \in {0, 1}
    BY NodeIdxInSlots DEF TakeList
  <1>3. Drain \in Heads /\ List(idx, active) \in Heads /\ Drain # List(idx, active)
    BY <1>2, HeadsIn, HeadsDistinct
  <1>4. chain' = [chain EXCEPT ![Drain] = chain[List(idx, active)], ![List(idx, active)] = << >>]
    BY DEF TakeList, Grabbed
  <1>5. /\ chain' \in Lists
        /\ chain'[Drain] = chain[List(idx, active)]
        /\ chain'[List(idx, active)] = << >>
        /\ \A h \in Heads \ {Drain, List(idx, active)} : chain'[h] = chain[h]
    BY <1>1, <1>3, <1>4 DEF Lists
  <1> QED BY <1>1, <1>2, <1>3, <1>5 DEF HandedOver

(* The rebuild hands each node list over to the orphan list of its place.  *)
NodeLists == {List(i, k) : i \in DOMAIN nodes, k \in {0, 1}}
ToOrphan == [x \in NodeLists |-> Orphan(x[2], x[3])]
LEMMA RebuildMoves ==
    ASSUME PoolType, TableType, ControlInv, Rebuild
    PROVE  /\ chain' \in Lists
           /\ HandedOver(chain, chain', NodeLists, ToOrphan)
           /\ \A i \in Slots, k \in {0, 1} : i \in DOMAIN nodes => chain'[List(i, k)] = << >>
           /\ \A h \in {Free, Drain} \cup {Hold(p) : p \in Producers} : chain'[h] = chain[h]
           /\ \A i \in Slots, k \in {0, 1} : i \notin DOMAIN nodes => chain'[List(i, k)] = chain[List(i, k)]
  <1>1. chain \in Lists /\ \A i \in Slots, k \in {0, 1} : chain[Orphan(i, k)] = << >>
    BY DEF PoolType, Lists, Rebuild, ControlInv, OrphansMatch
  <1>2. DOMAIN nodes \subseteq Slots
    BY NodeIdxInSlots
  <1> DEFINE O == {Orphan(i, k) : i \in DOMAIN nodes, k \in {0, 1}}
  <1>3. chain' = [h \in Heads |-> IF h \in NodeLists THEN << >>
                                 ELSE IF h \in O THEN chain[List(h[2], h[3])] ELSE chain[h]]
    BY DEF Rebuild, Detached, NodeLists
  <1>4. \A i \in Slots, k \in {0, 1} :
          /\ List(i, k)[2] = i /\ List(i, k)[3] = k /\ Orphan(i, k)[2] = i /\ Orphan(i, k)[3] = k
    BY DEF List, Orphan
  <1>5. \A i \in Slots, k \in {0, 1} :
          /\ List(i, k) \in NodeLists <=> i \in DOMAIN nodes
          /\ Orphan(i, k) \in O <=> i \in DOMAIN nodes
          /\ List(i, k) \notin O /\ Orphan(i, k) \notin NodeLists
    BY <1>2, HeadsDistinct DEF NodeLists
  <1>6. \A h \in {Free, Drain} \cup {Hold(p) : p \in Producers} : h \notin O /\ h \notin NodeLists
    BY <1>2, HeadsDistinct DEF NodeLists
  <1>7. chain' \in Lists
    <2> SUFFICES ASSUME NEW h \in Heads PROVE chain'[h] \in Seq(Bufs)
      BY <1>3 DEF Lists
    <2>1. CASE h \in O
      <3>1. PICK i \in DOMAIN nodes, k \in {0, 1} : h = Orphan(i, k)
        BY <2>1
      <3>2. i \in Slots /\ List(i, k) \in Heads /\ h \notin NodeLists
        <4>1. i \in Slots
          BY <1>2
        <4>2. List(i, k) \in Heads
          BY <4>1, HeadsIn
        <4>3. Orphan(i, k) \notin NodeLists
          BY <4>1, <1>5
        <4> QED BY <4>1, <4>2, <4>3, <3>1
      <3>3. chain'[h] = chain[List(i, k)]
        BY <3>1, <3>2, <2>1, <1>3, <1>4
      <3> QED BY <3>2, <3>3, <1>1 DEF Lists
    <2>2. CASE h \notin O
      BY <2>2, <1>1, <1>3 DEF Lists
    <2> QED BY <2>1, <2>2
  <1>8. \A i \in Slots, k \in {0, 1} : i \in DOMAIN nodes =>
            chain'[List(i, k)] = << >> /\ chain'[Orphan(i, k)] = chain[List(i, k)]
    BY <1>3, <1>4, <1>5, HeadsIn
  <1>9. \A h \in Heads : h \notin NodeLists /\ h \notin O => chain'[h] = chain[h]
    BY <1>3
  <1>10. HandedOver(chain, chain', NodeLists, ToOrphan)
    <2>1. NodeLists \subseteq Heads
      BY <1>2, HeadsIn DEF NodeLists
    <2>2. ASSUME NEW x \in NodeLists
          PROVE  /\ ToOrphan[x] \in Heads \ NodeLists /\ ToOrphan[x] \in O
                 /\ chain[ToOrphan[x]] = << >>
                 /\ chain'[ToOrphan[x]] = chain[x] /\ chain'[x] = << >>
      <3>1. PICK i \in DOMAIN nodes, k \in {0, 1} : x = List(i, k)
        BY DEF NodeLists
      <3>2. i \in Slots /\ ToOrphan[x] = Orphan(i, k)
        BY <3>1, <1>2, <1>4 DEF ToOrphan
      <3>3. Orphan(i, k) \in Heads /\ Orphan(i, k) \notin NodeLists /\ Orphan(i, k) \in O
        BY <3>2, <1>5, HeadsIn
      <3>4. /\ chain[Orphan(i, k)] = << >> /\ chain'[List(i, k)] = << >>
            /\ chain'[Orphan(i, k)] = chain[List(i, k)]
        BY <3>2, <1>1, <1>8
      <3> QED BY <3>1, <3>2, <3>3, <3>4
    <2>3. ASSUME NEW x \in NodeLists, NEW z \in NodeLists, ToOrphan[x] = ToOrphan[z]
          PROVE  x = z
      <3>1. PICK i \in DOMAIN nodes, k \in {0, 1} : x = List(i, k)
        BY DEF NodeLists
      <3>2. PICK j \in DOMAIN nodes, l \in {0, 1} : z = List(j, l)
        BY DEF NodeLists
      <3>3. ToOrphan[x] = Orphan(i, k) /\ ToOrphan[z] = Orphan(j, l) /\ i \in Slots /\ j \in Slots
        BY <3>1, <3>2, <1>2, <1>4 DEF ToOrphan
      <3>4. Orphan(i, k) = Orphan(j, l)
        BY <3>3, <2>3
      <3>5. i = j /\ k = l
        BY ONLY <3>3, <3>4, k \in {0, 1}, l \in {0, 1}, HeadsDistinct, ZenonT(60)
      <3> QED BY <3>1, <3>2, <3>5
    <2>4. ASSUME NEW h \in Heads \ NodeLists, \A x \in NodeLists : h # ToOrphan[x]
          PROVE  h \notin O
      <3> SUFFICES ASSUME h \in O PROVE FALSE
        OBVIOUS
      <3>1. PICK i \in DOMAIN nodes, k \in {0, 1} : h = Orphan(i, k)
        OBVIOUS
      <3>2. List(i, k) \in NodeLists /\ ToOrphan[List(i, k)] = Orphan(i, k)
        BY <1>2, <1>4 DEF NodeLists, ToOrphan
      <3> QED BY <3>1, <3>2, <2>4
    <2> QED BY <2>1, <2>2, <2>3, <2>4, <1>9 DEF HandedOver
  <1> QED BY <1>5, <1>6, <1>7, <1>8, <1>9, <1>10, HeadsIn

-----------------------------------------------------------------------------
(* The inductive invariant: types, the control state that says which       *)
(* private lists hold buffers, and conservation over the family of lists.  *)
Conserved == Covers(chain) /\ Disjoint(chain) /\ avail = Len(chain[Free])
IInv == BusTypes /\ ControlInv /\ Conserved

JobSet == [st : {"none", "grab", "count", "attach", "recover"}, to : Addrs \cup {NoAddr}, ex : Nat]
Pcs == {"top", "orphans", "drain", "cmd", "swap", "send", "transmit", "sweep",
        "swept", "probe", "probed", "notify", "edges", "inject", "slot", "slotted"}
Private == {Free, Drain} \cup {Hold(p) : p \in Producers}

LEMMA PoolFrame ==
    ASSUME UNCHANGED poolVars
    PROVE  /\ PoolType => PoolType'
           /\ Conserved => Conserved'
           /\ HoldsMatch => HoldsMatch'
  BY DEF poolVars, PoolType, Conserved, Covers, Disjoint, HoldsMatch

LEMMA TableFrame == ASSUME TableType, UNCHANGED tableVars PROVE TableType'
  BY DEF tableVars, TableType

LEMMA CycFrame == ASSUME CycType, UNCHANGED cycVars PROVE CycType'
  BY DEF cycVars, CycType

LEMMA UpFrame == ASSUME UpType, UNCHANGED upVars PROVE UpType'
  BY DEF upVars, UpType

LEMMA EnvFrame == ASSUME EnvType, UNCHANGED envVars PROVE EnvType'
  BY DEF envVars, EnvType

LEMMA ConservedGivesPool == ASSUME PoolType, Conserved PROVE PoolConserved
  <1>1. \A h \in Heads : DOMAIN chain[h] = 1..Len(chain[h])
    BY DEF PoolType
  <1> QED BY <1>1 DEF Conserved, Covers, Disjoint, PoolConserved

(* A move keeps the conservation when avail counts the free list's change. *)
LEMMA ConservedMove ==
    ASSUME PoolType, Conserved, chain' \in Lists,
           NEW x, NEW y, Moved(chain, chain', x, y),
           \/ x = Free /\ avail' = avail - 1
           \/ y = Free /\ avail' = avail + 1
           \/ x # Free /\ y # Free /\ avail' = avail
    PROVE  /\ Conserved' /\ avail' \in Nat
           /\ \A h \in Heads \ {x, y} : chain'[h] = chain[h]
  <1>1. chain \in Lists
    BY DEF PoolType, Lists
  <1>2. Covers(chain') /\ Disjoint(chain')
    BY <1>1, MoveOne DEF Conserved
  <1>3. /\ x \in Heads /\ y \in Heads /\ x # y /\ chain[x] # << >>
        /\ chain'[x] = Tail(chain[x]) /\ Len(chain'[y]) = Len(chain[y]) + 1
        /\ \A h \in Heads \ {x, y} : chain'[h] = chain[h]
    BY DEF Moved
  <1>4. chain[x] \in Seq(Bufs) /\ chain[y] \in Seq(Bufs) /\ chain[Free] \in Seq(Bufs)
    BY <1>1, <1>3, HeadsIn DEF Lists
  <1>5. Len(chain'[x]) = Len(chain[x]) - 1 /\ Len(chain[x]) \in Nat \ {0} /\ Len(chain[y]) \in Nat
    BY <1>3, <1>4, TailProps
  <1>6. avail' = Len(chain'[Free]) /\ avail' \in Nat
    <2>0. avail = Len(chain[Free]) /\ Len(chain[Free]) \in Nat
      BY <1>4 DEF Conserved
    <2>1. CASE x = Free /\ avail' = avail - 1
      BY <2>0, <2>1, <1>5
    <2>2. CASE y = Free /\ avail' = avail + 1
      BY <2>0, <2>2, <1>3
    <2>3. CASE x # Free /\ y # Free /\ avail' = avail
      BY <2>0, <2>3, <1>3, HeadsIn
    <2> QED BY <2>1, <2>2, <2>3
  <1> QED BY <1>2, <1>3, <1>6 DEF Conserved, Covers, Disjoint

(* What finishing a bus_msg_send does to the control state.                *)
LEMMA ReturnProps ==
    ASSUME PoolType, CycType, UpType, JobsMatch, NEW p \in Producers, NEW ok \in BOOLEAN,
           job[p].st # "none", Return(p, ok)
    PROVE  /\ job' \in [Producers -> JobSet]
           /\ job'[p].st \in {"none", "grab"}
           /\ \A q \in Producers \ {p} : job'[q] = job[q]
           /\ up' \in [op : {"idle", "inject", "enter"}, left : Nat, act : BOOLEAN]
           /\ up'.op = "enter" => up' = up
           /\ pc' \in Pcs
           /\ pc' # pc => pc = "cmd" /\ pc' = "swap"
           /\ job'["bus"].st # "none" <=> pc' = "cmd"
           /\ job'["uplink"].st # "none" <=> up'.op = "inject"
  <1>1. /\ job \in [Producers -> JobSet] /\ pc \in Pcs
        /\ up \in [op : {"idle", "inject", "enter"}, left : Nat, act : BOOLEAN]
    BY DEF PoolType, JobSet, CycType, Pcs, UpType
  <1>2. /\ job["bus"].st # "none" <=> pc = "cmd"
        /\ job["uplink"].st # "none" <=> up.op = "inject"
    BY DEF JobsMatch
  <1>3. NoJob \in JobSet /\ NoJob.st = "none"
    BY DEF NoJob, JobSet
  <1>4. [job[p] EXCEPT !.st = "grab"] \in JobSet /\ [job[p] EXCEPT !.st = "grab"].st = "grab"
    BY <1>1 DEF JobSet
  <1>5. "bus" \in Producers /\ "uplink" \in Producers
    BY DEF Producers
  <1>6. Idle \in [op : {"idle", "inject", "enter"}, left : Nat, act : BOOLEAN] /\ Idle.op = "idle"
    BY DEF Idle
  <1>7. CASE p = "uplink" /\ ok /\ up.left > 1
    <2>1. /\ job' = [job EXCEPT ![p] = [job[p] EXCEPT !.st = "grab"]]
          /\ up' = [up EXCEPT !.left = @ - 1] /\ pc' = pc
      BY <1>7 DEF Return
    <2>2. /\ up' \in [op : {"idle", "inject", "enter"}, left : Nat, act : BOOLEAN]
          /\ up'.op = up.op
      BY <2>1, <1>1, <1>7
    <2> QED BY <2>1, <2>2, <1>1, <1>2, <1>4, <1>5, <1>7
  <1>8. CASE ~(p = "uplink" /\ ok /\ up.left > 1)
    <2>1. /\ job' = [job EXCEPT ![p] = NoJob]
          /\ up' = IF p # "uplink" THEN up ELSE Idle
          /\ pc' = IF p = "bus" THEN "swap" ELSE pc
      BY <1>8 DEF Return
    <2>2. job' \in [Producers -> JobSet] /\ job'[p] = NoJob
          /\ \A q \in Producers \ {p} : job'[q] = job[q]
      BY <2>1, <1>1, <1>3
    <2>3. CASE p = "bus"
      BY <2>1, <2>2, <2>3, <1>1, <1>2, <1>3, <1>5 DEF Pcs
    <2>4. CASE p = "uplink"
      BY <2>1, <2>2, <2>4, <1>1, <1>2, <1>3, <1>5, <1>6
    <2>5. CASE p # "bus" /\ p # "uplink"
      BY <2>1, <2>2, <2>5, <1>1, <1>2, <1>3, <1>5
    <2> QED BY <2>3, <2>4, <2>5
  <1> QED BY <1>7, <1>8

-----------------------------------------------------------------------------
(* The producers' steps.                                                   *)

(* A producer's step leaves the bus task's private lists alone.            *)
LEMMA ProducerControl ==
    ASSUME DrainMatches, OrphansMatch, EnterMatches,
           chain'[Drain] = chain[Drain],
           \A i \in Slots, k \in {0, 1} : chain'[Orphan(i, k)] = chain[Orphan(i, k)],
           pc' # pc => pc = "cmd" /\ pc' = "swap",
           up'.op = "enter" => up' = up,
           UNCHANGED <<nodes, roster, idx>>
    PROVE  DrainMatches' /\ OrphansMatch' /\ EnterMatches'
  <1>1. DrainMatches'
    BY DEF DrainMatches
  <1>2. OrphansMatch'
    <2>1. pc' # "orphans" => pc # "orphans"
      OBVIOUS
    <2> QED BY <2>1 DEF OrphansMatch
  <1>3. EnterMatches'
    BY DEF EnterMatches
  <1> QED BY <1>1, <1>2, <1>3

LEMMA BufUpdate ==
    ASSUME PoolType, NEW b \in Bufs, NEW v \in [to : Addrs \cup {NoAddr}, id : Nat]
    PROVE  [buf EXCEPT ![b] = v] \in [Bufs -> [to : Addrs \cup {NoAddr}, id : Nat]]
  BY DEF PoolType

LEMMA GrabStep ==
    ASSUME IInv, NEW p \in Producers, PoolGrab(p)
    PROVE  IInv'
  <1>0. /\ PoolType /\ TableType /\ CycType /\ UpType /\ EnvType
        /\ ControlInv /\ HoldsMatch /\ DrainMatches /\ OrphansMatch /\ JobsMatch /\ EnterMatches
        /\ Conserved
    BY DEF IInv, BusTypes, ControlInv
  <1>1. /\ chain' \in Lists /\ Moved(chain, chain', Free, Hold(p))
        /\ chain'[Hold(p)] = <<Head(chain[Free])>>
    BY <1>0, GrabMoves
  <1>2. /\ Conserved' /\ avail' \in Nat
        /\ \A h \in Heads \ {Free, Hold(p)} : chain'[h] = chain[h]
    BY <1>0, <1>1, ConservedMove DEF PoolGrab
  <1>3. /\ job[p].st = "grab" /\ job' = [job EXCEPT ![p].st = "attach"]
        /\ job \in [Producers -> JobSet]
    BY <1>0 DEF PoolGrab, PoolType, JobSet
  <1>4. /\ job' \in [Producers -> JobSet] /\ job'[p].st = "attach"
        /\ \A q \in Producers \ {p} : job'[q] = job[q]
    BY <1>3 DEF JobSet
  <1>5. Head(chain[Free]) \in Bufs
    <2>1. chain[Free] \in Seq(Bufs) /\ chain[Free] # << >>
      BY <1>0, HeadsIn DEF PoolGrab, PoolType
    <2> QED BY <2>1, TailProps
  <1>6. buf' \in [Bufs -> [to : Addrs \cup {NoAddr}, id : Nat]]
    <2>1. [to |-> job[p].to, id |-> 0] \in [to : Addrs \cup {NoAddr}, id : Nat]
      BY <1>3 DEF JobSet
    <2> QED BY <2>1, <1>0, <1>5, BufUpdate DEF PoolGrab
  <1>7. PoolType'
    BY <1>0, <1>1, <1>2, <1>4, <1>6 DEF PoolType, PoolGrab, Lists, JobSet
  <1>8. TableType' /\ CycType' /\ UpType' /\ EnvType'
    BY <1>0, TableFrame, CycFrame, UpFrame, EnvFrame DEF PoolGrab
  <1>9. HoldsMatch'
    <2> SUFFICES ASSUME NEW q \in Producers
                 PROVE  IF job'[q].st \in {"attach", "recover"} THEN Len(chain'[Hold(q)]) = 1
                        ELSE chain'[Hold(q)] = << >>
      BY DEF HoldsMatch
    <2>1. CASE q = p
      BY <2>1, <1>1, <1>4
    <2>2. CASE q # p
      <3>1. Hold(q) \in Heads \ {Free, Hold(p)}
        BY <2>2, HeadsIn, HeadsDistinct
      <3> QED BY <3>1, <2>2, <1>0, <1>2, <1>4 DEF HoldsMatch
    <2> QED BY <2>1, <2>2
  <1>10. /\ chain'[Drain] = chain[Drain]
         /\ \A i \in Slots, k \in {0, 1} : chain'[Orphan(i, k)] = chain[Orphan(i, k)]
    BY <1>2, HeadsIn, HeadsDistinct
  <1>11. UNCHANGED <<pc, up, nodes, roster, idx>>
    BY DEF PoolGrab, tableVars, cycVars, upVars
  <1>12. DrainMatches' /\ OrphansMatch' /\ EnterMatches'
    BY <1>0, <1>10, <1>11, ProducerControl
  <1>13. JobsMatch'
    BY <1>0, <1>3, <1>4, <1>11 DEF JobsMatch, Producers
  <1> QED BY <1>2, <1>7, <1>8, <1>9, <1>12, <1>13 DEF IInv, BusTypes, ControlInv

(* The common end of the three ways out of bus_msg_send: Return(p, ok)     *)
(* with the buffer of p, if any, gone from Hold(p).                        *)
LEMMA FinishStep ==
    ASSUME IInv, NEW p \in Producers, NEW ok \in BOOLEAN, job[p].st # "none", Return(p, ok),
           chain' \in Lists, Conserved', avail' \in Nat, exhausted' \in Nat, accepted' \in Nat,
           buf' \in [Bufs -> [to : Addrs \cup {NoAddr}, id : Nat]],
           chain'[Hold(p)] = << >>,
           \A q \in Producers \ {p} : chain'[Hold(q)] = chain[Hold(q)],
           chain'[Drain] = chain[Drain],
           \A i \in Slots, k \in {0, 1} : chain'[Orphan(i, k)] = chain[Orphan(i, k)],
           UNCHANGED <<wire, tableVars, idx, marked, sr, deadTick, deadCursor, seenEx,
                       cmd, linked, uplinkActive, envVars>>
    PROVE  IInv'
  <1>0. /\ PoolType /\ TableType /\ CycType /\ UpType /\ EnvType
        /\ HoldsMatch /\ DrainMatches /\ OrphansMatch /\ JobsMatch /\ EnterMatches
    BY DEF IInv, BusTypes, ControlInv
  <1>1. /\ job' \in [Producers -> JobSet]
        /\ job'[p].st \in {"none", "grab"}
        /\ \A q \in Producers \ {p} : job'[q] = job[q]
        /\ up' \in [op : {"idle", "inject", "enter"}, left : Nat, act : BOOLEAN]
        /\ up'.op = "enter" => up' = up
        /\ pc' \in Pcs
        /\ pc' # pc => pc = "cmd" /\ pc' = "swap"
        /\ job'["bus"].st # "none" <=> pc' = "cmd"
        /\ job'["uplink"].st # "none" <=> up'.op = "inject"
    BY <1>0, ReturnProps
  <1>2. PoolType'
    BY <1>0, <1>1 DEF PoolType, JobSet, Lists
  <1>3. TableType' /\ EnvType'
    BY <1>0, TableFrame, EnvFrame
  <1>4. CycType'
    BY <1>0, <1>1 DEF CycType, Pcs
  <1>5. UpType'
    BY <1>0, <1>1 DEF UpType
  <1>6. HoldsMatch'
    <2> SUFFICES ASSUME NEW q \in Producers
                 PROVE  IF job'[q].st \in {"attach", "recover"} THEN Len(chain'[Hold(q)]) = 1
                        ELSE chain'[Hold(q)] = << >>
      BY DEF HoldsMatch
    <2>1. CASE q = p
      BY <2>1, <1>1
    <2>2. CASE q # p
      BY <2>2, <1>0, <1>1 DEF HoldsMatch
    <2> QED BY <2>1, <2>2
  <1>7. UNCHANGED <<nodes, roster, idx>>
    BY DEF tableVars
  <1>8. DrainMatches' /\ OrphansMatch' /\ EnterMatches'
    BY <1>0, <1>1, <1>7, ProducerControl
  <1>9. JobsMatch'
    BY <1>1 DEF JobsMatch
  <1> QED BY <1>2, <1>3, <1>4, <1>5, <1>6, <1>8, <1>9 DEF IInv, BusTypes, ControlInv

LEMMA CountStep ==
    ASSUME IInv, NEW p \in Producers, CountExhausted(p)
    PROVE  IInv'
  <1>0. PoolType /\ HoldsMatch /\ Conserved
    BY DEF IInv, BusTypes, ControlInv
  <1>1. chain' = chain /\ avail' = avail /\ job[p].st = "count" /\ Return(p, FALSE)
    BY DEF CountExhausted
  <1>2. Conserved'
    BY <1>0, <1>1 DEF Conserved, Covers, Disjoint
  <1>3. chain'[Hold(p)] = << >>
    BY <1>0, <1>1 DEF HoldsMatch
  <1>4. /\ chain' \in Lists /\ avail' \in Nat /\ exhausted' \in Nat
        /\ accepted' \in Nat /\ buf' \in [Bufs -> [to : Addrs \cup {NoAddr}, id : Nat]]
    BY <1>0, <1>1 DEF PoolType, Lists, CountExhausted
  <1>5. UNCHANGED <<wire, tableVars, idx, marked, sr, deadTick, deadCursor, seenEx,
                    cmd, linked, uplinkActive, envVars>>
    BY DEF CountExhausted
  <1> QED BY <1>1, <1>2, <1>3, <1>4, <1>5, FinishStep

LEMMA AttachStep ==
    ASSUME IInv, NEW p \in Producers, Attach(p)
    PROVE  IInv'
  <1>0. PoolType /\ TableType /\ ControlInv /\ HoldsMatch /\ Conserved
    BY DEF IInv, BusTypes, ControlInv
  <1>1. chain' \in Lists /\ chain'[Hold(p)] = << >>
    BY <1>0, AttachMoves
  <1>2. PICK i \in NodeIdx(job[p].to) :
          /\ Moved(chain, chain', Hold(p), List(i, 1 - active))
          /\ buf' = [buf EXCEPT ![Head(chain[Hold(p)])].id = accepted + 1]
    BY <1>0, AttachMoves
  <1>3. i \in Slots /\ 1 - active \in {0, 1}
    BY <1>0, NodeIdxInSlots
  <1>4. /\ job[p].st = "attach" /\ Return(p, TRUE) /\ avail' = avail
        /\ exhausted' = exhausted /\ accepted' = accepted + 1
    BY DEF Attach
  <1>5. /\ Conserved' /\ avail' \in Nat
        /\ \A h \in Heads \ {Hold(p), List(i, 1 - active)} : chain'[h] = chain[h]
    BY <1>0, <1>1, <1>2, <1>3, <1>4, ConservedMove, HeadsDistinct
  <1>6. Hold(p) \in Heads /\ Len(chain[Hold(p)]) = 1 /\ chain[Hold(p)] \in Seq(Bufs)
    BY <1>0, <1>4, HeadsIn DEF HoldsMatch, PoolType
  <1>7. Head(chain[Hold(p)]) \in Bufs
    BY <1>6, OneElement
  <1>8. buf' \in [Bufs -> [to : Addrs \cup {NoAddr}, id : Nat]]
    <2>1. accepted + 1 \in Nat /\ buf \in [Bufs -> [to : Addrs \cup {NoAddr}, id : Nat]]
      BY <1>0 DEF PoolType
    <2> QED BY <2>1, <1>2, <1>7
  <1>9. \A q \in Producers \ {p} : Hold(q) \in Heads \ {Hold(p), List(i, 1 - active)}
    BY <1>3, HeadsIn, HeadsDistinct
  <1>10. /\ Drain \in Heads \ {Hold(p), List(i, 1 - active)}
         /\ \A j \in Slots, k \in {0, 1} : Orphan(j, k) \in Heads \ {Hold(p), List(i, 1 - active)}
    BY <1>3, HeadsIn, HeadsDistinct
  <1>11. accepted' \in Nat /\ exhausted' \in Nat
    BY <1>0, <1>4 DEF PoolType
  <1>12. UNCHANGED <<wire, tableVars, idx, marked, sr, deadTick, deadCursor, seenEx,
                     cmd, linked, uplinkActive, envVars>>
    BY DEF Attach
  <1>13. /\ \A q \in Producers \ {p} : chain'[Hold(q)] = chain[Hold(q)]
         /\ chain'[Drain] = chain[Drain]
         /\ \A j \in Slots, k \in {0, 1} : chain'[Orphan(j, k)] = chain[Orphan(j, k)]
    BY <1>5, <1>9, <1>10
  <1> QED BY <1>1, <1>4, <1>5, <1>8, <1>11, <1>12, <1>13, FinishStep

LEMMA RecoverStep ==
    ASSUME IInv, NEW p \in Producers, SendRecover(p)
    PROVE  IInv'
  <1>0. PoolType /\ ControlInv /\ Conserved
    BY DEF IInv, BusTypes
  <1>1. /\ chain' \in Lists /\ Moved(chain, chain', Hold(p), Free) /\ chain'[Hold(p)] = << >>
        /\ job[p].st = "recover" /\ Return(p, FALSE) /\ avail' = avail + 1
    BY <1>0, RecoverMoves DEF SendRecover
  <1>2. /\ Conserved' /\ avail' \in Nat
        /\ \A h \in Heads \ {Hold(p), Free} : chain'[h] = chain[h]
    BY <1>0, <1>1, ConservedMove
  <1>3. /\ \A q \in Producers \ {p} : chain'[Hold(q)] = chain[Hold(q)]
        /\ chain'[Drain] = chain[Drain]
        /\ \A j \in Slots, k \in {0, 1} : chain'[Orphan(j, k)] = chain[Orphan(j, k)]
    BY <1>2, HeadsIn, HeadsDistinct
  <1>4. /\ exhausted' \in Nat /\ accepted' \in Nat
        /\ buf' \in [Bufs -> [to : Addrs \cup {NoAddr}, id : Nat]]
    BY <1>0 DEF PoolType, SendRecover
  <1>5. UNCHANGED <<wire, tableVars, idx, marked, sr, deadTick, deadCursor, seenEx,
                    cmd, linked, uplinkActive, envVars>>
    BY DEF SendRecover
  <1> QED BY <1>1, <1>2, <1>3, <1>4, <1>5, FinishStep

(* Steps that only change what producers are asked to do.                  *)
LEMMA JobStep ==
    ASSUME IInv, UNCHANGED <<chain, avail, exhausted, buf, accepted, wire>>,
           job' \in [Producers -> JobSet],
           \A p \in Producers :
               job'[p].st \in {"attach", "recover"} <=> job[p].st \in {"attach", "recover"}
    PROVE  PoolType' /\ Conserved' /\ HoldsMatch'
  <1>1. PoolType /\ HoldsMatch /\ Conserved
    BY DEF IInv, BusTypes, ControlInv
  <1>2. PoolType'
    BY <1>1 DEF PoolType, JobSet
  <1>3. Conserved'
    BY <1>1 DEF Conserved, Covers, Disjoint
  <1>4. HoldsMatch'
    BY <1>1 DEF HoldsMatch
  <1> QED BY <1>2, <1>3, <1>4

(* The two producer steps that touch neither the lists nor the lock.       *)
LEMMA PrivateStep ==
    ASSUME IInv, NEW p \in Producers, AttachUnknown(p) \/ PoolExhausted(p)
    PROVE  IInv'
  <1>0. /\ PoolType /\ TableType /\ CycType /\ UpType /\ EnvType
        /\ HoldsMatch /\ DrainMatches /\ OrphansMatch /\ JobsMatch /\ EnterMatches
    BY DEF IInv, BusTypes, ControlInv
  <1>1. job \in [Producers -> JobSet] /\ exhausted \in Nat
    BY <1>0 DEF PoolType, JobSet
  <1>2. /\ job' \in [Producers -> JobSet] /\ job[p].st # "none" /\ job'[p].st # "none"
        /\ job'[p].st \in {"attach", "recover"} <=> job[p].st \in {"attach", "recover"}
        /\ \A q \in Producers \ {p} : job'[q] = job[q]
    <2>1. CASE AttachUnknown(p)
      BY <2>1, <1>1 DEF JobSet, AttachUnknown
    <2>2. CASE PoolExhausted(p)
      BY <2>2, <1>1, ZenonT(60) DEF JobSet, PoolExhausted
    <2> QED BY <2>1, <2>2
  <1>3. UNCHANGED <<chain, avail, exhausted, buf, accepted, wire>>
    BY <1>0 DEF AttachUnknown, PoolExhausted, PoolType
  <1>4. PoolType' /\ Conserved' /\ HoldsMatch'
    BY <1>1, <1>2, <1>3, JobStep
  <1>5. TableType' /\ CycType' /\ UpType' /\ EnvType'
    BY <1>0, TableFrame, CycFrame, UpFrame, EnvFrame DEF AttachUnknown, PoolExhausted
  <1>6. UNCHANGED <<pc, up, nodes, roster, idx>>
    BY DEF AttachUnknown, PoolExhausted, tableVars, cycVars, upVars
  <1>7. DrainMatches' /\ OrphansMatch' /\ EnterMatches'
    BY <1>0, <1>3, <1>6, ProducerControl
  <1>8. JobsMatch'
    BY <1>0, <1>1, <1>2, <1>6 DEF JobsMatch, Producers
  <1> QED BY <1>4, <1>5, <1>7, <1>8 DEF IInv, BusTypes, ControlInv

LEMMA ProducerPreserves == ASSUME IInv, NEW p \in Producers, ProducerStep(p) PROVE IInv'
  BY GrabStep, CountStep, AttachStep, PrivateStep, RecoverStep DEF ProducerStep

LEMMA NewJobProps ==
    ASSUME PoolType, NEW p \in Producers, NEW a \in Addrs, job[p].st = "none",
           job' = [job EXCEPT ![p] = NewJob(a)]
    PROVE  /\ job' \in [Producers -> JobSet]
           /\ job'[p].st = "grab" /\ \A q \in Producers \ {p} : job'[q] = job[q]
           /\ \A q \in Producers :
                  job'[q].st \in {"attach", "recover"} <=> job[q].st \in {"attach", "recover"}
  <1>1. job \in [Producers -> JobSet] /\ NewJob(a) \in JobSet /\ NewJob(a).st = "grab"
    BY DEF PoolType, JobSet, NewJob
  <1>2. /\ job' \in [Producers -> JobSet]
        /\ job'[p] = NewJob(a) /\ \A q \in Producers \ {p} : job'[q] = job[q]
    BY <1>1
  <1> QED BY <1>1, <1>2

LEMMA EngineStep ==
    ASSUME IInv, NEW a \in Addrs, EngineSend(a)
    PROVE  IInv'
  <1>0. /\ PoolType /\ TableType /\ CycType /\ UpType /\ EnvType
        /\ DrainMatches /\ OrphansMatch /\ JobsMatch /\ EnterMatches
    BY DEF IInv, BusTypes, ControlInv
  <1>1. "core1" \in Producers /\ job["core1"].st = "none"
    BY DEF EngineSend, Producers, NoJob
  <1>2. /\ job' \in [Producers -> JobSet]
        /\ \A q \in Producers \ {"core1"} : job'[q] = job[q]
        /\ \A q \in Producers :
               job'[q].st \in {"attach", "recover"} <=> job[q].st \in {"attach", "recover"}
    BY <1>0, <1>1, NewJobProps DEF EngineSend
  <1>3. UNCHANGED <<chain, avail, exhausted, buf, accepted, wire>>
    BY DEF EngineSend
  <1>4. PoolType' /\ Conserved' /\ HoldsMatch'
    BY <1>2, <1>3, JobStep
  <1>5. TableType' /\ CycType' /\ UpType'
    BY <1>0, TableFrame, CycFrame, UpFrame DEF EngineSend
  <1>6. EnvType'
    BY <1>0 DEF EnvType, EngineSend
  <1>7. UNCHANGED <<pc, up, nodes, roster, idx>>
    BY DEF EngineSend, tableVars, cycVars, upVars
  <1>8. DrainMatches' /\ OrphansMatch' /\ EnterMatches'
    BY <1>0, <1>3, <1>7, ProducerControl
  <1>9. JobsMatch'
    BY <1>0, <1>2, <1>7 DEF JobsMatch, Producers
  <1> QED BY <1>4, <1>5, <1>6, <1>8, <1>9 DEF IInv, BusTypes, ControlInv

-----------------------------------------------------------------------------
(* The uplink task's steps.  None but Inject touches a list or a job.      *)

LEMMA QuietControl ==
    ASSUME DrainMatches, OrphansMatch, JobsMatch, UNCHANGED <<chain, job, pc, idx, nodes>>
    PROVE  DrainMatches' /\ OrphansMatch'
  BY DEF DrainMatches, OrphansMatch

LEMMA SilentType ==
    [a \in Addrs |-> Silent] \in [Addrs -> [live : {"NONE", "DOWN", "UP"}, sum : Summaries]]
  BY BusCycleAssumption DEF Silent

LEMMA RosterEntryType ==
    ASSUME NEW a \in Addrs \cup {NoAddr}, NEW e \in BOOLEAN PROVE RosterEntry(a, e) \in RosterType
  BY BusCycleAssumption DEF RosterEntry, RosterType, Liveness

LEMMA AppendProps ==
    ASSUME NEW S, NEW s \in Seq(S), NEW e \in S
    PROVE  Append(s, e) \in Seq(S) /\ Len(Append(s, e)) = Len(s) + 1 /\ Len(s) \in Nat
  OBVIOUS

(* A roster rewritten entry by entry keeps its type and its length.        *)
LEMMA RosterMap ==
    ASSUME NEW r \in Seq(RosterType), NEW f,
           f = [i \in DOMAIN r |-> f[i]], \A i \in DOMAIN r : f[i] \in RosterType
    PROVE  f \in Seq(RosterType) /\ Len(f) = Len(r)
  <1>1. Len(r) \in Nat /\ DOMAIN r = 1..Len(r)
    OBVIOUS
  <1>2. f \in [1..Len(r) -> RosterType]
    BY <1>1, Zenon
  <1> QED BY <1>1, <1>2

LEMMA UplinkPreserves ==
    ASSUME IInv, UplinkStep
    PROVE  IInv'
  <1>0. /\ PoolType /\ TableType /\ CycType /\ UpType /\ EnvType
        /\ HoldsMatch /\ DrainMatches /\ OrphansMatch /\ JobsMatch /\ EnterMatches /\ Conserved
    BY DEF IInv, BusTypes, ControlInv
  <1>1. ASSUME NEW a \in Addrs, StageCmd(a) PROVE IInv'
    <2>1. PoolType' /\ Conserved' /\ HoldsMatch' /\ TableType' /\ CycType'
      BY <1>0, <1>1, PoolFrame, TableFrame, CycFrame DEF StageCmd
    <2>2. UpType' /\ EnvType'
      BY <1>0, <1>1 DEF UpType, EnvType, StageCmd
    <2>3. UNCHANGED <<chain, job, pc, idx, nodes, up, roster>>
      BY <1>1 DEF StageCmd, poolVars, tableVars, cycVars
    <2>4. JobsMatch' /\ EnterMatches'
      BY <2>3, <1>0 DEF JobsMatch, EnterMatches
    <2> QED BY <2>1, <2>2, <2>3, <2>4, <1>0, QuietControl DEF IInv, BusTypes, ControlInv
  <1>2. ASSUME NEW a \in Addrs, NEW n \in 1..2, Inject(a, n) PROVE IInv'
    <2>1. "uplink" \in Producers /\ job["uplink"].st = "none"
      BY <1>0, <1>2 DEF Inject, LockFree, JobsMatch, Producers
    <2>2. /\ job' \in [Producers -> JobSet]
          /\ job'["uplink"].st = "grab" /\ \A q \in Producers \ {"uplink"} : job'[q] = job[q]
          /\ \A q \in Producers :
                 job'[q].st \in {"attach", "recover"} <=> job[q].st \in {"attach", "recover"}
      BY <1>0, <1>2, <2>1, NewJobProps DEF Inject
    <2>3. PoolType' /\ Conserved' /\ HoldsMatch'
      BY <2>2, <1>2, JobStep DEF Inject
    <2>4. TableType' /\ CycType'
      BY <1>0, <1>2, TableFrame, CycFrame DEF Inject
    <2>5. UpType' /\ EnvType'
      BY <1>0, <1>2 DEF UpType, EnvType, Inject
    <2>6. UNCHANGED <<chain, pc, idx, nodes, roster>> /\ up'.op = "inject"
      BY <1>2 DEF Inject, poolVars, tableVars, cycVars
    <2>7. DrainMatches' /\ OrphansMatch' /\ EnterMatches'
      BY <2>6, <1>0, ProducerControl
    <2>8. JobsMatch'
      BY <2>2, <2>6, <1>0 DEF JobsMatch, Producers
    <2> QED BY <2>3, <2>4, <2>5, <2>7, <2>8 DEF IInv, BusTypes, ControlInv
  <1>3. ASSUME ClearRoster PROVE IInv'
    <2>1. PoolType' /\ Conserved' /\ HoldsMatch' /\ CycType'
      BY <1>0, <1>3, PoolFrame, CycFrame DEF ClearRoster
    <2>2. TableType'
      <3>1. roster' \in Seq(RosterType) /\ Len(roster') <= ROSTER_MAX
        BY <1>3, BusCycleAssumption DEF ClearRoster
      <3> QED BY <3>1, <1>0, <1>3 DEF TableType, ClearRoster
    <2>3. UpType' /\ EnvType'
      <3>1. UpType'
        BY <1>0, <1>3, Zenon DEF UpType, ClearRoster
      <3>2. EnvType'
        <4>1. host' \in [Addrs -> [live : {"NONE", "DOWN", "UP"}, sum : Summaries]]
          BY <1>3, SilentType, Zenon DEF ClearRoster
        <4>2. budget' \in [msgs : Nat, admin : Nat, reattach : Nat, modes : Nat, flaps : Nat]
          BY <1>0, <1>3 DEF EnvType, ClearRoster
        <4> QED BY <4>1, <4>2, <1>0, <1>3, Zenon DEF EnvType, ClearRoster
      <3> QED BY <3>1, <3>2
    <2>4. UNCHANGED <<chain, job, pc, idx, nodes, up>> /\ up.op = "idle"
      BY <1>3 DEF ClearRoster, poolVars, cycVars, LockFree
    <2>5. JobsMatch' /\ EnterMatches'
      BY <2>4, <1>0 DEF JobsMatch, EnterMatches
    <2> QED BY <2>1, <2>2, <2>3, <2>4, <2>5, <1>0, QuietControl DEF IInv, BusTypes, ControlInv
  <1>4. ASSUME NEW a \in Addrs, NEW e \in RegFlags, RegisterSlave(a, e) PROVE IInv'
    <2>1. PoolType' /\ Conserved' /\ HoldsMatch' /\ CycType' /\ UpType'
      BY <1>0, <1>4, PoolFrame, CycFrame, UpFrame DEF RegisterSlave
    <2>2. TableType'
      <3>1. e \in BOOLEAN /\ roster \in Seq(RosterType) /\ Len(roster) <= ROSTER_MAX
        BY <1>0, BusCycleAssumption DEF TableType
      <3>2. RosterEntry(a, e) \in RosterType
        BY <3>1, RosterEntryType
      <3>3. /\ Append(roster, RosterEntry(a, e)) \in Seq(RosterType)
            /\ Len(Append(roster, RosterEntry(a, e))) = Len(roster) + 1 /\ Len(roster) \in Nat
        BY <3>1, <3>2, AppendProps
      <3>4. /\ \/ roster' = Append(roster, RosterEntry(a, e)) /\ Len(roster) < ROSTER_MAX
               \/ roster' = roster
            /\ dirty' \in BOOLEAN /\ UNCHANGED <<active, nodes, ilNodesDead>>
        BY <1>0, <1>4 DEF RegisterSlave, MarkDirty, TableType
      <3>5. roster' \in Seq(RosterType) /\ Len(roster') <= ROSTER_MAX
        BY <3>1, <3>3, <3>4, BusCycleAssumption
      <3> QED BY <3>4, <3>5, <1>0 DEF TableType
    <2>3. EnvType'
      BY <1>0, <1>4 DEF EnvType, RegisterSlave
    <2>4. UNCHANGED <<chain, job, pc, idx, nodes, up>> /\ up.op = "idle"
      BY <1>4 DEF RegisterSlave, poolVars, cycVars, upVars, LockFree
    <2>5. JobsMatch' /\ EnterMatches'
      BY <2>4, <1>0 DEF JobsMatch, EnterMatches
    <2> QED BY <2>1, <2>2, <2>3, <2>4, <2>5, <1>0, QuietControl DEF IInv, BusTypes, ControlInv
  <1>5. ASSUME NEW act \in BOOLEAN, EnterBegin(act) PROVE IInv'
    <2>1. PoolType' /\ Conserved' /\ HoldsMatch' /\ CycType'
      BY <1>0, <1>5, PoolFrame, CycFrame DEF EnterBegin
    <2>2. TableType'
      <3>1. roster' \in Seq(RosterType) /\ Len(roster') <= ROSTER_MAX
        BY <1>5, BusCycleAssumption DEF EnterBegin
      <3> QED BY <3>1, <1>0, <1>5 DEF TableType, EnterBegin
    <2>3. UpType' /\ EnvType'
      <3>1. UpType'
        BY <1>0, <1>5 DEF UpType, EnterBegin
      <3>2. EnvType'
        <4>1. host' \in [Addrs -> [live : {"NONE", "DOWN", "UP"}, sum : Summaries]]
          BY <1>5, SilentType, Zenon DEF EnterBegin
        <4>2. budget' \in [msgs : Nat, admin : Nat, reattach : Nat, modes : Nat, flaps : Nat]
          BY <1>0, <1>5 DEF EnvType, EnterBegin
        <4> QED BY <4>1, <4>2, <1>0, <1>5, Zenon DEF EnvType, EnterBegin
      <3> QED BY <3>1, <3>2
    <2>4. UNCHANGED <<chain, job, pc, idx, nodes>> /\ up.op = "idle" /\ up'.op = "enter"
          /\ up'.left = 1 /\ Len(roster') = 0
      BY <1>5 DEF EnterBegin, poolVars, cycVars, LockFree
    <2>5. JobsMatch' /\ EnterMatches'
      BY <2>4, <1>0, CommissionedType DEF JobsMatch, EnterMatches
    <2> QED BY <2>1, <2>2, <2>3, <2>4, <2>5, <1>0, QuietControl DEF IInv, BusTypes, ControlInv
  <1>a. ASSUME up.op = "enter"
        PROVE  /\ up.left \in Nat /\ Len(roster) \in Nat /\ Len(Commissioned) \in Nat
               /\ Len(roster) \in {up.left - 1, up.left} /\ Len(roster) <= Len(Commissioned)
               /\ up.left <= Len(Commissioned) + 1 /\ Len(Commissioned) <= ROSTER_MAX
               /\ roster \in Seq(RosterType) /\ ROSTER_MAX \in Nat
    BY <1>a, <1>0, CommissionedType, BusCycleAssumption DEF UpType, EnterMatches, TableType
  <1>6. ASSUME EnterCopy PROVE IInv'
    <2>1. PoolType' /\ Conserved' /\ HoldsMatch' /\ CycType' /\ EnvType'
      BY <1>0, <1>6, PoolFrame, CycFrame, EnvFrame DEF EnterCopy
    <2>a. up.op = "enter" /\ up.left = Len(roster)
      BY <1>6 DEF EnterCopy
    <2>b. up.left \in 1..Len(Commissioned) \/ up.left = 0
      BY <1>a, <2>a
    <2>c. up.left # 0 => Commissioned[up.left] \in RosterType
      BY <2>b, CommissionedType
    <2>d. roster' \in Seq(RosterType) /\ Len(roster') = Len(roster)
      <3>1. roster' = [i \in DOMAIN roster |-> roster'[i]]
        BY <1>6, Zenon DEF EnterCopy
      <3>2. roster' = [roster EXCEPT ![up.left] = Commissioned[up.left]]
        BY <1>6 DEF EnterCopy
      <3>3. \A i \in DOMAIN roster : i # 0 /\ roster[i] \in RosterType
        BY <1>a, <2>a
      <3>4. \A i \in DOMAIN roster : roster'[i] \in RosterType
        BY <2>c, <3>2, <3>3
      <3> QED BY <3>1, <3>4, <1>a, <2>a, RosterMap
    <2>2. TableType'
      <3>1. Len(roster') <= ROSTER_MAX
        BY <1>0, <2>d DEF TableType
      <3> QED BY <3>1, <2>d, <1>0, <1>6 DEF TableType, EnterCopy
    <2>e. up' = [up EXCEPT !.left = @ + 1] /\ UNCHANGED <<cmd, linked, uplinkActive>>
      BY <1>6 DEF EnterCopy
    <2>f. up \in [op : {"idle", "inject", "enter"}, left : Nat, act : BOOLEAN]
      BY <1>0 DEF UpType
    <2>g. /\ up' \in [op : {"idle", "inject", "enter"}, left : Nat, act : BOOLEAN]
          /\ up'.op = "enter" /\ up'.left = up.left + 1
      BY <2>a, <2>e, <2>f
    <2>3. UpType'
      BY <1>0, <2>e, <2>g DEF UpType
    <2>4. UNCHANGED <<chain, job, pc, idx, nodes>>
      BY <1>6 DEF EnterCopy, poolVars, cycVars
    <2>5. JobsMatch' /\ EnterMatches'
      BY <2>4, <1>a, <2>a, <2>d, <2>g, <1>0 DEF JobsMatch, EnterMatches
    <2> QED BY <2>1, <2>2, <2>3, <2>4, <2>5, <1>0, QuietControl DEF IInv, BusTypes, ControlInv
  <1>9. ASSUME EnterGrow PROVE IInv'
    <2>1. PoolType' /\ Conserved' /\ HoldsMatch' /\ CycType' /\ EnvType' /\ UpType'
      BY <1>0, <1>9, PoolFrame, CycFrame, EnvFrame, UpFrame DEF EnterGrow
    <2>a. up.op = "enter" /\ up.left <= Len(Commissioned) /\ Len(roster) < up.left
      BY <1>9 DEF EnterGrow
    <2>c. RosterEntry(NoAddr, FALSE) \in RosterType
      BY RosterEntryType
    <2>d. roster' \in Seq(RosterType) /\ Len(roster') = Len(roster) + 1
      BY <1>a, <2>a, <2>c, <1>9, AppendProps DEF EnterGrow
    <2>2. TableType'
      <3>1. Len(roster') <= ROSTER_MAX
        BY <1>a, <2>a, <2>d
      <3> QED BY <3>1, <2>d, <1>0, <1>9 DEF TableType, EnterGrow
    <2>4. UNCHANGED <<chain, job, pc, idx, nodes, up>>
      BY <1>9 DEF EnterGrow, poolVars, cycVars, upVars
    <2>5. JobsMatch' /\ EnterMatches'
      BY <2>4, <1>a, <2>a, <2>d, <1>0 DEF JobsMatch, EnterMatches
    <2> QED BY <2>1, <2>2, <2>4, <2>5, <1>0, QuietControl DEF IInv, BusTypes, ControlInv
  <1>10. ASSUME CycleMode PROVE IInv'
    <2>1. PoolType' /\ Conserved' /\ HoldsMatch' /\ TableType' /\ CycType' /\ UpType'
      BY <1>0, <1>10, PoolFrame, TableFrame, CycFrame, UpFrame DEF CycleMode
    <2>2. EnvType'
      BY <1>0, <1>10 DEF EnvType, CycleMode
    <2>3. UNCHANGED <<chain, job, pc, idx, nodes, up, roster>>
      BY <1>10 DEF CycleMode, poolVars, tableVars, cycVars, upVars
    <2>4. JobsMatch' /\ EnterMatches'
      BY <2>3, <1>0 DEF JobsMatch, EnterMatches
    <2> QED BY <2>1, <2>2, <2>3, <2>4, <1>0, QuietControl DEF IInv, BusTypes, ControlInv
  <1>7. ASSUME EnterEnd PROVE IInv'
    <2>1. PoolType' /\ Conserved' /\ HoldsMatch' /\ TableType' /\ CycType' /\ EnvType'
      BY <1>0, <1>7, PoolFrame, TableFrame, CycFrame, EnvFrame DEF EnterEnd
    <2>3. UpType'
      BY <1>0, <1>7 DEF UpType, EnterEnd, Idle
    <2>4. UNCHANGED <<chain, job, pc, idx, nodes>> /\ up.op = "enter" /\ up'.op = "idle"
      BY <1>7 DEF EnterEnd, poolVars, cycVars, tableVars, Idle
    <2>5. JobsMatch' /\ EnterMatches'
      BY <2>4, <1>0 DEF JobsMatch, EnterMatches
    <2> QED BY <2>1, <2>3, <2>4, <2>5, <1>0, QuietControl DEF IInv, BusTypes, ControlInv
  <1>8. ASSUME WifiLost PROVE IInv'
    <2>1. PoolType' /\ Conserved' /\ HoldsMatch' /\ TableType' /\ CycType'
      BY <1>0, <1>8, PoolFrame, TableFrame, CycFrame DEF WifiLost
    <2>2. UpType' /\ EnvType'
      <3>1. UpType'
        BY <1>0, <1>8, Zenon DEF UpType, WifiLost
      <3>2. EnvType'
        BY <1>0, <1>8 DEF EnvType, WifiLost
      <3> QED BY <3>1, <3>2
    <2>3. UNCHANGED <<chain, job, pc, idx, nodes, up, roster>>
      BY <1>8 DEF WifiLost, poolVars, tableVars, cycVars
    <2>4. JobsMatch' /\ EnterMatches'
      BY <2>3, <1>0 DEF JobsMatch, EnterMatches
    <2> QED BY <2>1, <2>2, <2>3, <2>4, <1>0, QuietControl DEF IInv, BusTypes, ControlInv
  <1> QED BY <1>1, <1>2, <1>3, <1>4, <1>5, <1>6, <1>7, <1>8, <1>9, <1>10 DEF UplinkStep

-----------------------------------------------------------------------------
(* The bus task's steps.                                                   *)

LEMMA BusControl ==
    ASSUME JobsMatch, EnterMatches, UNCHANGED <<job, up>>, Len(roster') = Len(roster),
           pc # "cmd", pc' # "cmd"
    PROVE  JobsMatch' /\ EnterMatches'
  BY DEF JobsMatch, EnterMatches

LEMMA RebuildStep == ASSUME IInv, Rebuild PROVE IInv'
  <1>0. /\ PoolType /\ TableType /\ CycType /\ UpType /\ EnvType /\ ControlInv
        /\ HoldsMatch /\ DrainMatches /\ OrphansMatch /\ JobsMatch /\ EnterMatches /\ Conserved
    BY DEF IInv, BusTypes, ControlInv
  <1>1. /\ chain' \in Lists
        /\ HandedOver(chain, chain', NodeLists, ToOrphan)
        /\ \A h \in Private : chain'[h] = chain[h]
    BY <1>0, RebuildMoves DEF Private
  <1>2. /\ pc = "top" /\ pc' = "orphans"
        /\ UNCHANGED <<avail, exhausted, buf, accepted, job, wire, active, roster, ilNodesDead, up>>
    BY DEF Rebuild, upVars
  <1>3. chain'[Free] = chain[Free] /\ chain'[Drain] = chain[Drain]
        /\ \A p \in Producers : chain'[Hold(p)] = chain[Hold(p)]
    BY <1>1 DEF Private
  <1>4. Conserved'
    <2>1. chain \in Lists
      BY <1>0 DEF PoolType, Lists
    <2>2. Covers(chain') /\ Disjoint(chain')
      BY <1>0, <1>1, <2>1, HandOver DEF Conserved
    <2>3. avail' = Len(chain'[Free])
      BY <1>0, <1>2, <1>3 DEF Conserved
    <2> QED BY <2>2, <2>3 DEF Conserved, Covers, Disjoint
  <1>5. PoolType'
    BY <1>0, <1>1, <1>2 DEF PoolType, Lists
  <1>6. TableType'
    <2>1. PICK p \in SortOrder(roster) : nodes' = TableOf(roster, p)
      BY DEF Rebuild
    <2>2. roster \in Seq(RosterType) /\ Len(roster) <= ROSTER_MAX
      BY <1>0 DEF TableType
    <2>3. nodes' \in Seq(NodeType) /\ Len(nodes') <= ROSTER_MAX
      BY <2>1, <2>2, TableOfType
    <2>4. dirty' = FALSE
      BY DEF Rebuild
    <2> QED BY <2>3, <2>4, <1>0, <1>2, Zenon DEF TableType
  <1>7. CycType'
    BY <1>0, <1>2 DEF CycType, Rebuild
  <1>8. UpType' /\ EnvType'
    BY <1>0, UpFrame, EnvFrame DEF Rebuild
  <1>9. HoldsMatch' /\ DrainMatches' /\ OrphansMatch'
    BY <1>0, <1>2, <1>3 DEF HoldsMatch, DrainMatches, OrphansMatch
  <1>10. JobsMatch' /\ EnterMatches'
    BY <1>0, <1>2, BusControl
  <1> QED BY <1>4, <1>5, <1>6, <1>7, <1>8, <1>9, <1>10 DEF IInv, BusTypes, ControlInv

LEMMA RecoverOrphanStep == ASSUME IInv, RecoverOrphan PROVE IInv'
  <1>0. /\ PoolType /\ TableType /\ CycType /\ UpType /\ EnvType /\ ControlInv
        /\ HoldsMatch /\ DrainMatches /\ OrphansMatch /\ JobsMatch /\ EnterMatches /\ Conserved
    BY DEF IInv, BusTypes, ControlInv
  <1>1. PICK i \in Slots, k \in {0, 1} : Moved(chain, chain', Orphan(i, k), Free)
    BY <1>0, OrphanMoves
  <1>2. chain' \in Lists /\ avail' = avail + 1
    BY <1>0, OrphanMoves DEF RecoverOrphan
  <1>3. /\ Conserved' /\ avail' \in Nat
        /\ \A h \in Heads \ {Orphan(i, k), Free} : chain'[h] = chain[h]
    BY <1>0, <1>1, <1>2, ConservedMove
  <1>4. chain'[Drain] = chain[Drain] /\ \A p \in Producers : chain'[Hold(p)] = chain[Hold(p)]
    BY <1>3, HeadsIn, HeadsDistinct
  <1>5. PoolType'
    BY <1>0, <1>2, <1>3 DEF PoolType, Lists, RecoverOrphan
  <1>6. TableType' /\ CycType' /\ UpType' /\ EnvType'
    BY <1>0, TableFrame, CycFrame, UpFrame, EnvFrame DEF RecoverOrphan
  <1>7. pc = "orphans" /\ UNCHANGED <<job, pc, idx, nodes, roster, up>>
    BY DEF RecoverOrphan, tableVars, cycVars, upVars
  <1>8. HoldsMatch' /\ DrainMatches' /\ OrphansMatch'
    BY <1>0, <1>4, <1>7 DEF HoldsMatch, DrainMatches, OrphansMatch
  <1>9. JobsMatch' /\ EnterMatches'
    BY <1>0, <1>7, BusControl
  <1> QED BY <1>3, <1>5, <1>6, <1>8, <1>9 DEF IInv, BusTypes, ControlInv

LEMMA TakeListStep == ASSUME IInv, TakeList PROVE IInv'
  <1>0. /\ PoolType /\ TableType /\ CycType /\ UpType /\ EnvType /\ ControlInv
        /\ HoldsMatch /\ DrainMatches /\ OrphansMatch /\ JobsMatch /\ EnterMatches /\ Conserved
    BY DEF IInv, BusTypes, ControlInv
  <1>1. /\ chain' \in Lists
        /\ idx \in Slots /\ active \in {0, 1}
        /\ chain'[Drain] = chain[List(idx, active)]
        /\ \A h \in Heads \ {Drain, List(idx, active)} : chain'[h] = chain[h]
        /\ HandedOver(chain, chain', {List(idx, active)}, [x \in {List(idx, active)} |-> Drain])
    BY <1>0, TakeMoves
  <1>2. /\ pc = "send" /\ pc' = "transmit" /\ idx \in DOMAIN nodes
        /\ chain[List(idx, active)] # << >>
        /\ UNCHANGED <<avail, exhausted, buf, accepted, job, wire, idx, nodes, roster, up>>
    BY DEF TakeList, tableVars, upVars
  <1>3. /\ chain'[Free] = chain[Free] /\ \A p \in Producers : chain'[Hold(p)] = chain[Hold(p)]
        /\ \A i \in Slots, k \in {0, 1} : chain'[Orphan(i, k)] = chain[Orphan(i, k)]
    BY <1>1, HeadsIn, HeadsDistinct
  <1>4. Conserved'
    <2>1. chain \in Lists
      BY <1>0 DEF PoolType, Lists
    <2>2. Covers(chain') /\ Disjoint(chain')
      BY <1>0, <1>1, <2>1, HandOver DEF Conserved
    <2>3. avail' = Len(chain'[Free])
      BY <1>0, <1>2, <1>3 DEF Conserved
    <2> QED BY <2>2, <2>3 DEF Conserved, Covers, Disjoint
  <1>5. PoolType'
    BY <1>0, <1>1, <1>2 DEF PoolType, Lists
  <1>6. TableType' /\ UpType' /\ EnvType'
    BY <1>0, TableFrame, UpFrame, EnvFrame DEF TakeList
  <1>7. CycType'
    BY <1>0 DEF CycType, TakeList
  <1>8. HoldsMatch' /\ DrainMatches' /\ OrphansMatch'
    BY <1>0, <1>1, <1>2, <1>3 DEF HoldsMatch, DrainMatches, OrphansMatch
  <1>9. JobsMatch' /\ EnterMatches'
    BY <1>0, <1>2, BusControl
  <1> QED BY <1>4, <1>5, <1>6, <1>7, <1>8, <1>9 DEF IInv, BusTypes, ControlInv

LEMMA TransmitStep == ASSUME IInv, Transmit PROVE IInv'
  <1>0. /\ PoolType /\ TableType /\ CycType /\ UpType /\ EnvType /\ ControlInv
        /\ HoldsMatch /\ DrainMatches /\ OrphansMatch /\ JobsMatch /\ EnterMatches /\ Conserved
    BY DEF IInv, BusTypes, ControlInv
  <1>1. /\ chain' \in Lists /\ Moved(chain, chain', Drain, Free)
        /\ chain'[Drain] = Tail(chain[Drain]) /\ avail' = avail + 1
    BY <1>0, TransmitMoves DEF Transmit
  <1>2. /\ Conserved' /\ avail' \in Nat
        /\ \A h \in Heads \ {Drain, Free} : chain'[h] = chain[h]
    BY <1>0, <1>1, ConservedMove
  <1>3. /\ \A p \in Producers : chain'[Hold(p)] = chain[Hold(p)]
        /\ \A i \in Slots, k \in {0, 1} : chain'[Orphan(i, k)] = chain[Orphan(i, k)]
    BY <1>2, HeadsIn, HeadsDistinct
  <1>4. /\ pc = "transmit" /\ idx \in DOMAIN nodes /\ idx \in Slots /\ idx \in Nat \ {0}
        /\ nodes[idx] \in NodeType
        /\ UNCHANGED <<exhausted, buf, accepted, job, nodes, roster, up>>
        /\ \/ Tail(chain[Drain]) = << >> /\ pc' = "send" /\ idx' = idx + 1
           \/ Tail(chain[Drain]) # << >> /\ pc' = pc /\ idx' = idx
    <2>1. pc = "transmit" /\ idx \in DOMAIN nodes /\ idx \in Nat \ {0}
      BY <1>0 DEF Transmit, DrainMatches, CycType
    <2>2. idx \in Slots
      BY <1>0, <2>1, NodeIdxInSlots
    <2>3. nodes[idx] \in NodeType
      BY <1>0, <2>1, SeqElt, Zenon DEF TableType
    <2>4. UNCHANGED <<exhausted, buf, accepted, job, nodes, roster, up>>
      BY DEF Transmit, tableVars, upVars
    <2>5. \/ Tail(chain[Drain]) = << >> /\ pc' = "send" /\ idx' = idx + 1
          \/ Tail(chain[Drain]) # << >> /\ pc' = pc /\ idx' = idx
      BY DEF Transmit
    <2> QED BY <2>1, <2>2, <2>3, <2>4, <2>5
  <1>5. wire' \in Seq([at : Addrs \cup {NoAddr}, id : Nat, to : Addrs \cup {NoAddr}])
    <2>1. chain[Drain] \in Seq(Bufs) /\ chain[Drain] # << >>
      BY <1>0, <1>4, HeadsIn DEF PoolType, DrainMatches
    <2>2. Head(chain[Drain]) \in Bufs
      BY <2>1, TailProps
    <2>3. buf[Head(chain[Drain])] \in [to : Addrs \cup {NoAddr}, id : Nat]
      BY <1>0, <2>2 DEF PoolType
    <2>4. [at |-> nodes[idx].addr, id |-> buf[Head(chain[Drain])].id,
           to |-> buf[Head(chain[Drain])].to] \in [at : Addrs \cup {NoAddr}, id : Nat, to : Addrs \cup {NoAddr}]
      BY <2>3, <1>4 DEF NodeType
    <2>5. wire \in Seq([at : Addrs \cup {NoAddr}, id : Nat, to : Addrs \cup {NoAddr}])
      BY <1>0, Zenon DEF PoolType
    <2>6. \/ wire' = wire
          \/ wire' = Append(wire, [at |-> nodes[idx].addr, id |-> buf[Head(chain[Drain])].id,
                                   to |-> buf[Head(chain[Drain])].to])
      BY Zenon DEF Transmit
    <2> QED BY <2>4, <2>5, <2>6, AppendProps, ZenonT(60)
  <1>6. PoolType'
    BY <1>0, <1>1, <1>2, <1>4, <1>5, Zenon DEF PoolType, Lists
  <1>7. TableType' /\ UpType' /\ EnvType'
    BY <1>0, TableFrame, UpFrame, EnvFrame DEF Transmit
  <1>8. CycType'
    <2>1. marked' \subseteq Slots
      BY <1>0, <1>4 DEF CycType, Transmit
    <2>2. pc' \in Pcs /\ idx' \in Nat \ {0}
      BY <1>4 DEF Pcs
    <2> QED BY <2>1, <2>2, <1>0 DEF CycType, Pcs, Transmit
  <1>9. HoldsMatch' /\ DrainMatches' /\ OrphansMatch'
    BY <1>0, <1>1, <1>3, <1>4 DEF HoldsMatch, DrainMatches, OrphansMatch
  <1>10. JobsMatch' /\ EnterMatches'
    BY <1>0, <1>4, BusControl
  <1> QED BY <1>2, <1>6, <1>7, <1>8, <1>9, <1>10 DEF IInv, BusTypes, ControlInv

(* The steps that only advance the cycle.                                  *)
LEMMA AdvanceStep ==
    ASSUME IInv, \/ NoRebuild \/ OrphansDone \/ Swap \/ SkipList \/ SweepSkip \/ Notify
    PROVE  IInv'
  <1>0. /\ PoolType /\ TableType /\ CycType /\ UpType /\ EnvType
        /\ HoldsMatch /\ DrainMatches /\ OrphansMatch /\ JobsMatch /\ EnterMatches /\ Conserved
    BY DEF IInv, BusTypes, ControlInv
  <1>1. UNCHANGED <<poolVars, upVars, envVars, nodes, roster, dirty, ilNodesDead>>
    BY DEF NoRebuild, OrphansDone, Swap, SkipList, SweepSkip, Notify, tableVars
  <1>2. PoolType' /\ HoldsMatch' /\ Conserved' /\ UpType' /\ EnvType'
    BY <1>0, <1>1, PoolFrame, UpFrame, EnvFrame
  <1>3. TableType'
    <2>1. active' = active \/ active' = 1 - active
      BY DEF NoRebuild, OrphansDone, Swap, SkipList, SweepSkip, Notify, tableVars
    <2>2. active' \in {0, 1}
      BY <2>1, <1>0 DEF TableType
    <2> QED BY <2>2, <1>0, <1>1, Zenon DEF TableType
  <1>4. CycType'
    <2>1. idx \in Nat \ {0} /\ marked \subseteq Slots
          /\ deadTick \in 0..(SlowDiv - 1) /\ deadCursor \in 0..(ROSTER_MAX - 1)
          /\ seenEx \in Nat /\ exhausted \in Nat /\ pc \in Pcs /\ sr \in {"none", "silent", "answered"}
      BY <1>0 DEF CycType, PoolType, Pcs
    <2>2. /\ idx' \in Nat \ {0} /\ marked' \subseteq Slots /\ seenEx' \in Nat /\ pc' \in Pcs
          /\ deadTick' = deadTick /\ deadCursor' = deadCursor /\ sr' = sr
      BY <2>1 DEF NoRebuild, OrphansDone, Swap, SkipList, SweepSkip, Notify, cycVars, Pcs
    <2> QED BY <2>1, <2>2 DEF CycType, Pcs
  <1>5. UNCHANGED <<chain, job, up>>
    BY <1>1 DEF poolVars, upVars
  <1>6. /\ pc # "cmd" /\ pc' # "cmd" /\ pc # "transmit" /\ pc' # "transmit" /\ pc' # "orphans"
        /\ pc = "orphans" => Orphaned = {}
    BY DEF NoRebuild, OrphansDone, Swap, SkipList, SweepSkip, Notify
  <1>7. JobsMatch' /\ EnterMatches'
    BY <1>0, <1>1, <1>5, <1>6, BusControl
  <1>8. DrainMatches'
    BY <1>0, <1>5, <1>6 DEF DrainMatches
  <1>9. OrphansMatch'
    <2>1. CASE pc = "orphans"
      BY <2>1, <1>5, <1>6 DEF OrphansMatch, Orphaned
    <2>2. CASE pc # "orphans"
      BY <2>2, <1>0, <1>5 DEF OrphansMatch
    <2> QED BY <2>1, <2>2
  <1> QED BY <1>2, <1>3, <1>4, <1>7, <1>8, <1>9 DEF IInv, BusTypes, ControlInv

LEMMA DrainCmdStep == ASSUME IInv, DrainCmd PROVE IInv'
  <1>0. /\ PoolType /\ TableType /\ CycType /\ UpType /\ EnvType
        /\ HoldsMatch /\ DrainMatches /\ OrphansMatch /\ JobsMatch /\ EnterMatches /\ Conserved
    BY DEF IInv, BusTypes, ControlInv
  <1>1. "bus" \in Producers /\ "uplink" \in Producers /\ job["bus"].st = "none"
    BY <1>0 DEF DrainCmd, JobsMatch, Producers
  <1>2. /\ UNCHANGED <<chain, avail, exhausted, buf, accepted, wire>>
        /\ UNCHANGED <<up, nodes, roster, idx>>
        /\ pc = "drain" /\ pc' \in {"swap", "cmd"}
    BY DEF DrainCmd, tableVars
  <1>3. /\ job' \in [Producers -> JobSet]
        /\ \A q \in Producers \ {"bus"} : job'[q] = job[q]
        /\ \A q \in Producers :
               job'[q].st \in {"attach", "recover"} <=> job[q].st \in {"attach", "recover"}
        /\ job'["bus"].st # "none" <=> pc' = "cmd"
    <2>1. CASE cmd = NoAddr
      BY <2>1, <1>0, <1>1 DEF DrainCmd, PoolType, JobSet
    <2>2. CASE cmd # NoAddr
      <3>1. /\ cmd \in Addrs /\ pc' = "cmd"
            /\ job' = [job EXCEPT !["bus"] = NewJob(cmd)]
        BY <2>2, <1>0 DEF DrainCmd, UpType
      <3>2. /\ job' \in [Producers -> JobSet]
            /\ job'["bus"].st = "grab" /\ \A q \in Producers \ {"bus"} : job'[q] = job[q]
            /\ \A q \in Producers :
                   job'[q].st \in {"attach", "recover"} <=> job[q].st \in {"attach", "recover"}
        BY <3>1, <1>0, <1>1, NewJobProps
      <3> QED BY <3>1, <3>2
    <2> QED BY <2>1, <2>2
  <1>4. PoolType' /\ Conserved' /\ HoldsMatch'
    BY <1>2, <1>3, JobStep
  <1>5. TableType' /\ EnvType'
    BY <1>0, TableFrame, EnvFrame DEF DrainCmd
  <1>6. CycType'
    BY <1>0, <1>2 DEF CycType, DrainCmd
  <1>7. UpType'
    BY <1>0, Zenon DEF UpType, DrainCmd
  <1>8. DrainMatches' /\ OrphansMatch' /\ EnterMatches'
    BY <1>0, <1>2 DEF DrainMatches, OrphansMatch, EnterMatches
  <1>9. JobsMatch'
    BY <1>0, <1>1, <1>2, <1>3 DEF JobsMatch
  <1> QED BY <1>4, <1>5, <1>6, <1>7, <1>8, <1>9 DEF IInv, BusTypes, ControlInv

(* mark_alive and mark_miss keep the roster's type.                        *)
LEMMA MarkTypes ==
    ASSUME TableType, NEW a, MarkAlive(a) \/ MarkMiss(a)
    PROVE  roster' \in Seq(RosterType) /\ Len(roster') = Len(roster)
  <1>1. roster \in Seq(RosterType)
    BY Zenon DEF TableType
  <1>2. \A i \in DOMAIN roster : roster[i] \in RosterType
    BY <1>1, SeqElt, Zenon
  <1>4. \A r \in RosterType :
          /\ [r EXCEPT !.misses = 0, !.state = "ALIVE"] \in RosterType
          /\ Missed(r) \in RosterType
    <2> SUFFICES ASSUME NEW r \in RosterType
                 PROVE  /\ [r EXCEPT !.misses = 0, !.state = "ALIVE"] \in RosterType
                        /\ Missed(r) \in RosterType
      OBVIOUS
    <2>1. [r EXCEPT !.misses = 0, !.state = "ALIVE"] \in RosterType
      <3>1. ASSUME NEW m \in 0..MissTop, NEW t \in Liveness
            PROVE  [r EXCEPT !.misses = m, !.state = t] \in RosterType
        BY DEF RosterType
      <3>2. 0 \in 0..MissTop /\ "ALIVE" \in Liveness
        BY BusCycleAssumption DEF Liveness
      <3> QED BY <3>1, <3>2
    <2>2. Missed(r) \in RosterType
      <3> DEFINE m == IF r.misses < MissTop THEN r.misses + 1 ELSE r.misses
                 t == IF TooMany(m) THEN "DEAD" ELSE r.state
      <3>0. r.misses \in 0..MissTop /\ r.state \in Liveness /\ MissTop \in Nat
        BY BusCycleAssumption DEF RosterType
      <3>1. m \in 0..MissTop /\ t \in Liveness
        BY <3>0 DEF Liveness
      <3>2. Missed(r) = [r EXCEPT !.misses = m, !.state = t]
        BY Zenon DEF Missed
      <3> HIDE DEF m, t
      <3> QED BY <3>1, <3>2 DEF RosterType, Liveness
    <2> QED BY <2>1, <2>2
  <1>5. roster' = [i \in DOMAIN roster |-> roster'[i]]
    BY Zenon DEF MarkAlive, MarkMiss
  <1>6. \A i \in DOMAIN roster : roster'[i] \in RosterType
    BY <1>2, <1>4, Zenon DEF MarkAlive, MarkMiss
  <1> QED BY <1>1, <1>5, <1>6, RosterMap

(* A poll records a summary or nothing, and has a result.                  *)
LEMMA PollTypes ==
    ASSUME TableType, EnvType, NEW a, PollSlot(a)
    PROVE  /\ roster' \in Seq(RosterType) /\ Len(roster') = Len(roster)
           /\ sr' \in {"silent", "answered"}
  <1>1. roster \in Seq(RosterType)
    BY Zenon DEF TableType
  <1>2. ASSUME Answers(a) PROVE Recorded(a) \in Seq(RosterType) /\ Len(Recorded(a)) = Len(roster)
    <2>0. slave[a].sum \in Summaries
      BY <1>2 DEF EnvType, Answers
    <2>1. \A i \in DOMAIN roster : roster[i] \in RosterType
      BY <1>1, SeqElt, Zenon
    <2>2. \A r \in RosterType : [r EXCEPT !.summary = slave[a].sum] \in RosterType
      BY <2>0 DEF RosterType
    <2>3. Recorded(a) = [i \in DOMAIN roster |-> Recorded(a)[i]]
      BY Zenon DEF Recorded
    <2>4. \A i \in DOMAIN roster : Recorded(a)[i] \in RosterType
      BY <2>1, <2>2, Zenon DEF Recorded
    <2> QED BY <1>1, <2>3, <2>4, RosterMap
  <1>4. (roster' = roster \/ (Answers(a) /\ roster' = Recorded(a))) /\ sr' \in {"silent", "answered"}
    <2>1. CASE ~Answers(a) /\ sr' = "silent" /\ UNCHANGED roster
      BY <2>1
    <2>2. CASE Answers(a) /\ sr' = "answered" /\ (roster' = Recorded(a) \/ UNCHANGED roster)
      BY <2>2
    <2> QED BY <2>1, <2>2 DEF PollSlot
  <1> QED BY <1>1, <1>2, <1>4

(* So does the answer to a poll for a command's reply.                     *)
LEMMA HeardTypes ==
    ASSUME TableType, EnvType, NEW a, Answers(a), MarkHeard(a)
    PROVE  roster' \in Seq(RosterType) /\ Len(roster') = Len(roster)
  <1>1. roster \in Seq(RosterType) /\ \A i \in DOMAIN roster : roster[i] \in RosterType
    BY SeqElt, Zenon DEF TableType
  <1>2. slave[a].sum \in Summaries
    BY DEF EnvType, Answers
  <1>3. \A r \in RosterType : [r EXCEPT !.misses = 0, !.state = "ALIVE", !.summary = slave[a].sum] \in RosterType
    <2>1. 0 \in 0..MissTop /\ "ALIVE" \in Liveness
      BY BusCycleAssumption DEF Liveness
    <2>2. ASSUME NEW r \in RosterType, NEW m \in 0..MissTop, NEW t \in Liveness, NEW x \in Summaries
          PROVE  [r EXCEPT !.misses = m, !.state = t, !.summary = x] \in RosterType
      BY <2>2 DEF RosterType
    <2> QED BY <1>2, <2>1, <2>2
  <1>4. roster' = [i \in DOMAIN roster |-> roster'[i]]
    BY Zenon DEF MarkHeard
  <1>5. \A i \in DOMAIN roster : roster'[i] \in RosterType
    BY <1>1, <1>3, Zenon DEF MarkHeard
  <1> QED BY <1>1, <1>4, <1>5, RosterMap

(* Rewriting one entry of the node table keeps its type and its length.    *)
LEMMA NodeUpdate ==
    ASSUME NEW t \in Seq(NodeType), NEW i, NEW v, i \in 1..Len(t) => v \in NodeType
    PROVE  [t EXCEPT ![i] = v] \in Seq(NodeType) /\ Len([t EXCEPT ![i] = v]) = Len(t)
  <1> DEFINE u == [t EXCEPT ![i] = v]
  <1>1. Len(t) \in Nat /\ DOMAIN t = 1..Len(t) /\ \A k \in DOMAIN t : t[k] \in NodeType
    OBVIOUS
  <1>2. u \in [1..Len(t) -> NodeType]
    BY <1>1
  <1> HIDE DEF u
  <1>3. u \in Seq(NodeType) /\ Len(u) = Len(t)
    BY <1>1, <1>2
  <1> QED BY <1>3 DEF u

LEMMA NodeValues ==
    ASSUME NEW n \in NodeType
    PROVE  /\ [n EXCEPT !.miss = 0] \in NodeType
           /\ [n EXCEPT !.dead = FALSE, !.miss = 0] \in NodeType
           /\ SweepMiss(n) \in NodeType
  <1>0. n.miss \in 0..MissTop /\ 0 \in 0..MissTop /\ MissTop \in Nat
    BY BusCycleAssumption DEF NodeType
  <1>1. [n EXCEPT !.miss = 0] \in NodeType
    BY <1>0 DEF NodeType
  <1>2. ASSUME NEW d \in BOOLEAN, NEW m \in 0..MissTop PROVE [n EXCEPT !.dead = d, !.miss = m] \in NodeType
    BY DEF NodeType
  <1>3. SweepMiss(n) \in NodeType
    <2> DEFINE m == IF n.miss < MissTop THEN n.miss + 1 ELSE n.miss
               d == n.miss < MissTop /\ m >= MaxMisses
    <2>1. m \in 0..MissTop
      BY <1>0
    <2>2. d \in BOOLEAN
      OBVIOUS
    <2>3. SweepMiss(n) = [n EXCEPT !.miss = m, !.dead = d]
      BY Zenon DEF SweepMiss
    <2> HIDE DEF m, d
    <2> QED BY <2>1, <2>2, <2>3 DEF NodeType
  <1>4. FALSE \in BOOLEAN /\ 0 \in 0..MissTop
    BY <1>0
  <1> QED BY <1>1, <1>2, <1>3, <1>4

LEMMA ModBound == ASSUME NEW i \in Nat, NEW n \in Nat \ {0} PROVE i % n \in 0..(n - 1)
  OBVIOUS

(* The two polls: the roster may get a summary, the table is unchanged.    *)
LEMMA PollStep == ASSUME IInv, SweepPoll \/ ProbePoll PROVE IInv'
  <1>0. /\ PoolType /\ TableType /\ CycType /\ UpType /\ EnvType
        /\ HoldsMatch /\ DrainMatches /\ OrphansMatch /\ JobsMatch /\ EnterMatches /\ Conserved
    BY DEF IInv, BusTypes, ControlInv
  <1>a. /\ nodes \in Seq(NodeType) /\ Len(nodes) \in Nat /\ DOMAIN nodes = 1..Len(nodes)
        /\ Len(nodes) <= ROSTER_MAX /\ ROSTER_MAX \in Nat \ {0}
    BY <1>0, SeqElt, BusCycleAssumption, Zenon DEF TableType
  <1>1. PICK i \in DOMAIN nodes :
          /\ PollSlot(nodes[i].addr)
          /\ idx' = i
          /\ deadCursor' = deadCursor \/ deadCursor' = NextCursor(i)
    BY DEF SweepPoll, ProbePoll, NextDead
  <1>4. /\ roster' \in Seq(RosterType) /\ Len(roster') = Len(roster)
        /\ sr' \in {"silent", "answered"}
    BY <1>0, <1>1, PollTypes
  <1>5. UNCHANGED <<poolVars, active, nodes, dirty, ilNodesDead, marked, seenEx, upVars, envVars>>
    BY DEF SweepPoll, ProbePoll
  <1>6. TableType'
    BY <1>0, <1>4, <1>5, Zenon DEF TableType
  <1>7. PoolType' /\ HoldsMatch' /\ Conserved' /\ UpType' /\ EnvType'
    BY <1>0, <1>5, PoolFrame, UpFrame, EnvFrame
  <1>8. CycType'
    <2>1. deadCursor' \in 0..(ROSTER_MAX - 1)
      <3>1. Len(nodes) \in Nat \ {0} /\ i \in Nat
        BY <1>a
      <3>2. i % Len(nodes) \in 0..(Len(nodes) - 1)
        BY <3>1, ModBound
      <3> QED BY <1>0, <1>1, <1>a, <3>1, <3>2 DEF NextCursor, CycType
    <2>2. deadTick' \in 0..(SlowDiv - 1)
      BY <1>0, BusCycleAssumption DEF SweepPoll, ProbePoll, CycType
    <2>3. pc' \in {"swept", "probed"}
      BY DEF SweepPoll, ProbePoll
    <2> QED BY <2>1, <2>2, <2>3, <1>0, <1>1, <1>4, <1>5, <1>a DEF CycType
  <1>9. pc \in {"sweep", "probe"} /\ pc' \in {"swept", "probed"} /\ UNCHANGED <<chain, job, up>>
    BY DEF SweepPoll, ProbePoll, poolVars, upVars
  <1>10. JobsMatch' /\ EnterMatches'
    BY <1>0, <1>4, <1>9, BusControl
  <1>11. DrainMatches' /\ OrphansMatch'
    BY <1>0, <1>9 DEF DrainMatches, OrphansMatch
  <1> QED BY <1>6, <1>7, <1>8, <1>10, <1>11 DEF IInv, BusTypes, ControlInv

LEMMA DeadCountType ==
    ASSUME NEW t \in Seq(NodeType), Len(t) <= ROSTER_MAX
    PROVE  DeadCount(t) \in 0..ROSTER_MAX
  <1>1. Len(t) \in Nat /\ DOMAIN t = 1..Len(t)
    OBVIOUS
  <1>2. IsFiniteSet(1..Len(t)) /\ Cardinality(1..Len(t)) = Len(t)
    <2>1. 1 \in Int /\ Len(t) \in Int /\ (IF 1 > Len(t) THEN 0 ELSE Len(t) - 1 + 1) = Len(t)
      BY ONLY <1>1
    <2>2. /\ IsFiniteSet(1..Len(t))
          /\ Cardinality(1..Len(t)) = IF 1 > Len(t) THEN 0 ELSE Len(t) - 1 + 1
      BY ONLY <2>1, FS_Interval, Zenon
    <2> QED BY ONLY <2>1, <2>2
  <1>3. {i \in DOMAIN t : t[i].dead} \subseteq 1..Len(t)
    BY <1>1
  <1>4. /\ IsFiniteSet({i \in DOMAIN t : t[i].dead})
        /\ Cardinality({i \in DOMAIN t : t[i].dead}) <= Len(t)
    BY <1>2, <1>3, FS_Subset
  <1>5. Cardinality({i \in DOMAIN t : t[i].dead}) \in Nat
    BY <1>4, FS_CardinalityType
  <1> QED BY <1>1, <1>4, <1>5, BusCycleAssumption DEF DeadCount

(* The steps that rewrite the node table or count its dead nodes.          *)
LEMMA MarkStep == ASSUME IInv, SweepMark \/ ProbeMark \/ ProbeNone PROVE IInv'
  <1>0. /\ PoolType /\ TableType /\ CycType /\ UpType /\ EnvType
        /\ HoldsMatch /\ DrainMatches /\ OrphansMatch /\ JobsMatch /\ EnterMatches /\ Conserved
    BY DEF IInv, BusTypes, ControlInv
  <1>a. /\ nodes \in Seq(NodeType) /\ roster \in Seq(RosterType)
        /\ Len(nodes) \in Nat /\ Len(nodes) <= ROSTER_MAX
        /\ idx \in 1..Len(nodes) => nodes[idx] \in NodeType
    BY <1>0, SeqElt, Zenon DEF TableType
  <1>1. roster' \in Seq(RosterType) /\ Len(roster') = Len(roster)
    <2>1. \/ UNCHANGED roster \/ MarkAlive(nodes[idx].addr) \/ MarkMiss(nodes[idx].addr)
      BY Zenon DEF SweepMark, ProbeMark, ProbeNone
    <2> QED BY <2>1, <1>0, <1>a, MarkTypes
  <1>2. nodes' \in Seq(NodeType) /\ Len(nodes') = Len(nodes)
    <2>1. \/ nodes' = nodes
          \/ nodes' = [nodes EXCEPT ![idx] = [nodes[idx] EXCEPT !.miss = 0]]
          \/ nodes' = [nodes EXCEPT ![idx] = SweepMiss(nodes[idx])]
          \/ nodes' = [nodes EXCEPT ![idx] = [nodes[idx] EXCEPT !.dead = FALSE, !.miss = 0]]
      <3>1. CASE SweepMark
        BY <3>1, Zenon DEF SweepMark
      <3>2. CASE ProbeMark
        <4>1. \/ nodes' = nodes
              \/ nodes' = [nodes EXCEPT ![idx].dead = FALSE, ![idx].miss = 0]
          BY <3>2 DEF ProbeMark
        <4>2. [nodes EXCEPT ![idx].dead = FALSE, ![idx].miss = 0]
                = [nodes EXCEPT ![idx] = [nodes[idx] EXCEPT !.dead = FALSE, !.miss = 0]]
          OBVIOUS
        <4> QED BY <4>1, <4>2
      <3>3. CASE ProbeNone
        BY <3>3 DEF ProbeNone
      <3> QED BY <3>1, <3>2, <3>3
    <2>2. idx \in 1..Len(nodes) => /\ [nodes[idx] EXCEPT !.miss = 0] \in NodeType
                                  /\ SweepMiss(nodes[idx]) \in NodeType
                                  /\ [nodes[idx] EXCEPT !.dead = FALSE, !.miss = 0] \in NodeType
      BY <1>a, NodeValues
    <2> QED BY <2>1, <2>2, <1>a, NodeUpdate, SMTT(60)
  <1>3. ilNodesDead' \in 0..ROSTER_MAX
    <2>1. CASE SweepMark
      BY <2>1, <1>0 DEF SweepMark, TableType
    <2>2. CASE ProbeMark \/ ProbeNone
      <3>1. ilNodesDead' = DeadCount(nodes') \/ ilNodesDead' = DeadCount(nodes)
        BY <2>2 DEF ProbeMark, ProbeNone
      <3> QED BY <3>1, <1>2, <1>a, DeadCountType
    <2> QED BY <2>1, <2>2
  <1>4. UNCHANGED <<poolVars, active, dirty, marked, deadCursor, seenEx, upVars, envVars>>
    BY DEF SweepMark, ProbeMark, ProbeNone
  <1>5. TableType'
    BY <1>0, <1>1, <1>2, <1>3, <1>4, <1>a, Zenon DEF TableType
  <1>6. CycType'
    <2>1. deadTick' \in 0..(SlowDiv - 1)
      <3>1. deadTick \in 0..(SlowDiv - 1) /\ SlowDiv \in Nat \ {0}
        BY <1>0, BusCycleAssumption DEF CycType
      <3>2. deadTick' = deadTick \/ deadTick' = IF deadTick + 1 >= SlowDiv THEN 0 ELSE deadTick + 1
        BY Zenon DEF SweepMark, ProbeMark, ProbeNone, ProbeTime
      <3> QED BY ONLY <3>1, <3>2
    <2>2. idx' \in Nat \ {0} /\ sr' \in {"none", "silent", "answered"} /\ pc' \in {"sweep", "notify"}
      BY <1>0 DEF SweepMark, ProbeMark, ProbeNone, CycType
    <2> QED BY <2>1, <2>2, <1>0, <1>4 DEF CycType
  <1>7. PoolType' /\ HoldsMatch' /\ Conserved' /\ UpType' /\ EnvType'
    BY <1>0, <1>4, PoolFrame, UpFrame, EnvFrame
  <1>8. pc \in {"swept", "probe", "probed"} /\ pc' \in {"sweep", "notify"} /\ UNCHANGED <<chain, job, up>>
    BY DEF SweepMark, ProbeMark, ProbeNone, poolVars, upVars
  <1>9. JobsMatch' /\ EnterMatches'
    BY <1>0, <1>1, <1>8, BusControl
  <1>10. DrainMatches' /\ OrphansMatch'
    BY <1>0, <1>8 DEF DrainMatches, OrphansMatch
  <1> QED BY <1>5, <1>6, <1>7, <1>9, <1>10 DEF IInv, BusTypes, ControlInv

LEMMA EdgeTypes ==
    ASSUME NEW r \in RosterType
    PROVE  /\ Shadow(r) \in RosterType /\ Announce(r) \in RosterType /\ Deferred(r) \in RosterType
           /\ Told(r) \in {"DOWN", "UP", "FLAGGED"}
  <1>1. Shadow(r) \in RosterType
    BY DEF Shadow, RosterType
  <1>2. \A q \in RosterType, x \in Summaries : [q EXCEPT !.annSummary = x] \in RosterType
    BY DEF RosterType
  <1>3. r.summary \in Summaries
    BY DEF RosterType
  <1>4. Announce(r) \in RosterType /\ Deferred(r) \in RosterType
    BY <1>1, <1>2, <1>3, Zenon DEF Announce, Deferred
  <1> QED BY <1>1, <1>4, Zenon DEF Told

LEMMA EmitEdgesStep ==
    ASSUME IInv, NEW room \in BOOLEAN, EmitEdges(room)
    PROVE  IInv'
  <1>0. /\ PoolType /\ TableType /\ CycType /\ UpType /\ EnvType
        /\ HoldsMatch /\ DrainMatches /\ OrphansMatch /\ JobsMatch /\ EnterMatches /\ Conserved
    BY DEF IInv, BusTypes, ControlInv
  <1>1. roster \in Seq(RosterType) /\ \A i \in DOMAIN roster : roster[i] \in RosterType
    BY <1>0, SeqElt, Zenon DEF TableType
  <1>2. \A i \in DOMAIN roster : AfterEdges(i, room) \in RosterType
    BY <1>1, EdgeTypes, Zenon DEF AfterEdges
  <1>3. roster' = [i \in DOMAIN roster |-> AfterEdges(i, room)]
    BY DEF EmitEdges
  <1>4. roster' \in Seq(RosterType) /\ Len(roster') = Len(roster)
    <2>1. roster' = [i \in DOMAIN roster |-> roster'[i]]
      BY <1>3, Zenon
    <2>2. \A i \in DOMAIN roster : roster'[i] \in RosterType
      BY <1>2, <1>3, Zenon
    <2> QED BY <2>1, <2>2, <1>1, RosterMap
  <1>5. TableType'
    BY <1>0, <1>4, Zenon DEF TableType, EmitEdges
  <1>6. EnvType'
    <2>1. host' \in [Addrs -> [live : {"NONE", "DOWN", "UP"}, sum : Summaries]]
      <3>0. host \in [Addrs -> [live : {"NONE", "DOWN", "UP"}, sum : Summaries]]
        BY <1>0 DEF EnvType
      <3>1. CASE UNCHANGED host
        BY <3>0, <3>1
      <3>2. CASE \E i \in FirstLoud : host' = [host EXCEPT ![roster[i].addr] = Hears(@, roster[i])]
        <4>1. PICK i \in FirstLoud : host' = [host EXCEPT ![roster[i].addr] = Hears(@, roster[i])]
          BY <3>2
        <4>2. roster[i] \in RosterType
          BY <1>1 DEF FirstLoud
        <4>3. roster[i].summary \in Summaries
          BY <4>2 DEF RosterType
        <4>4. Told(roster[i]) \in {"DOWN", "UP", "FLAGGED"}
          BY <4>2, EdgeTypes
        <4>5. \A h \in [live : {"NONE", "DOWN", "UP"}, sum : Summaries] :
                Hears(h, roster[i]) \in [live : {"NONE", "DOWN", "UP"}, sum : Summaries]
          BY <4>3, <4>4 DEF Hears
        <4> QED BY <3>0, <4>1, <4>3, <4>5
      <3> QED BY <3>1, <3>2 DEF EmitEdges
    <2> QED BY <2>1, <1>0, Zenon DEF EnvType, EmitEdges
  <1>7. CycType'
    BY <1>0 DEF CycType, EmitEdges
  <1>8. PoolType' /\ HoldsMatch' /\ Conserved' /\ UpType'
    BY <1>0, PoolFrame, UpFrame DEF EmitEdges
  <1>9. pc = "edges" /\ pc' = "top" /\ UNCHANGED <<chain, job, up>>
    BY DEF EmitEdges, poolVars, upVars
  <1>10. JobsMatch' /\ EnterMatches'
    BY <1>0, <1>4, <1>9, BusControl
  <1>11. DrainMatches' /\ OrphansMatch'
    BY <1>0, <1>9 DEF DrainMatches, OrphansMatch
  <1> QED BY <1>5, <1>6, <1>7, <1>8, <1>10, <1>11 DEF IInv, BusTypes, ControlInv

(* The steps of the per-slot rotation: they touch the roster's marks and   *)
(* the command slot.                                                       *)
RosterMarked == \E a : PollSlot(a) \/ MarkAlive(a) \/ MarkMiss(a) \/ (Answers(a) /\ MarkHeard(a))
SlotFrame ==
    /\ UNCHANGED <<poolVars, active, nodes, dirty, ilNodesDead, idx, marked, deadTick,
                   deadCursor, seenEx, up, linked, uplinkActive, host, slave>>
    /\ pc \in {"top", "inject", "slot", "slotted"}
    /\ pc' \in {"top", "inject", "slot", "slotted", "edges"}
    /\ sr' \in {"none", "silent", "answered"}
    /\ cmd' \in Addrs \cup {NoAddr}
    /\ EnvType'
    /\ \/ UNCHANGED roster
       \/ RosterMarked
LEMMA SlotStepFacts == ASSUME IInv, SlotStep PROVE SlotFrame
  <1>0. TableType /\ CycType /\ UpType /\ EnvType
    BY DEF IInv, BusTypes
  <1> USE DEF SlotFrame
  <1>a. sr \in {"none", "silent", "answered"} /\ cmd \in Addrs \cup {NoAddr}
    BY <1>0 DEF CycType, UpType
  <1>1. ASSUME NEW a \in Addrs, SlotOrig(a) PROVE SlotFrame
    <2>1. EnvType'
      BY <1>0, <1>1 DEF EnvType, SlotOrig
    <2> QED BY <1>1, <1>a, <2>1 DEF SlotOrig, AtTop, tableVars, cycVars
  <1>2. ASSUME SlotCmd PROVE SlotFrame
    BY <1>2, <1>0, <1>a, EnvFrame DEF SlotCmd, AtTop, tableVars, upVars, envVars
  <1>3. ASSUME SlotInject PROVE SlotFrame
    <2>1. EnvType' /\ UNCHANGED <<host, slave>>
      BY <1>0, <1>3, EnvFrame DEF SlotInject, envVars
    <2>2. UNCHANGED roster \/ RosterMarked
      BY <1>3, Zenon DEF SlotInject, RosterMarked
    <2> QED BY <1>3, <1>a, <2>1, <2>2 DEF SlotInject
  <1>4. ASSUME SlotCollect PROVE SlotFrame
    <2>1. EnvType' /\ UNCHANGED <<host, slave>>
      BY <1>0, <1>4, EnvFrame DEF SlotCollect, envVars
    <2>2. UNCHANGED roster \/ RosterMarked
      BY <1>4, Zenon DEF SlotCollect, RosterMarked
    <2> QED BY <1>4, <1>a, <2>1, <2>2 DEF SlotCollect, AtTop, upVars
  <1>5. ASSUME SlotNext PROVE SlotFrame
    BY <1>5, <1>0, <1>a, EnvFrame DEF SlotNext, AtTop, tableVars, upVars, envVars
  <1>6. ASSUME SlotNone PROVE SlotFrame
    BY <1>6, <1>0, <1>a, EnvFrame DEF SlotNone, AtTop, tableVars, upVars, envVars
  <1>7. ASSUME SlotPoll PROVE SlotFrame
    <2>1. EnvType' /\ UNCHANGED <<host, slave>>
      BY <1>0, <1>7, EnvFrame DEF SlotPoll, envVars
    <2>2. PollSlot(slot.to)
      BY <1>7 DEF SlotPoll
    <2>3. sr' \in {"silent", "answered"}
      BY <1>0, <2>2, PollTypes
    <2>4. RosterMarked
      BY <2>2, Zenon DEF RosterMarked
    <2> QED BY <1>7, <1>a, <2>1, <2>3, <2>4 DEF SlotPoll, upVars
  <1>8. ASSUME SlotMark PROVE SlotFrame
    <2>1. EnvType' /\ UNCHANGED <<host, slave>>
      BY <1>0, <1>8, EnvFrame DEF SlotMark, envVars
    <2>2. RosterMarked
      BY <1>8, Zenon DEF SlotMark, RosterMarked
    <2> QED BY <1>8, <1>a, <2>1, <2>2 DEF SlotMark, upVars
  <1> HIDE DEF SlotFrame
  <1> QED BY <1>1, <1>2, <1>3, <1>4, <1>5, <1>6, <1>7, <1>8 DEF SlotStep

LEMMA SlotPreserves == ASSUME IInv, SlotStep PROVE IInv'
  <1>0. /\ PoolType /\ TableType /\ CycType /\ UpType /\ EnvType
        /\ HoldsMatch /\ DrainMatches /\ OrphansMatch /\ JobsMatch /\ EnterMatches /\ Conserved
    BY DEF IInv, BusTypes, ControlInv
  <1>1. /\ UNCHANGED <<poolVars, active, nodes, dirty, ilNodesDead, idx, marked, deadTick,
                        deadCursor, seenEx, up, linked, uplinkActive>>
        /\ pc \in {"top", "inject", "slot", "slotted"}
        /\ pc' \in {"top", "inject", "slot", "slotted", "edges"}
        /\ sr' \in {"none", "silent", "answered"} /\ cmd' \in Addrs \cup {NoAddr} /\ EnvType'
    BY SlotStepFacts DEF SlotFrame
  <1>2. roster' \in Seq(RosterType) /\ Len(roster') = Len(roster)
    <2>1. CASE UNCHANGED roster
      BY <2>1, <1>0 DEF TableType
    <2>2. CASE RosterMarked
      BY <2>2, <1>0, PollTypes, MarkTypes, HeardTypes DEF RosterMarked
    <2> QED BY <2>1, <2>2, SlotStepFacts DEF SlotFrame
  <1>3. TableType'
    BY <1>0, <1>1, <1>2, Zenon DEF TableType
  <1>4. PoolType' /\ HoldsMatch' /\ Conserved'
    BY <1>0, <1>1, PoolFrame
  <1>5. CycType'
    BY <1>0, <1>1 DEF CycType
  <1>6. UpType'
    BY <1>0, <1>1, Zenon DEF UpType
  <1>7. UNCHANGED <<chain, job>>
    BY <1>1 DEF poolVars
  <1>8. JobsMatch' /\ EnterMatches'
    BY <1>0, <1>1, <1>2, <1>7, BusControl
  <1>9. DrainMatches' /\ OrphansMatch'
    BY <1>0, <1>1, <1>7 DEF DrainMatches, OrphansMatch
  <1> QED BY <1>1, <1>3, <1>4, <1>5, <1>6, <1>8, <1>9 DEF IInv, BusTypes, ControlInv

LEMMA BusPreserves == ASSUME IInv, BusStep PROVE IInv'
  BY SlotPreserves, RebuildStep, RecoverOrphanStep, TakeListStep, TransmitStep, AdvanceStep, DrainCmdStep,
     PollStep, MarkStep, EmitEdgesStep DEF BusStep

LEMMA SlaveStep ==
    ASSUME IInv, NEW a \in Addrs, NEW u \in BOOLEAN, NEW x \in Summaries,
           SlaveChange(a, [up |-> u, sum |-> x])
    PROVE  IInv'
  <1>0. /\ PoolType /\ TableType /\ CycType /\ UpType /\ EnvType
        /\ HoldsMatch /\ DrainMatches /\ OrphansMatch /\ JobsMatch /\ EnterMatches /\ Conserved
    BY DEF IInv, BusTypes, ControlInv
  <1>1. PoolType' /\ HoldsMatch' /\ Conserved' /\ TableType' /\ CycType' /\ UpType'
    BY <1>0, PoolFrame, TableFrame, CycFrame, UpFrame DEF SlaveChange
  <1>2. EnvType'
    <2>1. slave' \in [Addrs -> [up : BOOLEAN, sum : Summaries]]
      BY <1>0 DEF EnvType, SlaveChange
    <2>2. budget' \in [msgs : Nat, admin : Nat, reattach : Nat, modes : Nat, flaps : Nat]
      BY <1>0 DEF EnvType, SlaveChange
    <2> QED BY <2>1, <2>2, <1>0, Zenon DEF EnvType, SlaveChange
  <1>3. UNCHANGED <<chain, job, pc, idx, nodes, up, roster>>
    BY DEF SlaveChange, poolVars, tableVars, cycVars, upVars
  <1>4. JobsMatch' /\ EnterMatches'
    BY <1>0, <1>3 DEF JobsMatch, EnterMatches
  <1> QED BY <1>0, <1>1, <1>2, <1>3, <1>4, QuietControl DEF IInv, BusTypes, ControlInv

LEMMA IInvInit == Init => IInv
  <1> SUFFICES ASSUME Init PROVE IInv
    OBVIOUS
  <1>1. BusTypes
    BY TypeInit
  <1>2. PICK f \in [1..Cardinality(Bufs) -> Bufs] :
          /\ \A b \in Bufs : \E i \in DOMAIN f : f[i] = b
          /\ \A i, j \in DOMAIN f : f[i] = f[j] => i = j
          /\ chain = [h \in Heads |-> IF h = Free THEN f ELSE << >>]
    BY DEF Init
  <1>3. Cardinality(Bufs) \in Nat
    BY BusCycleAssumption, FS_CardinalityType
  <1>4. f \in Seq(Bufs) /\ Len(f) = Cardinality(Bufs) /\ DOMAIN f = 1..Len(f)
    BY <1>3
  <1>5. /\ Free \in Heads /\ chain[Free] = f
        /\ \A h \in Heads \ {Free} : chain[h] = << >> /\ Len(chain[h]) = 0
    BY <1>2, HeadsIn
  <1>6. Covers(chain)
    BY <1>2, <1>4, <1>5 DEF Covers
  <1>7. Disjoint(chain)
    <2> SUFFICES ASSUME NEW h \in Heads, NEW g \in Heads, NEW i \in 1..Len(chain[h]),
                        NEW j \in 1..Len(chain[g]), chain[h][i] = chain[g][j]
                 PROVE  h = g /\ i = j
      BY DEF Disjoint
    <2>1. h = Free /\ g = Free
      BY <1>5
    <2> QED BY <2>1, <1>2, <1>4, <1>5
  <1>8. avail = Len(chain[Free])
    BY <1>4, <1>5 DEF Init
  <1>9. ControlInv
    <2>1. /\ job = [q \in Producers |-> NoJob] /\ pc = "top" /\ up = Idle
      BY DEF Init
    <2>2. HoldsMatch
      BY <2>1, <1>5, HeadsIn, HeadsDistinct DEF HoldsMatch, NoJob
    <2>3. DrainMatches /\ OrphansMatch
      BY <2>1, <1>5, HeadsIn, HeadsDistinct DEF DrainMatches, OrphansMatch
    <2>4. JobsMatch /\ EnterMatches
      BY <2>1 DEF JobsMatch, EnterMatches, Idle, NoJob, Producers
    <2> QED BY <2>2, <2>3, <2>4 DEF ControlInv
  <1> QED BY <1>1, <1>6, <1>7, <1>8, <1>9 DEF IInv, Conserved

LEMMA IInvNext == IInv /\ [Next]_vars => IInv'
  <1> SUFFICES ASSUME IInv, [Next]_vars PROVE IInv'
    OBVIOUS
  <1>1. CASE UNCHANGED vars
    <2>1. UNCHANGED <<poolVars, tableVars, cycVars, upVars, envVars>>
      BY <1>1 DEF vars
    <2>2. BusTypes' /\ Conserved'
      BY <2>1, PoolFrame, TableFrame, CycFrame, UpFrame, EnvFrame DEF IInv, BusTypes
    <2>3. ControlInv'
      BY <2>1 DEF IInv, ControlInv, HoldsMatch, DrainMatches, OrphansMatch, JobsMatch,
                  EnterMatches, poolVars, tableVars, cycVars, upVars
    <2> QED BY <2>2, <2>3 DEF IInv
  <1>2. CASE Next
    BY <1>2, BusPreserves, UplinkPreserves, ProducerPreserves, EngineStep, SlaveStep DEF Next
  <1> QED BY <1>1, <1>2

(* Who changes the mode, the rotation's slot and the two histories.        *)
LEMMA ModeQuiet ==
    ASSUME [Next]_vars
    PROVE  \/ UNCHANGED <<modeVars, revived, notice>>
           \/ CycleMode \/ SlotStep \/ Notify \/ Rebuild \/ SweepMark \/ ProbeMark
           \/ \E p \in Producers : CountExhausted(p)
  <1>1. CASE UNCHANGED vars
    BY <1>1 DEF vars
  <1>2. ASSUME NEW p \in Producers, ProducerStep(p), ~CountExhausted(p)
        PROVE  UNCHANGED <<modeVars, revived, notice>>
    BY <1>2 DEF ProducerStep, PoolGrab, PoolExhausted, Attach, AttachUnknown, SendRecover
  <1>3. ASSUME NEW a \in Addrs, EngineSend(a) PROVE UNCHANGED <<modeVars, revived, notice>>
    BY <1>3 DEF EngineSend
  <1>4. ASSUME NEW a, NEW x, SlaveChange(a, x) PROVE UNCHANGED <<modeVars, revived, notice>>
    BY <1>4 DEF SlaveChange
  <1>5. ASSUME UplinkStep, ~CycleMode PROVE UNCHANGED <<modeVars, revived, notice>>
    <2>1. ASSUME NEW a, StageCmd(a) PROVE UNCHANGED <<modeVars, revived, notice>>
      BY <2>1 DEF StageCmd
    <2>2. ASSUME NEW a, NEW n, Inject(a, n) PROVE UNCHANGED <<modeVars, revived, notice>>
      BY <2>2 DEF Inject
    <2>3. ASSUME NEW a, NEW e, RegisterSlave(a, e) PROVE UNCHANGED <<modeVars, revived, notice>>
      BY <2>3 DEF RegisterSlave
    <2>4. ASSUME NEW b, EnterBegin(b) PROVE UNCHANGED <<modeVars, revived, notice>>
      BY <2>4 DEF EnterBegin
    <2>5. ASSUME ClearRoster \/ EnterGrow \/ EnterCopy \/ EnterEnd \/ WifiLost
          PROVE  UNCHANGED <<modeVars, revived, notice>>
      BY <2>5 DEF ClearRoster, EnterGrow, EnterCopy, EnterEnd, WifiLost
    <2> QED BY <1>5, <2>1, <2>2, <2>3, <2>4, <2>5 DEF UplinkStep
  <1>6. ASSUME BusStep, ~(SlotStep \/ Notify \/ Rebuild \/ SweepMark \/ ProbeMark)
        PROVE  UNCHANGED <<modeVars, revived, notice>>
    <2>1. ASSUME NEW room, EmitEdges(room) PROVE UNCHANGED <<modeVars, revived, notice>>
      BY <2>1 DEF EmitEdges
    <2>2. ASSUME NoRebuild \/ RecoverOrphan \/ OrphansDone \/ DrainCmd \/ Swap \/ TakeList
          PROVE  UNCHANGED <<modeVars, revived, notice>>
      BY <2>2 DEF NoRebuild, RecoverOrphan, OrphansDone, DrainCmd, Swap, TakeList
    <2>3. ASSUME SkipList \/ Transmit \/ SweepSkip \/ SweepPoll \/ ProbeNone \/ ProbePoll
          PROVE  UNCHANGED <<modeVars, revived, notice>>
      BY <2>3 DEF SkipList, Transmit, SweepSkip, SweepPoll, ProbeNone, ProbePoll
    <2> QED BY <1>6, <2>1, <2>2, <2>3 DEF BusStep
  <1> QED BY <1>1, <1>2, <1>3, <1>4, <1>5, <1>6 DEF Next

LEMMA SlotModeType == ASSUME IInv, ModeType, SlotStep PROVE ModeType'
  <1> USE DEF ModeType, modeVars
  <1>1. cmd \in Addrs \cup {NoAddr} /\ roster \in Seq(RosterType)
    BY DEF IInv, BusTypes, UpType, TableType
  <1>2. \A i \in DOMAIN roster : roster[i].addr \in Addrs \cup {NoAddr}
    <2>1. \A i \in DOMAIN roster : roster[i] \in RosterType
      BY <1>1, SeqElt, Zenon
    <2> QED BY <2>1 DEF RosterType
  <1>3. ASSUME NEW a \in Addrs, SlotOrig(a) PROVE ModeType'
    BY <1>3 DEF SlotOrig
  <1>4. CASE SlotCmd
    BY <1>1, <1>4 DEF SlotCmd
  <1>5. CASE SlotInject
    BY <1>5 DEF SlotInject
  <1>6. CASE SlotCollect
    <2>1. /\ slot' = slot \/ slot' = NoSlot
          /\ revived' = revived \/ revived' = revived \cup {slot.to}
          /\ cycleMode' = cycleMode /\ notice' = notice
      BY <1>6, Zenon DEF SlotCollect
    <2>2. NoSlot \in [to : Addrs \cup {NoAddr}, collect : BOOLEAN]
      BY DEF NoSlot
    <2>3. slot.to \in Addrs \cup {NoAddr}
      OBVIOUS
    <2>4. slot' \in [to : Addrs \cup {NoAddr}, collect : BOOLEAN]
      BY <2>1, <2>2, Zenon
    <2>5. revived' \subseteq Addrs \cup {NoAddr}
      BY <2>1, <2>3
    <2> QED BY <2>1, <2>4, <2>5
  <1>7. CASE SlotNext
    BY <1>2, <1>7 DEF SlotNext
  <1>8. CASE SlotNone \/ SlotPoll
    BY <1>8 DEF SlotNone, SlotPoll
  <1>9. CASE SlotMark
    BY <1>9 DEF SlotMark, NoSlot
  <1> QED BY <1>3, <1>4, <1>5, <1>6, <1>7, <1>8, <1>9 DEF SlotStep

(* Every variable of the cycle keeps its type for any pool size, roster    *)
(* size and number of steps: in particular g_dead_cursor, g_dead_tick and  *)
(* g_il_nodes_dead stay inside the tables they index or count.             *)
THEOREM TypeSafety == Spec => []TypeOK
  <1>1. Init => ModeType
    BY DEF Init, ModeType, NoSlot
  <1>2. ASSUME IInv, ModeType, [Next]_vars PROVE ModeType'
    <2>1. CASE UNCHANGED <<modeVars, revived, notice>>
      BY <1>2, <2>1 DEF ModeType, modeVars
    <2>2. CASE CycleMode
      BY <1>2, <2>2 DEF ModeType, CycleMode
    <2>3. CASE SlotStep
      BY <1>2, <2>3, SlotModeType
    <2>4. ASSUME NEW p \in Producers, CountExhausted(p) PROVE ModeType'
      BY <1>2, <2>4 DEF ModeType, CountExhausted, modeVars
    <2>5. CASE Notify
      BY <1>2, <2>5 DEF ModeType, Notify, modeVars
    <2>6. CASE Rebuild \/ SweepMark \/ ProbeMark
      BY <1>2, <2>6 DEF ModeType, Rebuild, SweepMark, ProbeMark, modeVars
    <2> QED BY <1>2, <2>1, <2>2, <2>3, <2>4, <2>5, <2>6, ModeQuiet
  <1>3. IInv /\ ModeType => TypeOK
    BY DEF IInv, TypeOK
  <1>4. IInv /\ ModeType /\ [Next]_vars => ModeType'
    BY <1>2
  <1> QED BY IInvInit, IInvNext, <1>1, <1>3, <1>4, PTL DEF Spec

(* The pool is conserved for every number of buffers, nodes, producers'    *)
(* interleavings, rebuilds and re-attaches: each tx_buf_t is on exactly    *)
(* one list at one place, and g_pool_avail is the length of the free list. *)
THEOREM PoolSafety == Spec => []PoolConserved
  <1>1. IInv => PoolConserved
    BY ConservedGivesPool DEF IInv, BusTypes
  <1> QED BY IInvInit, IInvNext, <1>1, PTL DEF Spec

-----------------------------------------------------------------------------
(* Delivery.  What DeliveredToOwner needs in addition: the buffers in the  *)
(* hands of a producer and of the message pass are for the node they go    *)
(* to, the numbers of the waiting messages and of the frames sent are all  *)
(* different, and the pass has emptied the lists it has passed.            *)

(* The buffers on a list, and those on the way from a node's list to the   *)
(* wire.                                                                   *)
At(c, h) == {c[h][i] : i \in 1..Len(c[h])}
Waits(c) == {b \in Bufs : \/ b \in At(c, Drain)
                          \/ \E i \in Slots, k \in {0, 1} : b \in At(c, List(i, k))}

OwnPart == \A i \in Slots, k \in {0, 1} : \A b \in At(chain, List(i, k)) :
               i \in DOMAIN nodes /\ buf[b].to = nodes[i].addr
HandPart ==
    /\ pc = "transmit" => \A b \in At(chain, Drain) : buf[b].to = nodes[idx].addr
    /\ \A p \in Producers : job[p].st = "attach" =>
           \A b \in At(chain, Hold(p)) : buf[b].to = job[p].to
NumberPart ==
    /\ \A b \in Waits(chain) : buf[b].id <= accepted
    /\ \A b, c \in Waits(chain) : buf[b].id = buf[c].id => b = c
WirePart ==
    /\ \A i \in 1..Len(wire) : wire[i].at = wire[i].to /\ wire[i].id <= accepted
    /\ \A i \in 1..Len(wire), b \in Waits(chain) : wire[i].id # buf[b].id
    /\ \A i, j \in 1..Len(wire) : wire[i].id = wire[j].id => i = j
Passed(i) == (pc = "send" => i < idx) /\ (pc = "transmit" => i <= idx)
PassPart == \A i \in Slots : Passed(i) => chain[List(i, active)] = << >>
DInv == OwnPart /\ HandPart /\ NumberPart /\ WirePart /\ PassPart

LEMMA AtMoved ==
    ASSUME NEW c \in Lists, NEW d \in Lists, NEW x, NEW y, Moved(c, d, x, y), Disjoint(c)
    PROVE  /\ x \in Heads /\ y \in Heads /\ x # y
           /\ Head(c[x]) \in Bufs /\ Head(c[x]) \in At(c, x)
           /\ At(d, x) = At(c, x) \ {Head(c[x])}
           /\ At(d, y) = At(c, y) \cup {Head(c[x])}
           /\ \A h \in Heads \ {x, y} : d[h] = c[h] /\ At(d, h) = At(c, h)
  <1>0. /\ x \in Heads /\ y \in Heads /\ x # y
        /\ c[x] \in Seq(Bufs) /\ c[x] # << >> /\ c[y] \in Seq(Bufs)
        /\ \A h \in Heads \ {x, y} : d[h] = c[h]
    BY DEF Moved, Lists
  <1>1. /\ Len(c[x]) \in Nat \ {0} /\ Len(d[x]) = Len(c[x]) - 1 /\ Head(c[x]) = c[x][1]
        /\ d[y][1] = c[x][1] /\ Len(c[y]) \in Nat /\ Len(d[y]) = Len(c[y]) + 1
        /\ \A i \in 1..(Len(c[x]) - 1) : d[x][i] = c[x][i + 1]
        /\ \A i \in 1..Len(c[y]) : d[y][i + 1] = c[y][i]
        /\ Head(c[x]) \in Bufs
    BY <1>0, TailProps DEF Moved
  <1>2. \A i, j \in 1..Len(c[x]) : c[x][i] = c[x][j] => i = j
    BY <1>0 DEF Disjoint
  <1>3. Head(c[x]) \in At(c, x)
    BY <1>1 DEF At
  <1>4. At(d, x) = At(c, x) \ {Head(c[x])}
    <2>1. ASSUME NEW b \in At(d, x) PROVE b \in At(c, x) /\ b # Head(c[x])
      <3>1. PICK i \in 1..(Len(c[x]) - 1) : b = c[x][i + 1]
        BY <1>1 DEF At
      <3>2. i + 1 \in 1..Len(c[x]) /\ 1 \in 1..Len(c[x]) /\ i + 1 # 1
        BY <1>1
      <3> QED BY <3>1, <3>2, <1>1, <1>2 DEF At
    <2>2. ASSUME NEW b \in At(c, x), b # Head(c[x]) PROVE b \in At(d, x)
      <3>1. PICK i \in 1..Len(c[x]) : b = c[x][i]
        BY DEF At
      <3>2. i - 1 \in 1..(Len(c[x]) - 1) /\ (i - 1) + 1 = i
        BY <3>1, <2>2, <1>1
      <3>3. d[x][i - 1] = b
        BY <3>1, <3>2, <1>1
      <3> QED BY <3>2, <3>3, <1>1 DEF At
    <2> QED BY <2>1, <2>2
  <1>5. At(d, y) = At(c, y) \cup {Head(c[x])}
    <2>1. ASSUME NEW b \in At(d, y) PROVE b \in At(c, y) \/ b = Head(c[x])
      <3>1. PICK i \in 1..(Len(c[y]) + 1) : b = d[y][i]
        BY <1>1 DEF At
      <3>2. CASE i = 1
        BY <3>1, <3>2, <1>1
      <3>3. CASE i # 1
        <4>1. i - 1 \in 1..Len(c[y]) /\ (i - 1) + 1 = i
          BY <3>3, <1>1
        <4>2. d[y][i] = c[y][i - 1]
          BY <4>1, <1>1
        <4> QED BY <4>1, <4>2, <3>1 DEF At
      <3> QED BY <3>2, <3>3
    <2>2. ASSUME NEW b \in At(c, y) PROVE b \in At(d, y)
      <3>1. PICK i \in 1..Len(c[y]) : b = c[y][i]
        BY DEF At
      <3>2. i + 1 \in 1..Len(d[y]) /\ d[y][i + 1] = b
        BY <3>1, <1>1
      <3> QED BY <3>2 DEF At
    <2>3. Head(c[x]) \in At(d, y)
      <3>1. 1 \in 1..Len(d[y])
        BY <1>1
      <3> QED BY <3>1, <1>1 DEF At
    <2> QED BY <2>1, <2>2, <2>3
  <1>6. \A h \in Heads \ {x, y} : At(d, h) = At(c, h)
    BY <1>0 DEF At
  <1> QED BY <1>0, <1>1, <1>3, <1>4, <1>5, <1>6

LEMMA AtApart ==
    ASSUME NEW c \in Lists, Disjoint(c)
    PROVE  \A h, g \in Heads : h # g => \A b \in At(c, h) : b \notin At(c, g)
  BY DEF At, Disjoint

LEMMA AtEmpty ==
    ASSUME NEW c \in Lists, NEW h \in Heads
    PROVE  /\ c[h] = << >> <=> At(c, h) = {}
           /\ At(c, h) \subseteq Bufs
  <1>1. c[h] \in Seq(Bufs)
    BY DEF Lists
  <1>2. Len(c[h]) \in Nat /\ (c[h] = << >> <=> Len(c[h]) = 0) /\ \A i \in 1..Len(c[h]) : c[h][i] \in Bufs
    BY <1>1, SeqElt, EmptySeq
  <1>3. Len(c[h]) # 0 => 1 \in 1..Len(c[h])
    BY <1>2
  <1>4. Len(c[h]) = 0 => 1..Len(c[h]) = {}
    BY <1>2
  <1> QED BY <1>2, <1>3, <1>4 DEF At

(* The lists the messages wait on are the message pass's and the nodes'.   *)
LEMMA WaitsIn ==
    ASSUME NEW c \in Lists
    PROVE  /\ \A b \in At(c, Drain) : b \in Waits(c)
           /\ \A i \in Slots, k \in {0, 1} : \A b \in At(c, List(i, k)) : b \in Waits(c)
           /\ \A b \in Waits(c) : /\ b \in Bufs
                                  /\ \/ b \in At(c, Drain)
                                     \/ \E i \in Slots, k \in {0, 1} : b \in At(c, List(i, k))
  BY AtEmpty, HeadsIn DEF Waits

(* A step that moves no buffer and sends nothing.                          *)
LEMMA DeliveryFrame ==
    ASSUME OwnPart, HandPart, NumberPart, WirePart,
           UNCHANGED <<chain, buf, accepted, wire>>,
           DOMAIN nodes' = DOMAIN nodes,
           \A i \in DOMAIN nodes : nodes'[i].addr = nodes[i].addr,
           pc' = "transmit" => pc = "transmit" /\ idx' = idx /\ idx \in DOMAIN nodes,
           \A p \in Producers : job'[p].st = "attach" => job[p].st = "attach" /\ job'[p].to = job[p].to
    PROVE  OwnPart' /\ HandPart' /\ NumberPart' /\ WirePart'
  <1>1. OwnPart'
    BY DEF OwnPart
  <1>2. HandPart'
    BY DEF HandPart
  <1>3. NumberPart' /\ WirePart'
    BY DEF NumberPart, WirePart
  <1> QED BY <1>1, <1>2, <1>3

LEMMA PassFrame ==
    ASSUME PassPart, UNCHANGED <<chain, active>>,
           \/ UNCHANGED <<pc, idx>>
           \/ pc \notin {"send", "transmit"}
    PROVE  PassPart'
  BY DEF PassPart, Passed

LEMMA DFacts ==
    ASSUME IInv, DInv
    PROVE  /\ chain \in Lists /\ Disjoint(chain) /\ PoolType /\ TableType /\ CycType /\ UpType
           /\ ControlInv /\ HoldsMatch /\ DrainMatches /\ OrphansMatch /\ JobsMatch
           /\ OwnPart /\ HandPart /\ NumberPart /\ WirePart /\ PassPart
  BY DEF IInv, DInv, BusTypes, Conserved, PoolType, Lists, ControlInv

LEMMA GrabDelivers == ASSUME IInv, DInv, NEW p \in Producers, PoolGrab(p) PROVE DInv'
  <1>0. /\ chain \in Lists /\ Disjoint(chain) /\ PoolType /\ ControlInv /\ HoldsMatch
        /\ OwnPart /\ HandPart /\ NumberPart /\ WirePart /\ PassPart
    BY DFacts
  <1>u. UNCHANGED <<accepted, wire, active, nodes, pc, idx>>
    BY DEF PoolGrab, tableVars, cycVars
  <1>1. /\ chain' \in Lists /\ Moved(chain, chain', Free, Hold(p))
    BY <1>0, GrabMoves
  <1> DEFINE b == Head(chain[Free])
  <1>2. /\ b \in Bufs /\ b \in At(chain, Free)
        /\ At(chain', Hold(p)) = At(chain, Hold(p)) \cup {b}
        /\ \A h \in Heads \ {Free, Hold(p)} : chain'[h] = chain[h] /\ At(chain', h) = At(chain, h)
    BY <1>0, <1>1, AtMoved
  <1>3. job[p].st = "grab" /\ job' = [job EXCEPT ![p].st = "attach"]
        /\ buf' = [buf EXCEPT ![b] = [to |-> job[p].to, id |-> 0]]
    BY DEF PoolGrab
  <1> HIDE DEF b
  <1>4. buf'[b].to = job[p].to /\ \A c \in Bufs \ {b} : buf'[c] = buf[c]
    BY <1>0, <1>2, <1>3 DEF PoolType
  <1>5. job'[p].to = job[p].to /\ \A q \in Producers \ {p} : job'[q] = job[q]
    BY <1>0, <1>3 DEF PoolType
  <1>6. At(chain, Hold(p)) = {}
    <2>1. chain[Hold(p)] = << >>
      BY <1>0, <1>3 DEF HoldsMatch
    <2> QED BY <2>1, <1>0, AtEmpty, HeadsIn
  <1>7. \A h \in Heads \ {Free} : b \notin At(chain, h) /\ At(chain, h) \subseteq Bufs
    BY <1>0, <1>2, AtApart, AtEmpty, HeadsIn
  <1>8. \A i \in Slots, k \in {0, 1} :
          /\ At(chain', List(i, k)) = At(chain, List(i, k)) /\ chain'[List(i, k)] = chain[List(i, k)]
          /\ b \notin At(chain, List(i, k)) /\ At(chain, List(i, k)) \subseteq Bufs
    BY <1>2, <1>7, HeadsIn, HeadsDistinct
  <1>9. At(chain', Drain) = At(chain, Drain) /\ b \notin At(chain, Drain) /\ At(chain, Drain) \subseteq Bufs
    BY <1>2, <1>7, HeadsIn, HeadsDistinct
  <1>10. \A q \in Producers \ {p} : /\ At(chain', Hold(q)) = At(chain, Hold(q))
                                   /\ b \notin At(chain, Hold(q)) /\ At(chain, Hold(q)) \subseteq Bufs
    BY <1>2, <1>7, HeadsIn, HeadsDistinct
  <1>11. Waits(chain') = Waits(chain) /\ b \notin Waits(chain) /\ Waits(chain) \subseteq Bufs
    BY <1>8, <1>9 DEF Waits
  <1>12. OwnPart'
    BY <1>0, <1>u, <1>4, <1>8 DEF OwnPart
  <1>13. HandPart'
    <2>1. pc' = "transmit" => \A c \in At(chain', Drain) : buf'[c].to = nodes'[idx'].addr
      BY <1>0, <1>u, <1>4, <1>9 DEF HandPart
    <2>2. ASSUME NEW q \in Producers, job'[q].st = "attach", NEW c \in At(chain', Hold(q))
          PROVE  buf'[c].to = job'[q].to
      <3>1. CASE q = p
        BY <3>1, <2>2, <1>2, <1>4, <1>5, <1>6
      <3>2. CASE q # p
        BY <3>2, <2>2, <1>0, <1>4, <1>5, <1>10 DEF HandPart
      <3> QED BY <3>1, <3>2
    <2> QED BY <2>1, <2>2 DEF HandPart
  <1>14. NumberPart'
    BY <1>0, <1>u, <1>4, <1>11 DEF NumberPart
  <1>15. WirePart'
    BY <1>0, <1>u, <1>4, <1>11 DEF WirePart
  <1>16. PassPart'
    <2>1. active \in {0, 1}
      BY DFacts DEF TableType
    <2> QED BY <1>0, <1>u, <1>8, <2>1 DEF PassPart, Passed
  <1> QED BY <1>12, <1>13, <1>14, <1>15, <1>16 DEF DInv

LEMMA AttachDelivers == ASSUME IInv, DInv, NEW p \in Producers, Attach(p) PROVE DInv'
  <1>0. /\ chain \in Lists /\ Disjoint(chain) /\ PoolType /\ TableType /\ CycType /\ UpType
        /\ ControlInv /\ HoldsMatch /\ JobsMatch
        /\ OwnPart /\ HandPart /\ NumberPart /\ WirePart /\ PassPart
    BY DFacts
  <1>u. UNCHANGED <<wire, active, nodes, idx>> /\ accepted' = accepted + 1
    BY DEF Attach, tableVars
  <1>a. accepted \in Nat /\ active \in {0, 1} /\ 1 - active \in {0, 1} /\ active # 1 - active
        /\ wire \in Seq([at : Addrs \cup {NoAddr}, id : Nat, to : Addrs \cup {NoAddr}])
    BY <1>0 DEF PoolType, TableType
  <1> DEFINE b == Head(chain[Hold(p)])
  <1>1. PICK i \in NodeIdx(job[p].to) :
          /\ Moved(chain, chain', Hold(p), List(i, 1 - active))
          /\ buf' = [buf EXCEPT ![b].id = accepted + 1]
    BY <1>0, AttachMoves
  <1>b. i \in Slots /\ i \in DOMAIN nodes /\ nodes[i].addr = job[p].to
    BY <1>0, NodeIdxInSlots DEF NodeIdx
  <1> DEFINE l == List(i, 1 - active)
  <1>2. /\ b \in Bufs /\ b \in At(chain, Hold(p))
        /\ At(chain', Hold(p)) = At(chain, Hold(p)) \ {b}
        /\ At(chain', l) = At(chain, l) \cup {b}
        /\ \A h \in Heads \ {Hold(p), l} : chain'[h] = chain[h] /\ At(chain', h) = At(chain, h)
    <2>1. chain' \in Lists
      BY <1>0, AttachMoves
    <2> QED BY <1>0, <1>1, <2>1, AtMoved
  <1>3. /\ l \in Heads /\ \A q \in Producers : Hold(q) \in Heads /\ Hold(q) # l
        /\ Drain # l /\ Drain \in Heads /\ Drain # Hold(p)
        /\ \A j \in Slots, k \in {0, 1} : /\ List(j, k) \in Heads /\ List(j, k) # Hold(p)
                                           /\ List(j, k) = l => j = i /\ k = 1 - active
    BY <1>a, <1>b, HeadsIn, HeadsDistinct
  <1> HIDE DEF b, l
  <1>4. /\ buf'[b].to = buf[b].to /\ buf'[b].id = accepted + 1
        /\ \A c \in Bufs \ {b} : buf'[c] = buf[c]
    BY <1>0, <1>1, <1>2 DEF PoolType
  <1>5. /\ \A q \in Producers \ {p} : job'[q] = job[q]
        /\ job'[p].st # "attach"
        /\ pc' # pc => pc = "cmd" /\ pc' = "swap"
    <2>1. job[p].st # "none" /\ Return(p, TRUE)
      BY DEF Attach
    <2>2. /\ job'[p].st \in {"none", "grab"}
          /\ \A q \in Producers \ {p} : job'[q] = job[q]
          /\ pc' # pc => pc = "cmd" /\ pc' = "swap"
      BY <2>1, <1>0, ReturnProps
    <2> QED BY <2>2
  <1>6. buf[b].to = job[p].to
    BY <1>0, <1>2 DEF HandPart, Attach
  <1>7. \A h \in Heads \ {Hold(p)} : b \notin At(chain, h) /\ At(chain, h) \subseteq Bufs
    BY <1>0, <1>2, <1>3, AtApart, AtEmpty
  <1>8. /\ At(chain', Drain) = At(chain, Drain)
        /\ At(chain', l) = At(chain, l) \cup {b}
        /\ \A j \in Slots, k \in {0, 1} : List(j, k) # l =>
             At(chain', List(j, k)) = At(chain, List(j, k)) /\ chain'[List(j, k)] = chain[List(j, k)]
    <2>1. At(chain', Drain) = At(chain, Drain)
      BY <1>2, <1>3
    <2>2. ASSUME NEW j \in Slots, NEW k \in {0, 1}, List(j, k) # l
          PROVE  At(chain', List(j, k)) = At(chain, List(j, k)) /\ chain'[List(j, k)] = chain[List(j, k)]
      <3>1. List(j, k) \in Heads \ {Hold(p), l}
        BY <2>2, HeadsIn, HeadsDistinct
      <3> QED BY <3>1, <1>2
    <2> QED BY <1>2, <2>1, <2>2
  <1>9. /\ Waits(chain') = Waits(chain) \cup {b} /\ b \notin Waits(chain)
        /\ Waits(chain) \subseteq Bufs
    <2>0. b \notin At(chain, Drain) /\ \A j \in Slots, k \in {0, 1} : b \notin At(chain, List(j, k))
      BY <1>7, HeadsIn, HeadsDistinct
    <2>1. b \notin Waits(chain) /\ Waits(chain) \subseteq Bufs
      BY <2>0 DEF Waits
    <2>2. b \in Waits(chain')
      BY <1>2, <1>8, <1>a, <1>b DEF Waits, l
    <2>3. ASSUME NEW c \in Bufs, c # b PROVE c \in Waits(chain') <=> c \in Waits(chain)
      <3>1. \A j \in Slots, k \in {0, 1} : c \in At(chain', List(j, k)) <=> c \in At(chain, List(j, k))
        BY <1>8, <2>3
      <3> QED BY <3>1, <1>8 DEF Waits
    <2> QED BY <2>1, <2>2, <2>3, <1>2 DEF Waits
  <1>10. OwnPart'
    <2> SUFFICES ASSUME NEW j \in Slots, NEW k \in {0, 1}, NEW c \in At(chain', List(j, k))
                 PROVE  j \in DOMAIN nodes' /\ buf'[c].to = nodes'[j].addr
      BY DEF OwnPart
    <2>1. CASE List(j, k) = l /\ c = b
      BY <2>1, <1>u, <1>b, <1>3, <1>4, <1>6
    <2>2. CASE ~(List(j, k) = l /\ c = b)
      <3>1. c \in At(chain, List(j, k))
        BY <2>2, <1>8
      <3>a. List(j, k) \in Heads \ {Hold(p)}
        BY HeadsIn, HeadsDistinct
      <3>2. c \in Bufs \ {b}
        BY <3>1, <3>a, <1>7
      <3> QED BY <3>1, <3>2, <1>0, <1>u, <1>4 DEF OwnPart
    <2> QED BY <2>1, <2>2
  <1>11. HandPart'
    <2>1. pc' = "transmit" => \A c \in At(chain', Drain) : buf'[c].to = nodes'[idx'].addr
      <3>1. At(chain, Drain) \subseteq Bufs \ {b}
        BY <1>3, <1>7
      <3> QED BY <3>1, <1>0, <1>u, <1>4, <1>5, <1>8 DEF HandPart
    <2>2. ASSUME NEW q \in Producers, job'[q].st = "attach", NEW c \in At(chain', Hold(q))
          PROVE  buf'[c].to = job'[q].to
      <3>1. q # p
        BY <2>2, <1>5
      <3>2. Hold(q) # Hold(p) /\ Hold(q) \in Heads
        BY <3>1, HeadsDistinct, HeadsIn
      <3>3. c \in At(chain, Hold(q)) /\ c \in Bufs \ {b}
        BY <3>2, <2>2, <1>2, <1>3, <1>7
      <3> QED BY <3>1, <3>3, <2>2, <1>0, <1>4, <1>5 DEF HandPart
    <2> QED BY <2>1, <2>2 DEF HandPart
  <1>12. \A c \in Waits(chain) : buf'[c].id = buf[c].id /\ buf[c].id \in Nat /\ buf[c].id <= accepted
    BY <1>0, <1>4, <1>9 DEF NumberPart, PoolType
  <1>13. NumberPart'
    <2>0. accepted \in Nat /\ accepted' = accepted + 1
      BY <1>0, <1>u, <1>a DEF PoolType
    <2>1. \A c \in Waits(chain') : c = b \/ c \in Waits(chain)
      BY <1>9
    <2>2. \A c \in Waits(chain') : buf'[c].id <= accepted'
      BY <2>0, <2>1, <1>4, <1>12
    <2>3. ASSUME NEW c \in Waits(chain'), NEW e \in Waits(chain'), buf'[c].id = buf'[e].id PROVE c = e
      <3>1. CASE c \in Waits(chain) /\ e \in Waits(chain)
        BY <3>1, <2>3, <1>0, <1>12 DEF NumberPart
      <3>2. CASE c = b /\ e \in Waits(chain)
        BY <3>2, <2>0, <2>3, <1>4, <1>12
      <3>3. CASE c \in Waits(chain) /\ e = b
        BY <3>3, <2>0, <2>3, <1>4, <1>12
      <3> QED BY <2>1, <3>1, <3>2, <3>3
    <2> QED BY <2>2, <2>3 DEF NumberPart
  <1>14. WirePart'
    <2>0. \A j \in 1..Len(wire) : wire[j] \in [at : Addrs \cup {NoAddr}, id : Nat, to : Addrs \cup {NoAddr}]
      BY <1>a, SeqElt, Zenon
    <2>1. \A j \in 1..Len(wire) : wire[j].id \in Nat /\ wire[j].id <= accepted
      BY <2>0, <1>0 DEF WirePart
    <2> QED BY <2>1, <1>0, <1>u, <1>a, <1>4, <1>9, <1>12 DEF WirePart
  <1>15. PassPart'
    <2>1. \A j \in Slots : List(j, active) # l
      BY <1>3, <1>a
    <2>2. \A j \in Slots : chain'[List(j, active)] = chain[List(j, active)]
      BY <2>1, <1>8, <1>a
    <2> QED BY <2>2, <1>0, <1>u, <1>5 DEF PassPart, Passed
  <1> QED BY <1>10, <1>11, <1>13, <1>14, <1>15 DEF DInv

(* A buffer that goes back to the pool from a list nothing waits on.       *)
LEMMA ReturnDelivers ==
    ASSUME IInv, DInv, chain' \in Lists, NEW x, Moved(chain, chain', x, Free),
           x # Drain, \A i \in Slots, k \in {0, 1} : x # List(i, k),
           UNCHANGED <<buf, accepted, wire, active, nodes, idx>>,
           pc' # pc => pc = "cmd" /\ pc' = "swap",
           \A q \in Producers : job'[q].st = "attach" => job'[q] = job[q] /\ x # Hold(q)
    PROVE  DInv'
  <1>0. /\ chain \in Lists /\ Disjoint(chain) /\ TableType
        /\ OwnPart /\ HandPart /\ NumberPart /\ WirePart /\ PassPart
    BY DFacts
  <1>1. \A h \in Heads \ {x, Free} : chain'[h] = chain[h] /\ At(chain', h) = At(chain, h)
    BY <1>0, AtMoved
  <1>2. \A i \in Slots, k \in {0, 1} :
          At(chain', List(i, k)) = At(chain, List(i, k)) /\ chain'[List(i, k)] = chain[List(i, k)]
    BY <1>1, HeadsIn, HeadsDistinct
  <1>3. At(chain', Drain) = At(chain, Drain)
    BY <1>1, HeadsIn, HeadsDistinct
  <1>4. Waits(chain') = Waits(chain)
    BY <1>2, <1>3 DEF Waits
  <1>5. \A q \in Producers : x # Hold(q) => At(chain', Hold(q)) = At(chain, Hold(q))
    BY <1>1, HeadsIn, HeadsDistinct
  <1>6. OwnPart'
    BY <1>0, <1>2 DEF OwnPart
  <1>7. HandPart'
    <2>1. pc' = "transmit" => \A c \in At(chain', Drain) : buf'[c].to = nodes'[idx'].addr
      BY <1>0, <1>3 DEF HandPart
    <2>2. ASSUME NEW q \in Producers, job'[q].st = "attach", NEW c \in At(chain', Hold(q))
          PROVE  buf'[c].to = job'[q].to
      BY <2>2, <1>0, <1>5 DEF HandPart
    <2> QED BY <2>1, <2>2 DEF HandPart
  <1>8. NumberPart' /\ WirePart'
    BY <1>0, <1>4 DEF NumberPart, WirePart
  <1>9. PassPart'
    <2>1. active \in {0, 1}
      BY <1>0 DEF TableType
    <2> QED BY <2>1, <1>0, <1>2 DEF PassPart, Passed
  <1> QED BY <1>6, <1>7, <1>8, <1>9 DEF DInv

LEMMA RecoverDelivers == ASSUME IInv, DInv, NEW p \in Producers, SendRecover(p) PROVE DInv'
  <1>0. PoolType /\ CycType /\ UpType /\ ControlInv /\ JobsMatch
    BY DFacts
  <1>1. chain' \in Lists /\ Moved(chain, chain', Hold(p), Free)
    BY <1>0, RecoverMoves
  <1>2. UNCHANGED <<buf, accepted, wire, active, nodes, idx>>
    BY DEF SendRecover, tableVars
  <1>3. job[p].st # "none" /\ Return(p, FALSE)
    BY DEF SendRecover
  <1>4. /\ job'[p].st \in {"none", "grab"}
        /\ \A q \in Producers \ {p} : job'[q] = job[q]
        /\ pc' # pc => pc = "cmd" /\ pc' = "swap"
    BY <1>0, <1>3, ReturnProps
  <1>5. \A q \in Producers : job'[q].st = "attach" => job'[q] = job[q] /\ Hold(p) # Hold(q)
    BY <1>4, HeadsDistinct
  <1>6. Hold(p) # Drain /\ \A i \in Slots, k \in {0, 1} : Hold(p) # List(i, k)
    BY HeadsDistinct
  <1> QED BY <1>1, <1>2, <1>4, <1>5, <1>6, ReturnDelivers

LEMMA OrphanDelivers == ASSUME IInv, DInv, RecoverOrphan PROVE DInv'
  <1>0. PoolType
    BY DFacts
  <1>1. PICK i \in Slots, k \in {0, 1} : Moved(chain, chain', Orphan(i, k), Free)
    BY <1>0, OrphanMoves
  <1>2. chain' \in Lists
    BY <1>0, OrphanMoves
  <1>3. UNCHANGED <<buf, accepted, wire, active, nodes, idx, pc, job>>
    BY DEF RecoverOrphan, tableVars, cycVars
  <1>4. /\ Orphan(i, k) # Drain /\ \A j \in Slots, l \in {0, 1} : Orphan(i, k) # List(j, l)
        /\ \A q \in Producers : Orphan(i, k) # Hold(q)
    BY HeadsDistinct
  <1> QED BY <1>1, <1>2, <1>3, <1>4, ReturnDelivers

(* bus_run_cycle takes over the whole list of the node at idx.             *)
LEMMA TakeDelivers == ASSUME IInv, DInv, TakeList PROVE DInv'
  <1>0. /\ chain \in Lists /\ Disjoint(chain) /\ PoolType /\ TableType /\ CycType /\ ControlInv
        /\ DrainMatches /\ OwnPart /\ HandPart /\ NumberPart /\ WirePart /\ PassPart
    BY DFacts
  <1>u. UNCHANGED <<buf, accepted, wire, active, nodes, idx, job>> /\ pc = "send" /\ pc' = "transmit"
    BY DEF TakeList, tableVars
  <1>1. /\ chain' \in Lists /\ idx \in Slots /\ active \in {0, 1}
        /\ chain'[Drain] = chain[List(idx, active)]
        /\ chain'[List(idx, active)] = << >>
        /\ \A h \in Heads \ {Drain, List(idx, active)} : chain'[h] = chain[h]
    BY <1>0, TakeMoves
  <1> DEFINE l == List(idx, active)
  <1>2. l \in Heads /\ l # Drain /\ Drain \in Heads
    BY <1>1, HeadsIn, HeadsDistinct
  <1>3. At(chain, Drain) = {} /\ At(chain', l) = {} /\ At(chain', Drain) = At(chain, l)
    <2>1. chain[Drain] = << >>
      BY <1>0, <1>u DEF DrainMatches
    <2>2. At(chain', l) = {}
      BY <1>1, <1>2, AtEmpty
    <2>3. At(chain, Drain) = {}
      BY <2>1, <1>0, <1>2, AtEmpty
    <2> QED BY <2>2, <2>3, <1>1 DEF At
  <1>4. \A j \in Slots, k \in {0, 1} : List(j, k) # l =>
          At(chain', List(j, k)) = At(chain, List(j, k)) /\ chain'[List(j, k)] = chain[List(j, k)]
    BY <1>1, HeadsIn, HeadsDistinct DEF At
  <1>5. \A q \in Producers : At(chain', Hold(q)) = At(chain, Hold(q))
    <2>1. \A q \in Producers : Hold(q) \in Heads \ {Drain, l}
      BY <1>1, HeadsIn, HeadsDistinct
    <2> QED BY <2>1, <1>1 DEF At
  <1> HIDE DEF l
  <1>6. Waits(chain') = Waits(chain)
    <2>1. ASSUME NEW b \in Waits(chain') PROVE b \in Waits(chain)
      <3>1. CASE b \in At(chain', Drain)
        BY <3>1, <1>1, <1>3, <2>1 DEF Waits, l
      <3>2. CASE \E j \in Slots, k \in {0, 1} : b \in At(chain', List(j, k))
        <4>1. PICK j \in Slots, k \in {0, 1} : b \in At(chain', List(j, k))
          BY <3>2
        <4>2. List(j, k) # l
          BY <4>1, <1>3
        <4> QED BY <4>1, <4>2, <1>4, <2>1 DEF Waits
      <3> QED BY <2>1, <3>1, <3>2 DEF Waits
    <2>2. ASSUME NEW b \in Waits(chain) PROVE b \in Waits(chain')
      <3>1. PICK j \in Slots, k \in {0, 1} : b \in At(chain, List(j, k))
        BY <2>2, <1>3 DEF Waits
      <3>2. CASE List(j, k) = l
        BY <3>1, <3>2, <2>2, <1>3 DEF Waits
      <3>3. CASE List(j, k) # l
        BY <3>1, <3>3, <2>2, <1>4 DEF Waits
      <3> QED BY <3>2, <3>3
    <2> QED BY <2>1, <2>2
  <1>7. OwnPart'
    <2> SUFFICES ASSUME NEW j \in Slots, NEW k \in {0, 1}, NEW c \in At(chain', List(j, k))
                 PROVE  j \in DOMAIN nodes' /\ buf'[c].to = nodes'[j].addr
      BY DEF OwnPart
    <2>1. List(j, k) # l
      BY <1>3
    <2>2. c \in At(chain, List(j, k))
      BY <2>1, <1>4
    <2> QED BY <2>2, <1>0, <1>u DEF OwnPart
  <1>8. HandPart'
    <2>1. \A c \in At(chain', Drain) : buf'[c].to = nodes'[idx'].addr
      BY <1>0, <1>u, <1>1, <1>3 DEF OwnPart, l
    <2> QED BY <2>1, <1>0, <1>u, <1>5 DEF HandPart
  <1>9. NumberPart' /\ WirePart'
    BY <1>0, <1>u, <1>6 DEF NumberPart, WirePart
  <1>10. PassPart'
    <2> SUFFICES ASSUME NEW j \in Slots, j <= idx PROVE chain'[List(j, active)] = << >>
      BY <1>u DEF PassPart, Passed
    <2>1. CASE j = idx
      BY <2>1, <1>1
    <2>2. CASE j # idx
      <3>1. j < idx /\ List(j, active) # l
        BY <2>2, <1>1, HeadsDistinct DEF Slots, l
      <3>2. chain[List(j, active)] = << >>
        BY <3>1, <1>0, <1>u DEF PassPart, Passed
      <3> QED BY <3>1, <3>2, <1>1, <1>4
    <2> QED BY <2>1, <2>2
  <1> QED BY <1>7, <1>8, <1>9, <1>10 DEF DInv

(* One buffer of the grabbed chain is sent, or dropped because its node is *)
(* dead, and recovered.                                                    *)
LEMMA TransmitDelivers == ASSUME IInv, DInv, Transmit PROVE DInv'
  <1>0. /\ chain \in Lists /\ Disjoint(chain) /\ PoolType /\ TableType /\ CycType /\ ControlInv
        /\ DrainMatches /\ OwnPart /\ HandPart /\ NumberPart /\ WirePart /\ PassPart
    BY DFacts
  <1> DEFINE b == Head(chain[Drain])
             f == [at |-> nodes[idx].addr, id |-> buf[b].id, to |-> buf[b].to]
  <1>u. /\ UNCHANGED <<buf, accepted, active, nodes, job>> /\ pc = "transmit"
        /\ wire' = wire \/ wire' = Append(wire, f)
        /\ \/ pc' = "transmit" /\ idx' = idx
           \/ pc' = "send" /\ idx' = idx + 1
    BY DEF Transmit, tableVars
  <1>1. chain' \in Lists /\ Moved(chain, chain', Drain, Free)
    BY <1>0, TransmitMoves
  <1>2. /\ b \in Bufs /\ b \in At(chain, Drain)
        /\ At(chain', Drain) = At(chain, Drain) \ {b}
        /\ \A h \in Heads \ {Drain, Free} : chain'[h] = chain[h] /\ At(chain', h) = At(chain, h)
    BY <1>0, <1>1, AtMoved
  <1>3. \A j \in Slots, k \in {0, 1} :
          /\ At(chain', List(j, k)) = At(chain, List(j, k)) /\ chain'[List(j, k)] = chain[List(j, k)]
          /\ b \notin At(chain, List(j, k))
    <2>1. \A j \in Slots, k \in {0, 1} : List(j, k) \in Heads \ {Drain, Free}
      BY HeadsIn, HeadsDistinct
    <2>2. \A h \in Heads \ {Drain} : b \notin At(chain, h)
      BY <1>0, <1>2, AtApart, HeadsIn
    <2> QED BY <2>1, <2>2, <1>2
  <1>4. \A q \in Producers : At(chain', Hold(q)) = At(chain, Hold(q))
    BY <1>2, HeadsIn, HeadsDistinct
  <1> HIDE DEF b, f
  <1>5. Waits(chain') = Waits(chain) \ {b} /\ b \in Waits(chain)
    <2>1. b \in Waits(chain) /\ b \notin Waits(chain')
      BY <1>2, <1>3 DEF Waits
    <2>2. ASSUME NEW c \in Bufs, c # b PROVE c \in Waits(chain') <=> c \in Waits(chain)
      BY <2>2, <1>2, <1>3 DEF Waits
    <2> QED BY <2>1, <2>2 DEF Waits
  <1>6. OwnPart'
    BY <1>0, <1>u, <1>3 DEF OwnPart
  <1>7. HandPart'
    <2>1. \A c \in At(chain', Drain) : pc' = "transmit" => buf'[c].to = nodes'[idx'].addr
      BY <1>0, <1>u, <1>2 DEF HandPart
    <2> QED BY <2>1, <1>0, <1>u, <1>4 DEF HandPart
  <1>8. NumberPart'
    BY <1>0, <1>u, <1>5 DEF NumberPart
  <1>9. WirePart'
    <2>1. CASE wire' = wire
      BY <2>1, <1>0, <1>u, <1>5 DEF WirePart
    <2>2. CASE wire' = Append(wire, f)
      <3>1. /\ f.at = f.to /\ f.id = buf[b].id /\ f.id <= accepted
        <4>1. buf[b].to = nodes[idx].addr
          BY <1>0, <1>u, <1>2 DEF HandPart
        <4>2. buf[b].id <= accepted
          BY <1>0, <1>5 DEF NumberPart
        <4> QED BY <4>1, <4>2 DEF f
      <3>2. /\ Len(wire) \in Nat /\ Len(wire') = Len(wire) + 1
            /\ \A j \in 1..Len(wire) : wire'[j] = wire[j]
            /\ wire'[Len(wire) + 1] = f
        <4>1. wire \in Seq([at : Addrs \cup {NoAddr}, id : Nat, to : Addrs \cup {NoAddr}])
          BY <1>0 DEF PoolType
        <4> QED BY <4>1, <2>2
      <3>3. \A j \in 1..Len(wire') : j \in 1..Len(wire) \/ j = Len(wire) + 1
        BY <3>2
      <3>4. \A j \in 1..Len(wire) : wire[j].id # f.id
        BY <3>1, <1>0, <1>5 DEF WirePart
      <3>5. \A j \in 1..Len(wire') : wire'[j].at = wire'[j].to /\ wire'[j].id <= accepted'
        BY <3>1, <3>2, <3>3, <1>0, <1>u DEF WirePart
      <3>6. ASSUME NEW j \in 1..Len(wire'), NEW c \in Waits(chain') PROVE wire'[j].id # buf'[c].id
        <4>1. c \in Waits(chain) /\ c # b
          BY <1>5
        <4>2. buf[c].id # buf[b].id
          BY <4>1, <1>0, <1>5 DEF NumberPart
        <4>3. CASE j \in 1..Len(wire)
          BY <4>1, <4>3, <3>2, <1>0, <1>u DEF WirePart
        <4>4. CASE j = Len(wire) + 1
          BY <4>2, <4>4, <3>1, <3>2, <1>u
        <4> QED BY <4>3, <4>4, <3>3
      <3>7. ASSUME NEW i \in 1..Len(wire'), NEW j \in 1..Len(wire'), wire'[i].id = wire'[j].id
            PROVE  i = j
        <4>1. CASE i \in 1..Len(wire) /\ j \in 1..Len(wire)
          BY <4>1, <3>7, <3>2, <1>0 DEF WirePart
        <4>2. CASE i = Len(wire) + 1 \/ j = Len(wire) + 1
          BY <4>2, <3>7, <3>2, <3>3, <3>4
        <4> QED BY <4>1, <4>2, <3>3
      <3> QED BY <3>5, <3>6, <3>7 DEF WirePart
    <2> QED BY <2>1, <2>2, <1>u
  <1>10. PassPart'
    <2> SUFFICES ASSUME NEW j \in Slots, Passed(j)' PROVE chain'[List(j, active)] = << >>
      BY <1>u DEF PassPart
    <2>1. j <= idx
      <3>1. j \in Nat /\ idx \in Nat
        BY <1>0, BusCycleAssumption DEF Slots, CycType
      <3> QED BY <3>1, <1>u DEF Passed
    <2>2. chain[List(j, active)] = << >>
      BY <2>1, <1>0, <1>u DEF PassPart, Passed
    <2>3. active \in {0, 1}
      BY <1>0 DEF TableType
    <2> QED BY <2>2, <2>3, <1>3
  <1> QED BY <1>6, <1>7, <1>8, <1>9, <1>10 DEF DInv

(* The rebuild leaves every node list empty: those of the old table are    *)
(* detached and those beyond it had nothing on them.                       *)
LEMMA RebuildDelivers == ASSUME IInv, DInv, Rebuild PROVE DInv'
  <1>0. /\ chain \in Lists /\ PoolType /\ TableType /\ ControlInv /\ DrainMatches
        /\ OwnPart /\ HandPart /\ NumberPart /\ WirePart /\ PassPart
    BY DFacts
  <1>u. UNCHANGED <<buf, accepted, wire, active, idx, job>> /\ pc = "top" /\ pc' = "orphans"
    BY DEF Rebuild
  <1>1. /\ chain' \in Lists
        /\ \A i \in Slots, k \in {0, 1} : i \in DOMAIN nodes => chain'[List(i, k)] = << >>
        /\ \A h \in {Free, Drain} \cup {Hold(p) : p \in Producers} : chain'[h] = chain[h]
        /\ \A i \in Slots, k \in {0, 1} : i \notin DOMAIN nodes => chain'[List(i, k)] = chain[List(i, k)]
    BY <1>0, RebuildMoves
  <1>2. \A i \in Slots, k \in {0, 1} : chain'[List(i, k)] = << >> /\ At(chain', List(i, k)) = {}
    <2> SUFFICES ASSUME NEW i \in Slots, NEW k \in {0, 1}
                 PROVE  chain'[List(i, k)] = << >> /\ At(chain', List(i, k)) = {}
      OBVIOUS
    <2>1. List(i, k) \in Heads
      BY HeadsIn
    <2>2. i \notin DOMAIN nodes => At(chain, List(i, k)) = {}
      BY <1>0 DEF OwnPart
    <2>3. chain'[List(i, k)] = << >>
      BY <2>1, <2>2, <1>0, <1>1, AtEmpty
    <2> QED BY <2>1, <2>3, <1>1, AtEmpty
  <1>3. At(chain', Drain) = {}
    <2>1. chain'[Drain] = << >>
      BY <1>0, <1>u, <1>1 DEF DrainMatches
    <2> QED BY <2>1, <1>1, AtEmpty, HeadsIn
  <1>4. Waits(chain') = {}
    BY <1>2, <1>3 DEF Waits
  <1>5. \A q \in Producers : At(chain', Hold(q)) = At(chain, Hold(q))
    BY <1>1 DEF At
  <1>6. OwnPart'
    BY <1>2 DEF OwnPart
  <1>7. HandPart'
    BY <1>0, <1>u, <1>5 DEF HandPart
  <1>8. NumberPart' /\ WirePart'
    BY <1>0, <1>u, <1>4 DEF NumberPart, WirePart
  <1>9. PassPart'
    <2>1. active' \in {0, 1}
      BY <1>0, <1>u DEF TableType
    <2> QED BY <2>1, <1>2 DEF PassPart
  <1> QED BY <1>6, <1>7, <1>8, <1>9 DEF DInv

(* The swap makes the fill lists active; nothing has been passed yet.      *)
LEMMA SwapDelivers == ASSUME IInv, DInv, Swap PROVE DInv'
  <1>0. OwnPart /\ HandPart /\ NumberPart /\ WirePart
    BY DFacts
  <1>u. UNCHANGED <<chain, buf, accepted, wire, nodes, job>> /\ pc' = "send" /\ idx' = 1
    BY DEF Swap, poolVars
  <1>1. OwnPart' /\ HandPart' /\ NumberPart' /\ WirePart'
    BY <1>0, <1>u, DeliveryFrame
  <1>2. PassPart'
    <2>1. \A i \in Slots : ~(i < 1)
      BY BusCycleAssumption DEF Slots
    <2> QED BY <2>1, <1>u DEF PassPart, Passed
  <1> QED BY <1>1, <1>2 DEF DInv

LEMMA SkipDelivers == ASSUME IInv, DInv, SkipList PROVE DInv'
  <1>0. /\ chain \in Lists /\ TableType /\ CycType
        /\ OwnPart /\ HandPart /\ NumberPart /\ WirePart /\ PassPart
    BY DFacts
  <1>u. UNCHANGED <<chain, buf, accepted, wire, active, nodes, job>> /\ pc = "send"
        /\ \/ idx \in DOMAIN nodes /\ chain[List(idx, active)] = << >> /\ pc' = pc /\ idx' = idx + 1
           \/ idx \notin DOMAIN nodes /\ idx' = 1 /\ pc' = "sweep"
    BY DEF SkipList, MoreNodes, NothingQueued, poolVars, tableVars
  <1>1. OwnPart' /\ HandPart' /\ NumberPart' /\ WirePart'
    BY <1>0, <1>u, DeliveryFrame
  <1>2. PassPart'
    <2> SUFFICES ASSUME NEW j \in Slots, Passed(j)' PROVE chain[List(j, active)] = << >>
      BY <1>u DEF PassPart
    <2>0. /\ j \in Nat /\ idx \in Nat \ {0} /\ active \in {0, 1}
          /\ DOMAIN nodes = 1..Len(nodes) /\ Len(nodes) \in Nat
      BY <1>0, SeqElt, BusCycleAssumption DEF Slots, CycType, TableType
    <2>1. CASE j < idx
      BY <2>1, <1>0, <1>u DEF PassPart, Passed
    <2>2. CASE j >= idx /\ idx \in DOMAIN nodes
      <3>1. j = idx
        BY <2>0, <2>2, <1>u DEF Passed
      <3> QED BY <3>1, <2>2, <1>u
    <2>3. CASE j >= idx /\ idx \notin DOMAIN nodes
      <3>1. j \notin DOMAIN nodes
        BY <2>0, <2>3
      <3>2. At(chain, List(j, active)) = {}
        BY <3>1, <2>0, <1>0 DEF OwnPart
      <3> QED BY <3>2, <2>0, <1>0, AtEmpty, HeadsIn
    <2> QED BY <2>0, <2>1, <2>2, <2>3
  <1> QED BY <1>1, <1>2 DEF DInv

(* The steps that neither move a buffer nor turn the cycle's pass.         *)
LEMMA QuietDelivers ==
    ASSUME IInv, DInv, UNCHANGED <<chain, buf, accepted, wire, active>>,
           DOMAIN nodes' = DOMAIN nodes,
           \A i \in DOMAIN nodes : nodes'[i].addr = nodes[i].addr,
           \/ UNCHANGED <<pc, idx>>
           \/ pc \notin {"send", "transmit"} /\ pc' \notin {"send", "transmit"},
           \A p \in Producers : job'[p].st = "attach" => job[p].st = "attach" /\ job'[p].to = job[p].to
    PROVE  DInv'
  <1>0. OwnPart /\ HandPart /\ NumberPart /\ WirePart /\ PassPart /\ DrainMatches
    BY DFacts
  <1>1. pc' = "transmit" => pc = "transmit" /\ idx' = idx /\ idx \in DOMAIN nodes
    BY <1>0 DEF DrainMatches
  <1>2. OwnPart' /\ HandPart' /\ NumberPart' /\ WirePart'
    BY <1>0, <1>1, DeliveryFrame
  <1>3. PassPart'
    BY <1>0, PassFrame
  <1> QED BY <1>2, <1>3 DEF DInv

LEMMA ProducerDelivers == ASSUME IInv, DInv, NEW p \in Producers, ProducerStep(p) PROVE DInv'
  <1>0. PoolType /\ CycType /\ UpType /\ JobsMatch
    BY DFacts
  <1>1. CASE PoolExhausted(p) \/ AttachUnknown(p)
    <2>1. /\ UNCHANGED <<chain, buf, accepted, wire, active, nodes, pc, idx>>
          /\ \E x \in {"count", "recover"} : \/ job' = [job EXCEPT ![p].st = x]
                                             \/ job' = [job EXCEPT ![p].st = x, ![p].ex = exhausted]
      BY <1>1 DEF PoolExhausted, AttachUnknown, tableVars, cycVars
    <2>2. \A q \in Producers : job'[q].st = "attach" => job[q].st = "attach" /\ job'[q].to = job[q].to
      BY <2>1, <1>0 DEF PoolType
    <2> QED BY <2>1, <2>2, QuietDelivers
  <1>2. CASE CountExhausted(p)
    <2>1. /\ UNCHANGED <<chain, buf, accepted, wire, active, nodes, idx>>
          /\ job[p].st # "none" /\ Return(p, FALSE)
      BY <1>2 DEF CountExhausted, tableVars
    <2>2. /\ job'[p].st \in {"none", "grab"}
          /\ \A q \in Producers \ {p} : job'[q] = job[q]
          /\ pc' # pc => pc = "cmd" /\ pc' = "swap"
      BY <2>1, <1>0, ReturnProps
    <2>3. \A q \in Producers : job'[q].st = "attach" => job[q].st = "attach" /\ job'[q].to = job[q].to
      BY <2>2
    <2> QED BY <2>1, <2>2, <2>3, QuietDelivers
  <1> QED BY <1>1, <1>2, GrabDelivers, AttachDelivers, RecoverDelivers DEF ProducerStep

(* A new job starts at pool_grab.                                          *)
LEMMA NewJobDelivers ==
    ASSUME IInv, NEW q \in Producers, NEW a, job' = [job EXCEPT ![q] = NewJob(a)]
    PROVE  \A p \in Producers : job'[p].st = "attach" => job[p].st = "attach" /\ job'[p].to = job[p].to
  <1>1. job \in [Producers -> JobSet]
    BY DEF IInv, BusTypes, PoolType, JobSet
  <1> QED BY <1>1 DEF NewJob

LEMMA UplinkDelivers ==
    ASSUME IInv, DInv,
           \/ UplinkStep
           \/ \E a \in Addrs : EngineSend(a)
           \/ \E a \in Addrs, u \in BOOLEAN, s \in Summaries : SlaveChange(a, [up |-> u, sum |-> s])
    PROVE  DInv'
  <1>1. UNCHANGED <<chain, buf, accepted, wire, active, nodes, pc, idx>>
    <2>1. CASE \E a \in Addrs : EngineSend(a)
      BY <2>1 DEF EngineSend, tableVars, cycVars
    <2>2. CASE \E a \in Addrs, u \in BOOLEAN, s \in Summaries : SlaveChange(a, [up |-> u, sum |-> s])
      BY <2>2 DEF SlaveChange, poolVars, tableVars, cycVars
    <2>3. CASE UplinkStep
      BY <2>3 DEF UplinkStep, StageCmd, Inject, ClearRoster, RegisterSlave, EnterBegin, EnterGrow,
                  EnterCopy, EnterEnd, WifiLost, CycleMode, poolVars, tableVars, cycVars
    <2> QED BY <2>1, <2>2, <2>3
  <1>2. \/ UNCHANGED job
        \/ \E a \in Addrs, q \in {"core1", "uplink"} : job' = [job EXCEPT ![q] = NewJob(a)]
    <2>1. CASE \E a \in Addrs : EngineSend(a)
      BY <2>1 DEF EngineSend
    <2>2. CASE \E a \in Addrs, u \in BOOLEAN, s \in Summaries : SlaveChange(a, [up |-> u, sum |-> s])
      BY <2>2 DEF SlaveChange, poolVars
    <2>3. CASE UplinkStep
      BY <2>3 DEF UplinkStep, StageCmd, Inject, ClearRoster, RegisterSlave, EnterBegin, EnterGrow,
                  EnterCopy, EnterEnd, WifiLost, CycleMode, poolVars
    <2> QED BY <2>1, <2>2, <2>3
  <1>3. \A p \in Producers : job'[p].st = "attach" => job[p].st = "attach" /\ job'[p].to = job[p].to
    <2>1. {"core1", "uplink"} \subseteq Producers
      BY DEF Producers
    <2> QED BY <2>1, <1>2, NewJobDelivers
  <1> QED BY <1>1, <1>3, QuietDelivers

(* The marks of the sweep and of the probe keep every node's address.      *)
LEMMA MarksKeepAddr ==
    ASSUME TableType, SweepMark \/ ProbeMark
    PROVE  DOMAIN nodes' = DOMAIN nodes /\ \A i \in DOMAIN nodes : nodes'[i].addr = nodes[i].addr
  <1>1. /\ nodes \in Seq(NodeType) /\ DOMAIN nodes = 1..Len(nodes) /\ Len(nodes) \in Nat
        /\ \A i \in DOMAIN nodes : nodes[i] \in NodeType
    BY SeqElt, Zenon DEF TableType
  <1>2. \A n \in NodeType : /\ [n EXCEPT !.miss = 0].addr = n.addr
                            /\ [n EXCEPT !.dead = FALSE, !.miss = 0].addr = n.addr
                            /\ SweepMiss(n).addr = n.addr
    BY DEF NodeType, SweepMiss
  <1>3. \E v : (idx \in DOMAIN nodes => v.addr = nodes[idx].addr)
               /\ (nodes' = nodes \/ nodes' = [nodes EXCEPT ![idx] = v])
    <2>1. CASE SweepMark
      BY <2>1, <1>1, <1>2 DEF SweepMark
    <2>2. CASE ProbeMark
      <3>1. \/ nodes' = nodes
            \/ nodes' = [nodes EXCEPT ![idx].dead = FALSE, ![idx].miss = 0]
        BY <2>2 DEF ProbeMark
      <3>2. [nodes EXCEPT ![idx].dead = FALSE, ![idx].miss = 0]
              = [nodes EXCEPT ![idx] = [nodes[idx] EXCEPT !.dead = FALSE, !.miss = 0]]
        OBVIOUS
      <3> QED BY <3>1, <3>2, <1>1, <1>2
    <2> QED BY <2>1, <2>2
  <1> QED BY <1>1, <1>3

LEMMA BusDelivers == ASSUME IInv, DInv, BusStep PROVE DInv'
  <1>0. TableType /\ JobsMatch
    BY DFacts
  <1>1. CASE \/ NoRebuild \/ OrphansDone \/ SweepSkip \/ SweepPoll \/ ProbeNone \/ ProbePoll
             \/ Notify \/ \E room \in BOOLEAN : EmitEdges(room)
    <2>1. /\ UNCHANGED <<chain, buf, accepted, wire, active, nodes, job>>
          /\ pc \notin {"send", "transmit"} /\ pc' \notin {"send", "transmit"}
      BY <1>1 DEF NoRebuild, OrphansDone, SweepSkip, SweepPoll, ProbeNone, ProbePoll, Notify,
                  EmitEdges, poolVars, tableVars
    <2> QED BY <2>1, QuietDelivers
  <1>2. CASE SweepMark \/ ProbeMark
    <2>1. /\ UNCHANGED <<chain, buf, accepted, wire, active, job>>
          /\ pc \notin {"send", "transmit"} /\ pc' \notin {"send", "transmit"}
      BY <1>2 DEF SweepMark, ProbeMark, poolVars
    <2> QED BY <2>1, <1>0, <1>2, MarksKeepAddr, QuietDelivers
  <1>3. CASE DrainCmd
    <2>1. /\ UNCHANGED <<chain, buf, accepted, wire, active, nodes>>
          /\ pc \notin {"send", "transmit"} /\ pc' \notin {"send", "transmit"}
          /\ job' = job \/ job' = [job EXCEPT !["bus"] = NewJob(cmd)]
      BY <1>3 DEF DrainCmd, tableVars
    <2>2. "bus" \in Producers
      BY DEF Producers
    <2>3. \A p \in Producers : job'[p].st = "attach" => job[p].st = "attach" /\ job'[p].to = job[p].to
      BY <2>1, <2>2, NewJobDelivers
    <2> QED BY <2>1, <2>3, QuietDelivers
  <1>4. CASE SlotStep
    <2>1. SlotFrame
      BY <1>4, SlotStepFacts
    <2>2. /\ UNCHANGED <<chain, buf, accepted, wire, active, nodes, job>>
          /\ pc \notin {"send", "transmit"} /\ pc' \notin {"send", "transmit"}
      BY <2>1 DEF SlotFrame, poolVars
    <2> QED BY <2>2, QuietDelivers
  <1> QED BY <1>1, <1>2, <1>3, <1>4, RebuildDelivers, OrphanDelivers, SwapDelivers, TakeDelivers,
             SkipDelivers, TransmitDelivers DEF BusStep

LEMMA DInvInit == Init => DInv
  <1> SUFFICES ASSUME Init PROVE DInv
    OBVIOUS
  <1>0. IInv
    BY IInvInit
  <1>1. chain \in Lists
    BY <1>0 DEF IInv, BusTypes, PoolType, Lists
  <1>2. \A h \in Heads \ {Free} : chain[h] = << >> /\ At(chain, h) = {}
    <2>1. \A h \in Heads \ {Free} : chain[h] = << >>
      BY DEF Init
    <2> QED BY <2>1, <1>1, AtEmpty
  <1>3. /\ \A i \in Slots, k \in {0, 1} : chain[List(i, k)] = << >> /\ At(chain, List(i, k)) = {}
        /\ At(chain, Drain) = {} /\ Waits(chain) = {}
    BY <1>2, HeadsIn, HeadsDistinct DEF Waits
  <1>4. wire = << >> /\ pc = "top" /\ active \in {0, 1} /\ \A p \in Producers : job[p].st # "attach"
    BY DEF Init, NoJob
  <1>5. OwnPart /\ HandPart /\ NumberPart /\ PassPart
    BY <1>3, <1>4 DEF OwnPart, HandPart, NumberPart, PassPart
  <1>6. WirePart
    BY <1>3, <1>4 DEF WirePart
  <1> QED BY <1>5, <1>6 DEF DInv

LEMMA DInvNext == IInv /\ DInv /\ [Next]_vars => DInv'
  <1> SUFFICES ASSUME IInv, DInv, [Next]_vars PROVE DInv'
    OBVIOUS
  <1>1. CASE UNCHANGED vars
    <2>1. UNCHANGED <<chain, buf, accepted, wire, active, nodes, pc, idx, job>>
      BY <1>1 DEF vars, poolVars, tableVars, cycVars
    <2> QED BY <2>1, QuietDelivers
  <1>2. CASE Next
    BY <1>2, BusDelivers, UplinkDelivers, ProducerDelivers DEF Next
  <1> QED BY <1>1, <1>2

(* The promise follows: node lists and wire read at their domains.         *)
LEMMA DInvDelivers == ASSUME IInv, DInv PROVE DeliveredToOwner
  <1>0. /\ chain \in Lists /\ PoolType /\ TableType /\ OwnPart /\ WirePart /\ PassPart
    BY DFacts
  <1>1. QueuedForOwner
    <2>1. \A i \in Slots, k \in {0, 1} : DOMAIN chain[List(i, k)] = 1..Len(chain[List(i, k)])
      BY <1>0, HeadsIn DEF Lists
    <2> QED BY <2>1, <1>0 DEF QueuedForOwner, OwnPart, At
  <1>2. SentOnceToOwner
    <2>1. DOMAIN wire = 1..Len(wire)
      BY <1>0 DEF PoolType
    <2> QED BY <2>1, <1>0 DEF SentOnceToOwner, WirePart
  <1>3. ActiveDrained
    BY <1>0 DEF ActiveDrained, PassPart, Passed
  <1> QED BY <1>1, <1>2, <1>3 DEF DeliveredToOwner

(* For every pool, roster and interleaving of the three producers with the *)
(* cycle and its rebuilds: a message waits only on the list of the node it *)
(* was filled for, no frame goes to another address than the one asked     *)
(* for, none goes out twice, and bus_pingpong_swap hands the producers     *)
(* lists that are empty.                                                   *)
THEOREM DeliverySafety == Spec => []DeliveredToOwner
  <1>1. IInv /\ DInv => DeliveredToOwner
    BY DInvDelivers
  <1> QED BY IInvInit, IInvNext, DInvInit, DInvNext, <1>1, PTL DEF Spec

-----------------------------------------------------------------------------
(* Loss.  The buffers of Queued are those on the lists that are neither    *)
(* the pool's nor a producer's.                                            *)
NotQueued == {Free} \cup {Hold(p) : p \in Producers}
QueuedIn(c) == {b \in Bufs : \E h \in Heads \ NotQueued : b \in At(c, h)}

LEMMA QueuedAt == ASSUME PoolType PROVE Queued = QueuedIn(chain)
  <1>1. \A h \in Heads : DOMAIN chain[h] = 1..Len(chain[h])
    BY DEF PoolType
  <1> QED BY <1>1 DEF Queued, QueuedIn, At, NotQueued

(* A move from the pool or from a producer loses nothing that was queued;  *)
(* any other can only lose the buffer it moves.                            *)
LEMMA MoveLoses ==
    ASSUME IInv, chain' \in Lists, NEW x, NEW y, Moved(chain, chain', x, y),
           NEW b \in QueuedIn(chain), b \notin QueuedIn(chain')
    PROVE  x \notin NotQueued /\ b = Head(chain[x])
  <1>0. chain \in Lists /\ Disjoint(chain)
    BY DEF IInv, BusTypes, Conserved, PoolType, Lists
  <1>1. /\ x \in Heads /\ y \in Heads
        /\ At(chain', x) = At(chain, x) \ {Head(chain[x])}
        /\ At(chain', y) = At(chain, y) \cup {Head(chain[x])}
        /\ \A h \in Heads \ {x, y} : At(chain', h) = At(chain, h)
    BY <1>0, AtMoved
  <1>2. PICK h \in Heads \ NotQueued : b \in At(chain, h)
    BY DEF QueuedIn
  <1>3. b \in Bufs /\ b \notin At(chain', h)
    BY <1>2 DEF QueuedIn
  <1>4. h = x /\ b = Head(chain[x])
    BY <1>1, <1>2, <1>3
  <1> QED BY <1>2, <1>4

(* Whole lists handed over to lists the cycle owns stay queued.            *)
LEMMA HandOverKeeps ==
    ASSUME NEW c \in Lists, NEW d \in Lists, NEW X, NEW m, HandedOver(c, d, X, m),
           \A x \in X : m[x] \notin NotQueued, NEW b \in QueuedIn(c)
    PROVE  b \in QueuedIn(d)
  <1>1. PICK h \in Heads \ NotQueued : b \in At(c, h)
    BY DEF QueuedIn
  <1>b. b \in Bufs
    BY DEF QueuedIn
  <1>2. CASE h \in X
    <2>1. m[h] \in Heads \ NotQueued /\ d[m[h]] = c[h]
      BY <1>2 DEF HandedOver
    <2>2. b \in At(d, m[h])
      BY <1>1, <2>1 DEF At
    <2> QED BY <2>1, <2>2, <1>b DEF QueuedIn
  <1>3. CASE h \notin X
    <2>1. CASE \E x \in X : h = m[x]
      <3>1. c[h] = << >>
        BY <2>1 DEF HandedOver
      <3> QED BY <3>1, <1>1, AtEmpty
    <2>2. CASE \A x \in X : h # m[x]
      <3>1. d[h] = c[h]
        BY <2>2, <1>3 DEF HandedOver
      <3>2. b \in At(d, h)
        BY <3>1, <1>1 DEF At
      <3> QED BY <3>2, <1>1, <1>b DEF QueuedIn
    <2> QED BY <2>1, <2>2
  <1> QED BY <1>2, <1>3

LEMMA LossStep ==
    ASSUME IInv, Next, PoolType', NEW b \in Queued \ Queued'
    PROVE  \/ \E i \in DOMAIN wire' : wire'[i].id = buf[b].id
           \/ pc = "orphans"
           \/ pc = "transmit" /\ nodes[idx].dead
  <1>0. /\ PoolType /\ TableType /\ ControlInv /\ chain \in Lists
    BY DEF IInv, BusTypes, PoolType, Lists
  <1>1. b \in QueuedIn(chain) /\ b \notin QueuedIn(chain')
    <2>1. Queued' = QueuedIn(chain')
      <3>1. \A h \in Heads : DOMAIN chain'[h] = 1..Len(chain'[h])
        BY DEF PoolType
      <3> QED BY <3>1 DEF Queued, QueuedIn, At, NotQueued
    <2> QED BY <2>1, <1>0, QueuedAt
  <1>2. chain' # chain
    BY <1>1
  <1>3. ASSUME NEW p \in Producers, ProducerStep(p) PROVE FALSE
    <2>1. Hold(p) \in NotQueued /\ Free \in NotQueued
      BY DEF NotQueued
    <2>2. CASE PoolGrab(p)
      BY <2>1, <2>2, <1>0, <1>1, GrabMoves, MoveLoses
    <2>3. CASE Attach(p)
      <3>1. PICK i \in NodeIdx(job[p].to) : Moved(chain, chain', Hold(p), List(i, 1 - active))
        BY <2>3, <1>0, AttachMoves
      <3>2. chain' \in Lists
        BY <2>3, <1>0, AttachMoves
      <3> QED BY <3>1, <3>2, <2>1, <1>1, MoveLoses
    <2>4. CASE SendRecover(p)
      BY <2>1, <2>4, <1>0, <1>1, RecoverMoves, MoveLoses
    <2>5. CASE PoolExhausted(p) \/ CountExhausted(p) \/ AttachUnknown(p)
      BY <2>5, <1>2 DEF PoolExhausted, CountExhausted, AttachUnknown
    <2> QED BY <1>3, <2>2, <2>3, <2>4, <2>5 DEF ProducerStep
  <1>4. CASE RecoverOrphan
    BY <1>4 DEF RecoverOrphan
  <1>5. CASE Rebuild
    <2>1. chain' \in Lists /\ HandedOver(chain, chain', NodeLists, ToOrphan)
      BY <1>5, <1>0, RebuildMoves
    <2>2. ASSUME NEW x \in NodeLists PROVE ToOrphan[x] \notin NotQueued
      <3>1. PICK i \in DOMAIN nodes, k \in {0, 1} : x = List(i, k)
        BY DEF NodeLists
      <3>2. i \in Slots
        BY <1>0, NodeIdxInSlots
      <3>3. ToOrphan[x] = Orphan(i, k)
        BY <3>1 DEF ToOrphan, List
      <3> QED BY <3>2, <3>3, HeadsDistinct DEF NotQueued
    <2> QED BY <2>1, <2>2, <1>0, <1>1, HandOverKeeps
  <1>6. CASE TakeList
    <2> DEFINE X == {List(idx, active)}
               m == [x \in X |-> Drain]
    <2>1. chain' \in Lists /\ HandedOver(chain, chain', X, m)
      BY <1>6, <1>0, TakeMoves
    <2>2. \A x \in X : m[x] \notin NotQueued
      BY HeadsDistinct DEF NotQueued
    <2> HIDE DEF X, m
    <2> QED BY <2>1, <2>2, <1>0, <1>1, HandOverKeeps
  <1>7. CASE Transmit
    <2>1. b = Head(chain[Drain])
      BY <1>7, <1>0, <1>1, TransmitMoves, MoveLoses
    <2> DEFINE f == [at |-> nodes[idx].addr, id |-> buf[b].id, to |-> buf[b].to]
    <2>2. pc = "transmit" /\ (nodes[idx].dead \/ wire' = Append(wire, f))
      BY <1>7, <2>1 DEF Transmit, SendTo
    <2>3. CASE wire' = Append(wire, f)
      <3>1. f.id = buf[b].id
        OBVIOUS
      <3> HIDE DEF f
      <3>2. wire' \in Seq([at : Addrs \cup {NoAddr}, id : Nat, to : Addrs \cup {NoAddr}])
            /\ wire \in Seq([at : Addrs \cup {NoAddr}, id : Nat, to : Addrs \cup {NoAddr}])
        BY <1>0 DEF PoolType
      <3>3. Len(wire) + 1 \in DOMAIN wire' /\ wire'[Len(wire) + 1] = f
        BY <3>2, <2>3
      <3> QED BY <3>1, <3>3
    <2> QED BY <2>2, <2>3
  <1>8. CASE \/ NoRebuild \/ OrphansDone \/ DrainCmd \/ Swap \/ SkipList \/ SweepSkip \/ SweepPoll
             \/ SweepMark \/ ProbeNone \/ ProbePoll \/ ProbeMark \/ Notify
             \/ \E room \in BOOLEAN : EmitEdges(room)
    BY <1>8, <1>2 DEF NoRebuild, OrphansDone, DrainCmd, Swap, SkipList, SweepSkip, SweepPoll,
         SweepMark, ProbeNone, ProbePoll, ProbeMark, Notify, EmitEdges, poolVars
  <1>9. CASE UplinkStep
    BY <1>9, <1>2 DEF UplinkStep, StageCmd, Inject, ClearRoster, RegisterSlave, EnterBegin, EnterGrow,
         EnterCopy, EnterEnd, WifiLost, CycleMode, poolVars
  <1>11. CASE SlotStep
    BY <1>11, <1>2, SlotStepFacts DEF SlotFrame, poolVars
  <1>10. CASE \/ \E a \in Addrs : EngineSend(a)
              \/ \E a \in Addrs, u \in BOOLEAN, s \in Summaries : SlaveChange(a, [up |-> u, sum |-> s])
    BY <1>10, <1>2 DEF EngineSend, SlaveChange, poolVars
  <1> QED BY <1>3, <1>4, <1>5, <1>6, <1>7, <1>8, <1>9, <1>10, <1>11 DEF Next, BusStep

(* No step loses a queued message unless it sends it, its node is dead, or *)
(* the rebuild's recovery has detached it: nothing that runs between the   *)
(* attach of a message and its turn in the cycle drops it.                 *)
THEOREM LossSafety == Spec => LostOnlyToDeadOrRebuild
  <1>1. ASSUME IInv, IInv', [Next]_vars
        PROVE  [\A b \in Queued \ Queued' :
                  \/ \E i \in DOMAIN wire' : wire'[i].id = buf[b].id
                  \/ pc = "orphans"
                  \/ pc = "transmit" /\ nodes[idx].dead]_vars
    <2>1. PoolType'
      BY <1>1 DEF IInv, BusTypes
    <2>2. CASE Next
      BY <2>1, <2>2, <1>1, LossStep
    <2> QED BY <2>2, <1>1
  <1> QED BY <1>1, IInvInit, IInvNext, PTL DEF Spec, LostOnlyToDeadOrRebuild

-----------------------------------------------------------------------------
(* The roster, the node table and what the host was told.                  *)

(* No address is registered twice: what the host's registry and the        *)
(* commissioning tools ensure, and the code does not check.                *)
DistinctAddrs ==
    /\ HostChecksDup
    /\ \A i, j \in 1..Len(CfgRoster) : CfgRoster[i].addr = CfgRoster[j].addr => i = j

(* The supervisor does not re-attach: uplink_enter restores the roster     *)
(* without marking the table stale.                                        *)
OneSession == MaxReattach = 0

Once == \A i, j \in DOMAIN roster : roster[i].addr = roster[j].addr => i = j
CopyPart == up.op = "enter" => \A j \in DOMAIN roster :
    roster[j].addr = IF j < up.left THEN Commissioned[j].addr ELSE NoAddr
ToldPart == linked => \A a \in Addrs :
    /\ (\A i \in DOMAIN roster : roster[i].addr # a) => host[a].live # "DOWN" /\ host[a].sum = 0
    /\ \A i \in DOMAIN roster : roster[i].addr = a =>
           /\ roster[i].announced = "DEAD" <=> host[a].live = "DOWN"
           /\ roster[i].annSummary = host[a].sum
SInv == Once /\ CopyPart /\ ToldPart

Follows(n, r) ==
    /\ Len(n) = Len(r)
    /\ \E p \in SortOrder(r) : \A i \in DOMAIN r :
           n[i].addr = r[p[i]].addr /\ n[i].enabled = r[p[i]].enabled
TInv == up.op # "enter" /\ budget.reattach = 0 /\ (~dirty => Follows(nodes, roster))

(* The two miss counters of a node, and the node of the poll in progress.  *)
CountPart == ~dirty => \A i \in DOMAIN nodes, r \in DOMAIN roster :
  roster[r].addr = nodes[i].addr /\ nodes[i].addr \notin revived =>
    /\ nodes[i].miss <= roster[r].misses
    /\ nodes[i].dead => roster[r].state = "DEAD"
PollPart == /\ pc = "swept" => idx \in DOMAIN nodes /\ ~nodes[idx].dead
            /\ pc = "probed" => idx \in DOMAIN nodes

(* What a step of the bus task leaves alone in the roster.                 *)
LEMMA RosterFields ==
    ASSUME NEW r \in RosterType
    PROVE  /\ \A x : LET q == [r EXCEPT !.summary = x] IN
                /\ q.addr = r.addr /\ q.enabled = r.enabled /\ q.announced = r.announced
                /\ q.annSummary = r.annSummary /\ q.misses = r.misses /\ q.state = r.state
           /\ LET q == [r EXCEPT !.misses = 0, !.state = "ALIVE"] IN
                /\ q.addr = r.addr /\ q.enabled = r.enabled /\ q.announced = r.announced
                /\ q.annSummary = r.annSummary /\ q.misses = 0
           /\ \A x : LET q == [r EXCEPT !.misses = 0, !.state = "ALIVE", !.summary = x] IN
                /\ q.addr = r.addr /\ q.enabled = r.enabled /\ q.announced = r.announced
                /\ q.annSummary = r.annSummary /\ q.misses = 0
           /\ LET q == Missed(r) IN
                /\ q.addr = r.addr /\ q.enabled = r.enabled /\ q.announced = r.announced
                /\ q.annSummary = r.annSummary
                /\ q.misses = IF r.misses < MissTop THEN r.misses + 1 ELSE r.misses
                /\ q.state = IF TooMany(q.misses) THEN "DEAD" ELSE r.state
  BY DEF RosterType, Missed

LEMMA MarksKeep ==
    ASSUME TableType, NEW a, PollSlot(a) \/ MarkAlive(a) \/ MarkMiss(a) \/ (Answers(a) /\ MarkHeard(a))
    PROVE  /\ DOMAIN roster' = DOMAIN roster
           /\ \A i \in DOMAIN roster :
                /\ roster'[i].addr = roster[i].addr /\ roster'[i].enabled = roster[i].enabled
                /\ roster'[i].announced = roster[i].announced
                /\ roster'[i].annSummary = roster[i].annSummary
  <1>1. \A i \in DOMAIN roster : roster[i] \in RosterType
    BY SeqElt, Zenon DEF TableType
  <1>2. CASE roster' = roster
    BY <1>2
  <1>3. CASE roster' = Recorded(a)
    BY <1>1, <1>3, RosterFields DEF Recorded
  <1>4. CASE MarkAlive(a)
    BY <1>1, <1>4, RosterFields DEF MarkAlive
  <1>5. CASE MarkMiss(a)
    BY <1>1, <1>5, RosterFields DEF MarkMiss
  <1>6. CASE MarkHeard(a)
    <2>1. DOMAIN roster' = DOMAIN roster
      BY <1>6 DEF MarkHeard
    <2>2. ASSUME NEW i \in DOMAIN roster
          PROVE  /\ roster'[i].addr = roster[i].addr /\ roster'[i].enabled = roster[i].enabled
                 /\ roster'[i].announced = roster[i].announced
                 /\ roster'[i].annSummary = roster[i].annSummary
      <3> DEFINE x == slave[a].sum
                 q == [roster[i] EXCEPT !.misses = 0, !.state = "ALIVE", !.summary = x]
      <3>1. roster'[i] = roster[i] \/ roster'[i] = q
        BY <1>6 DEF MarkHeard
      <3>2. /\ q.addr = roster[i].addr /\ q.enabled = roster[i].enabled
            /\ q.announced = roster[i].announced /\ q.annSummary = roster[i].annSummary
        <4> HIDE DEF x
        <4> QED BY <1>1, RosterFields
      <3> HIDE DEF q
      <3> QED BY <3>1, <3>2
    <2> QED BY <2>1, <2>2
  <1>7. CASE PollSlot(a)
    <2>1. roster' = roster \/ roster' = Recorded(a)
      BY <1>7 DEF PollSlot
    <2> QED BY <2>1, <1>2, <1>3
  <1> QED BY <1>4, <1>5, <1>6, <1>7

LEMMA EdgeFields ==
    ASSUME NEW r \in RosterType
    PROVE  /\ \A q \in {Shadow(r), Announce(r), Deferred(r)} :
                /\ q.addr = r.addr /\ q.enabled = r.enabled
                /\ q.misses = r.misses /\ q.state = r.state
           /\ Shadow(r).announced = r.state /\ Shadow(r).annSummary = r.annSummary
           /\ Announce(r).announced = r.state
           /\ Announce(r).annSummary = IF Told(r) = "FLAGGED" THEN r.summary ELSE r.annSummary
           /\ Deferred(r).annSummary = r.annSummary
           /\ Deferred(r).announced = IF Told(r) = "FLAGGED" THEN r.state ELSE r.announced
  <1>1. /\ Shadow(r).addr = r.addr /\ Shadow(r).enabled = r.enabled /\ Shadow(r).misses = r.misses
        /\ Shadow(r).state = r.state /\ Shadow(r).announced = r.state
        /\ Shadow(r).annSummary = r.annSummary /\ Shadow(r) \in RosterType
    BY EdgeTypes DEF Shadow, RosterType
  <1>2. \A q \in RosterType : \A x : LET z == [q EXCEPT !.annSummary = x] IN
           /\ z.addr = q.addr /\ z.enabled = q.enabled /\ z.misses = q.misses /\ z.state = q.state
           /\ z.announced = q.announced /\ z.annSummary = x
    BY DEF RosterType
  <1>3. CASE Told(r) = "FLAGGED"
    <2>1. Announce(r) = [Shadow(r) EXCEPT !.annSummary = r.summary] /\ Deferred(r) = Shadow(r)
      BY <1>3 DEF Announce, Deferred
    <2> QED BY <2>1, <1>1, <1>2, <1>3
  <1>4. CASE Told(r) # "FLAGGED"
    <2>1. Announce(r) = Shadow(r) /\ Deferred(r) = r
      BY <1>4 DEF Announce, Deferred
    <2> QED BY <2>1, <1>1, <1>4
  <1> QED BY <1>3, <1>4

LEMMA EdgesKeep ==
    ASSUME TableType, NEW room \in BOOLEAN, EmitEdges(room)
    PROVE  /\ DOMAIN roster' = DOMAIN roster
           /\ \A i \in DOMAIN roster :
                /\ roster'[i].addr = roster[i].addr /\ roster'[i].enabled = roster[i].enabled
                /\ roster'[i].misses = roster[i].misses /\ roster'[i].state = roster[i].state
  <1>1. \A i \in DOMAIN roster : roster[i] \in RosterType
    BY SeqElt, Zenon DEF TableType
  <1>2. roster' = [i \in DOMAIN roster |-> AfterEdges(i, room)]
    BY DEF EmitEdges
  <1>3. \A i \in DOMAIN roster : AfterEdges(i, room) \in
          {Shadow(roster[i]), Announce(roster[i]), Deferred(roster[i]), roster[i]}
    BY DEF AfterEdges
  <1>4. ASSUME NEW i \in DOMAIN roster
        PROVE  /\ roster'[i].addr = roster[i].addr /\ roster'[i].enabled = roster[i].enabled
               /\ roster'[i].misses = roster[i].misses /\ roster'[i].state = roster[i].state
    <2>1. roster'[i] \in {Shadow(roster[i]), Announce(roster[i]), Deferred(roster[i]), roster[i]}
      BY <1>2, <1>3
    <2> QED BY <2>1, <1>1, EdgeFields
  <1> QED BY <1>2, <1>4

(* Every step of the bus task but the edges keeps what the host was told.  *)
LEMMA BusRoster ==
    ASSUME IInv, BusStep
    PROVE  \/ \E room \in BOOLEAN : EmitEdges(room)
           \/ /\ DOMAIN roster' = DOMAIN roster
              /\ \A i \in DOMAIN roster :
                   /\ roster'[i].addr = roster[i].addr /\ roster'[i].enabled = roster[i].enabled
                   /\ roster'[i].announced = roster[i].announced
                   /\ roster'[i].annSummary = roster[i].annSummary
              /\ UNCHANGED <<linked, host, up>> /\ budget'.reattach = budget.reattach
  <1> TableType
    BY DEF IInv, BusTypes
  <1>1. CASE \/ Rebuild \/ NoRebuild \/ RecoverOrphan \/ OrphansDone \/ DrainCmd \/ Swap
             \/ TakeList \/ SkipList \/ Transmit \/ SweepSkip \/ ProbeNone \/ Notify
    <2>1. UNCHANGED <<roster, linked, host, budget, up>>
      BY <1>1 DEF Rebuild, NoRebuild, RecoverOrphan, OrphansDone, DrainCmd, Swap, TakeList, SkipList,
           Transmit, SweepSkip, ProbeNone, Notify, tableVars, upVars, envVars
    <2> QED BY <2>1
  <1>2. CASE SweepPoll \/ ProbePoll
    <2>1. UNCHANGED <<linked, host, budget, up>> /\ \E a : PollSlot(a)
      BY <1>2 DEF SweepPoll, ProbePoll, upVars, envVars
    <2> QED BY <2>1, MarksKeep
  <1>3. CASE SweepMark \/ ProbeMark
    <2>1. /\ UNCHANGED <<linked, host, budget, up>>
          /\ roster' = roster \/ \E a : MarkAlive(a) \/ MarkMiss(a)
      BY <1>3 DEF SweepMark, ProbeMark, upVars, envVars
    <2>2. CASE roster' = roster
      BY <2>1, <2>2
    <2>3. CASE \E a : MarkAlive(a) \/ MarkMiss(a)
      BY <2>1, <2>3, MarksKeep
    <2> QED BY <2>1, <2>2, <2>3
  <1>4. CASE SlotStep
    <2>1. UNCHANGED <<linked, host, up>> /\ (roster' = roster \/ RosterMarked)
      BY <1>4, SlotStepFacts DEF SlotFrame
    <2>2. budget'.reattach = budget.reattach
      <3>1. CASE \E a \in Addrs : SlotOrig(a)
        BY <3>1 DEF SlotOrig, IInv, BusTypes, EnvType
      <3>2. CASE ~\E a \in Addrs : SlotOrig(a)
        BY <1>4, <3>2 DEF SlotStep, SlotCmd, SlotInject, SlotCollect, SlotNext, SlotNone, SlotPoll,
             SlotMark, envVars
      <3> QED BY <3>1, <3>2
    <2>3. CASE roster' = roster
      BY <2>1, <2>2, <2>3
    <2>4. CASE RosterMarked
      BY <2>1, <2>2, <2>4, MarksKeep DEF RosterMarked
    <2> QED BY <2>1, <2>3, <2>4
  <1> QED BY <1>1, <1>2, <1>3, <1>4 DEF BusStep

LEMMA CommissionedOnce ==
    ASSUME DistinctAddrs
    PROVE  \A i, j \in 1..Len(Commissioned) : Commissioned[i].addr = Commissioned[j].addr => i = j
  <1> DEFINE n == IF Len(CfgRoster) < ROSTER_MAX THEN Len(CfgRoster) ELSE ROSTER_MAX
  <1>1. n \in Nat /\ n <= Len(CfgRoster) /\ Len(CfgRoster) \in Nat
    BY BusCycleAssumption
  <1>2. Commissioned = [i \in 1..n |-> RosterEntry(CfgRoster[i].addr, CfgRoster[i].enabled)]
    BY DEF Commissioned
  <1> HIDE DEF n
  <1>3. Len(Commissioned) = n
    BY <1>1, <1>2
  <1>4. \A i \in 1..n : Commissioned[i].addr = CfgRoster[i].addr /\ i \in 1..Len(CfgRoster)
    BY <1>1, <1>2 DEF RosterEntry
  <1> QED BY <1>3, <1>4 DEF DistinctAddrs

LEMMA CommissionedFresh ==
    \A i \in 1..Len(Commissioned) :
        Commissioned[i].announced = "UNKNOWN" /\ Commissioned[i].annSummary = 0
  <1> DEFINE n == IF Len(CfgRoster) < ROSTER_MAX THEN Len(CfgRoster) ELSE ROSTER_MAX
  <1>1. n \in Nat
    BY BusCycleAssumption
  <1>2. Commissioned = [i \in 1..n |-> RosterEntry(CfgRoster[i].addr, CfgRoster[i].enabled)]
    BY DEF Commissioned
  <1> HIDE DEF n
  <1>3. Len(Commissioned) = n
    BY <1>1, <1>2
  <1> QED BY <1>2, <1>3 DEF RosterEntry

LEMMA CommissionedNamed == \A i \in 1..Len(Commissioned) : Commissioned[i].addr # NoAddr
  <1> DEFINE n == IF Len(CfgRoster) < ROSTER_MAX THEN Len(CfgRoster) ELSE ROSTER_MAX
  <1>1. n \in Nat /\ n <= Len(CfgRoster) /\ Len(CfgRoster) \in Nat
    BY BusCycleAssumption
  <1>2. Commissioned = [i \in 1..n |-> RosterEntry(CfgRoster[i].addr, CfgRoster[i].enabled)]
    BY DEF Commissioned
  <1> HIDE DEF n
  <1>3. Len(Commissioned) = n
    BY <1>1, <1>2
  <1>4. \A i \in 1..n : Commissioned[i].addr = CfgRoster[i].addr /\ i \in 1..Len(CfgRoster)
    BY <1>1, <1>2 DEF RosterEntry
  <1>5. \A i \in 1..Len(CfgRoster) : CfgRoster[i] \in [addr : Addrs, enabled : BOOLEAN]
    <2>1. CfgRoster \in Seq([addr : Addrs, enabled : BOOLEAN])
      BY BusCycleAssumption
    <2> HIDE DEF n
    <2> QED BY <2>1, SeqElt
  <1>6. \A i \in 1..Len(CfgRoster) : CfgRoster[i].addr \in Addrs
    BY <1>5
  <1>7. \A a \in Addrs : a # NoAddr
    BY BusCycleAssumption DEF NoAddr
  <1> QED BY <1>3, <1>4, <1>6, <1>7

LEMMA ToldFrame ==
    ASSUME SInv, DOMAIN roster' = DOMAIN roster,
           \A i \in DOMAIN roster : /\ roster'[i].addr = roster[i].addr
                                    /\ roster'[i].announced = roster[i].announced
                                    /\ roster'[i].annSummary = roster[i].annSummary,
           linked' => linked /\ host' = host,
           up'.op = "enter" => up' = up
    PROVE  SInv'
  <1>1. Once'
    BY DEF SInv, Once
  <1>2. CopyPart'
    BY DEF SInv, CopyPart
  <1>3. ToldPart'
    BY DEF SInv, ToldPart
  <1> QED BY <1>1, <1>2, <1>3 DEF SInv

(* A fresh entry for an address the roster does not hold.                  *)
LEMMA AppendTold ==
    ASSUME SInv, TableType, EnvType, NEW r \in RosterType, roster' = Append(roster, r),
           r.announced = "UNKNOWN", r.annSummary = 0,
           \A i \in DOMAIN roster : roster[i].addr # r.addr,
           UNCHANGED <<linked, host>>
    PROVE  Once' /\ ToldPart'
  <1>0. roster \in Seq(RosterType) /\ Len(roster) \in Nat /\ DOMAIN roster = 1..Len(roster)
    BY SeqElt DEF TableType
  <1>1. /\ DOMAIN roster' = 1..(Len(roster) + 1)
        /\ \A i \in DOMAIN roster : i \in DOMAIN roster' /\ roster'[i] = roster[i]
        /\ roster'[Len(roster) + 1] = r
        /\ \A i \in DOMAIN roster' : i \in DOMAIN roster \/ i = Len(roster) + 1
    BY <1>0
  <1>2. Once'
    BY <1>1 DEF SInv, Once
  <1>3. ToldPart'
    <2> SUFFICES ASSUME linked, NEW a \in Addrs
                 PROVE  /\ (\A i \in DOMAIN roster' : roster'[i].addr # a) =>
                              host[a].live # "DOWN" /\ host[a].sum = 0
                        /\ \A i \in DOMAIN roster' : roster'[i].addr = a =>
                              /\ roster'[i].announced = "DEAD" <=> host[a].live = "DOWN"
                              /\ roster'[i].annSummary = host[a].sum
      BY DEF ToldPart
    <2>1. ToldPart
      BY DEF SInv
    <2>2. (\A i \in DOMAIN roster' : roster'[i].addr # a) => host[a].live # "DOWN" /\ host[a].sum = 0
      BY <2>1, <1>1 DEF ToldPart
    <2>3. ASSUME NEW i \in DOMAIN roster', roster'[i].addr = a
          PROVE  /\ roster'[i].announced = "DEAD" <=> host[a].live = "DOWN"
                 /\ roster'[i].annSummary = host[a].sum
      <3>1. CASE i \in DOMAIN roster
        BY <3>1, <2>1, <2>3, <1>1 DEF ToldPart
      <3>2. CASE i = Len(roster) + 1
        <4>1. r.addr = a
          BY <3>2, <2>3, <1>1
        <4>2. host[a].live # "DOWN" /\ host[a].sum = 0
          BY <4>1, <2>1 DEF ToldPart
        <4> QED BY <4>2, <3>2, <1>1
      <3> QED BY <3>1, <3>2, <1>1
    <2> QED BY <2>2, <2>3
  <1> QED BY <1>2, <1>3

LEMMA EmptyTold ==
    ASSUME roster' = << >>, host' = [a \in Addrs |-> Silent]
    PROVE  Once' /\ CopyPart' /\ ToldPart'
  <1>1. DOMAIN roster' = {}
    OBVIOUS
  <1>2. \A a \in Addrs : host'[a].live # "DOWN" /\ host'[a].sum = 0
    BY DEF Silent
  <1> QED BY <1>1, <1>2 DEF Once, CopyPart, ToldPart

LEMMA UplinkTold ==
    ASSUME DistinctAddrs, IInv, SInv, UplinkStep
    PROVE  SInv'
  <1>0. TableType /\ UpType /\ EnvType /\ EnterMatches /\ Once /\ CopyPart
        /\ Len(roster) \in Nat /\ DOMAIN roster = 1..Len(roster)
    BY SeqElt DEF IInv, BusTypes, ControlInv, SInv, TableType
  <1>1. CASE (\E a \in Addrs : StageCmd(a)) \/ (\E a \in Addrs, n \in 1..2 : Inject(a, n))
             \/ EnterEnd \/ WifiLost \/ CycleMode
    <2>1. roster' = roster /\ (linked' => linked /\ host' = host) /\ (up'.op = "enter" => up' = up)
      BY <1>1 DEF StageCmd, Inject, EnterEnd, WifiLost, CycleMode, tableVars, upVars, envVars, Idle
    <2> QED BY <2>1, ToldFrame
  <1>2. CASE ClearRoster \/ \E act \in BOOLEAN : EnterBegin(act)
    <2>1. roster' = << >> /\ host' = [a \in Addrs |-> Silent]
      BY <1>2 DEF ClearRoster, EnterBegin
    <2> QED BY <2>1, EmptyTold DEF SInv
  <1>3. ASSUME NEW a \in Addrs, NEW e \in RegFlags, RegisterSlave(a, e) PROVE SInv'
    <2>1. UNCHANGED <<linked, host, up>> /\ up.op = "idle"
      BY <1>3 DEF RegisterSlave, upVars, LockFree
    <2>2. CASE roster' = roster
      BY <2>1, <2>2, ToldFrame
    <2>3. CASE roster' = Append(roster, RosterEntry(a, e))
      <3> DEFINE r == RosterEntry(a, e)
      <3>1. /\ r \in RosterType /\ r.announced = "UNKNOWN" /\ r.annSummary = 0 /\ r.addr = a
        <4>1. e \in BOOLEAN
          BY BusCycleAssumption
        <4>2. r \in RosterType
          BY <4>1, RosterEntryType
        <4> QED BY <4>2 DEF RosterEntry
      <3>2. \A i \in DOMAIN roster : roster[i].addr # a
        <4>1. RosterIdx(a) = {}
          BY <1>3 DEF RegisterSlave, DistinctAddrs
        <4>2. \A i \in DOMAIN roster : roster[i].addr = a => i \in RosterIdx(a)
          <5> SUFFICES ASSUME NEW i \in DOMAIN roster, roster[i].addr = a,
                              NEW j \in 1..(i - 1), roster[j].addr = a PROVE FALSE
            BY DEF RosterIdx
          <5>1. j \in DOMAIN roster /\ j # i
            BY <1>0
          <5> QED BY <5>1, <1>0 DEF Once
        <4> QED BY <4>1, <4>2
      <3> HIDE DEF r
      <3>3. Once' /\ ToldPart'
        BY <2>1, <2>3, <3>1, <3>2, <1>0, AppendTold DEF r
      <3>4. CopyPart'
        BY <2>1 DEF CopyPart
      <3> QED BY <3>3, <3>4 DEF SInv
    <2> QED BY <1>3, <2>2, <2>3 DEF RegisterSlave
  <1>4. CASE EnterGrow
    <2> DEFINE r == RosterEntry(NoAddr, FALSE)
    <2>1. /\ up.op = "enter" /\ roster' = Append(roster, r) /\ UNCHANGED <<linked, host, up>>
          /\ up.left = Len(roster) + 1 /\ up.left <= Len(Commissioned)
      <3>1. up.left \in Nat /\ Len(roster) \in {up.left - 1, up.left} /\ Len(roster) < up.left
        BY <1>0, <1>4 DEF EnterGrow, EnterMatches, UpType
      <3> QED BY <3>1, <1>0, <1>4 DEF EnterGrow, envVars, upVars
    <2>2. r \in RosterType /\ r.announced = "UNKNOWN" /\ r.annSummary = 0 /\ r.addr = NoAddr
      <3>1. r \in RosterType
        BY BusCycleAssumption DEF RosterEntry, RosterType, Liveness
      <3> QED BY <3>1 DEF RosterEntry
    <2> HIDE DEF r
    <2>3. \A i \in DOMAIN roster : roster[i].addr # r.addr
      <3> SUFFICES ASSUME NEW i \in DOMAIN roster PROVE roster[i].addr # NoAddr
        BY <2>2
      <3>1. i < up.left /\ i \in 1..Len(Commissioned)
        BY <2>1, <1>0, CommissionedType
      <3>2. roster[i].addr = Commissioned[i].addr
        BY <2>1, <3>1, <1>0 DEF CopyPart
      <3> QED BY <3>1, <3>2, CommissionedNamed
    <2>4. Once' /\ ToldPart'
      BY <2>1, <2>2, <2>3, <1>0, AppendTold
    <2>5. CopyPart'
      <3>1. roster \in Seq(RosterType)
        BY <1>0 DEF TableType
      <3>2. /\ DOMAIN roster' = 1..(Len(roster) + 1)
            /\ \A j \in DOMAIN roster : roster'[j] = roster[j]
            /\ roster'[Len(roster) + 1] = r
        BY <3>1, <2>1, <2>2, <1>0
      <3>3. \A j \in DOMAIN roster' :
              roster'[j].addr = IF j < up.left THEN Commissioned[j].addr ELSE NoAddr
        <4> SUFFICES ASSUME NEW j \in DOMAIN roster'
                     PROVE  roster'[j].addr = IF j < up.left THEN Commissioned[j].addr ELSE NoAddr
          OBVIOUS
        <4>1. CASE j \in DOMAIN roster
          BY <4>1, <3>2, <2>1, <1>0 DEF CopyPart
        <4>2. CASE j \notin DOMAIN roster
          <5>1. j = Len(roster) + 1 /\ ~(j < up.left)
            BY <4>2, <3>2, <2>1, <1>0
          <5> QED BY <5>1, <3>2, <2>2
        <4> QED BY <4>1, <4>2
      <3> QED BY <3>3, <2>1 DEF CopyPart
    <2> QED BY <2>4, <2>5 DEF SInv
  <1>5. CASE EnterCopy
    <2> DEFINE n == up.left
               c == Commissioned[n]
    <2>1. /\ up.op = "enter" /\ n = Len(roster) /\ roster' = [roster EXCEPT ![n] = c]
          /\ UNCHANGED <<linked, host>> /\ up'.left = n + 1 /\ n \in Nat /\ n <= Len(Commissioned)
      <3>1. n \in Nat /\ Len(roster) <= Len(Commissioned)
        BY <1>0, <1>5 DEF EnterCopy, EnterMatches, UpType
      <3> QED BY <3>1, <1>0, <1>5 DEF EnterCopy, envVars, UpType
    <2>2. DOMAIN roster' = DOMAIN roster /\ \A i \in DOMAIN roster : i # n => roster'[i] = roster[i] /\ i < n
      BY <2>1, <1>0
    <2>3. \A i \in DOMAIN roster : i # n => roster[i].addr = Commissioned[i].addr
      BY <2>1, <2>2, <1>0 DEF CopyPart
    <2>4. CASE n \notin DOMAIN roster
      <3>1. DOMAIN roster = {} /\ DOMAIN roster' = {}
        BY <2>1, <2>2, <2>4, <1>0
      <3> QED BY <3>1, <2>1, <1>0 DEF SInv, Once, CopyPart, ToldPart
    <2>5. CASE n \in DOMAIN roster
      <3>1. n \in 1..Len(Commissioned) /\ roster'[n] = c /\ roster[n].addr = NoAddr
        BY <2>1, <2>5, <1>0 DEF CopyPart
      <3>2. c.announced = "UNKNOWN" /\ c.annSummary = 0 /\ c.addr # NoAddr
        BY <3>1, CommissionedFresh, CommissionedNamed
      <3>3. \A i \in DOMAIN roster : i # n => i \in 1..Len(Commissioned) /\ roster[i].addr # c.addr
        <4> SUFFICES ASSUME NEW i \in DOMAIN roster, i # n
                     PROVE  i \in 1..Len(Commissioned) /\ roster[i].addr # c.addr
          OBVIOUS
        <4>1. i \in 1..Len(Commissioned)
          BY <2>1, <1>0
        <4> QED BY <4>1, <3>1, <2>3, CommissionedOnce
      <3> HIDE DEF c
      <3>4. Once'
        BY <2>2, <3>1, <3>3, <1>0 DEF Once
      <3>5. CopyPart'
        <4>1. \A j \in DOMAIN roster' : j < n + 1 /\ roster'[j].addr = Commissioned[j].addr
          BY <2>1, <2>2, <2>3, <3>1, <1>0 DEF c
        <4> QED BY <4>1, <2>1 DEF CopyPart
      <3>6. ToldPart'
        <4> SUFFICES ASSUME linked, NEW a \in Addrs
                     PROVE  /\ (\A i \in DOMAIN roster' : roster'[i].addr # a) =>
                                  host[a].live # "DOWN" /\ host[a].sum = 0
                            /\ \A i \in DOMAIN roster' : roster'[i].addr = a =>
                                  /\ roster'[i].announced = "DEAD" <=> host[a].live = "DOWN"
                                  /\ roster'[i].annSummary = host[a].sum
          BY <2>1 DEF ToldPart
        <4>1. a # NoAddr /\ roster[n].addr # a
          BY <3>1, BusCycleAssumption DEF NoAddr
        <4>2. ToldPart
          BY DEF SInv
        <4>3. (\A i \in DOMAIN roster' : roster'[i].addr # a) => host[a].live # "DOWN" /\ host[a].sum = 0
          BY <4>1, <4>2, <2>2 DEF ToldPart
        <4>4. ASSUME NEW i \in DOMAIN roster', roster'[i].addr = a
              PROVE  /\ roster'[i].announced = "DEAD" <=> host[a].live = "DOWN"
                     /\ roster'[i].annSummary = host[a].sum
          <5>1. CASE i = n
            <6>1. \A j \in DOMAIN roster : roster[j].addr # a
              BY <5>1, <4>1, <4>4, <3>1, <3>3
            <6>2. host[a].live # "DOWN" /\ host[a].sum = 0
              BY <6>1, <4>2 DEF ToldPart
            <6> QED BY <6>2, <5>1, <3>1, <3>2
          <5>2. CASE i # n
            BY <5>2, <4>2, <4>4, <2>2 DEF ToldPart
          <5> QED BY <5>1, <5>2
        <4> QED BY <4>3, <4>4
      <3> QED BY <3>4, <3>5, <3>6 DEF SInv
    <2> QED BY <2>4, <2>5
  <1> QED BY <1>1, <1>2, <1>3, <1>4, <1>5 DEF UplinkStep

LEMMA LeastElement ==
    ASSUME NEW T, T \subseteq Nat, T # {}
    PROVE  \E x \in T : \A y \in T : x <= y
  <1>1. \E x \in T : \A y \in T : ~(<<y, x>> \in OpToRel(<, Nat))
    BY WFMin, NatLessThanWellFounded, Zenon
  <1>2. PICK x \in T : \A y \in T : ~(<<y, x>> \in OpToRel(<, Nat))
    BY <1>1, Zenon
  <1>3. \A y \in T : ~(y < x)
    BY <1>2 DEF OpToRel
  <1> QED BY <1>3

(* An entry with an edge worth a frame is not before the first such entry. *)
LEMMA BeforeFirstIsQuiet ==
    ASSUME TableType, NEW i \in DOMAIN roster, i \notin FirstLoud, \A j \in FirstLoud : i < j
    PROVE  ~LoudEdge(roster[i])
  <1>0. DOMAIN roster = 1..Len(roster) /\ Len(roster) \in Nat
    BY SeqElt DEF TableType
  <1> DEFINE T == {j \in DOMAIN roster : LoudEdge(roster[j])}
  <1> SUFFICES ASSUME LoudEdge(roster[i]) PROVE FALSE
    OBVIOUS
  <1>1. i \in T /\ T \subseteq Nat
    BY <1>0
  <1>2. PICK m \in T : \A j \in T : m <= j
    BY <1>1, LeastElement
  <1>3. m \in FirstLoud
    <2> SUFFICES ASSUME NEW j \in 1..(m - 1), LoudEdge(roster[j]) PROVE FALSE
      BY DEF FirstLoud
    <2>1. j \in T /\ j < m /\ j \in Nat /\ m \in Nat
      BY <1>0, <1>1
    <2> QED BY <2>1, <1>2
  <1>4. m <= i /\ m \in Nat /\ i \in Nat
    BY <1>1, <1>2
  <1>5. i < m
    BY <1>3
  <1> QED BY <1>4, <1>5

(* What each kind of edge changes of the announced shadow.                 *)
LEMMA EdgeShadow ==
    ASSUME NEW r \in RosterType
    PROVE  /\ ~LoudEdge(r) => (Shadow(r).announced = "DEAD" <=> r.announced = "DEAD")
           /\ Deferred(r).announced = "DEAD" <=> r.announced = "DEAD"
           /\ Told(r) = "FLAGGED" => (Announce(r).announced = "DEAD" <=> r.announced = "DEAD")
           /\ Told(r) # "FLAGGED" => (Announce(r).announced = "DEAD" <=> Told(r) = "DOWN")
  <1>1. /\ Shadow(r).announced = r.state /\ Announce(r).announced = r.state
        /\ Deferred(r).announced = IF Told(r) = "FLAGGED" THEN r.state ELSE r.announced
    BY EdgeFields
  <1>2. ~LoudEdge(r) => (r.state = "DEAD" <=> r.announced = "DEAD")
    BY DEF LoudEdge
  <1>3. Told(r) = "FLAGGED" => (r.state = "DEAD" <=> r.announced = "DEAD")
    BY DEF Told
  <1>4. Told(r) # "FLAGGED" => (r.state = "DEAD" <=> Told(r) = "DOWN")
    BY DEF Told
  <1> QED BY <1>1, <1>2, <1>3, <1>4

LEMMA EdgesTold ==
    ASSUME IInv, SInv, NEW room \in BOOLEAN, EmitEdges(room)
    PROVE  SInv'
  <1>0. TableType /\ EnvType /\ Once /\ CopyPart /\ ToldPart
    BY DEF IInv, BusTypes, SInv
  <1>1. /\ DOMAIN roster' = DOMAIN roster
        /\ \A i \in DOMAIN roster : roster'[i].addr = roster[i].addr
        /\ \A i \in DOMAIN roster : roster[i] \in RosterType
    BY <1>0, EdgesKeep, SeqElt DEF TableType
  <1>2. UNCHANGED <<up, linked>> /\ \A i \in DOMAIN roster : roster'[i] = AfterEdges(i, room)
    BY DEF EmitEdges, upVars
  <1>3. Once' /\ CopyPart'
    BY <1>0, <1>1, <1>2 DEF Once, CopyPart
  <1>4. ASSUME NEW i \in DOMAIN roster, i \notin FirstLoud
        PROVE  /\ roster'[i].announced = "DEAD" <=> roster[i].announced = "DEAD"
               /\ roster'[i].annSummary = roster[i].annSummary
    <2>1. CASE \A j \in FirstLoud : i < j
      <3>1. roster'[i] = Shadow(roster[i]) /\ ~LoudEdge(roster[i])
        BY <2>1, <1>0, <1>2, <1>4, BeforeFirstIsQuiet DEF AfterEdges
      <3> QED BY <3>1, <1>1, EdgeShadow, EdgeFields
    <2>2. CASE ~(\A j \in FirstLoud : i < j)
      <3>1. roster'[i] = roster[i]
        BY <2>2, <1>2, <1>4 DEF AfterEdges
      <3> QED BY <3>1
    <2> QED BY <2>1, <2>2
  <1>5. CASE ~linked
    BY <1>2, <1>3, <1>5 DEF SInv, ToldPart
  <1>6. CASE linked /\ (FirstLoud = {} \/ ~room)
    <2>1. host' = host
      BY <1>6 DEF EmitEdges
    <2>2. ASSUME NEW i \in DOMAIN roster
          PROVE  /\ roster'[i].announced = "DEAD" <=> roster[i].announced = "DEAD"
                 /\ roster'[i].annSummary = roster[i].annSummary
      <3>1. CASE i \in FirstLoud
        <4>1. roster'[i] = Deferred(roster[i])
          BY <3>1, <1>2, <1>6 DEF AfterEdges
        <4> QED BY <4>1, <1>1, EdgeShadow, EdgeFields
      <3> QED BY <3>1, <1>4
    <2>3. ToldPart'
      BY <2>1, <2>2, <1>0, <1>1, <1>2 DEF ToldPart
    <2> QED BY <2>3, <1>3 DEF SInv
  <1>7. ASSUME linked, room, NEW f \in FirstLoud, \A g \in FirstLoud : g = f, roster[f].addr \in Addrs,
               host' = [host EXCEPT ![roster[f].addr] = Hears(@, roster[f])]
        PROVE  SInv'
    <2> DEFINE r == roster[f]
               b == r.addr
    <2>1. FirstLoud # {}
      OBVIOUS
    <2>2. f \in DOMAIN roster /\ r \in RosterType /\ roster'[f] = Announce(r)
      BY <1>1, <1>2, <1>7 DEF FirstLoud, AfterEdges
    <2>3. \A g \in FirstLoud : g = f
      BY <1>7
    <2>4. b \in Addrs /\ host'[b] = Hears(host[b], r) /\ \A a \in Addrs \ {b} : host'[a] = host[a]
      BY <1>7, <1>0 DEF EnvType
    <2>5. /\ host'[b].live = IF Told(r) = "FLAGGED" THEN host[b].live ELSE Told(r)
          /\ host'[b].sum = IF Told(r) = "FLAGGED" THEN r.summary ELSE host[b].sum
      <3>1. host[b] \in [live : {"NONE", "DOWN", "UP"}, sum : Summaries]
        BY <2>4, <1>0 DEF EnvType
      <3> QED BY <3>1, <2>4 DEF Hears
    <2> HIDE DEF r, b
    <2>6. /\ r.announced = "DEAD" <=> host[b].live = "DOWN"
          /\ r.annSummary = host[b].sum
      BY <2>2, <2>4, <1>0, <1>7 DEF ToldPart, r, b
    <2>7. /\ roster'[f].announced = "DEAD" <=> host'[b].live = "DOWN"
          /\ roster'[f].annSummary = host'[b].sum
      BY <2>2, <2>5, <2>6, EdgeShadow, EdgeFields
    <2>8. ASSUME NEW a \in Addrs
          PROVE  /\ (\A i \in DOMAIN roster' : roster'[i].addr # a) =>
                       host'[a].live # "DOWN" /\ host'[a].sum = 0
                 /\ \A i \in DOMAIN roster' : roster'[i].addr = a =>
                       /\ roster'[i].announced = "DEAD" <=> host'[a].live = "DOWN"
                       /\ roster'[i].annSummary = host'[a].sum
      <3>1. CASE a = b
        <4>1. roster'[f].addr = b
          BY <2>2, <1>1 DEF r, b
        <4>2. \A i \in DOMAIN roster' : roster'[i].addr = b => i = f
          BY <4>1, <2>2, <1>1, <1>3 DEF Once
        <4> QED BY <3>1, <4>1, <4>2, <2>2, <2>7, <1>1
      <3>2. CASE a # b
        <4>1. host'[a] = host[a]
          BY <3>2, <2>4
        <4>2. \A i \in DOMAIN roster : roster[i].addr = a => i \notin FirstLoud
          BY <3>2, <2>3 DEF r, b
        <4> QED BY <4>1, <4>2, <1>0, <1>1, <1>4, <1>7 DEF ToldPart
      <3> QED BY <3>1, <3>2
    <2>9. ToldPart'
      BY <2>8 DEF ToldPart
    <2> QED BY <2>9, <1>3 DEF SInv
  <1>8. ASSUME linked, room, NEW f \in FirstLoud, \A g \in FirstLoud : g = f, roster[f].addr \notin Addrs,
               host' = [host EXCEPT ![roster[f].addr] = Hears(@, roster[f])]
        PROVE  SInv'
    <2>1. host' = host
      BY <1>8, <1>0 DEF EnvType
    <2>2. \A i \in DOMAIN roster : roster[i].addr \in Addrs => i \notin FirstLoud
      BY <1>8
    <2>3. ToldPart'
      BY <2>1, <2>2, <1>0, <1>1, <1>4, <1>8 DEF ToldPart
    <2> QED BY <2>3, <1>3 DEF SInv
  <1>9. CASE linked /\ FirstLoud # {} /\ room
    <2>1. PICK f \in FirstLoud : host' = [host EXCEPT ![roster[f].addr] = Hears(@, roster[f])]
      BY <1>9 DEF EmitEdges
    <2>2. \A g \in FirstLoud : g = f
      <3>1. \A g \in FirstLoud : g \in Nat /\ f \in Nat /\ LoudEdge(roster[g]) /\ LoudEdge(roster[f])
                                 /\ ~(g \in 1..(f - 1)) /\ ~(f \in 1..(g - 1)) /\ g > 0 /\ f > 0
        BY <1>0, SeqElt DEF FirstLoud, TableType
      <3> QED BY <3>1
    <2> QED BY <2>1, <2>2, <1>7, <1>8, <1>9
  <1> QED BY <1>5, <1>6, <1>9

LEMMA SInvInit == ASSUME DistinctAddrs, Init PROVE SInv
  <1>1. roster = Commissioned /\ host = [a \in Addrs |-> Silent] /\ up.op # "enter"
    BY DEF Init, Idle
  <1>2. DOMAIN roster = 1..Len(Commissioned)
    BY <1>1, CommissionedType, SeqElt
  <1>3. Once /\ CopyPart
    BY <1>1, <1>2, CommissionedOnce DEF Once, CopyPart
  <1>4. ToldPart
    <2>1. \A a \in Addrs : host[a].live = "NONE" /\ host[a].sum = 0
      BY <1>1 DEF Silent
    <2>2. \A i \in DOMAIN roster : roster[i].announced = "UNKNOWN" /\ roster[i].annSummary = 0
      BY <1>1, <1>2, CommissionedFresh
    <2> QED BY <2>1, <2>2 DEF ToldPart
  <1> QED BY <1>3, <1>4 DEF SInv

LEMMA SInvNext == ASSUME DistinctAddrs, IInv, SInv, [Next]_vars PROVE SInv'
  <1>0. PoolType /\ TableType /\ CycType /\ UpType /\ JobsMatch
    BY DEF IInv, BusTypes, ControlInv
  <1>1. CASE UNCHANGED vars
    BY <1>1, ToldFrame DEF vars, tableVars, upVars, envVars
  <1>2. CASE BusStep
    BY <1>0, <1>2, BusRoster, ToldFrame, EdgesTold
  <1>3. CASE UplinkStep
    BY <1>3, UplinkTold
  <1>4. ASSUME NEW p \in Producers, ProducerStep(p) PROVE SInv'
    <2>1. UNCHANGED <<roster, linked, host>>
      BY <1>4 DEF ProducerStep, PoolGrab, PoolExhausted, CountExhausted, Attach, AttachUnknown,
           SendRecover, tableVars, upVars, envVars
    <2>2. up'.op = "enter" => up' = up
      <3>1. CASE PoolGrab(p) \/ PoolExhausted(p) \/ AttachUnknown(p)
        BY <3>1 DEF PoolGrab, PoolExhausted, AttachUnknown, upVars
      <3>2. CASE CountExhausted(p) \/ Attach(p) \/ SendRecover(p)
        <4>1. job[p].st # "none" /\ \E ok \in BOOLEAN : Return(p, ok)
          BY <3>2 DEF CountExhausted, Attach, SendRecover
        <4> QED BY <4>1, <1>0, ReturnProps
      <3> QED BY <1>4, <3>1, <3>2 DEF ProducerStep
    <2> QED BY <2>1, <2>2, ToldFrame
  <1>5. CASE \/ \E a \in Addrs : EngineSend(a)
             \/ \E a \in Addrs, u \in BOOLEAN, s \in Summaries : SlaveChange(a, [up |-> u, sum |-> s])
    <2>1. UNCHANGED <<roster, linked, host, up>>
      BY <1>5 DEF EngineSend, SlaveChange, tableVars, upVars
    <2> QED BY <2>1, ToldFrame
  <1> QED BY <1>1, <1>2, <1>3, <1>4, <1>5 DEF Next

(* emit_liveness_edges never marks an event as announced that the attached *)
(* host did not get, and never repeats one: whatever the TX ring refuses,  *)
(* through any number of registrations, clears, lost links and             *)
(* re-attaches, as long as no address is on the roster twice.              *)
THEOREM ShadowSafety == DistinctAddrs => (Spec => []ShadowIsTold)
  <1> SUFFICES ASSUME DistinctAddrs PROVE Spec => []ShadowIsTold
    OBVIOUS
  <1>1. Init => SInv
    BY SInvInit
  <1>2. IInv /\ SInv /\ [Next]_vars => SInv'
    BY SInvNext
  <1>3. SInv => ShadowIsTold
    BY DEF SInv, ToldPart, ShadowIsTold, RosterIdx
  <1> QED BY <1>1, <1>2, <1>3, IInvInit, IInvNext, PTL DEF Spec

-----------------------------------------------------------------------------
(* The node table against the roster it was built from.                    *)
LEMMA SortKept ==
    ASSUME NEW r, NEW q, DOMAIN q = DOMAIN r, \A i \in DOMAIN r : q[i].addr = r[i].addr,
           NEW p \in SortOrder(r)
    PROVE  p \in SortOrder(q)
  <1>1. p \in [DOMAIN r -> DOMAIN r]
    BY DEF SortOrder
  <1>2. \A i \in DOMAIN r : p[i] \in DOMAIN r /\ q[p[i]].addr = r[p[i]].addr
    BY <1>1
  <1>3. \A i, j \in DOMAIN r : i < j =>
           \/ r[p[i]].addr < r[p[j]].addr
           \/ r[p[i]].addr = r[p[j]].addr /\ p[i] < p[j]
    BY DEF SortOrder
  <1>4. \A i, j \in DOMAIN q : i < j =>
           \/ q[p[i]].addr < q[p[j]].addr
           \/ q[p[i]].addr = q[p[j]].addr /\ p[i] < p[j]
    BY <1>2, <1>3
  <1> QED BY <1>1, <1>4 DEF SortOrder

LEMMA FollowsKept ==
    ASSUME NEW n, NEW m, NEW r, NEW q, Follows(n, r),
           Len(m) = Len(n), Len(q) = Len(r), DOMAIN q = DOMAIN r, DOMAIN n = DOMAIN r,
           \A i \in DOMAIN n : m[i].addr = n[i].addr /\ m[i].enabled = n[i].enabled,
           \A i \in DOMAIN r : q[i].addr = r[i].addr /\ q[i].enabled = r[i].enabled
    PROVE  Follows(m, q)
  <1>1. PICK p \in SortOrder(r) : \A i \in DOMAIN r :
          n[i].addr = r[p[i]].addr /\ n[i].enabled = r[p[i]].enabled
    BY DEF Follows
  <1>a. \A i \in DOMAIN r : q[i].addr = r[i].addr
    OBVIOUS
  <1>b. p \in SortOrder(q)
    BY <1>a, SortKept
  <1>2. p \in SortOrder(q) /\ \A i \in DOMAIN r : p[i] \in DOMAIN r
    BY <1>b DEF SortOrder
  <1>3. \A i \in DOMAIN q : m[i].addr = q[p[i]].addr /\ m[i].enabled = q[p[i]].enabled
    BY <1>1, <1>2
  <1>4. Len(m) = Len(q)
    BY DEF Follows
  <1> QED BY <1>2, <1>3, <1>4 DEF Follows

LEMMA TableOfFollows ==
    ASSUME NEW r \in Seq(RosterType), Len(r) <= ROSTER_MAX, NEW p \in SortOrder(r)
    PROVE  Follows(TableOf(r, p), r)
  <1>1. Len(TableOf(r, p)) = Len(r)
    BY TableOfType
  <1>2. \A i \in DOMAIN r : TableOf(r, p)[i].addr = r[p[i]].addr
                            /\ TableOf(r, p)[i].enabled = r[p[i]].enabled
    BY DEF TableOf, NodeEntry
  <1> QED BY <1>1, <1>2 DEF Follows

LEMMA MarksKeepNodes ==
    ASSUME TableType, SweepMark \/ ProbeMark
    PROVE  /\ DOMAIN nodes' = DOMAIN nodes
           /\ \A i \in DOMAIN nodes : nodes'[i].addr = nodes[i].addr
                                      /\ nodes'[i].enabled = nodes[i].enabled
  <1>1. /\ nodes \in Seq(NodeType) /\ DOMAIN nodes = 1..Len(nodes) /\ Len(nodes) \in Nat
        /\ \A i \in DOMAIN nodes : nodes[i] \in NodeType
    BY SeqElt, Zenon DEF TableType
  <1>2. \A n \in NodeType : /\ [n EXCEPT !.miss = 0].enabled = n.enabled
                            /\ [n EXCEPT !.dead = FALSE, !.miss = 0].enabled = n.enabled
                            /\ SweepMiss(n).enabled = n.enabled
    BY DEF NodeType, SweepMiss
  <1>3. \E v : (idx \in DOMAIN nodes => v.enabled = nodes[idx].enabled)
               /\ (nodes' = nodes \/ nodes' = [nodes EXCEPT ![idx] = v])
    <2>1. CASE SweepMark
      BY <2>1, <1>1, <1>2 DEF SweepMark
    <2>2. CASE ProbeMark
      <3>1. \/ nodes' = nodes
            \/ nodes' = [nodes EXCEPT ![idx].dead = FALSE, ![idx].miss = 0]
        BY <2>2 DEF ProbeMark
      <3>2. [nodes EXCEPT ![idx].dead = FALSE, ![idx].miss = 0]
              = [nodes EXCEPT ![idx] = [nodes[idx] EXCEPT !.dead = FALSE, !.miss = 0]]
        OBVIOUS
      <3> QED BY <3>1, <3>2, <1>1, <1>2
    <2> QED BY <2>1, <2>2
  <1>4. \A i \in DOMAIN nodes : nodes'[i].enabled = nodes[i].enabled
    BY <1>1, <1>3
  <1> QED BY <1>4, MarksKeepAddr

(* Without re-attaches, a roster that changed is marked dirty.             *)
LEMMA TInvInit == ASSUME OneSession, Init PROVE TInv
  <1>1. PICK p \in SortOrder(Commissioned) : nodes = TableOf(Commissioned, p)
    BY DEF Init
  <1>2. roster = Commissioned /\ up.op = "idle" /\ budget.reattach = 0
    BY DEF Init, Idle, OneSession
  <1>3. Follows(nodes, roster)
    BY <1>1, <1>2, CommissionedType, TableOfFollows, BusCycleAssumption
  <1> QED BY <1>2, <1>3 DEF TInv

LEMMA TFrame ==
    ASSUME IInv, TInv, IInv', up'.op = "enter" => up.op = "enter", budget'.reattach = budget.reattach,
           UNCHANGED dirty, DOMAIN nodes' = DOMAIN nodes, DOMAIN roster' = DOMAIN roster,
           \A i \in DOMAIN nodes : nodes'[i].addr = nodes[i].addr /\ nodes'[i].enabled = nodes[i].enabled,
           \A i \in DOMAIN roster : /\ roster'[i].addr = roster[i].addr
                                    /\ roster'[i].enabled = roster[i].enabled
    PROVE  TInv'
  <1>1. /\ Len(nodes) \in Nat /\ DOMAIN nodes = 1..Len(nodes)
        /\ Len(roster) \in Nat /\ DOMAIN roster = 1..Len(roster)
        /\ Len(nodes') \in Nat /\ DOMAIN nodes' = 1..Len(nodes')
        /\ Len(roster') \in Nat /\ DOMAIN roster' = 1..Len(roster')
    BY SeqElt DEF IInv, BusTypes, TableType
  <1>2. Len(nodes') = Len(nodes) /\ Len(roster') = Len(roster)
    BY <1>1
  <1>3. ASSUME ~dirty PROVE Follows(nodes', roster')
    <2>1. Follows(nodes, roster)
      BY <1>3 DEF TInv
    <2>2. DOMAIN nodes = DOMAIN roster
      BY <2>1, <1>1 DEF Follows
    <2> HIDE DEF Follows
    <2> QED BY <2>1, <2>2, <1>2, FollowsKept
  <1> QED BY <1>3 DEF TInv

LEMMA BusTable == ASSUME IInv, TInv, IInv', BusStep PROVE TInv'
  <1>0. TableType
    BY DEF IInv, BusTypes
  <1>1. CASE Rebuild
    <2>1. PICK p \in SortOrder(roster) : nodes' = TableOf(roster, p)
      BY <1>1 DEF Rebuild
    <2>2. UNCHANGED <<roster, up, budget>>
      BY <1>1 DEF Rebuild, upVars, envVars
    <2>3. Follows(nodes', roster')
      BY <2>1, <2>2, <1>0, TableOfFollows DEF TableType
    <2> QED BY <2>2, <2>3 DEF TInv
  <1>2. CASE BusStep /\ ~Rebuild
    <2>1. /\ DOMAIN roster' = DOMAIN roster
          /\ \A i \in DOMAIN roster : /\ roster'[i].addr = roster[i].addr
                                      /\ roster'[i].enabled = roster[i].enabled
      BY <1>0, BusRoster, EdgesKeep
    <2>2. up' = up /\ budget'.reattach = budget.reattach
      <3>1. CASE \E room \in BOOLEAN : EmitEdges(room)
        BY <3>1 DEF EmitEdges, upVars
      <3> QED BY <3>1, <1>0, BusRoster
    <2>3. UNCHANGED dirty /\ (nodes' = nodes \/ SweepMark \/ ProbeMark)
      <3>1. CASE SlotStep
        BY <3>1, SlotStepFacts DEF SlotFrame
      <3>2. CASE ~SlotStep
        BY <1>2, <3>2 DEF BusStep, NoRebuild, RecoverOrphan, OrphansDone, DrainCmd, Swap, TakeList, SkipList,
           Transmit, SweepSkip, SweepPoll, SweepMark, ProbeNone, ProbePoll, ProbeMark, Notify,
           EmitEdges, tableVars
      <3> QED BY <3>1, <3>2
    <2>4. /\ DOMAIN nodes' = DOMAIN nodes
          /\ \A i \in DOMAIN nodes : nodes'[i].addr = nodes[i].addr /\ nodes'[i].enabled = nodes[i].enabled
      BY <2>3, <1>0, MarksKeepNodes
    <2> QED BY <2>1, <2>2, <2>3, <2>4, TFrame
  <1> QED BY <1>1, <1>2

LEMMA UplinkTable == ASSUME IInv, TInv, IInv', UplinkStep PROVE TInv'
  <1>0. budget \in [msgs : Nat, admin : Nat, reattach : Nat, modes : Nat, flaps : Nat] /\ budget.reattach = 0
        /\ up.op # "enter"
    BY DEF IInv, BusTypes, EnvType, TInv
  <1>1. CASE (\E a \in Addrs : StageCmd(a)) \/ (\E a \in Addrs, n \in 1..2 : Inject(a, n))
    <2>1. /\ UNCHANGED <<roster, nodes, dirty>> /\ up'.op # "enter"
          /\ \E n : budget' = [budget EXCEPT !.msgs = @ - n]
      BY <1>0, <1>1 DEF StageCmd, Inject, tableVars
    <2>2. budget'.reattach = budget.reattach
      BY <2>1, <1>0
    <2> QED BY <2>1, <2>2, TFrame
  <1>2. CASE ClearRoster \/ \E a \in Addrs, e \in RegFlags : RegisterSlave(a, e)
    <2>1. /\ up' = up /\ budget' = [budget EXCEPT !.admin = @ - 1]
          /\ dirty' = TRUE \/ UNCHANGED <<roster, nodes, dirty>>
      BY <1>2 DEF ClearRoster, RegisterSlave, MarkDirty, upVars
    <2>2. budget'.reattach = 0
      BY <2>1, <1>0
    <2> QED BY <2>1, <2>2, <1>0 DEF TInv
  <1>3. CASE (\E act \in BOOLEAN : EnterBegin(act)) \/ EnterGrow \/ EnterCopy \/ EnterEnd \/ WifiLost
    <2>1. budget.reattach > 0 \/ up.op = "enter"
      BY <1>3 DEF EnterBegin, EnterGrow, EnterCopy, EnterEnd, WifiLost
    <2> QED BY <2>1, <1>0
  <1>4. CASE CycleMode
    <2>1. UNCHANGED <<roster, nodes, dirty, up>> /\ budget' = [budget EXCEPT !.modes = @ - 1]
      BY <1>4 DEF CycleMode, tableVars, upVars
    <2>2. budget'.reattach = budget.reattach
      BY <2>1, <1>0
    <2> QED BY <2>1, <2>2, TFrame
  <1> QED BY <1>1, <1>2, <1>3, <1>4 DEF UplinkStep

LEMMA TInvNext == ASSUME IInv, TInv, IInv', [Next]_vars PROVE TInv'
  <1>0. PoolType /\ TableType /\ CycType /\ UpType /\ JobsMatch
        /\ budget \in [msgs : Nat, admin : Nat, reattach : Nat, modes : Nat, flaps : Nat]
    BY DEF IInv, BusTypes, ControlInv, EnvType
  <1>1. CASE UNCHANGED vars
    <2>1. UNCHANGED <<up, budget, dirty, nodes, roster>>
      BY <1>1 DEF vars, tableVars, upVars, envVars
    <2> QED BY <2>1, TFrame
  <1>2. ASSUME NEW p \in Producers, ProducerStep(p) PROVE TInv'
    <2>1. UNCHANGED <<roster, nodes, dirty, budget>>
      BY <1>2 DEF ProducerStep, PoolGrab, PoolExhausted, CountExhausted, Attach, AttachUnknown,
           SendRecover, tableVars, upVars, envVars
    <2>2. up'.op = "enter" => up.op = "enter"
      <3>1. CASE PoolGrab(p) \/ PoolExhausted(p) \/ AttachUnknown(p)
        BY <3>1 DEF PoolGrab, PoolExhausted, AttachUnknown, upVars
      <3>2. CASE CountExhausted(p) \/ Attach(p) \/ SendRecover(p)
        <4>1. job[p].st # "none" /\ \E ok \in BOOLEAN : Return(p, ok)
          BY <3>2 DEF CountExhausted, Attach, SendRecover
        <4> QED BY <4>1, <1>0, ReturnProps
      <3> QED BY <1>2, <3>1, <3>2 DEF ProducerStep
    <2> QED BY <2>1, <2>2, TFrame
  <1>3. CASE \/ \E a \in Addrs : EngineSend(a)
             \/ \E a \in Addrs, u \in BOOLEAN, s \in Summaries : SlaveChange(a, [up |-> u, sum |-> s])
    <2>1. /\ UNCHANGED <<roster, nodes, dirty, up>>
          /\ \/ budget' = [budget EXCEPT !.msgs = @ - 1]
             \/ budget' = [budget EXCEPT !.flaps = @ - 1]
      BY <1>3 DEF EngineSend, SlaveChange, tableVars, upVars
    <2>2. budget'.reattach = budget.reattach
      BY <2>1, <1>0
    <2> QED BY <2>1, <2>2, TFrame
  <1> QED BY <1>1, <1>2, <1>3, BusTable, UplinkTable DEF Next

(* Within one attachment the table the cycle works from has, whenever no   *)
(* rebuild is outstanding, exactly the addresses and flags of the roster   *)
(* in address order, for every roster and sequence of host commands.       *)
THEOREM TableSafety == OneSession => (Spec => []TableFollowsRoster)
  <1> SUFFICES ASSUME OneSession PROVE Spec => []TableFollowsRoster
    OBVIOUS
  <1>1. Init => TInv
    BY TInvInit
  <1>2. IInv /\ TInv /\ IInv' /\ [Next]_vars => TInv'
    BY TInvNext
  <1>3. TInv => TableFollowsRoster
    BY DEF TInv, Follows, TableFollowsRoster
  <1> QED BY <1>1, <1>2, <1>3, IInvInit, IInvNext, PTL DEF Spec

-----------------------------------------------------------------------------
(* The two counters of the same misses.                                    *)
CInv == CountPart /\ PollPart

LEMMA NodesOnce ==
    ASSUME IInv, TInv, Once, ~dirty
    PROVE  \A i, j \in DOMAIN nodes : nodes[i].addr = nodes[j].addr => i = j
  <1>1. /\ Len(nodes) \in Nat /\ DOMAIN nodes = 1..Len(nodes)
        /\ Len(roster) \in Nat /\ DOMAIN roster = 1..Len(roster)
        /\ \A r \in DOMAIN roster : roster[r] \in RosterType
    BY SeqElt DEF IInv, BusTypes, TableType
  <1>2. PICK p \in SortOrder(roster) : \A i \in DOMAIN roster : nodes[i].addr = roster[p[i]].addr
    BY DEF TInv, Follows
  <1>3. Len(nodes) = Len(roster)
    BY DEF TInv, Follows
  <1>4. p \in [DOMAIN roster -> DOMAIN roster]
    BY DEF SortOrder
  <1>5. \A i, j \in DOMAIN roster : i < j =>
           \/ roster[p[i]].addr < roster[p[j]].addr
           \/ roster[p[i]].addr = roster[p[j]].addr /\ p[i] < p[j]
    BY DEF SortOrder
  <1>6. \A r \in DOMAIN roster : roster[r].addr \in Int
    <2>1. \A r \in DOMAIN roster : roster[r].addr \in Addrs \cup {NoAddr}
      BY <1>1 DEF RosterType
    <2>2. \A a \in Addrs \cup {NoAddr} : a \in Int
      BY BusCycleAssumption DEF NoAddr
    <2> QED BY <2>1, <2>2
  <1>7. ASSUME NEW i \in DOMAIN roster, NEW j \in DOMAIN roster, i < j,
               roster[p[i]].addr = roster[p[j]].addr
        PROVE  FALSE
    <2>1. p[i] \in DOMAIN roster /\ p[j] \in DOMAIN roster
      BY <1>4
    <2>2. p[i] = p[j]
      BY <2>1, <1>7 DEF Once
    <2>3. roster[p[i]].addr \in Int /\ p[i] \in Nat
      BY <2>1, <1>1, <1>6
    <2>4. \/ roster[p[i]].addr < roster[p[j]].addr
          \/ roster[p[i]].addr = roster[p[j]].addr /\ p[i] < p[j]
      BY <1>5, <1>7
    <2> QED BY <2>2, <2>3, <2>4
  <1> SUFFICES ASSUME NEW i \in DOMAIN nodes, NEW j \in DOMAIN nodes, nodes[i].addr = nodes[j].addr
               PROVE  i = j
    OBVIOUS
  <1>8. i \in DOMAIN roster /\ j \in DOMAIN roster /\ i \in Nat /\ j \in Nat
    BY <1>1, <1>3
  <1>9. roster[p[i]].addr = roster[p[j]].addr
    BY <1>2, <1>8
  <1>10. ~(i < j) /\ ~(j < i)
    BY <1>7, <1>8, <1>9
  <1> QED BY <1>8, <1>10

LEMMA RosterIdxOnce ==
    ASSUME IInv, Once, NEW a
    PROVE  RosterIdx(a) = {i \in DOMAIN roster : roster[i].addr = a}
  <1>1. Len(roster) \in Nat /\ DOMAIN roster = 1..Len(roster)
    BY SeqElt DEF IInv, BusTypes, TableType
  <1>2. ASSUME NEW i \in DOMAIN roster, roster[i].addr = a, NEW j \in 1..(i - 1), roster[j].addr = a
        PROVE  FALSE
    <2>1. j \in DOMAIN roster /\ j # i
      BY <1>1
    <2> QED BY <2>1, <1>2 DEF Once
  <1> QED BY <1>2 DEF RosterIdx

LEMMA PollKeeps ==
    ASSUME TableType, NEW a, PollSlot(a)
    PROVE  /\ DOMAIN roster' = DOMAIN roster
           /\ \A i \in DOMAIN roster :
                /\ roster'[i].addr = roster[i].addr
                /\ roster'[i].misses = roster[i].misses /\ roster'[i].state = roster[i].state
  <1>1. \A i \in DOMAIN roster : roster[i] \in RosterType
    BY SeqElt, Zenon DEF TableType
  <1>2. CASE roster' = roster
    BY <1>2
  <1>3. CASE roster' = Recorded(a)
    BY <1>1, <1>3, RosterFields DEF Recorded
  <1> QED BY <1>2, <1>3 DEF PollSlot

LEMMA CountFrame ==
    ASSUME CountPart, UNCHANGED <<dirty, nodes>>, revived \subseteq revived', DOMAIN roster' = DOMAIN roster,
           \A i \in DOMAIN roster :
                /\ roster'[i].addr = roster[i].addr
                /\ roster'[i].misses = roster[i].misses /\ roster'[i].state = roster[i].state
    PROVE  CountPart'
  BY DEF CountPart

(* One more miss on both sides: the node's count never overtakes the       *)
(* roster's, so a node given up is DEAD there too.                         *)
LEMMA BothMiss ==
    ASSUME NEW n \in NodeType, NEW r \in RosterType, n.miss <= r.misses
    PROVE  /\ SweepMiss(n).miss <= Missed(r).misses
           /\ SweepMiss(n).dead => Missed(r).state = "DEAD"
  <1>0. n.miss \in 0..MissTop /\ r.misses \in 0..MissTop /\ MaxMisses \in Nat /\ MissTop \in Nat
    BY BusCycleAssumption DEF NodeType, RosterType
  <1>1. /\ Missed(r).misses = IF r.misses < MissTop THEN r.misses + 1 ELSE r.misses
        /\ Missed(r).state = IF TooMany(Missed(r).misses) THEN "DEAD" ELSE r.state
    BY RosterFields
  <1>2. /\ SweepMiss(n).miss = IF n.miss < MissTop THEN n.miss + 1 ELSE n.miss
        /\ SweepMiss(n).dead => SweepMiss(n).miss >= MaxMisses
    BY DEF SweepMiss, NodeType
  <1>b. PICK x : x = n.miss
    OBVIOUS
  <1>c. PICK y : y = r.misses
    OBVIOUS
  <1>d. x \in 0..MissTop /\ y \in 0..MissTop
    BY <1>0, <1>b, <1>c
  <1>e. x <= y
    BY <1>b, <1>c
  <1>f. PICK z : z = SweepMiss(n).miss
    OBVIOUS
  <1>g. PICK w : w = Missed(r).misses
    OBVIOUS
  <1>h. z = (IF x < MissTop THEN x + 1 ELSE x) /\ w = (IF y < MissTop THEN y + 1 ELSE y)
    BY <1>b, <1>c, <1>f, <1>g, <1>1, <1>2, Zenon
  <1>i. z <= w /\ z \in Nat /\ w \in Nat
    <2>1. z \in Int /\ w \in Int
      BY <1>0, <1>d, <1>h
    <2>2. CASE y < MissTop
      <3>1. x < MissTop
        BY <2>2, <1>0, <1>d, <1>e
      <3>2. z = x + 1 /\ w = y + 1
        BY <3>1, <2>2, <1>h
      <3> QED BY <3>2, <1>d, <1>e
    <2>3. CASE ~(y < MissTop)
      <3>1. w = y /\ y = MissTop
        BY <2>3, <1>0, <1>d, <1>h
      <3> QED BY <3>1, <1>0, <1>d, <1>h
    <2> QED BY <2>2, <2>3
  <1>3. SweepMiss(n).miss <= Missed(r).misses /\ SweepMiss(n).miss \in Nat /\ Missed(r).misses \in Nat
    BY <1>f, <1>g, <1>i, Zenon
  <1>4. SweepMiss(n).dead => TooMany(Missed(r).misses)
    BY <1>0, <1>2, <1>3 DEF TooMany
  <1> QED BY <1>1, <1>3, <1>4

LEMMA SweepMarkCounts ==
    ASSUME IInv, TInv, Once, CInv, SweepMark
    PROVE  CInv'
  <1>0. TableType /\ CountPart /\ PollPart
    BY DEF IInv, BusTypes, CInv
  <1>1. /\ DOMAIN nodes = 1..Len(nodes) /\ nodes \in Seq(NodeType)
        /\ \A i \in DOMAIN nodes : nodes[i] \in NodeType
        /\ \A r \in DOMAIN roster : roster[r] \in RosterType
    BY <1>0, SeqElt DEF TableType
  <1>2. idx \in DOMAIN nodes /\ ~nodes[idx].dead /\ pc' = "sweep" /\ dirty' = dirty
    BY <1>0 DEF PollPart, SweepMark
  <1>3. PollPart'
    BY <1>2 DEF PollPart
  <1>4. CountPart'
    <2> SUFFICES ASSUME ~dirty, NEW i \in DOMAIN nodes', NEW r \in DOMAIN roster',
                        roster'[r].addr = nodes'[i].addr, nodes'[i].addr \notin revived'
                 PROVE  /\ nodes'[i].miss <= roster'[r].misses
                        /\ nodes'[i].dead => roster'[r].state = "DEAD"
      BY <1>2 DEF CountPart
    <2> DEFINE a == nodes[idx].addr
    <2>a. DOMAIN nodes' = DOMAIN nodes /\ nodes'[i].addr = nodes[i].addr
      BY <1>0, MarksKeepAddr
    <2>b. MarkAlive(a) \/ MarkMiss(a)
      BY DEF SweepMark
    <2>c. DOMAIN roster' = DOMAIN roster /\ roster'[r].addr = roster[r].addr
      BY <2>b, <1>0, MarksKeep
    <2>d. roster[r].addr = nodes[i].addr /\ i \in DOMAIN nodes /\ r \in DOMAIN roster
      BY <2>a, <2>c
    <2>e. nodes[i].addr \notin revived => /\ nodes[i].miss <= roster[r].misses
                                          /\ nodes[i].dead => roster[r].state = "DEAD"
      BY <2>d, <1>0 DEF CountPart
    <2>1. CASE i # idx
      <3>1. nodes'[i] = nodes[i]
        BY <2>1, <2>d, <1>1 DEF SweepMark
      <3>2. nodes[i].addr # a
        BY <2>1, <2>d, <1>2, NodesOnce
      <3>3. r \notin RosterIdx(a)
        BY <3>2, <2>d DEF RosterIdx
      <3>4. roster'[r] = roster[r]
        BY <3>3, <2>b, <2>d DEF MarkAlive, MarkMiss
      <3>5. nodes[i].addr \notin revived
        BY <3>2, <2>a DEF SweepMark
      <3> QED BY <3>1, <3>4, <3>5, <2>e
    <2>2. CASE i = idx
      <3>1. r \in RosterIdx(a)
        BY <2>2, <2>d, RosterIdxOnce
      <3>2. CASE sr = "silent"
        <4>1. nodes'[i] = SweepMiss(nodes[i]) /\ roster'[r] = Missed(roster[r])
          BY <3>1, <3>2, <2>2, <2>d, <1>1 DEF SweepMark, MarkMiss
        <4>2. nodes[i].addr \notin revived
          BY <3>2, <2>a DEF SweepMark
        <4> QED BY <4>1, <4>2, <2>d, <2>e, <1>1, BothMiss
      <3>3. CASE sr # "silent"
        <4>1. /\ nodes'[i] = [nodes[i] EXCEPT !.miss = 0]
              /\ roster'[r] = [roster[r] EXCEPT !.misses = 0, !.state = "ALIVE"]
          BY <3>1, <3>3, <2>2, <2>d, <1>1 DEF SweepMark, MarkAlive
        <4>2. nodes[i] \in NodeType /\ roster[r] \in RosterType
          BY <2>d, <1>1
        <4>3. nodes'[i].miss = 0 /\ nodes'[i].dead = nodes[i].dead
          BY <4>1, <4>2 DEF NodeType
        <4>4. roster'[r].misses = 0
          BY <4>1, <4>2, RosterFields
        <4> QED BY <4>3, <4>4, <2>2, <1>2
      <3> QED BY <3>2, <3>3
    <2> QED BY <2>1, <2>2
  <1> QED BY <1>3, <1>4 DEF CInv

LEMMA ProbeMarkCounts ==
    ASSUME IInv, TInv, Once, CInv, ProbeMark
    PROVE  CInv'
  <1>0. TableType /\ CountPart /\ PollPart
    BY DEF IInv, BusTypes, CInv
  <1>1. /\ DOMAIN nodes = 1..Len(nodes) /\ nodes \in Seq(NodeType)
        /\ \A i \in DOMAIN nodes : nodes[i] \in NodeType
        /\ \A r \in DOMAIN roster : roster[r] \in RosterType
    BY <1>0, SeqElt DEF TableType
  <1>2. idx \in DOMAIN nodes /\ pc' = "notify" /\ dirty' = dirty
    BY <1>0 DEF PollPart, ProbeMark
  <1>3. PollPart'
    BY <1>2 DEF PollPart
  <1>4. CASE UNCHANGED <<nodes, roster, revived>>
    <2>1. CountPart'
      BY <1>0, <1>2, <1>4, CountFrame
    <2> QED BY <2>1, <1>3 DEF CInv
  <1>5. CASE /\ nodes' = [nodes EXCEPT ![idx].dead = FALSE, ![idx].miss = 0]
             /\ MarkAlive(nodes[idx].addr)
             /\ revived' = revived \ {nodes[idx].addr}
    <2> SUFFICES ASSUME ~dirty, NEW i \in DOMAIN nodes', NEW r \in DOMAIN roster',
                        roster'[r].addr = nodes'[i].addr, nodes'[i].addr \notin revived'
                 PROVE  /\ nodes'[i].miss <= roster'[r].misses
                        /\ nodes'[i].dead => roster'[r].state = "DEAD"
      BY <1>2, <1>3 DEF CountPart, CInv
    <2> DEFINE a == nodes[idx].addr
    <2>a. DOMAIN nodes' = DOMAIN nodes /\ nodes'[i].addr = nodes[i].addr
      BY <1>0, MarksKeepAddr
    <2>c. DOMAIN roster' = DOMAIN roster /\ roster'[r].addr = roster[r].addr
      BY <1>5, <1>0, MarksKeep
    <2>d. roster[r].addr = nodes[i].addr /\ i \in DOMAIN nodes /\ r \in DOMAIN roster
      BY <2>a, <2>c
    <2>e. nodes[i].addr \notin revived => /\ nodes[i].miss <= roster[r].misses
                                          /\ nodes[i].dead => roster[r].state = "DEAD"
      BY <2>d, <1>0 DEF CountPart
    <2>1. CASE i # idx
      <3>1. nodes'[i] = nodes[i]
        BY <2>1, <2>d, <1>1, <1>5
      <3>2. nodes[i].addr # a
        BY <2>1, <2>d, <1>2, NodesOnce
      <3>3. r \notin RosterIdx(a)
        BY <3>2, <2>d DEF RosterIdx
      <3>4. roster'[r] = roster[r]
        BY <3>3, <1>5, <2>d DEF MarkAlive
      <3>5. nodes[i].addr \notin revived
        BY <3>2, <2>a, <1>5
      <3> QED BY <3>1, <3>4, <3>5, <2>e
    <2>2. CASE i = idx
      <3>1. r \in RosterIdx(a)
        BY <2>2, <2>d, RosterIdxOnce
      <3>2. roster'[r] = [roster[r] EXCEPT !.misses = 0, !.state = "ALIVE"]
        BY <3>1, <1>5, <2>d DEF MarkAlive
      <3>3. nodes'[i].miss = 0 /\ nodes'[i].dead = FALSE
        BY <2>2, <2>d, <1>1, <1>5 DEF NodeType
      <3>4. roster'[r].misses = 0
        BY <3>2, <2>d, <1>1, RosterFields
      <3> QED BY <3>3, <3>4
    <2> QED BY <2>1, <2>2
  <1> QED BY <1>4, <1>5 DEF ProbeMark

(* The rotation only raises an entry's count, or has its address revived.  *)
LEMMA SlotCounts == ASSUME IInv, CInv, SlotStep PROVE CInv'
  <1>0. TableType /\ CountPart
    BY DEF IInv, BusTypes, CInv
  <1>1. UNCHANGED <<dirty, nodes>> /\ PollPart'
    BY SlotStepFacts DEF SlotFrame, PollPart
  <1>2. \A r \in DOMAIN roster : roster[r] \in RosterType
    BY <1>0, SeqElt, Zenon DEF TableType
  <1> DEFINE Kept(r) == /\ roster'[r].addr = roster[r].addr
                        /\ roster[r].addr \notin revived' =>
                              /\ roster[r].misses <= roster'[r].misses
                              /\ roster[r].state = "DEAD" => roster'[r].state = "DEAD"
             Keeps == revived \subseteq revived' /\ DOMAIN roster' = DOMAIN roster /\ \A r \in DOMAIN roster : Kept(r)
  <1>a. \A r \in DOMAIN roster : roster[r].misses \in 0..MissTop /\ roster[r].misses <= roster[r].misses
    BY <1>2, BusCycleAssumption DEF RosterType
  <1>3. ASSUME UNCHANGED <<roster, revived>> PROVE Keeps
    BY <1>3, <1>a
  <1>4. ASSUME NEW a, PollSlot(a), revived' = revived PROVE Keeps
    BY <1>4, <1>0, <1>a, PollKeeps
  <1>5. ASSUME NEW a, MarkMiss(a), revived' = revived PROVE Keeps
    <2>1. DOMAIN roster' = DOMAIN roster
      BY <1>5 DEF MarkMiss
    <2>2. ASSUME NEW r \in DOMAIN roster PROVE Kept(r)
      <3>1. roster'[r] = roster[r] \/ roster'[r] = Missed(roster[r])
        BY <1>5 DEF MarkMiss
      <3>2. CASE roster'[r] = roster[r]
        BY <3>2, <1>a
      <3>3. CASE roster'[r] = Missed(roster[r])
        <4>1. /\ Missed(roster[r]).addr = roster[r].addr
              /\ Missed(roster[r]).misses = IF roster[r].misses < MissTop THEN roster[r].misses + 1 ELSE roster[r].misses
              /\ Missed(roster[r]).state = IF TooMany(Missed(roster[r]).misses) THEN "DEAD" ELSE roster[r].state
          BY <1>2, RosterFields
        <4>2. roster[r].misses <= Missed(roster[r]).misses
          BY <4>1, <1>a
        <4>3. roster[r].state = "DEAD" => Missed(roster[r]).state = "DEAD"
          BY <4>1
        <4> QED BY <4>1, <4>2, <4>3, <3>3
      <3> QED BY <3>1, <3>2, <3>3
    <2> QED BY <2>1, <2>2, <1>5
  <1>6. ASSUME MarkAlive(slot.to) \/ (Answers(slot.to) /\ MarkHeard(slot.to)), revived' = revived \cup {slot.to}
        PROVE  Keeps
    <2>1. DOMAIN roster' = DOMAIN roster /\ \A r \in DOMAIN roster : roster'[r].addr = roster[r].addr
      BY <1>6, <1>0, MarksKeep
    <2>2. ASSUME NEW r \in DOMAIN roster, roster[r].addr \notin revived' PROVE roster'[r] = roster[r]
      <3>1. r \notin RosterIdx(slot.to)
        BY <2>2, <1>6 DEF RosterIdx
      <3> QED BY <3>1, <1>6 DEF MarkAlive, MarkHeard
    <2> QED BY <2>1, <2>2, <1>6, <1>a
  <1>7. Keeps
    <2>1. CASE (\E a \in Addrs : SlotOrig(a)) \/ SlotCmd \/ SlotNext \/ SlotNone
      BY <2>1, <1>3 DEF SlotOrig, SlotCmd, SlotNext, SlotNone, tableVars
    <2>2. CASE SlotPoll
      BY <2>2, <1>4 DEF SlotPoll
    <2>3. CASE SlotMark
      BY <2>3, <1>5, <1>6 DEF SlotMark
    <2>4. CASE SlotInject
      BY <2>4, <1>3, <1>6 DEF SlotInject
    <2>5. CASE SlotCollect
      BY <2>5, <1>3, <1>6 DEF SlotCollect
    <2> QED BY <2>1, <2>2, <2>3, <2>4, <2>5 DEF SlotStep
  <1>8. CountPart'
    <2> SUFFICES ASSUME ~dirty, NEW i \in DOMAIN nodes, NEW r \in DOMAIN roster,
                        roster[r].addr = nodes[i].addr, nodes[i].addr \notin revived'
                 PROVE  /\ nodes[i].miss <= roster'[r].misses
                        /\ nodes[i].dead => roster'[r].state = "DEAD"
      BY <1>1, <1>7 DEF CountPart
    <2>1. /\ nodes[i].miss <= roster[r].misses
          /\ nodes[i].dead => roster[r].state = "DEAD"
      BY <1>0, <1>7 DEF CountPart
    <2>2. roster[r].misses <= roster'[r].misses /\ (roster[r].state = "DEAD" => roster'[r].state = "DEAD")
      BY <1>7
    <2>3. nodes[i].miss \in Int /\ roster[r].misses \in Int /\ roster'[r].misses \in Int
      <3>1. nodes[i] \in NodeType
        BY <1>0, SeqElt DEF TableType
      <3>2. IInv'
        BY SlotPreserves
      <3>3. roster'[r] \in RosterType
        BY <3>2, <1>7, SeqElt DEF IInv, BusTypes, TableType
      <3> QED BY <3>1, <3>3, <1>2 DEF NodeType, RosterType
    <2> QED BY <2>1, <2>2, <2>3
  <1> QED BY <1>1, <1>8 DEF CInv

LEMMA BusCounts == ASSUME IInv, TInv, Once, CInv, BusStep PROVE CInv'
  <1>0. TableType /\ CountPart /\ PollPart
    BY DEF IInv, BusTypes, CInv
  <1>1. CASE Rebuild
    <2>1. PICK p \in SortOrder(roster) : nodes' = TableOf(roster, p)
      BY <1>1 DEF Rebuild
    <2>2. roster' = roster /\ pc' = "orphans"
      BY <1>1 DEF Rebuild
    <2>3. \A i \in DOMAIN nodes' : nodes'[i].miss = 0 /\ nodes'[i].dead = FALSE
      BY <2>1 DEF TableOf, NodeEntry
    <2>4. \A r \in DOMAIN roster : roster[r].misses >= 0
      <3>1. \A r \in DOMAIN roster : roster[r] \in RosterType
        BY <1>0, SeqElt, Zenon DEF TableType
      <3> QED BY <3>1 DEF RosterType
    <2> QED BY <2>2, <2>3, <2>4 DEF CInv, CountPart, PollPart
  <1>2. CASE \/ NoRebuild \/ RecoverOrphan \/ OrphansDone \/ DrainCmd \/ Swap \/ TakeList \/ SkipList
             \/ Transmit \/ SweepSkip \/ ProbeNone \/ Notify
    <2>1. UNCHANGED <<dirty, nodes, roster, revived>> /\ pc' \notin {"swept", "probed"}
      BY <1>2 DEF NoRebuild, RecoverOrphan, OrphansDone, DrainCmd, Swap, TakeList, SkipList,
           Transmit, SweepSkip, ProbeNone, Notify, tableVars, cycVars
    <2>2. CountPart'
      BY <2>1, <1>0, CountFrame
    <2> QED BY <2>1, <2>2 DEF CInv, PollPart
  <1>3. CASE SweepPoll \/ ProbePoll
    <2>1. UNCHANGED <<dirty, nodes, revived>> /\ \E a : PollSlot(a)
      BY <1>3 DEF SweepPoll, ProbePoll
    <2>2. CountPart'
      BY <2>1, <1>0, PollKeeps, CountFrame
    <2>3. PollPart'
      BY <1>3 DEF SweepPoll, ProbePoll, PollPart, NextDead
    <2> QED BY <2>2, <2>3 DEF CInv
  <1>4. ASSUME NEW room \in BOOLEAN, EmitEdges(room) PROVE CInv'
    <2>1. UNCHANGED <<dirty, nodes, revived>> /\ pc' = "top"
      BY <1>4 DEF EmitEdges
    <2>2. CountPart'
      BY <2>1, <1>0, <1>4, EdgesKeep, CountFrame
    <2> QED BY <2>1, <2>2 DEF CInv, PollPart
  <1> QED BY <1>1, <1>2, <1>3, <1>4, SlotCounts, SweepMarkCounts, ProbeMarkCounts DEF BusStep

LEMMA OtherCounts ==
    ASSUME IInv, TInv, CInv,
           \/ UplinkStep
           \/ \E p \in Producers : ProducerStep(p)
           \/ \E a \in Addrs : EngineSend(a)
           \/ \E a \in Addrs, u \in BOOLEAN, s \in Summaries : SlaveChange(a, [up |-> u, sum |-> s])
           \/ UNCHANGED vars
    PROVE  CInv'
  <1>0. PoolType /\ CycType /\ UpType /\ JobsMatch /\ CountPart /\ PollPart
        /\ up.op # "enter" /\ budget.reattach = 0
    BY DEF IInv, BusTypes, ControlInv, CInv, TInv
  <1>1. UNCHANGED <<nodes, idx, revived>>
    <2>1. CASE UplinkStep
      BY <2>1 DEF UplinkStep, StageCmd, Inject, ClearRoster, RegisterSlave, EnterBegin, EnterGrow,
           EnterCopy, EnterEnd, WifiLost, CycleMode, tableVars, cycVars
    <2>2. CASE \E p \in Producers : ProducerStep(p)
      BY <2>2 DEF ProducerStep, PoolGrab, PoolExhausted, CountExhausted, Attach, AttachUnknown,
           SendRecover, tableVars, cycVars
    <2>3. CASE \/ \E a \in Addrs : EngineSend(a)
               \/ \E a \in Addrs, u \in BOOLEAN, s \in Summaries : SlaveChange(a, [up |-> u, sum |-> s])
               \/ UNCHANGED vars
      BY <2>3 DEF EngineSend, SlaveChange, vars, tableVars, cycVars
    <2> QED BY <2>1, <2>2, <2>3
  <1>2. dirty' = TRUE \/ UNCHANGED <<dirty, roster>>
    <2>1. CASE UplinkStep
      <3>1. CASE (\E act \in BOOLEAN : EnterBegin(act)) \/ EnterGrow \/ EnterCopy \/ EnterEnd \/ WifiLost
        <4>1. budget.reattach > 0 \/ up.op = "enter"
          BY <3>1 DEF EnterBegin, EnterGrow, EnterCopy, EnterEnd, WifiLost
        <4> QED BY <4>1, <1>0
      <3>2. CASE ~((\E act \in BOOLEAN : EnterBegin(act)) \/ EnterGrow \/ EnterCopy \/ EnterEnd \/ WifiLost)
        BY <2>1, <3>2 DEF UplinkStep, StageCmd, Inject, ClearRoster, RegisterSlave, CycleMode, MarkDirty, tableVars
      <3> QED BY <3>1, <3>2
    <2>2. CASE \E p \in Producers : ProducerStep(p)
      BY <2>2 DEF ProducerStep, PoolGrab, PoolExhausted, CountExhausted, Attach, AttachUnknown,
           SendRecover, tableVars
    <2>3. CASE \/ \E a \in Addrs : EngineSend(a)
               \/ \E a \in Addrs, u \in BOOLEAN, s \in Summaries : SlaveChange(a, [up |-> u, sum |-> s])
               \/ UNCHANGED vars
      BY <2>3 DEF EngineSend, SlaveChange, vars, tableVars
    <2> QED BY <2>1, <2>2, <2>3
  <1>3. CountPart'
    <2>1. CASE dirty' = TRUE
      BY <2>1 DEF CountPart
    <2>2. CASE UNCHANGED <<dirty, roster>>
      BY <2>2, <1>0, <1>1, CountFrame
    <2> QED BY <2>1, <2>2, <1>2
  <1>4. pc' = pc \/ pc' = "swap"
    <2>1. CASE UplinkStep
      BY <2>1 DEF UplinkStep, StageCmd, Inject, ClearRoster, RegisterSlave, EnterBegin, EnterGrow,
           EnterCopy, EnterEnd, WifiLost, CycleMode, cycVars
    <2>2. ASSUME NEW p \in Producers, ProducerStep(p) PROVE pc' = pc \/ pc' = "swap"
      BY <2>2 DEF ProducerStep, PoolGrab, PoolExhausted, CountExhausted, Attach, AttachUnknown,
           SendRecover, Return, cycVars
    <2>3. CASE \/ \E a \in Addrs : EngineSend(a)
               \/ \E a \in Addrs, u \in BOOLEAN, s \in Summaries : SlaveChange(a, [up |-> u, sum |-> s])
               \/ UNCHANGED vars
      BY <2>3 DEF EngineSend, SlaveChange, vars, cycVars
    <2> QED BY <2>1, <2>2, <2>3
  <1>5. PollPart'
    BY <1>0, <1>1, <1>4 DEF PollPart
  <1> QED BY <1>3, <1>5 DEF CInv

LEMMA CInvInit == ASSUME Init PROVE CInv
  <1>1. PICK p \in SortOrder(Commissioned) : nodes = TableOf(Commissioned, p)
    BY DEF Init
  <1>2. pc = "top" /\ roster = Commissioned
    BY DEF Init
  <1>3. \A i \in DOMAIN nodes : nodes[i].miss = 0 /\ nodes[i].dead = FALSE
    BY <1>1 DEF TableOf, NodeEntry
  <1>4. \A r \in DOMAIN roster : roster[r].misses >= 0
    <2>1. \A r \in DOMAIN roster : roster[r] \in RosterType
      BY <1>2, CommissionedType, SeqElt
    <2> QED BY <2>1 DEF RosterType
  <1> QED BY <1>2, <1>3, <1>4 DEF CInv, CountPart, PollPart

LEMMA CInvNext == ASSUME IInv, TInv, SInv, CInv, [Next]_vars PROVE CInv'
  <1>1. Once
    BY DEF SInv
  <1> QED BY <1>1, BusCounts, OtherCounts DEF Next

(* mark_miss and the cycle's own counter are reset and saturated apart,    *)
(* and the poll and the marking are separate critical sections, yet a node *)
(* the cycle has given up on is DEAD in the roster, so that its edge will  *)
(* be announced: within one attachment, with no address registered twice,  *)
(* however often the host changes between the cycle and the rotation,      *)
(* unless the rotation heard it since the table was built or the cycle     *)
(* last heard it; there the two counters really part.                      *)
THEOREM DeadSafety == OneSession /\ DistinctAddrs => (Spec => []DeadInBoth)
  <1> SUFFICES ASSUME OneSession, DistinctAddrs PROVE Spec => []DeadInBoth
    OBVIOUS
  <1>1. Init => TInv /\ SInv /\ CInv
    BY TInvInit, SInvInit, CInvInit
  <1>2. IInv /\ TInv /\ SInv /\ CInv /\ IInv' /\ [Next]_vars => TInv' /\ SInv' /\ CInv'
    BY TInvNext, SInvNext, CInvNext
  <1>3. CInv => DeadInBoth
    BY DEF CInv, CountPart, DeadInBoth, RosterIdx
  <1> QED BY <1>1, <1>2, <1>3, IInvInit, IInvNext, PTL DEF Spec
=============================================================================
