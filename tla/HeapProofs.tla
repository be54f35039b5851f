----------------------------- MODULE HeapProofs -----------------------------
(***************************************************************************)
(* The safety of the engine's memory (CflMemory), for any KBs, nodes and   *)
(* local arenas nested to any depth, any boot sizes and any heap.          *)
(*                                                                         *)
(* The heap is what it has handed out: the Spans of its allocated blocks.  *)
(* An allocation adds one span, aligned and with room for what was asked   *)
(* (MallocGrants), a free takes one away (FreeFrees), and both keep the    *)
(* blocks tiling the heap with no two free neighbours (PoolOK); what       *)
(* coalesce_free_blocks computes is found by induction over the blocks.    *)
(*                                                                         *)
(* The invariant (MemInv) pairs the spans with what the engine holds       *)
(* (HoldInv), ties each arena to its owner and each record to the arena of *)
(* the nearest open local arena above its node or of its KB (PlaceInv),    *)
(* and counts: an arena with c records has used at most c units of 4 * g   *)
(* bytes (RoomInv), so a node that is to start always finds room.          *)
(***************************************************************************)
EXTENDS CflMemory, FiniteSetTheorems, SequenceTheorems, Induction, TLAPS

-----------------------------------------------------------------------------
(* Running totals.                                                         *)

LEMMA RunningIs ==
  ASSUME NEW xs \in Seq(Int)
  PROVE  /\ Running(xs) \in [0..Len(xs) -> Int] /\ Running(xs)[0] = 0
         /\ \A k \in 1..Len(xs) : Running(xs)[k] = Running(xs)[k - 1] + xs[k]
  <1> DEFINE m == Len(xs)
             G == [a \in Int \X (1..m) |-> a[1] + xs[a[2]]]
             F(t) == t = [k \in 0..Len(xs) |-> IF k = 0 THEN 0 ELSE t[k - 1] + xs[k]]
  <1>1. m \in Nat /\ \A i \in 1..m : xs[i] \in Int
    OBVIOUS
  <1>2. \A x \in Int, i \in 1..m : <<x, i>> \in Int \X (1..m) /\ G[<<x, i>>] = x + xs[i]
    OBVIOUS
  <1> HIDE DEF G
  <1>3. ASSUME NEW x \in Int, NEW i \in 1..m PROVE G[<<x, i>>] \in Int
    <2>1. xs[i] \in Int /\ G[<<x, i>>] = x + xs[i]
      BY <1>1, <1>2
    <2> QED BY <2>1
  <1>4. PICK f \in [0..m -> Int] : f[0] = 0 /\ \A i \in 1..m : f[i] = G[<<f[i - 1], i>>]
    <2>1. StaysIn(Int, m, G)
      BY <1>3 DEF StaysIn
    <2>2. Solvable(Int, m, 0, G)
      <3> HIDE DEF m
      <3> QED BY <1>1, <2>1, Recursion
    <2> QED BY <2>2 DEF Solvable
  <1>5. \A i \in 1..m : f[i] = f[i - 1] + xs[i]
    <2> SUFFICES ASSUME NEW i \in 1..m PROVE f[i] = f[i - 1] + xs[i]
      OBVIOUS
    <2>1. i - 1 \in 0..m
      BY <1>1
    <2> QED BY <1>2, <1>4, <2>1
  <1>6. F(f)
    <2> DEFINE h == [k \in 0..m |-> IF k = 0 THEN 0 ELSE f[k - 1] + xs[k]]
    <2>1. \A k \in 0..m : k # 0 => k \in 1..m
      BY <1>1
    <2>2. \A k \in 0..m : f[k] = h[k]
      BY <1>4, <1>5, <2>1
    <2>3. DOMAIN f = 0..m /\ DOMAIN h = 0..m
      OBVIOUS
    <2> QED BY <1>4, <2>2, <2>3
  <1>7. Running(xs) = CHOOSE t : F(t)
    BY DEF Running
  <1>8. F(Running(xs))
    BY <1>6, <1>7
  <1> DEFINE r == Running(xs)
  <1>9. r = [k \in 0..m |-> IF k = 0 THEN 0 ELSE r[k - 1] + xs[k]]
    BY <1>8
  <1> HIDE DEF r
  <1>10. r[0] = 0 /\ \A k \in 1..m : r[k] = r[k - 1] + xs[k]
    <2>1. 0 \in 0..m /\ \A k \in 1..m : k \in 0..m /\ k # 0
      BY <1>1
    <2> QED BY <1>9, <2>1
  <1> DEFINE S == {k \in Nat : k <= m => r[k] \in Int}
  <1>11. 0 \in S
    BY <1>10
  <1>12. ASSUME NEW k \in Nat, k \in S PROVE k + 1 \in S
    <2>1. SUFFICES ASSUME k + 1 <= m PROVE r[k + 1] \in Int
      OBVIOUS
    <2>2. k + 1 \in 1..m /\ (k + 1) - 1 = k /\ r[k] \in Int
      BY <1>1, <1>12, <2>1
    <2>3. r[k + 1] = r[k] + xs[k + 1] /\ xs[k + 1] \in Int
      BY <1>1, <1>10, <2>2
    <2> QED BY <2>2, <2>3
  <1>13. Nat \subseteq S
    <2> HIDE DEF S
    <2> QED BY <1>11, <1>12, Ind
  <1>14. \A k \in 0..m : r[k] \in Int
    <2>1. \A k \in 0..m : k \in Nat /\ k <= m
      BY <1>1
    <2> QED BY <1>13, <2>1
  <1>15. r \in [0..m -> Int]
    BY <1>9, <1>14
  <1> QED BY <1>10, <1>15 DEF r

(* They are the only ones.                                                 *)
LEMMA RunningOnly ==
  ASSUME NEW xs \in Seq(Int), NEW f, f[0] = 0, \A k \in 1..Len(xs) : f[k] = f[k - 1] + xs[k]
  PROVE  \A k \in 0..Len(xs) : f[k] = Running(xs)[k]
  <1> DEFINE m == Len(xs)
             r == Running(xs)
             S == {k \in Nat : k <= m => f[k] = r[k]}
  <1>1. r[0] = 0 /\ \A k \in 1..m : r[k] = r[k - 1] + xs[k]
    BY RunningIs
  <1>2. m \in Nat
    OBVIOUS
  <1> HIDE DEF r, m
  <1>3. 0 \in S
    BY <1>1
  <1>4. ASSUME NEW k \in Nat, k \in S PROVE k + 1 \in S
    <2>1. SUFFICES ASSUME k + 1 <= m PROVE f[k + 1] = r[k + 1]
      OBVIOUS
    <2>2. k + 1 \in 1..m /\ (k + 1) - 1 = k /\ f[k] = r[k]
      BY <1>2, <1>4, <2>1
    <2>3. f[k + 1] = f[k] + xs[k + 1]
      BY <2>2 DEF m
    <2> QED BY <1>1, <2>2, <2>3
  <1>5. Nat \subseteq S
    <2> HIDE DEF S
    <2> QED BY <1>3, <1>4, Ind
  <1>6. \A k \in 0..m : k \in Nat /\ k <= m
    BY <1>2
  <1> QED BY <1>5, <1>6 DEF r, m

-----------------------------------------------------------------------------
(* Blocks, and where they lie.                                             *)

BlockT == {b \in [size : Nat, free : BOOLEAN, pad : Nat] :
             b.size >= MIN_BLOCK_SIZE /\ (~b.free => b.pad + MIN_BLOCK_SIZE <= b.size)}

(* What an allocated block gives out: from its data to its end.            *)
SpanOf(p, i) == <<DataAt(p, i), DataEnd(p, i)>>
Taken(p, k) == {j \in 1..k : ~p[j].free}
SpansTo(p, k) == {SpanOf(p, i) : i \in Taken(p, k)}
Spans(p) == SpansTo(p, Len(p))

LEMMA BlockWhole == \A b \in BlockT : Whole(b) = b.size + 12 /\ Whole(b) \in Nat /\ Whole(b) >= 20 /\ b.size \in Nat /\ b.pad \in Nat
  BY DEF BlockT, Whole, HEADER, FOOTER, MIN_BLOCK_SIZE

LEMMA FreeIsBlock ==
  ASSUME NEW x \in Nat, x >= 8
  PROVE  FreeBlock(x) \in BlockT /\ FreeBlock(x).free /\ FreeBlock(x).size = x
  BY DEF FreeBlock, BlockT, MIN_BLOCK_SIZE

LEMMA WholesType ==
  ASSUME NEW p \in Seq(BlockT)
  PROVE  LET xs == [j \in 1..Len(p) |-> Whole(p[j])]
         IN  xs \in Seq(Int) /\ Len(xs) = Len(p) /\ \A k \in 1..Len(p) : xs[k] = p[k].size + 12
  <1>1. \A j \in 1..Len(p) : p[j] \in BlockT
    OBVIOUS
  <1>2. \A j \in 1..Len(p) : Whole(p[j]) \in Int /\ Whole(p[j]) = p[j].size + 12
    BY <1>1, BlockWhole
  <1> QED BY <1>2

LEMMA EndIs ==
  ASSUME base \in Int, NEW p \in Seq(BlockT)
  PROVE  /\ EndOf(p, 0) = base
         /\ \A i \in 1..Len(p) : EndOf(p, i) = EndOf(p, i - 1) + p[i].size + 12
         /\ \A i \in 0..Len(p) : EndOf(p, i) \in Int
  <1> DEFINE xs == [j \in 1..Len(p) |-> Whole(p[j])]
             r == Running(xs)
  <1>1. xs \in Seq(Int) /\ Len(xs) = Len(p) /\ \A k \in 1..Len(p) : xs[k] = p[k].size + 12
    BY WholesType
  <1>2. r \in [0..Len(p) -> Int] /\ r[0] = 0 /\ \A k \in 1..Len(p) : r[k] = r[k - 1] + xs[k]
    <2> HIDE DEF xs
    <2> QED BY <1>1, RunningIs
  <1>3. \A i : EndOf(p, i) = base + r[i]
    BY DEF EndOf
  <1> HIDE DEF r, xs
  <1>4. Len(p) \in Nat /\ \A i \in 1..Len(p) : i \in 0..Len(p) /\ i - 1 \in 0..Len(p) /\ p[i].size \in Int
    BY BlockWhole
  <1>5. EndOf(p, 0) = base
    BY <1>2, <1>3
  <1>6. \A i \in 0..Len(p) : EndOf(p, i) \in Int
    BY <1>2, <1>3
  <1>7. ASSUME NEW i \in 1..Len(p) PROVE EndOf(p, i) = EndOf(p, i - 1) + p[i].size + 12
    <2>1. r[i] = r[i - 1] + (p[i].size + 12) /\ r[i] \in Int /\ r[i - 1] \in Int /\ p[i].size \in Int
      BY <1>1, <1>2, <1>4
    <2>2. EndOf(p, i) = base + r[i] /\ EndOf(p, i - 1) = base + r[i - 1]
      BY <1>3
    <2> QED BY <2>1, <2>2
  <1> QED BY <1>5, <1>6, <1>7

LEMMA EndOnly ==
  ASSUME base \in Int, NEW p \in Seq(BlockT), NEW f \in [0..Len(p) -> Int], f[0] = base,
         \A k \in 1..Len(p) : f[k] = f[k - 1] + p[k].size + 12
  PROVE  \A k \in 0..Len(p) : EndOf(p, k) = f[k]
  <1> DEFINE xs == [j \in 1..Len(p) |-> Whole(p[j])]
             r == Running(xs)
             g == [k \in 0..Len(p) |-> f[k] - base]
  <1>1. xs \in Seq(Int) /\ Len(xs) = Len(p) /\ \A k \in 1..Len(p) : xs[k] = p[k].size + 12
    BY WholesType
  <1>2. Len(p) \in Nat /\ \A i \in 1..Len(p) : i \in 0..Len(p) /\ i - 1 \in 0..Len(p) /\ p[i].size \in Int
    BY BlockWhole
  <1>3. g[0] = 0 /\ \A k \in 0..Len(p) : g[k] = f[k] - base
    BY <1>2
  <1>4. ASSUME NEW k \in 1..Len(p) PROVE g[k] = g[k - 1] + xs[k]
    <2>1. f[k] = f[k - 1] + p[k].size + 12 /\ f[k] \in Int /\ f[k - 1] \in Int /\ p[k].size \in Int
      BY <1>2
    <2>2. g[k] = f[k] - base /\ g[k - 1] = f[k - 1] - base
      BY <1>2, <1>3
    <2>3. xs[k] = p[k].size + 12
      BY <1>1
    <2> HIDE DEF g, xs
    <2> QED BY <2>1, <2>2, <2>3, SMTT(30)
  <1> HIDE DEF g
  <1>5. \A k \in 0..Len(p) : g[k] = r[k]
    <2> HIDE DEF xs
    <2>1. \A k \in 0..Len(xs) : g[k] = Running(xs)[k]
      BY <1>1, <1>3, <1>4, RunningOnly, SMTT(30)
    <2> QED BY <1>1, <2>1
  <1>6. \A k : EndOf(p, k) = base + r[k]
    BY DEF EndOf
  <1> HIDE DEF r
  <1> QED BY <1>3, <1>5, <1>6

LEMMA EndMono ==
  ASSUME base \in Int, NEW p \in Seq(BlockT), NEW i \in 0..Len(p), NEW j \in 0..Len(p), i <= j
  PROVE  EndOf(p, i) <= EndOf(p, j)
  <1> DEFINE S == {k \in Nat : k \in i..Len(p) => EndOf(p, i) <= EndOf(p, k)}
  <1>1. Len(p) \in Nat /\ i \in Nat /\ j \in Nat /\ j <= Len(p) /\ i <= Len(p)
    OBVIOUS
  <1>2. /\ \A k \in 1..Len(p) : EndOf(p, k) = EndOf(p, k - 1) + p[k].size + 12
        /\ \A k \in 0..Len(p) : EndOf(p, k) \in Int
    BY EndIs
  <1>3. \A k \in 1..Len(p) : p[k].size \in Nat
    BY BlockWhole
  <1>4. 0 \in S
    <2>1. 0 \in i..Len(p) => i = 0
      BY <1>1
    <2> QED BY <1>1, <1>2, <2>1
  <1>5. ASSUME NEW k \in Nat, k \in S PROVE k + 1 \in S
    <2>1. SUFFICES ASSUME k + 1 \in i..Len(p) PROVE EndOf(p, i) <= EndOf(p, k + 1)
      OBVIOUS
    <2>2. k + 1 \in 1..Len(p) /\ (k + 1) - 1 = k /\ k \in 0..Len(p) /\ k + 1 \in 0..Len(p)
      BY <1>1, <2>1
    <2>3. EndOf(p, k + 1) = EndOf(p, k) + p[k + 1].size + 12 /\ p[k + 1].size \in Nat
          /\ EndOf(p, k) \in Int /\ EndOf(p, i) \in Int
      BY <1>2, <1>3, <2>2
    <2>4. CASE k + 1 = i
      BY <2>3, <2>4, <1>2
    <2>5. CASE k + 1 # i
      <3>1. k \in i..Len(p)
        BY <1>1, <2>1, <2>5
      <3>2. EndOf(p, i) <= EndOf(p, k)
        BY <1>5, <3>1
      <3> QED BY <2>3, <3>2
    <2> QED BY <2>4, <2>5
  <1>6. Nat \subseteq S
    <2> HIDE DEF S
    <2> QED BY <1>4, <1>5, Ind
  <1>7. j \in i..Len(p)
    BY <1>1
  <1> QED BY <1>1, <1>6, <1>7

(* The span of a block lies within it.                                     *)
LEMMA SpanIn ==
  ASSUME base \in Int, NEW p \in Seq(BlockT), NEW i \in 1..Len(p)
  PROVE  /\ DataAt(p, i) = EndOf(p, i - 1) + 10 + p[i].pad /\ DataAt(p, i) \in Int
         /\ DataEnd(p, i) = EndOf(p, i - 1) + 10 + p[i].size /\ DataEnd(p, i) \in Int
         /\ DataEnd(p, i) = EndOf(p, i) - 2
         /\ ~p[i].free => DataAt(p, i) + 8 <= DataEnd(p, i)
         /\ EndOf(p, i - 1) + 10 <= DataAt(p, i)
  <1>1. p[i] \in BlockT /\ p[i].size \in Nat /\ p[i].pad \in Nat
    BY BlockWhole
  <1>2. ~p[i].free => p[i].pad + 8 <= p[i].size
    BY <1>1 DEF BlockT, MIN_BLOCK_SIZE
  <1>3. i - 1 \in 0..Len(p) /\ EndOf(p, i) = EndOf(p, i - 1) + p[i].size + 12 /\ EndOf(p, i - 1) \in Int
    BY EndIs
  <1>4. DataAt(p, i) = EndOf(p, i - 1) + 10 + p[i].pad /\ DataEnd(p, i) = EndOf(p, i - 1) + 10 + p[i].size
    BY DEF DataAt, DataEnd, BlockAt, HEADER
  <1>5. DataAt(p, i) \in Int /\ DataEnd(p, i) \in Int /\ DataEnd(p, i) = EndOf(p, i) - 2
    <2> DEFINE e == EndOf(p, i - 1)
               z == p[i].size
    <2>1. e \in Int /\ z \in Nat /\ EndOf(p, i) = e + z + 12 /\ DataEnd(p, i) = e + 10 + z
      BY <1>1, <1>3, <1>4
    <2> HIDE DEF e, z
    <2>2. DataEnd(p, i) \in Int /\ DataEnd(p, i) = EndOf(p, i) - 2
      BY <2>1
    <2>3. DataAt(p, i) \in Int
      BY <1>1, <1>3, <1>4
    <2> QED BY <2>2, <2>3
  <1>6. EndOf(p, i - 1) + 10 <= DataAt(p, i)
    BY <1>1, <1>3, <1>4
  <1>7. ASSUME ~p[i].free PROVE DataAt(p, i) + 8 <= DataEnd(p, i)
    BY <1>1, <1>2, <1>3, <1>4, <1>7, SMTT(30)
  <1> QED BY <1>4, <1>5, <1>6, <1>7

(* Spans of two blocks do not touch.                                       *)
LEMMA SpansOrder ==
  ASSUME base \in Int, NEW p \in Seq(BlockT), NEW i \in 1..Len(p), NEW j \in 1..Len(p), i < j
  PROVE  DataEnd(p, i) + 12 <= DataAt(p, j)
  <1>1. i \in 0..Len(p) /\ j - 1 \in 0..Len(p) /\ i <= j - 1 /\ i - 1 \in 0..Len(p)
    OBVIOUS
  <1>2. EndOf(p, i) <= EndOf(p, j - 1) /\ EndOf(p, i) \in Int /\ EndOf(p, j - 1) \in Int
    BY <1>1, EndMono, EndIs
  <1>3. DataEnd(p, i) = EndOf(p, i) - 2 /\ EndOf(p, j - 1) + 10 <= DataAt(p, j) /\ DataAt(p, j) \in Int
    BY SpanIn
  <1> QED BY <1>2, <1>3

-----------------------------------------------------------------------------
(* Taking a block.                                                         *)

NoFrag(p) == \A i \in 1..(Len(p) - 1) : ~(p[i].free /\ p[i + 1].free)
PoolOK(p) == p \in Seq(BlockT) /\ EndOf(p, Len(p)) = base + HeapSize /\ NoFrag(p)

(* The heap q is p with the free block i taken from d to e.                *)
TookIn(p, q, i, d, n) ==
  /\ PoolOK(q) /\ i \in 1..Len(q) /\ ~q[i].free
  /\ DataAt(q, i) = d /\ d + n <= DataEnd(q, i)
  /\ Spans(q) = Spans(p) \cup {SpanOf(q, i)}
  /\ \A s \in Spans(p) : \E j \in Taken(q, Len(q)) : j # i /\ s = SpanOf(q, j)

LEMMA SameSpan ==
  ASSUME base \in Int, NEW p \in Seq(BlockT), NEW q \in Seq(BlockT), NEW i \in 1..Len(p), NEW j \in 1..Len(q),
         p[i].pad = q[j].pad, p[i].size = q[j].size, EndOf(p, i - 1) = EndOf(q, j - 1)
  PROVE  SpanOf(p, i) = SpanOf(q, j)
  <1>1. DataAt(p, i) = DataAt(q, j) /\ DataEnd(p, i) = DataEnd(q, j)
    BY SpanIn
  <1> QED BY <1>1 DEF SpanOf

LEMMA TakeWhole ==
  ASSUME base \in Int, NEW p, PoolOK(p), NEW n \in Nat, n >= 8, NEW pad \in Nat, NEW i \in 1..Len(p),
         p[i].free, p[i].size >= pad + n
  PROVE  TookIn(p, [p EXCEPT ![i] = UsedBlock(p[i].size, pad)], i, EndOf(p, i - 1) + 10 + pad, n)
  <1> DEFINE b == UsedBlock(p[i].size, pad)
             q == [p EXCEPT ![i] = b]
             f == [k \in 0..Len(p) |-> EndOf(p, k)]
  <1>1. p \in Seq(BlockT) /\ EndOf(p, Len(p)) = base + HeapSize /\ NoFrag(p)
    BY DEF PoolOK
  <1>2. p[i] \in BlockT
    BY <1>1
  <1>3. b = [size |-> p[i].size, free |-> FALSE, pad |-> pad]
    BY DEF UsedBlock
  <1>4. b \in BlockT /\ b.size = p[i].size /\ ~b.free /\ b.pad = pad
    <2>1. p[i].size \in Nat /\ p[i].size >= 8
      BY <1>2 DEF BlockT, MIN_BLOCK_SIZE
    <2>2. pad + 8 <= p[i].size
      BY <2>1
    <2> QED BY <1>3, <2>1, <2>2 DEF BlockT, MIN_BLOCK_SIZE
  <1> HIDE DEF b
  <1>5. q \in Seq(BlockT) /\ Len(q) = Len(p) /\ q[i] = b /\ \A k \in 1..Len(p) : k # i => q[k] = p[k]
    BY <1>1, <1>4
  <1> HIDE DEF q
  <1>6. \A k \in 1..Len(p) : q[k].size = p[k].size
    BY <1>4, <1>5
  <1>7. \A k \in 0..Len(p) : EndOf(q, k) = EndOf(p, k)
    <2>1. f[0] = base /\ f \in [0..Len(q) -> Int] /\ \A k \in 1..Len(q) : f[k] = f[k - 1] + q[k].size + 12
      BY <1>1, <1>5, <1>6, EndIs, SMTT(30)
    <2> HIDE DEF f
    <2>2. \A k \in 0..Len(q) : EndOf(q, k) = f[k]
      BY <1>5, <2>1, EndOnly
    <2> QED BY <1>5, <2>2 DEF f
  <1>8. PoolOK(q)
    <2>1. NoFrag(q)
      <3> SUFFICES ASSUME NEW k \in 1..(Len(q) - 1), q[k].free, q[k + 1].free PROVE FALSE
        BY DEF NoFrag
      <3>1. k # i /\ k + 1 # i /\ k \in 1..Len(p) /\ k + 1 \in 1..Len(p) /\ k \in 1..(Len(p) - 1)
        BY <1>1, <1>4, <1>5
      <3> QED BY <1>1, <1>5, <3>1 DEF NoFrag
    <2>2. Len(q) \in 0..Len(p)
      BY <1>1, <1>5
    <2> QED BY <1>1, <1>5, <1>7, <2>1, <2>2 DEF PoolOK
  <1>9. \A j \in 1..Len(p) : j # i => SpanOf(q, j) = SpanOf(p, j)
    <2> SUFFICES ASSUME NEW j \in 1..Len(p), j # i PROVE SpanOf(q, j) = SpanOf(p, j)
      OBVIOUS
    <2>1. j \in 1..Len(q) /\ q[j] = p[j] /\ EndOf(p, j - 1) = EndOf(q, j - 1)
      <3>1. j - 1 \in 0..Len(p)
        BY <1>1
      <3> QED BY <1>5, <1>7, <3>1
    <2> QED BY <1>1, <1>5, <2>1, SameSpan
  <1>10. Taken(q, Len(q)) = Taken(p, Len(p)) \cup {i} /\ i \notin Taken(p, Len(p))
    BY <1>1, <1>4, <1>5 DEF Taken
  <1>11. Spans(q) = Spans(p) \cup {SpanOf(q, i)}
    <2>1. \A j \in Taken(p, Len(p)) : j \in 1..Len(p) /\ j # i
      BY <1>10 DEF Taken
    <2>2. \A j \in Taken(p, Len(p)) : SpanOf(q, j) = SpanOf(p, j)
      BY <1>9, <2>1
    <2> QED BY <1>10, <2>2 DEF Spans, SpansTo
  <1>12. \A s \in Spans(p) : \E j \in Taken(q, Len(q)) : j # i /\ s = SpanOf(q, j)
    <2> SUFFICES ASSUME NEW s \in Spans(p) PROVE \E j \in Taken(q, Len(q)) : j # i /\ s = SpanOf(q, j)
      OBVIOUS
    <2>1. PICK j \in Taken(p, Len(p)) : s = SpanOf(p, j)
      BY DEF Spans, SpansTo
    <2>2. j \in 1..Len(p) /\ j # i /\ j \in Taken(q, Len(q))
      BY <1>10, <2>1 DEF Taken
    <2> QED BY <1>9, <2>1, <2>2
  <1>13. i \in 1..Len(q) /\ DataAt(q, i) = EndOf(p, i - 1) + 10 + pad /\ DataAt(q, i) + n <= DataEnd(q, i)
    <2>1. i \in 1..Len(q) /\ i - 1 \in 0..Len(p) /\ EndOf(q, i - 1) = EndOf(p, i - 1) /\ EndOf(p, i - 1) \in Int
      BY <1>1, <1>5, <1>7, EndIs
    <2>2. DataAt(q, i) = EndOf(q, i - 1) + 10 + pad /\ DataEnd(q, i) = EndOf(q, i - 1) + 10 + p[i].size
      BY <1>4, <1>5, <2>1, SpanIn
    <2>3. p[i].size \in Nat
      BY <1>2, BlockWhole
    <2> QED BY <2>1, <2>2, <2>3, SMTT(30)
  <1> QED BY <1>4, <1>5, <1>8, <1>11, <1>12, <1>13 DEF TookIn, q, b

(* A sequence with element i replaced by two.                              *)
Split(p, i, b, c) == SubSeq(p, 1, i - 1) \o <<b, c>> \o SubSeq(p, i + 1, Len(p))
Replaced(p, i, b, c, q) ==
  /\ q \in Seq(BlockT) /\ Len(q) = Len(p) + 1 /\ q[i] = b /\ q[i + 1] = c
  /\ \A k \in 1..(i - 1) : q[k] = p[k]
  /\ \A k \in (i + 1)..Len(p) : q[k + 1] = p[k]
LEMMA TwoForOne ==
  ASSUME NEW p \in Seq(BlockT), NEW b \in BlockT, NEW c \in BlockT, NEW i \in 1..Len(p)
  PROVE  Replaced(p, i, b, c, Split(p, i, b, c))
  <1> DEFINE x == SubSeq(p, 1, i - 1)
             y == SubSeq(p, i + 1, Len(p))
             w == x \o <<b, c>>
             q == Split(p, i, b, c)
             L == Len(p)
  <1>1. L \in Nat /\ i \in Nat /\ i - 1 \in Nat /\ i <= L
    OBVIOUS
  <1>2. x \in Seq(BlockT) /\ Len(x) = i - 1 /\ \A k \in 1..(i - 1) : x[k] = p[k]
    OBVIOUS
  <1>3. y \in Seq(BlockT) /\ Len(y) = L - i /\ \A k \in 1..(L - i) : y[k] = p[i + k]
    OBVIOUS
  <1> HIDE DEF x, y
  <1>4. <<b, c>> \in Seq(BlockT) /\ Len(<<b, c>>) = 2 /\ <<b, c>>[1] = b /\ <<b, c>>[2] = c
    OBVIOUS
  <1>5. /\ w \in Seq(BlockT) /\ Len(w) = i + 1
        /\ \A k \in 1..(i + 1) : w[k] = IF k <= i - 1 THEN x[k] ELSE <<b, c>>[k - (i - 1)]
    <2>1. /\ w \in Seq(BlockT) /\ Len(w) = Len(x) + Len(<<b, c>>)
          /\ \A k \in 1..(Len(x) + Len(<<b, c>>)) : w[k] = IF k <= Len(x) THEN x[k] ELSE <<b, c>>[k - Len(x)]
      BY <1>2, <1>4, ConcatProperties
    <2>2. Len(x) + Len(<<b, c>>) = i + 1
      BY <1>1, <1>2, <1>4
    <2> QED BY <1>2, <2>1, <2>2
  <1>6. w[i] = b /\ w[i + 1] = c /\ \A k \in 1..(i - 1) : w[k] = p[k]
    <2>1. i \in 1..(i + 1) /\ i + 1 \in 1..(i + 1) /\ i - (i - 1) = 1 /\ (i + 1) - (i - 1) = 2
      BY <1>1
    <2>2. \A k \in 1..(i - 1) : k \in 1..(i + 1) /\ k <= i - 1
      BY <1>1
    <2>3. ~(i <= i - 1) /\ ~(i + 1 <= i - 1)
      BY <1>1
    <2>4. w[i] = <<b, c>>[1] /\ w[i + 1] = <<b, c>>[2]
      BY <1>5, <2>1, <2>3
    <2> HIDE DEF w
    <2> QED BY <1>2, <1>4, <1>5, <2>2, <2>4
  <1> HIDE DEF w
  <1>7. q = w \o y
    BY DEF w, x, y, Split
  <1> HIDE DEF q
  <1>8. /\ q \in Seq(BlockT) /\ Len(q) = L + 1
        /\ \A k \in 1..(L + 1) : q[k] = IF k <= i + 1 THEN w[k] ELSE y[k - (i + 1)]
    <2>1. /\ q \in Seq(BlockT) /\ Len(q) = Len(w) + Len(y)
          /\ \A k \in 1..(Len(w) + Len(y)) : q[k] = IF k <= Len(w) THEN w[k] ELSE y[k - Len(w)]
      BY <1>3, <1>5, <1>7, ConcatProperties
    <2>2. Len(w) + Len(y) = L + 1
      BY <1>1, <1>3, <1>5
    <2> QED BY <1>5, <2>1, <2>2
  <1> HIDE DEF L
  <1>9. \A k \in 1..(i + 1) : q[k] = w[k]
    <2>1. \A k \in 1..(i + 1) : k \in 1..(L + 1) /\ k <= i + 1
      BY <1>1
    <2> QED BY <1>8, <2>1
  <1>10. \A k \in (i + 1)..L : q[k + 1] = p[k]
    <2> SUFFICES ASSUME NEW k \in (i + 1)..L PROVE q[k + 1] = p[k]
      OBVIOUS
    <2>1. k + 1 \in 1..(L + 1) /\ ~(k + 1 <= i + 1) /\ (k + 1) - (i + 1) = k - i
      BY <1>1
    <2>2. k - i \in 1..(L - i) /\ i + (k - i) = k
      BY <1>1
    <2>3. q[k + 1] = y[k - i]
      BY <1>8, <2>1
    <2> QED BY <1>3, <2>2, <2>3
  <1>11. i \in 1..(i + 1) /\ i + 1 \in 1..(i + 1) /\ \A k \in 1..(i - 1) : k \in 1..(i + 1)
    BY <1>1
  <1>12. q[i] = b /\ q[i + 1] = c /\ \A k \in 1..(i - 1) : q[k] = p[k]
    BY <1>6, <1>9, <1>11
  <1> QED BY <1>8, <1>10, <1>12 DEF q, L, Replaced

LEMMA TakeSplit ==
  ASSUME base \in Int, NEW p, PoolOK(p), NEW n \in Nat, n >= 8, NEW pad \in Nat, NEW i \in 1..Len(p),
         p[i].free, p[i].size - (pad + n) >= 20, NEW q,
         q = Split(p, i, UsedBlock(pad + n, pad), FreeBlock(p[i].size - (pad + n) - HEADER - FOOTER))
  PROVE  TookIn(p, q, i, EndOf(p, i - 1) + 10 + pad, n)
  <1> DEFINE b == UsedBlock(pad + n, pad)
             c == FreeBlock(p[i].size - (pad + n) - HEADER - FOOTER)
             L == Len(p)
             f == [k \in 0..(L + 1) |-> IF k < i THEN EndOf(p, k)
                                        ELSE IF k = i THEN EndOf(p, i - 1) + 12 + pad + n ELSE EndOf(p, k - 1)]
  <1>1. p \in Seq(BlockT) /\ EndOf(p, L) = base + HeapSize /\ NoFrag(p)
    BY DEF PoolOK
  <1>2. p[i] \in BlockT /\ p[i].size \in Nat /\ L \in Nat /\ i \in Nat /\ i <= L /\ i >= 1 /\ i \in 1..L
    BY <1>1, BlockWhole
  <1>3. b \in BlockT /\ b.size = pad + n /\ ~b.free /\ b.pad = pad
    BY <1>2 DEF BlockT, MIN_BLOCK_SIZE, UsedBlock
  <1>4. c \in BlockT /\ c.size = p[i].size - (pad + n) - 12 /\ c.free
    <2>1. p[i].size - (pad + n) - HEADER - FOOTER = p[i].size - (pad + n) - 12
      BY <1>2 DEF HEADER, FOOTER
    <2>2. p[i].size - (pad + n) - 12 \in Nat /\ p[i].size - (pad + n) - 12 >= 8
      BY <1>2
    <2> QED BY <2>1, <2>2 DEF BlockT, MIN_BLOCK_SIZE, FreeBlock
  <1> HIDE DEF b, c, L
  <1>5. /\ q \in Seq(BlockT) /\ Len(q) = L + 1 /\ q[i] = b /\ q[i + 1] = c
        /\ \A k \in 1..(i - 1) : q[k] = p[k]
        /\ \A k \in (i + 1)..L : q[k + 1] = p[k]
    <2>1. q = Split(p, i, b, c)
      BY DEF b, c
    <2>2. Replaced(p, i, b, c, Split(p, i, b, c))
      <3>1. p \in Seq(BlockT) /\ b \in BlockT /\ c \in BlockT
        BY <1>1, <1>3, <1>4
      <3> QED BY <3>1, TwoForOne
    <2>3. Replaced(p, i, b, c, q)
      BY <2>1, <2>2
    <2> QED BY <2>3 DEF L, Replaced
  <1>6. /\ EndOf(p, 0) = base
        /\ \A k \in 1..L : EndOf(p, k) = EndOf(p, k - 1) + p[k].size + 12
        /\ \A k \in 0..L : EndOf(p, k) \in Int
    BY <1>1, EndIs DEF L
  <1>7. \A k \in 0..(L + 1) : /\ k < i => f[k] = EndOf(p, k)
                              /\ k = i => f[k] = EndOf(p, i - 1) + 12 + pad + n
                              /\ k > i => f[k] = EndOf(p, k - 1)
    BY <1>2
  <1>8. f \in [0..(L + 1) -> Int]
    <2>1. \A k \in 0..(L + 1) : k < i => EndOf(p, k) \in Int
      BY <1>2, <1>6
    <2>2. EndOf(p, i - 1) + 12 + pad + n \in Int
      BY <1>2, <1>6
    <2>3. \A k \in 0..(L + 1) : k > i => EndOf(p, k - 1) \in Int
      BY <1>2, <1>6
    <2>4. \A k \in 0..(L + 1) : f[k] \in Int
      <3> SUFFICES ASSUME NEW k \in 0..(L + 1) PROVE f[k] \in Int
        OBVIOUS
      <3>1. k < i \/ k = i \/ k > i
        BY <1>2
      <3> HIDE DEF f
      <3> QED BY <1>7, <2>1, <2>2, <2>3, <3>1
    <2> QED BY <2>4
  <1> HIDE DEF f
  <1>9. f[0] = base
    <2>1. 0 \in 0..(L + 1) /\ 0 < i
      BY <1>2
    <2>2. f[0] = EndOf(p, 0)
      BY <1>7, <2>1
    <2> QED BY <1>6, <2>2
  <1>10. ASSUME NEW k \in 1..(L + 1) PROVE f[k] = f[k - 1] + q[k].size + 12
    <2>1. k \in 0..(L + 1) /\ k - 1 \in 0..(L + 1) /\ k \in Nat
      BY <1>2
    <2>2. CASE k < i
      <3>1. k \in 1..(i - 1) /\ k \in 1..L /\ k - 1 < i
        BY <1>2, <2>2
      <3>2. f[k] = EndOf(p, k) /\ f[k - 1] = EndOf(p, k - 1)
        BY <1>7, <2>1, <2>2, <3>1
      <3>3. q[k] = p[k]
        BY <1>5, <3>1
      <3> QED BY <1>6, <3>1, <3>2, <3>3
    <2>3. CASE k = i
      <3>1. f[k] = EndOf(p, i - 1) + 12 + pad + n /\ f[k - 1] = EndOf(p, i - 1) /\ EndOf(p, i - 1) \in Int
        <4>1. i \in 0..(L + 1) /\ i - 1 \in 0..(L + 1) /\ i - 1 < i /\ i - 1 \in 0..L
          BY <1>2
        <4>2. f[i] = EndOf(p, i - 1) + 12 + pad + n /\ f[i - 1] = EndOf(p, i - 1) /\ EndOf(p, i - 1) \in Int
          BY <1>6, <1>7, <4>1
        <4> QED BY <2>3, <4>2
      <3>2. q[k].size = pad + n
        BY <1>3, <1>5, <2>3
      <3> QED BY <3>1, <3>2
    <2>4. CASE k = i + 1
      <3>1. f[k] = EndOf(p, i) /\ f[k - 1] = EndOf(p, i - 1) + 12 + pad + n /\ EndOf(p, i - 1) \in Int
        <4>1. i \in 0..(L + 1) /\ i + 1 \in 0..(L + 1) /\ i + 1 > i /\ i - 1 \in 0..L /\ (i + 1) - 1 = i
          BY <1>2, SMTT(30)
        <4>2. f[i + 1] = EndOf(p, (i + 1) - 1) /\ f[i] = EndOf(p, i - 1) + 12 + pad + n /\ EndOf(p, i - 1) \in Int
          BY <1>6, <1>7, <4>1
        <4> QED BY <2>4, <4>1, <4>2
      <3>2. q[k].size = p[i].size - (pad + n) - 12
        BY <1>4, <1>5, <2>4
      <3>3. EndOf(p, i) = EndOf(p, i - 1) + p[i].size + 12
        BY <1>2, <1>6
      <3> QED BY <1>2, <3>1, <3>2, <3>3, SMTT(30)
    <2>5. CASE k > i + 1
      <3>1. k - 1 \in (i + 1)..L /\ (k - 1) + 1 = k /\ k > i /\ k - 1 > i /\ k - 1 \in 1..L
        BY <1>2, <2>5
      <3>2. f[k] = EndOf(p, k - 1) /\ f[k - 1] = EndOf(p, (k - 1) - 1)
        BY <1>7, <2>1, <3>1
      <3>3. q[k] = p[k - 1]
        BY <1>5, <3>1
      <3> QED BY <1>6, <3>1, <3>2, <3>3
    <2>6. k < i \/ k = i \/ k = i + 1 \/ k > i + 1
      BY <1>2
    <2> QED BY <2>2, <2>3, <2>4, <2>5, <2>6
  <1>11. \A k \in 0..(L + 1) : EndOf(q, k) = f[k]
    <2>1. q \in Seq(BlockT) /\ f \in [0..Len(q) -> Int] /\ \A k \in 1..Len(q) : f[k] = f[k - 1] + q[k].size + 12
      BY <1>5, <1>8, <1>10
    <2>2. \A k \in 0..Len(q) : EndOf(q, k) = f[k]
      BY <1>9, <2>1, EndOnly
    <2> QED BY <1>5, <2>2
  <1>12. NoFrag(q)
    <2> SUFFICES ASSUME NEW k \in 1..(Len(q) - 1), q[k].free, q[k + 1].free PROVE FALSE
      BY DEF NoFrag, L
    <2>1. k \in Nat /\ k >= 1 /\ k <= L /\ k # i
      BY <1>2, <1>3, <1>5
    <2>2. CASE k < i
      <3>1. k # i - 1
        BY <1>2, <1>3, <1>5
      <3>2. k \in 1..(i - 1) /\ k + 1 \in 1..(i - 1) /\ k \in 1..(L - 1)
        BY <1>2, <2>1, <2>2, <3>1
      <3> QED BY <1>1, <1>5, <3>2 DEF NoFrag, L
    <2>3. CASE k = i + 1
      <3>1. i + 1 \in (i + 1)..L /\ i \in 1..(L - 1) /\ k + 1 = (i + 1) + 1
        BY <1>2, <2>1, <2>3
      <3>2. q[k + 1] = p[i + 1]
        BY <1>5, <3>1
      <3> QED BY <1>1, <3>1, <3>2 DEF NoFrag, L
    <2>4. CASE k > i + 1
      <3>1. k - 1 \in (i + 1)..L /\ k \in (i + 1)..L /\ k - 1 \in 1..(L - 1) /\ (k - 1) + 1 = k
        BY <1>2, <2>1, <2>4, SMTT(30)
      <3>2. q[k] = p[k - 1] /\ q[k + 1] = p[(k - 1) + 1]
        BY <1>5, <3>1
      <3> QED BY <1>1, <3>1, <3>2 DEF NoFrag, L
    <2> QED BY <1>2, <2>1, <2>2, <2>3, <2>4
  <1>13. PoolOK(q)
    <2>1. L + 1 \in 0..(L + 1) /\ L + 1 > i /\ (L + 1) - 1 = L
      BY <1>2
    <2>2. EndOf(q, L + 1) = f[L + 1] /\ f[L + 1] = EndOf(p, (L + 1) - 1)
      BY <1>7, <1>11, <2>1
    <2>3. EndOf(q, Len(q)) = EndOf(p, L)
      BY <1>5, <2>1, <2>2
    <2> QED BY <1>1, <1>5, <1>12, <2>3 DEF PoolOK
  <1>14. ASSUME NEW j \in 1..L, j < i PROVE j \in 1..Len(q) /\ q[j] = p[j] /\ SpanOf(q, j) = SpanOf(p, j)
    <2>1. j \in 1..(i - 1) /\ j - 1 \in 0..(L + 1) /\ j - 1 < i /\ j \in 1..Len(q)
      <3>1. j \in 1..(i - 1) /\ j - 1 \in 0..(L + 1) /\ j - 1 < i /\ j \in 1..(L + 1)
        BY <1>2, <1>14
      <3> QED BY <1>5, <3>1
    <2>2. EndOf(q, j - 1) = EndOf(p, j - 1) /\ q[j] = p[j]
      BY <1>5, <1>7, <1>11, <2>1
    <2>3. p \in Seq(BlockT) /\ q \in Seq(BlockT) /\ j \in 1..Len(p)
      BY <1>1, <1>5 DEF L
    <2> QED BY <2>1, <2>2, <2>3, SameSpan
  <1>15. ASSUME NEW j \in 1..L, j > i
         PROVE j + 1 \in 1..Len(q) /\ q[j + 1] = p[j] /\ SpanOf(q, j + 1) = SpanOf(p, j)
    <2>1. j \in (i + 1)..L /\ (j + 1) - 1 = j /\ j \in 0..(L + 1) /\ j + 1 \in 1..Len(q)
      <3>1. j \in (i + 1)..L /\ (j + 1) - 1 = j /\ j \in 0..(L + 1) /\ j + 1 \in 1..(L + 1)
        BY <1>2, <1>15
      <3> QED BY <1>5, <3>1
    <2>2. EndOf(q, (j + 1) - 1) = EndOf(p, j - 1) /\ q[j + 1] = p[j]
      BY <1>5, <1>7, <1>11, <1>15, <2>1
    <2>3. p \in Seq(BlockT) /\ q \in Seq(BlockT) /\ j \in 1..Len(p)
      BY <1>1, <1>5 DEF L
    <2> QED BY <2>1, <2>2, <2>3, SameSpan
  <1>16. ASSUME NEW s \in Spans(p) PROVE \E j \in Taken(q, Len(q)) : j # i /\ s = SpanOf(q, j)
    <2>1. PICK j \in Taken(p, L) : s = SpanOf(p, j)
      BY DEF Spans, SpansTo, L
    <2>2. j \in 1..L /\ ~p[j].free /\ j # i
      BY <2>1 DEF Taken
    <2>3. CASE j < i
      BY <1>14, <2>1, <2>2, <2>3 DEF Taken
    <2>4. CASE j > i
      <3>1. j + 1 \in Taken(q, Len(q)) /\ s = SpanOf(q, j + 1) /\ j + 1 # i
        BY <1>2, <1>15, <2>1, <2>2, <2>4 DEF Taken
      <3> QED BY <3>1
    <2> QED BY <1>2, <2>2, <2>3, <2>4
  <1>17. i \in 1..Len(q) /\ ~q[i].free /\ SpanOf(q, i) \in Spans(q)
    <2>1. i \in 1..Len(q) /\ ~q[i].free
      BY <1>2, <1>3, <1>5
    <2> QED BY <2>1 DEF Spans, SpansTo, Taken
  <1>18. ASSUME NEW k \in Taken(q, Len(q)), k # i PROVE SpanOf(q, k) \in Spans(p)
    <2>1. k \in 1..(L + 1) /\ ~q[k].free /\ k # i + 1
      BY <1>4, <1>5, <1>18 DEF Taken
    <2>2. CASE k < i
      <3>1. k \in 1..L
        BY <1>2, <2>1, <2>2
      <3> QED BY <1>14, <2>1, <2>2, <3>1 DEF Spans, SpansTo, Taken, L
    <2>3. CASE k > i
      <3>1. k - 1 \in 1..L /\ k - 1 > i /\ (k - 1) + 1 = k
        BY <1>2, <2>1, <2>3, SMTT(30)
      <3>2. q[k] = p[k - 1] /\ SpanOf(q, k) = SpanOf(p, k - 1)
        BY <1>15, <3>1
      <3> QED BY <2>1, <3>1, <3>2 DEF Spans, SpansTo, Taken, L
    <2> QED BY <1>2, <1>18, <2>1, <2>2, <2>3
  <1>19. Spans(q) = Spans(p) \cup {SpanOf(q, i)}
    <2>1. ASSUME NEW s \in Spans(q) PROVE s \in Spans(p) \cup {SpanOf(q, i)}
      <3>1. PICK k \in Taken(q, Len(q)) : s = SpanOf(q, k)
        BY DEF Spans, SpansTo
      <3> QED BY <1>18, <3>1
    <2>2. ASSUME NEW s \in Spans(p) PROVE s \in Spans(q)
      BY <1>16 DEF Spans, SpansTo
    <2> QED BY <1>17, <2>1, <2>2
  <1>20. DataAt(q, i) = EndOf(p, i - 1) + 10 + pad /\ DataAt(q, i) + n <= DataEnd(q, i)
    <2>1. i - 1 \in 0..(L + 1) /\ i - 1 < i /\ i - 1 \in 0..L
      BY <1>2
    <2>2. EndOf(q, i - 1) = EndOf(p, i - 1) /\ EndOf(p, i - 1) \in Int
      BY <1>6, <1>7, <1>11, <2>1
    <2>3. DataAt(q, i) = EndOf(q, i - 1) + 10 + pad /\ DataEnd(q, i) = EndOf(q, i - 1) + 10 + (pad + n)
      BY <1>3, <1>5, <1>17, SpanIn, SMTT(30)
    <2> QED BY <2>2, <2>3
  <1> QED BY <1>13, <1>16, <1>17, <1>19, <1>20 DEF TookIn

LEMMA MinIn ==
  ASSUME NEW S, S \subseteq Nat, S # {}
  PROVE  Min(S) \in S /\ \A y \in S : Min(S) <= y
  <1>1. \E x \in S : \A y \in S : x <= y
    BY Least
  <1> QED BY <1>1 DEF Min

LEMMA PadFacts == \A a \in Int : Padding(a) \in 0..3 /\ (a + Padding(a)) % 4 = 0
  BY DEF Padding, ALIGN

LEMMA AlignFacts ==
  ASSUME NEW v \in Sizes
  PROVE  align_up(v, ALIGN) \in Sizes /\ align_up(v, ALIGN) >= v /\ align_up(v, ALIGN) % 4 = 0
  <1>1. ALIGN = 4 /\ UINT16 \in Nat /\ UINT16 % 4 = 0
    BY SMT DEF ALIGN, UINT16
  <1>2. v \in Nat /\ v >= 1 /\ v <= UINT16 - 4 /\ \A x \in Int : x >= 1 /\ x <= UINT16 - 4 => x \in Sizes
    BY <1>1 DEF Sizes
  <1> DEFINE w == ((v + 3) \div 4) * 4
  <1>3. w \in Nat /\ w >= v /\ w <= UINT16 - 4 /\ w % 4 = 0
    BY <1>1, <1>2
  <1>4. align_up(v, ALIGN) = w % UINT16
    <2>1. align_up(v, ALIGN) = (((v + ALIGN - 1) \div ALIGN) * ALIGN) % UINT16
      BY DEF align_up
    <2>2. v + ALIGN - 1 = v + 3
      BY <1>1, <1>2
    <2> QED BY <1>1, <2>1, <2>2
  <1> HIDE DEF w
  <1>5. w % UINT16 = w
    BY <1>1, <1>3
  <1> QED BY <1>2, <1>3, <1>4, <1>5

LEMMA RoundedFacts ==
  ASSUME NEW v \in Sizes
  PROVE  Rounded(v) \in Nat /\ Rounded(v) >= v /\ Rounded(v) >= 8
  <1>1. align_up(v, ALIGN) \in Nat /\ align_up(v, ALIGN) >= v /\ v \in Nat
    BY AlignFacts DEF Sizes
  <1> QED BY <1>1 DEF Rounded, MIN_BLOCK_SIZE

LEMMA StartsDiffer ==
  ASSUME base \in Int, NEW p \in Seq(BlockT), NEW i \in Taken(p, Len(p)), NEW j \in Taken(p, Len(p)), i # j
  PROVE  DataAt(p, i) # DataAt(p, j)
  <1>1. i \in 1..Len(p) /\ j \in 1..Len(p) /\ ~p[i].free /\ ~p[j].free
    BY DEF Taken
  <1>2. DataAt(p, i) + 8 <= DataEnd(p, i) /\ DataAt(p, i) \in Int /\ DataEnd(p, i) \in Int
    BY <1>1, SpanIn
  <1>3. DataAt(p, j) + 8 <= DataEnd(p, j) /\ DataAt(p, j) \in Int /\ DataEnd(p, j) \in Int
    BY <1>1, SpanIn
  <1>4. CASE i < j
    <2>1. DataEnd(p, i) + 12 <= DataAt(p, j)
      BY <1>1, <1>4, SpansOrder
    <2> QED BY <1>2, <1>3, <2>1
  <1>5. CASE j < i
    <2>1. DataEnd(p, j) + 12 <= DataAt(p, i)
      BY <1>1, <1>5, SpansOrder
    <2> QED BY <1>2, <1>3, <2>1
  <1> QED BY <1>1, <1>4, <1>5

(* The heap q is p with a new span of at least n bytes from d.             *)
Granted(p, q, d, n) ==
  /\ PoolOK(q) /\ d \in Int /\ d % 4 = 0
  /\ \E e \in Int : Spans(q) = Spans(p) \cup {<<d, e>>} /\ d + n <= e
  /\ \A s \in Spans(p) : s[1] # d

LEMMA TookGrants ==
  ASSUME base \in Int, NEW p, NEW q, NEW i, NEW d, NEW n \in Nat, NEW m \in Nat, m <= n, TookIn(p, q, i, d, n), d % 4 = 0
  PROVE  Granted(p, q, d, m)
  <1>1. /\ PoolOK(q) /\ i \in 1..Len(q) /\ ~q[i].free /\ DataAt(q, i) = d /\ d + n <= DataEnd(q, i)
        /\ Spans(q) = Spans(p) \cup {SpanOf(q, i)}
        /\ \A s \in Spans(p) : \E j \in Taken(q, Len(q)) : j # i /\ s = SpanOf(q, j)
    BY DEF TookIn
  <1>2. q \in Seq(BlockT)
    BY <1>1 DEF PoolOK
  <1>3. d \in Int /\ DataEnd(q, i) \in Int
    BY <1>1, <1>2, SpanIn
  <1>4. SpanOf(q, i) = <<d, DataEnd(q, i)>>
    BY <1>1 DEF SpanOf
  <1>5. ASSUME NEW s \in Spans(p) PROVE s[1] # d
    <2>1. PICK j \in Taken(q, Len(q)) : j # i /\ s = SpanOf(q, j)
      BY <1>1
    <2>2. i \in Taken(q, Len(q))
      BY <1>1 DEF Taken
    <2>3. DataAt(q, j) # DataAt(q, i)
      BY <1>2, <2>1, <2>2, StartsDiffer
    <2>4. s[1] = DataAt(q, j)
      BY <2>1 DEF SpanOf
    <2> QED BY <1>1, <2>3, <2>4
  <1>6. d + m <= DataEnd(q, i)
    BY <1>1, <1>3
  <1> QED BY <1>1, <1>3, <1>4, <1>5, <1>6 DEF Granted

LEMMA TakeTook ==
  ASSUME base \in Int, NEW p, PoolOK(p), NEW n \in Nat, n >= 8, NEW pad \in Nat, NEW i \in 1..Len(p),
         p[i].free, p[i].size >= pad + n
  PROVE  TookIn(p, Take(p, i, pad + n, pad), i, EndOf(p, i - 1) + 10 + pad, n)
  <1> DEFINE rest == p[i].size - (pad + n)
  <1>1. p[i] \in BlockT /\ p[i].size \in Nat
    <2>1. p \in Seq(BlockT)
      BY DEF PoolOK
    <2> QED BY <2>1, BlockWhole
  <1>2. rest \in Nat /\ HEADER + MIN_BLOCK_SIZE + FOOTER = 20
    BY <1>1 DEF HEADER, MIN_BLOCK_SIZE, FOOTER
  <1>3. CASE rest < HEADER + MIN_BLOCK_SIZE + FOOTER
    <2>1. Take(p, i, pad + n, pad) = [p EXCEPT ![i] = UsedBlock(p[i].size, pad)]
      BY <1>3 DEF Take
    <2> QED BY <2>1, TakeWhole
  <1>4. CASE ~(rest < HEADER + MIN_BLOCK_SIZE + FOOTER)
    <2>1. Take(p, i, pad + n, pad) = Split(p, i, UsedBlock(pad + n, pad), FreeBlock(rest - HEADER - FOOTER))
      BY <1>4 DEF Take, Split
    <2>2. rest >= 20
      BY <1>2, <1>4
    <2> QED BY <2>1, <2>2, TakeSplit
  <1> QED BY <1>3, <1>4

LEMMA MallocGrants ==
  ASSUME base \in Int, NEW p, PoolOK(p), NEW size \in Sizes, NEW r, r = cfl_heap_malloc(p, size), r.ok
  PROVE  Granted(p, r.pool, r.at, size)
  <1> DEFINE n == Rounded(size)
             F == Fits(p, n)
             i == Min(F)
             pad == PadIn(p, i)
             q == Take(p, i, pad + n, pad)
  <1>1. p \in Seq(BlockT)
    BY DEF PoolOK
  <1>2. n \in Nat /\ n >= size /\ n >= 8 /\ size \in Nat
    BY RoundedFacts DEF Sizes
  <1>3. F # {}
    BY DEF cfl_heap_malloc, NoFit
  <1>4. r = [ok |-> TRUE, pool |-> q, at |-> DataAt(q, i)]
    BY <1>3, <1>2 DEF cfl_heap_malloc, NoFit
  <1> HIDE DEF n
  <1>5. i \in F
    <2>1. F \subseteq Nat
      BY <1>1 DEF Fits
    <2> HIDE DEF F
    <2> QED BY <1>3, <2>1, MinIn
  <1> HIDE DEF i
  <1>6. i \in 1..Len(p) /\ p[i].free /\ p[i].size >= pad + n
    BY <1>1, <1>5 DEF Fits
  <1>7. EndOf(p, i - 1) \in Int
    <2>1. i - 1 \in 0..Len(p)
      BY <1>1, <1>6
    <2> QED BY <1>1, <2>1, EndIs
  <1>8. pad \in Nat /\ (EndOf(p, i - 1) + 10 + pad) % 4 = 0
    <2>1. pad = Padding(EndOf(p, i - 1) + 10)
      BY DEF PadIn, BlockAt, HEADER
    <2>2. EndOf(p, i - 1) + 10 \in Int
      BY <1>7
    <2> QED BY <2>1, <2>2, PadFacts
  <1> HIDE DEF pad
  <1>9. TookIn(p, q, i, EndOf(p, i - 1) + 10 + pad, n)
    BY <1>2, <1>6, <1>8, TakeTook
  <1> HIDE DEF q
  <1>10. r.pool = q /\ r.at = EndOf(p, i - 1) + 10 + pad
    BY <1>4, <1>9 DEF TookIn
  <1> QED BY <1>2, <1>8, <1>9, <1>10, TookGrants

-----------------------------------------------------------------------------
(* Giving a block back.                                                    *)

LEMMA SameEnds ==
  ASSUME base \in Int, NEW p \in Seq(BlockT), NEW q \in Seq(BlockT), NEW m \in Nat, m <= Len(p), m <= Len(q),
         \A j \in 1..m : q[j].size = p[j].size
  PROVE  \A j \in 0..m : EndOf(q, j) = EndOf(p, j)
  <1> DEFINE S == {k \in Nat : k <= m => EndOf(q, k) = EndOf(p, k)}
             E(k) == EndOf(p, k)
             D(k) == EndOf(q, k)
  <1>1. /\ E(0) = base /\ D(0) = base
        /\ \A j \in 1..m : E(j) = E(j - 1) + p[j].size + 12
        /\ \A j \in 1..m : D(j) = D(j - 1) + q[j].size + 12
    <2>1. Len(p) \in Nat /\ Len(q) \in Nat
      OBVIOUS
    <2>2. \A j \in 1..m : j \in 1..Len(p) /\ j \in 1..Len(q)
      BY <2>1
    <2> QED BY <2>2, EndIs
  <1>2. 0 \in S
    BY <1>1
  <1>3. ASSUME NEW k \in Nat, k \in S PROVE k + 1 \in S
    <2>1. SUFFICES ASSUME k + 1 <= m PROVE D(k + 1) = E(k + 1)
      OBVIOUS
    <2>2. D(k) = E(k) /\ k + 1 \in 1..m /\ (k + 1) - 1 = k
      BY <1>3, <2>1
    <2>3. E(k + 1) = E(k) + p[k + 1].size + 12 /\ D(k + 1) = D(k) + q[k + 1].size + 12
      <3> HIDE DEF D, E
      <3> QED BY <1>1, <2>2
    <2> HIDE DEF D, E
    <2> QED BY <2>2, <2>3
  <1>4. Nat \subseteq S
    <2> HIDE DEF S
    <2> QED BY <1>2, <1>3, Ind
  <1>5. \A j \in 0..m : j \in Nat /\ j <= m
    OBVIOUS
  <1> QED BY <1>4, <1>5

LEMMA SpansStep ==
  ASSUME NEW p, NEW k \in Nat
  PROVE  /\ p[k + 1].free => SpansTo(p, k + 1) = SpansTo(p, k)
         /\ ~p[k + 1].free => SpansTo(p, k + 1) = SpansTo(p, k) \cup {SpanOf(p, k + 1)}
         /\ SpansTo(p, 0) = {}
  <1>1. 1..(k + 1) = (1..k) \cup {k + 1} /\ 1..0 = {}
    OBVIOUS
  <1>2. p[k + 1].free => Taken(p, k + 1) = Taken(p, k)
    BY <1>1 DEF Taken
  <1>3. ~p[k + 1].free => Taken(p, k + 1) = Taken(p, k) \cup {k + 1}
    BY <1>1 DEF Taken
  <1>4. Taken(p, 0) = {}
    BY <1>1 DEF Taken
  <1> QED BY <1>2, <1>3, <1>4 DEF SpansTo

(* The same blocks up to m have the same spans.                            *)
LEMMA SameSpansTo ==
  ASSUME base \in Int, NEW p \in Seq(BlockT), NEW q \in Seq(BlockT), NEW m \in Nat, m <= Len(p), m <= Len(q),
         \A j \in 1..m : q[j] = p[j]
  PROVE  SpansTo(q, m) = SpansTo(p, m)
  <1>1. \A j \in 0..m : EndOf(q, j) = EndOf(p, j)
    BY SameEnds
  <1>2. Taken(q, m) = Taken(p, m)
    BY DEF Taken
  <1>3. ASSUME NEW j \in Taken(p, m) PROVE SpanOf(q, j) = SpanOf(p, j)
    <2>1. Len(p) \in Nat /\ Len(q) \in Nat /\ j \in 1..m /\ q[j] = p[j]
      BY DEF Taken
    <2>2. j \in 1..Len(p) /\ j \in 1..Len(q) /\ j - 1 \in 0..m
      BY <2>1
    <2>3. EndOf(q, j - 1) = EndOf(p, j - 1)
      BY <1>1, <2>2
    <2> QED BY <2>1, <2>2, <2>3, SameSpan
  <1> QED BY <1>2, <1>3 DEF SpansTo

(* The heap q stands for the first k blocks of p, with free ones merged.   *)
Merges(p, k, q) ==
  q \in Seq(BlockT) /\ EndOf(q, Len(q)) = EndOf(p, k) /\ Spans(q) = SpansTo(p, k) /\ NoFrag(q)

LEMMA JoinAppends ==
  ASSUME base \in Int, NEW p \in Seq(BlockT), NEW k \in Nat, k + 1 <= Len(p), NEW q, Merges(p, k, q),
         ~(q # <<>> /\ q[Len(q)].free /\ p[k + 1].free)
  PROVE  Merges(p, k + 1, Append(q, p[k + 1]))
  <1> DEFINE b == p[k + 1]
             w == Append(q, b)
             L == Len(q)
  <1>1. q \in Seq(BlockT) /\ EndOf(q, L) = EndOf(p, k) /\ Spans(q) = SpansTo(p, k) /\ NoFrag(q) /\ L \in Nat
    BY DEF Merges
  <1>2. k + 1 \in 1..Len(p) /\ (k + 1) - 1 = k /\ b \in BlockT /\ k \in 0..Len(p)
    OBVIOUS
  <1>3. w \in Seq(BlockT) /\ Len(w) = L + 1 /\ w[L + 1] = b /\ \A j \in 1..L : w[j] = q[j]
    BY <1>1, <1>2
  <1>4. q = <<>> <=> L = 0
    BY <1>1
  <1>5. ~(L # 0 /\ q[L].free /\ b.free)
    BY <1>4
  <1> HIDE DEF w, b, L
  <1>6. \A j \in 0..L : EndOf(w, j) = EndOf(q, j)
    <2>1. L <= Len(q) /\ L <= Len(w)
      BY <1>1, <1>3 DEF L
    <2> QED BY <1>1, <1>3, <2>1, SameEnds
  <1>7. EndOf(w, L) = EndOf(p, k)
    <2>1. L \in 0..L
      BY <1>1
    <2> QED BY <1>1, <1>6, <2>1
  <1>8. EndOf(w, Len(w)) = EndOf(p, k + 1)
    <2>1. L + 1 \in 1..Len(w) /\ (L + 1) - 1 = L
      BY <1>1, <1>3
    <2>2. EndOf(w, L + 1) = EndOf(w, L) + b.size + 12
      BY <1>3, <2>1, EndIs
    <2>3. EndOf(p, k + 1) = EndOf(p, k) + b.size + 12
      BY <1>2, EndIs DEF b
    <2> QED BY <1>3, <1>7, <2>2, <2>3
  <1>9. Spans(w) = SpansTo(p, k + 1)
    <2>1. SpansTo(w, L) = SpansTo(q, L)
      <3>1. L <= Len(q) /\ L <= Len(w)
        BY <1>1, <1>3 DEF L
      <3> QED BY <1>1, <1>3, <3>1, SameSpansTo
    <2>2. SpansTo(w, L) = SpansTo(p, k)
      BY <1>1, <2>1 DEF Spans, L
    <2>3. CASE b.free
      BY <1>1, <1>3, <2>2, <2>3, SpansStep DEF Spans, b
    <2>4. CASE ~b.free
      <3>1. SpanOf(w, L + 1) = SpanOf(p, k + 1)
        <4>1. L + 1 \in 1..Len(w) /\ (L + 1) - 1 = L
          BY <1>1, <1>3
        <4>2. w[L + 1] = p[k + 1] /\ EndOf(w, (L + 1) - 1) = EndOf(p, (k + 1) - 1)
          BY <1>2, <1>3, <1>7, <4>1 DEF b
        <4> QED BY <1>2, <1>3, <4>1, <4>2, SameSpan
      <3>2. SpansTo(w, L + 1) = SpansTo(w, L) \cup {SpanOf(w, L + 1)}
        BY <1>1, <1>3, <2>4, SpansStep
      <3>3. SpansTo(p, k + 1) = SpansTo(p, k) \cup {SpanOf(p, k + 1)}
        BY <2>4, SpansStep DEF b
      <3> QED BY <1>3, <2>2, <3>1, <3>2, <3>3 DEF Spans
    <2> QED BY <2>3, <2>4
  <1>10. NoFrag(w)
    <2> SUFFICES ASSUME NEW j \in 1..(Len(w) - 1), w[j].free, w[j + 1].free PROVE FALSE
      BY DEF NoFrag
    <2>1. j \in 1..L
      BY <1>1, <1>3
    <2>2. CASE j = L
      <3>1. w[j + 1] = b /\ w[j] = q[L] /\ L # 0
        BY <1>1, <1>3, <2>1, <2>2
      <3> QED BY <1>5, <3>1
    <2>3. CASE j # L
      <3>1. j + 1 \in 1..L /\ j \in 1..(L - 1)
        BY <1>1, <2>1, <2>3
      <3>2. w[j] = q[j] /\ w[j + 1] = q[j + 1]
        BY <1>3, <2>1, <3>1
      <3> QED BY <1>1, <3>1, <3>2 DEF NoFrag, L
    <2> QED BY <2>2, <2>3
  <1>11. Merges(p, k + 1, w)
    BY <1>3, <1>8, <1>9, <1>10 DEF Merges
  <1> QED BY <1>11 DEF w, b

LEMMA JoinMerges ==
  ASSUME base \in Int, NEW p \in Seq(BlockT), NEW k \in Nat, k + 1 <= Len(p), NEW q, Merges(p, k, q),
         q # <<>>, q[Len(q)].free, p[k + 1].free
  PROVE  Merges(p, k + 1, Merged(q, p[k + 1]))
  <1> DEFINE b == p[k + 1]
             L == Len(q)
             c == FreeBlock(q[L].size + Whole(b))
             w == [q EXCEPT ![L] = c]
  <1>1. /\ q \in Seq(BlockT) /\ EndOf(q, L) = EndOf(p, k) /\ Spans(q) = SpansTo(p, k) /\ NoFrag(q)
        /\ L \in Nat /\ L \in 1..L /\ L \in 1..Len(q)
    BY DEF Merges
  <1>2. k + 1 \in 1..Len(p) /\ (k + 1) - 1 = k /\ b \in BlockT /\ k \in 0..Len(p)
    OBVIOUS
  <1>3. b.size \in Nat /\ Whole(b) = b.size + 12 /\ q[L] \in BlockT /\ q[L].size \in Nat
    BY <1>1, <1>2, BlockWhole, SMTT(30)
  <1>4. c \in BlockT /\ c.free /\ c.size = q[L].size + b.size + 12
    <2> DEFINE x == q[L].size
               y == Whole(b)
               z == b.size
    <2>1. x \in Nat /\ z \in Nat /\ y = z + 12 /\ c = FreeBlock(x + y)
      BY <1>3
    <2> HIDE DEF x, y, z, c
    <2>2. x + y \in Nat /\ x + y >= 8 /\ x + y = x + z + 12
      BY <2>1
    <2>3. c \in BlockT /\ c.free /\ c.size = x + z + 12
      BY <2>1, <2>2, FreeIsBlock
    <2> QED BY <2>3 DEF x, z
  <1> HIDE DEF c
  <1>5. w \in Seq(BlockT) /\ Len(w) = L /\ w[L] = c /\ \A j \in 1..L : j # L => w[j] = q[j]
    BY <1>1, <1>4
  <1>6. q[L].free /\ b.free
    OBVIOUS
  <1>7. Merged(q, b) = w
    BY DEF Merged, c
  <1> HIDE DEF w, b, L
  <1>8. L - 1 \in Nat /\ L - 1 <= Len(q) /\ L - 1 <= Len(w) /\ \A j \in 1..(L - 1) : w[j] = q[j]
    <2>1. Len(q) = L
      BY DEF L
    <2>2. \A j \in 1..(L - 1) : j \in 1..L /\ j # L
      BY <1>1
    <2> QED BY <1>1, <1>5, <2>1, <2>2
  <1>9. EndOf(w, Len(w)) = EndOf(p, k + 1)
    <2>1. EndOf(w, L - 1) = EndOf(q, L - 1)
      <3>1. L - 1 \in 0..(L - 1) /\ \A j \in 1..(L - 1) : w[j].size = q[j].size
        BY <1>8
      <3>2. \A j \in 0..(L - 1) : EndOf(w, j) = EndOf(q, j)
        BY <1>1, <1>5, <1>8, <3>1, SameEnds
      <3> QED BY <3>1, <3>2
    <2>2. EndOf(w, L) = EndOf(w, L - 1) + c.size + 12
      BY <1>1, <1>5, EndIs
    <2>3. EndOf(q, L) = EndOf(q, L - 1) + q[L].size + 12 /\ EndOf(q, L - 1) \in Int
      <3>1. L - 1 \in 0..Len(q)
        BY <1>8
      <3> QED BY <1>1, <3>1, EndIs
    <2>4. EndOf(p, k + 1) = EndOf(p, k) + b.size + 12
      BY <1>2, EndIs DEF b
    <2> QED BY <1>1, <1>3, <1>4, <1>5, <2>1, <2>2, <2>3, <2>4
  <1>10. Spans(w) = SpansTo(p, k + 1)
    <2>1. SpansTo(w, L - 1) = SpansTo(q, L - 1)
      BY <1>1, <1>5, <1>8, SameSpansTo
    <2>2. (L - 1) + 1 = L
      BY <1>1
    <2>3. SpansTo(w, L) = SpansTo(w, L - 1)
      BY <1>4, <1>5, <1>8, <2>2, SpansStep
    <2>4. SpansTo(q, L) = SpansTo(q, L - 1)
      BY <1>6, <1>8, <2>2, SpansStep
    <2>5. SpansTo(p, k + 1) = SpansTo(p, k)
      BY <1>6, SpansStep DEF b
    <2>6. Spans(w) = SpansTo(w, L) /\ Spans(q) = SpansTo(q, L)
      BY <1>5 DEF Spans, L
    <2> QED BY <1>1, <2>1, <2>3, <2>4, <2>5, <2>6
  <1>11. NoFrag(w)
    <2> SUFFICES ASSUME NEW j \in 1..(Len(w) - 1), w[j].free, w[j + 1].free PROVE FALSE
      BY DEF NoFrag
    <2>1. j \in 1..(L - 1) /\ w[j] = q[j]
      BY <1>1, <1>5, <1>8
    <2>2. q[j + 1].free
      <3>1. CASE j + 1 = L
        BY <1>6, <3>1
      <3>2. CASE j + 1 # L
        <4>1. j + 1 \in 1..(L - 1)
          BY <1>1, <2>1, <3>2
        <4> QED BY <1>8, <4>1
      <3> QED BY <3>1, <3>2
    <2> QED BY <1>1, <2>1, <2>2 DEF NoFrag, L
  <1>12. Merges(p, k + 1, w)
    BY <1>5, <1>9, <1>10, <1>11 DEF Merges
  <1> QED BY <1>7, <1>12 DEF b

LEMMA CoalesceMerges ==
  ASSUME base \in Int, NEW p \in Seq(BlockT)
  PROVE  Merges(p, Len(p), coalesce_free_blocks(p))
  <1> DEFINE m == Len(p)
             G == [a \in Seq(BlockT) \X (1..m) |-> Join(a[1], p[a[2]])]
             F(q) == q = [k \in 0..Len(p) |-> IF k = 0 THEN <<>> ELSE Join(q[k - 1], p[k])]
  <1>1. m \in Nat /\ \A i \in 1..m : p[i] \in BlockT
    OBVIOUS
  <1>2. \A x \in Seq(BlockT), i \in 1..m : <<x, i>> \in Seq(BlockT) \X (1..m) /\ G[<<x, i>>] = Join(x, p[i])
    OBVIOUS
  <1> HIDE DEF G
  <1>3. ASSUME NEW x \in Seq(BlockT), NEW b \in BlockT PROVE Join(x, b) \in Seq(BlockT)
    <2>1. CASE x # <<>> /\ x[Len(x)].free /\ b.free
      <3> DEFINE n == Len(x)
                 y == x[n].size + Whole(b)
      <3>1. n \in 1..Len(x) /\ x[n] \in BlockT
        BY <2>1
      <3>2. x[n].size \in Nat /\ Whole(b) \in Nat /\ Whole(b) >= 20
        BY <3>1, BlockWhole
      <3>3. y \in Nat /\ y >= 8
        BY <3>2
      <3>4. FreeBlock(y) \in BlockT
        <4> HIDE DEF y
        <4> QED BY <3>3, FreeIsBlock
      <3>5. Join(x, b) = [x EXCEPT ![n] = FreeBlock(y)]
        BY <2>1 DEF Join, Merged
      <3> HIDE DEF y
      <3> QED BY <3>1, <3>4, <3>5
    <2>2. CASE ~(x # <<>> /\ x[Len(x)].free /\ b.free)
      BY <2>2 DEF Join
    <2> QED BY <2>1, <2>2
  <1>4. PICK f \in [0..m -> Seq(BlockT)] : f[0] = <<>> /\ \A i \in 1..m : f[i] = G[<<f[i - 1], i>>]
    <2>1. StaysIn(Seq(BlockT), m, G)
      BY <1>1, <1>2, <1>3 DEF StaysIn
    <2>2. <<>> \in Seq(BlockT)
      OBVIOUS
    <2>3. Solvable(Seq(BlockT), m, <<>>, G)
      <3> HIDE DEF m
      <3> QED BY <1>1, <2>1, <2>2, Recursion
    <2> QED BY <2>3 DEF Solvable
  <1>5. \A i \in 1..m : f[i] = Join(f[i - 1], p[i])
    <2> SUFFICES ASSUME NEW i \in 1..m PROVE f[i] = Join(f[i - 1], p[i])
      OBVIOUS
    <2>1. i - 1 \in 0..m
      BY <1>1
    <2> QED BY <1>2, <1>4, <2>1
  <1>6. F(f)
    <2> DEFINE h == [k \in 0..m |-> IF k = 0 THEN <<>> ELSE Join(f[k - 1], p[k])]
    <2>1. \A k \in 0..m : k # 0 => k \in 1..m
      BY <1>1
    <2>2. \A k \in 0..m : f[k] = h[k]
      BY <1>4, <1>5, <2>1
    <2>3. DOMAIN f = 0..m /\ DOMAIN h = 0..m
      OBVIOUS
    <2> QED BY <1>4, <2>2, <2>3
  <1> DEFINE r == CHOOSE q : F(q)
  <1>7. coalesce_free_blocks(p) = r[m]
    BY DEF coalesce_free_blocks
  <1>8. F(r)
    BY <1>6
  <1>9. r = [k \in 0..m |-> IF k = 0 THEN <<>> ELSE Join(r[k - 1], p[k])]
    BY <1>8
  <1> HIDE DEF r
  <1>10. r[0] = <<>> /\ \A k \in 1..m : r[k] = Join(r[k - 1], p[k])
    <2>1. 0 \in 0..m /\ \A k \in 1..m : k \in 0..m /\ k # 0
      BY <1>1
    <2> QED BY <1>9, <2>1
  <1> DEFINE S == {k \in Nat : k <= m => Merges(p, k, r[k])}
  <1>11. 0 \in S
    <2>1. Merges(p, 0, <<>>)
      <3>1. <<>> \in Seq(BlockT) /\ Len(<<>>) = 0
        OBVIOUS
      <3>2. EndOf(<<>>, 0) = base /\ EndOf(p, 0) = base
        BY <3>1, EndIs
      <3>3. Spans(<<>>) = {} /\ SpansTo(p, 0) = {}
        BY <3>1, SpansStep DEF Spans
      <3>4. NoFrag(<<>>)
        BY <3>1 DEF NoFrag
      <3> QED BY <3>1, <3>2, <3>3, <3>4 DEF Merges
    <2> QED BY <1>10, <2>1
  <1>12. ASSUME NEW k \in Nat, k \in S PROVE k + 1 \in S
    <2>1. SUFFICES ASSUME k + 1 <= m PROVE Merges(p, k + 1, r[k + 1])
      OBVIOUS
    <2>2. Merges(p, k, r[k]) /\ k + 1 \in 1..m /\ (k + 1) - 1 = k /\ k + 1 <= Len(p)
      BY <1>1, <1>12, <2>1
    <2>3. r[k + 1] = Join(r[k], p[k + 1])
      BY <1>10, <2>2
    <2> DEFINE q == r[k]
    <2> HIDE DEF q
    <2>4. CASE q # <<>> /\ q[Len(q)].free /\ p[k + 1].free
      <3>1. Join(q, p[k + 1]) = Merged(q, p[k + 1])
        BY <2>4 DEF Join
      <3>2. Merges(p, k, q)
        BY <2>2 DEF q
      <3>3. Merges(p, k + 1, Merged(q, p[k + 1]))
        BY <2>2, <2>4, <3>2, JoinMerges
      <3> QED BY <2>3, <3>1, <3>3 DEF q
    <2>5. CASE ~(q # <<>> /\ q[Len(q)].free /\ p[k + 1].free)
      <3>1. Join(q, p[k + 1]) = Append(q, p[k + 1])
        BY <2>5 DEF Join
      <3>2. Merges(p, k, q)
        BY <2>2 DEF q
      <3>3. Merges(p, k + 1, Append(q, p[k + 1]))
        BY <2>2, <2>5, <3>2, JoinAppends
      <3> QED BY <2>3, <3>1, <3>3 DEF q
    <2> QED BY <2>4, <2>5
  <1>13. Nat \subseteq S
    <2> HIDE DEF S
    <2> QED BY <1>11, <1>12, Ind
  <1> QED BY <1>1, <1>7, <1>13

(* The heap q is p without the span from d.                                *)
Freed(p, q, d) == PoolOK(q) /\ Spans(q) = {s \in Spans(p) : s[1] # d}

LEMMA FreeFrees ==
  ASSUME base \in Int, NEW p, PoolOK(p), NEW d, NEW s \in Spans(p), s[1] = d
  PROVE  cfl_heap_free(p, d).ok /\ Freed(p, cfl_heap_free(p, d).pool, d)
  <1> DEFINE L == Len(p)
             B == {j \in DOMAIN p : DataAt(p, j) <= d /\ d < DataEnd(p, j)}
  <1>1. p \in Seq(BlockT) /\ EndOf(p, L) = base + HeapSize /\ NoFrag(p) /\ DOMAIN p = 1..L /\ L \in Nat
    BY DEF PoolOK
  <1>2. PICK i \in Taken(p, L) : s = SpanOf(p, i)
    BY DEF Spans, SpansTo
  <1>3. i \in 1..L /\ ~p[i].free /\ DataAt(p, i) = d
    BY <1>2 DEF Taken, SpanOf
  <1>4. \A j \in 1..L : DataAt(p, j) \in Int /\ DataEnd(p, j) \in Int
    BY <1>1, SpanIn
  <1>5. d + 8 <= DataEnd(p, i)
    BY <1>1, <1>3, SpanIn
  <1>6. B = {i}
    <2>1. i \in B
      BY <1>1, <1>3, <1>4, <1>5
    <2>2. ASSUME NEW j \in B, j # i PROVE FALSE
      <3>1. j \in 1..L /\ DataAt(p, j) <= d /\ d < DataEnd(p, j)
        BY <1>1
      <3>2. CASE j < i
        <4>1. DataEnd(p, j) + 12 <= DataAt(p, i)
          BY <1>1, <1>3, <3>1, <3>2, SpansOrder
        <4> QED BY <1>3, <1>4, <3>1, <4>1
      <3>3. CASE i < j
        <4>1. DataEnd(p, i) + 12 <= DataAt(p, j)
          BY <1>1, <1>3, <3>1, <3>3, SpansOrder
        <4> QED BY <1>3, <1>4, <1>5, <3>1, <4>1
      <3> QED BY <1>3, <2>2, <3>1, <3>2, <3>3
    <2> QED BY <2>1, <2>2
  <1>7. Min(B) = i
    <2>1. i \in Nat
      BY <1>3
    <2>2. {i} \subseteq Nat /\ {i} # {}
      BY <2>1
    <2>3. Min({i}) \in {i}
      BY <2>2, MinIn
    <2> QED BY <1>6, <2>3
  <1> DEFINE c == FreeBlock(p[i].size)
             w == [p EXCEPT ![i] = c]
             q == coalesce_free_blocks(w)
  <1>8. cfl_heap_free(p, d) = [ok |-> TRUE, pool |-> q]
    <2>1. B # {} /\ ~p[Min(B)].free
      BY <1>3, <1>6, <1>7
    <2>2. cfl_heap_free(p, d) = [ok |-> TRUE, pool |-> coalesce_free_blocks([p EXCEPT ![Min(B)] = FreeBlock(@.size)])]
      BY <2>1 DEF cfl_heap_free
    <2> HIDE DEF B
    <2> QED BY <1>7, <2>2
  <1>9. c \in BlockT /\ c.free /\ c.size = p[i].size
    <2>1. p[i] \in BlockT
      BY <1>1, <1>3
    <2>2. p[i].size \in Nat /\ p[i].size >= 8
      BY <2>1 DEF BlockT, MIN_BLOCK_SIZE
    <2> QED BY <2>2, FreeIsBlock
  <1> HIDE DEF c, B
  <1>10. w \in Seq(BlockT) /\ Len(w) = L /\ w[i] = c /\ \A j \in 1..L : j # i => w[j] = p[j]
    BY <1>1, <1>3, <1>9
  <1> HIDE DEF w
  <1>11. \A j \in 0..L : EndOf(w, j) = EndOf(p, j)
    <2>1. \A j \in 1..L : w[j].size = p[j].size
      BY <1>9, <1>10
    <2> QED BY <1>1, <1>10, <2>1, SameEnds
  <1>12. \A j \in 1..L : j # i => SpanOf(w, j) = SpanOf(p, j)
    <2> SUFFICES ASSUME NEW j \in 1..L, j # i PROVE SpanOf(w, j) = SpanOf(p, j)
      OBVIOUS
    <2>1. j - 1 \in 0..L /\ j \in 1..Len(w) /\ w[j] = p[j]
      BY <1>1, <1>10
    <2>2. EndOf(w, j - 1) = EndOf(p, j - 1)
      BY <1>11, <2>1
    <2> QED BY <1>1, <1>10, <2>1, <2>2, SameSpan
  <1>13. Taken(w, L) = Taken(p, L) \ {i}
    BY <1>9, <1>10 DEF Taken
  <1>14. Spans(w) = {t \in Spans(p) : t[1] # d}
    <2>1. ASSUME NEW t \in Spans(w) PROVE t \in Spans(p) /\ t[1] # d
      <3>1. PICK j \in Taken(w, L) : t = SpanOf(w, j)
        BY <1>10 DEF Spans, SpansTo
      <3>2. j \in Taken(p, L) /\ j # i /\ j \in 1..L
        BY <1>13, <3>1 DEF Taken
      <3>3. t = SpanOf(p, j)
        BY <1>12, <3>1, <3>2
      <3>4. t \in Spans(p) /\ t[1] = DataAt(p, j)
        BY <3>2, <3>3 DEF Spans, SpansTo, SpanOf
      <3>5. DataAt(p, j) # DataAt(p, i)
        BY <1>1, <1>2, <3>2, StartsDiffer
      <3> QED BY <1>3, <3>4, <3>5
    <2>2. ASSUME NEW t \in Spans(p), t[1] # d PROVE t \in Spans(w)
      <3>1. PICK j \in Taken(p, L) : t = SpanOf(p, j)
        BY DEF Spans, SpansTo
      <3>2. j # i
        BY <1>3, <2>2, <3>1 DEF SpanOf
      <3>3. j \in Taken(w, L) /\ t = SpanOf(w, j)
        BY <1>12, <1>13, <3>1, <3>2 DEF Taken
      <3> QED BY <1>10, <3>3 DEF Spans, SpansTo
    <2> QED BY <2>1, <2>2
  <1>15. Merges(w, L, q)
    BY <1>10, CoalesceMerges
  <1> HIDE DEF q
  <1>16. PoolOK(q) /\ Spans(q) = Spans(w)
    <2>1. L \in 0..L
      BY <1>1
    <2>2. q \in Seq(BlockT) /\ EndOf(q, Len(q)) = EndOf(p, L) /\ NoFrag(q) /\ Spans(q) = SpansTo(w, L)
      BY <1>11, <1>15, <2>1 DEF Merges
    <2> QED BY <1>1, <1>10, <2>2 DEF PoolOK, Spans
  <1> QED BY <1>8, <1>14, <1>16 DEF Freed

-----------------------------------------------------------------------------
(* The statistics, and the first heap.                                     *)

StatsT == [blocks : Int, allocated : Int, used : Int]
StatsOK(p, s) == s \in StatsT /\ s.allocated = Cardinality(Taken(p, Len(p))) /\ s.used <= HeapSize

LEMMA TakenFinite == ASSUME NEW p, NEW k \in Nat PROVE IsFiniteSet(Taken(p, k)) /\ Taken(p, k) \subseteq 1..k
  <1>1. IsFiniteSet(1..k)
    BY FS_Interval
  <1>2. Taken(p, k) \subseteq 1..k
    BY DEF Taken
  <1> QED BY <1>1, <1>2, FS_Subset

LEMMA CountIs ==
  ASSUME NEW p \in Seq(BlockT)
  PROVE  LET xs == [j \in 1..Len(p) |-> IF p[j].free THEN 0 ELSE 1]
         IN  Running(xs)[Len(p)] = Cardinality(Taken(p, Len(p))) /\ Running(xs)[Len(p)] \in Int
  <1> DEFINE L == Len(p)
             xs == [j \in 1..Len(p) |-> IF p[j].free THEN 0 ELSE 1]
             r == Running(xs)
             S == {k \in Nat : k <= L => r[k] = Cardinality(Taken(p, k))}
  <1>1. L \in Nat /\ xs \in Seq(Int) /\ Len(xs) = L /\ \A k \in 1..L : xs[k] = IF p[k].free THEN 0 ELSE 1
    OBVIOUS
  <1> HIDE DEF xs
  <1>2. r \in [0..L -> Int] /\ r[0] = 0 /\ \A k \in 1..L : r[k] = r[k - 1] + xs[k]
    BY <1>1, RunningIs
  <1> HIDE DEF r
  <1>3. 0 \in S
    <2>1. Taken(p, 0) = {}
      BY DEF Taken
    <2> QED BY <1>2, <2>1, FS_EmptySet
  <1>4. ASSUME NEW k \in Nat, k \in S PROVE k + 1 \in S
    <2>1. SUFFICES ASSUME k + 1 <= L PROVE r[k + 1] = Cardinality(Taken(p, k + 1))
      OBVIOUS
    <2>2. k + 1 \in 1..L /\ (k + 1) - 1 = k /\ r[k] = Cardinality(Taken(p, k)) /\ k \in 0..L
      BY <1>1, <1>4, <2>1
    <2>3. r[k + 1] = r[k] + xs[k + 1] /\ r[k] \in Int /\ xs[k + 1] = IF p[k + 1].free THEN 0 ELSE 1
      BY <1>1, <1>2, <2>2
    <2>4. 1..(k + 1) = (1..k) \cup {k + 1} /\ k + 1 \notin 1..k
      OBVIOUS
    <2>5. CASE p[k + 1].free
      <3>1. Taken(p, k + 1) = Taken(p, k)
        BY <2>4, <2>5 DEF Taken
      <3> QED BY <2>2, <2>3, <2>5, <3>1
    <2>6. CASE ~p[k + 1].free
      <3>1. Taken(p, k + 1) = Taken(p, k) \cup {k + 1} /\ k + 1 \notin Taken(p, k)
        BY <2>4, <2>6 DEF Taken
      <3>2. Cardinality(Taken(p, k + 1)) = Cardinality(Taken(p, k)) + 1
        BY <3>1, TakenFinite, FS_AddElement
      <3> QED BY <2>2, <2>3, <2>6, <3>2
    <2> QED BY <2>5, <2>6
  <1>5. Nat \subseteq S
    <2> HIDE DEF S
    <2> QED BY <1>3, <1>4, Ind
  <1>6. L \in 0..L
    BY <1>1
  <1> QED BY <1>1, <1>2, <1>5, <1>6 DEF r, xs

LEMMA UsedIs ==
  ASSUME base \in Int, NEW p \in Seq(BlockT)
  PROVE  LET xs == [j \in 1..Len(p) |-> IF p[j].free THEN 0 ELSE Whole(p[j])]
         IN  base + Running(xs)[Len(p)] <= EndOf(p, Len(p)) /\ Running(xs)[Len(p)] \in Int
  <1> DEFINE L == Len(p)
             xs == [j \in 1..Len(p) |-> IF p[j].free THEN 0 ELSE Whole(p[j])]
             r == Running(xs)
             S == {k \in Nat : k <= L => base + r[k] <= EndOf(p, k)}
  <1>1. L \in Nat /\ \A k \in 1..L : Whole(p[k]) = p[k].size + 12 /\ p[k].size \in Nat
    BY BlockWhole
  <1>2. xs \in Seq(Int) /\ Len(xs) = L /\ \A k \in 1..L : xs[k] <= p[k].size + 12
    <2>1. \A k \in 1..L : (IF p[k].free THEN 0 ELSE Whole(p[k])) \in Int
                          /\ (IF p[k].free THEN 0 ELSE Whole(p[k])) <= p[k].size + 12
      BY <1>1
    <2> QED BY <1>1, <2>1
  <1> HIDE DEF xs
  <1>3. r \in [0..L -> Int] /\ r[0] = 0 /\ \A k \in 1..L : r[k] = r[k - 1] + xs[k]
    BY <1>2, RunningIs
  <1>4. /\ EndOf(p, 0) = base
        /\ \A i \in 1..L : EndOf(p, i) = EndOf(p, i - 1) + p[i].size + 12
        /\ \A i \in 0..L : EndOf(p, i) \in Int
    BY EndIs
  <1>5. \A k \in 1..L : xs[k] \in Int
    BY <1>2
  <1> HIDE DEF r
  <1>6. 0 \in S
    BY <1>3, <1>4
  <1>7. ASSUME NEW k \in Nat, k \in S PROVE k + 1 \in S
    <2>1. SUFFICES ASSUME k + 1 <= L PROVE base + r[k + 1] <= EndOf(p, k + 1)
      OBVIOUS
    <2>2. k + 1 \in 1..L /\ (k + 1) - 1 = k /\ base + r[k] <= EndOf(p, k) /\ k \in 0..L
      BY <1>1, <1>7, <2>1
    <2>3. /\ r[k + 1] = r[k] + xs[k + 1] /\ r[k] \in Int /\ xs[k + 1] \in Int /\ xs[k + 1] <= p[k + 1].size + 12
          /\ EndOf(p, k + 1) = EndOf(p, k) + p[k + 1].size + 12 /\ EndOf(p, k) \in Int /\ p[k + 1].size \in Nat
      BY <1>1, <1>2, <1>3, <1>4, <1>5, <2>2
    <2> DEFINE a == r[k]
               b == r[k + 1]
               x == xs[k + 1]
               e == EndOf(p, k)
               d == EndOf(p, k + 1)
               z == p[k + 1].size
    <2>4. b = a + x /\ a \in Int /\ x \in Int /\ x <= z + 12 /\ d = e + z + 12 /\ e \in Int /\ z \in Nat /\ base + a <= e
      BY <2>2, <2>3
    <2> HIDE DEF a, b, x, e, d, z
    <2>5. base + b <= d
      BY <2>4
    <2> QED BY <2>5 DEF b, d
  <1>8. Nat \subseteq S
    <2> HIDE DEF S
    <2> QED BY <1>6, <1>7, Ind
  <1>9. L \in 0..L
    BY <1>1
  <1> QED BY <1>1, <1>3, <1>8, <1>9 DEF r, xs

LEMMA StatsKept ==
  ASSUME base \in Int, HeapSize \in Int, NEW p, PoolOK(p), NEW s \in StatsT
  PROVE  StatsOK(p, update_stats(p, s))
  <1>1. p \in Seq(BlockT) /\ EndOf(p, Len(p)) = base + HeapSize
    BY DEF PoolOK
  <1> DEFINE a == Running([j \in 1..Len(p) |-> IF p[j].free THEN 0 ELSE 1])[Len(p)]
             u == Running([j \in 1..Len(p) |-> IF p[j].free THEN 0 ELSE Whole(p[j])])[Len(p)]
             t == update_stats(p, s)
  <1>2. a = Cardinality(Taken(p, Len(p))) /\ a \in Int
    BY <1>1, CountIs
  <1>3. base + u <= EndOf(p, Len(p)) /\ u \in Int
    BY <1>1, UsedIs
  <1>4. t = [s EXCEPT !.blocks = Len(p), !.allocated = a, !.used = u]
    BY DEF update_stats
  <1> HIDE DEF a, u, t
  <1>5. Len(p) \in Int
    BY <1>1
  <1>6. t \in StatsT /\ t.allocated = a /\ t.used = u
    BY <1>2, <1>3, <1>4, <1>5 DEF StatsT
  <1>7. u <= HeapSize
    BY <1>1, <1>3
  <1> QED BY <1>2, <1>6, <1>7 DEF StatsOK, t

LEMMA FirstHeap ==
  ASSUME base \in Int, HeapSize \in Int, HeapSize >= 20
  PROVE  PoolOK(cfl_heap_init) /\ Spans(cfl_heap_init) = {}
  <1> DEFINE x == HeapSize - HEADER - FOOTER
             b == FreeBlock(x)
             p == <<b>>
  <1>1. x \in Nat /\ x >= 8 /\ x = HeapSize - 12
    BY DEF HEADER, FOOTER
  <1> HIDE DEF x
  <1>2. b \in BlockT /\ b.free /\ b.size = x
    BY <1>1, FreeIsBlock
  <1> HIDE DEF b
  <1>3. p \in Seq(BlockT) /\ Len(p) = 1 /\ p[1] = b
    BY <1>2
  <1> HIDE DEF p
  <1>4. EndOf(p, 1) = EndOf(p, 0) + x + 12 /\ EndOf(p, 0) = base
    BY <1>2, <1>3, EndIs
  <1>5. NoFrag(p)
    BY <1>3 DEF NoFrag
  <1>6. Spans(p) = {}
    BY <1>2, <1>3 DEF Spans, SpansTo, Taken
  <1>7. PoolOK(p)
    BY <1>1, <1>3, <1>4, <1>5 DEF PoolOK
  <1> QED BY <1>6, <1>7 DEF cfl_heap_init, p, b, x

(* A block is no larger than the heap.                                     *)
LEMMA BlockFits ==
  ASSUME base \in Int, HeapSize \in Int, NEW p, PoolOK(p), NEW i \in DOMAIN p
  PROVE  p[i].size \in MIN_BLOCK_SIZE..HeapSize
  <1>1. p \in Seq(BlockT) /\ EndOf(p, Len(p)) = base + HeapSize /\ i \in 1..Len(p) /\ Len(p) \in Nat
    BY DEF PoolOK
  <1>2. p[i] \in BlockT
    BY <1>1
  <1>3. p[i].size \in Nat /\ p[i].size >= 8
    BY <1>2 DEF BlockT, MIN_BLOCK_SIZE
  <1>4. 0 \in 0..Len(p) /\ i \in 0..Len(p) /\ i - 1 \in 0..Len(p) /\ Len(p) \in 0..Len(p)
    BY <1>1
  <1>5. EndOf(p, 0) <= EndOf(p, i - 1) /\ EndOf(p, i) <= EndOf(p, Len(p))
    BY <1>1, <1>4, EndMono
  <1>6. EndOf(p, 0) = base /\ EndOf(p, i) = EndOf(p, i - 1) + p[i].size + 12 /\ EndOf(p, i - 1) \in Int
    BY <1>1, <1>4, EndIs
  <1> QED BY <1>1, <1>3, <1>5, <1>6 DEF MIN_BLOCK_SIZE

-----------------------------------------------------------------------------
(* The arenas.                                                             *)

Open == LiveArenas \ {0}
OpenOwners == {arena[i].owner : i \in Open}
(* Runs, when the arenas of the owners in X are open.                      *)
RunsIn(X, n) ==
    /\ \E k \in DOMAIN KbNodes : n \in KbNodes[k] /\ KbRoot(k) \in X
    /\ \A l \in DOMAIN Local : n \in Local[l] => l \in X
Recs(i) == {n \in Nodes : nmem[n] # NoIdx /\ nalloc[n] = i}
HasAux == {n \in Nodes : aux[n] # NoIdx}

ArenaT == [at : Int, size : Sizes, used : Nat, owner : Int]
HeapInv == base \in Int /\ PoolOK(pool) /\ StatsOK(pool, stats) /\ fault \in {"none", "oom"}
SlotsInv ==
    /\ arena \in [Ids -> ArenaT \cup {NoArena}] /\ \A i \in LiveArenas : arena[i].used <= arena[i].size
    /\ nextId \in Ids /\ nalloc \in [Nodes -> Ids \cup {NO_ALLOCATOR}]
    /\ nmem \in [Nodes -> Nat] /\ aux \in [Nodes -> Int]
    /\ (fault = "none" => 0 \in LiveArenas)
(* Each arena has an owner of its own.                                     *)
OwnInv ==
    /\ \A i \in Open : arena[i].owner \in Owners
    /\ \A i, j \in Open : arena[i].owner = arena[j].owner => i = j
(* Only running nodes have records; a local-arena node has its record in   *)
(* its arena, and any other running node belongs to the arena it is of.    *)
RunInv == \A n \in HasRecord : RunsIn(OpenOwners, n)
LocInv ==
    /\ \A l \in DOMAIN Local : l \in HasRecord => nalloc[l] \in Open /\ arena[nalloc[l]].owner = l
    /\ \A l \in DOMAIN Local : l \in OpenOwners => l \in HasRecord
PlaceInv ==
    \A n \in Nodes \ DOMAIN Local :
      RunsIn(OpenOwners, n) => nalloc[n] \in Open /\ n \in Residents(arena[nalloc[n]].owner)
(* Records lie in the used part of their arena, apart.                     *)
RecInv ==
    /\ \A n \in HasRecord : nmem[n] + RecSize[n] <= arena[nalloc[n]].used
    /\ \A n, q \in HasRecord : n # q /\ nalloc[n] = nalloc[q] =>
         nmem[n] + RecSize[n] <= nmem[q] \/ nmem[q] + RecSize[q] <= nmem[n]
(* No more of an arena is used than its records account for.               *)
RoomInv(g) ==
    \A i \in Open : /\ arena[i].used <= (4 * g) * Cardinality(Recs(i))
                    /\ (4 * g) * Cardinality(Residents(arena[i].owner)) <= arena[i].size
(* The spans of the heap are what arenas and aux records hold, one each.   *)
Kept(S, at, size) == at % 4 = 0 /\ \E s \in S : s[1] = at /\ at + size <= s[2]
HoldInv(S) ==
    /\ \A i \in Open : Kept(S, arena[i].at, arena[i].size)
    /\ \A n \in HasAux : Kept(S, aux[n], AuxSize[n])
    /\ \A i, j \in Open : arena[i].at = arena[j].at => i = j
    /\ \A n, q \in HasAux : aux[n] = aux[q] => n = q
    /\ \A i \in Open, n \in HasAux : arena[i].at # aux[n]
    /\ \A s \in S : (\E i \in Open : arena[i].at = s[1]) \/ (\E n \in HasAux : aux[n] = s[1])
MemInv(g) ==
    /\ HeapInv /\ SlotsInv /\ OwnInv /\ RunInv /\ LocInv /\ PlaceInv /\ RecInv /\ RoomInv(g)
    /\ HoldInv(Spans(pool))

-----------------------------------------------------------------------------
(* The shape of the KBs.                                                   *)

KbShape ==
    /\ \A k \in DOMAIN KbNodes : KbNodes[k] \subseteq Nat /\ KbNodes[k] # {} /\ IsFiniteSet(KbNodes[k])
    /\ \A j, k \in DOMAIN KbNodes : j # k => KbNodes[j] \cap KbNodes[k] = {}
LocalShape ==
    /\ \A l \in DOMAIN Local :
         /\ l \notin Local[l]
         /\ \E k \in DOMAIN KbNodes : Below(l) \subseteq KbNodes[k] \ {KbRoot(k)}
    /\ \A l, m \in DOMAIN Local :
         l = m \/ Below(l) \cap Below(m) = {} \/ Below(l) \subseteq Local[m] \/ Below(m) \subseteq Local[l]
LEMMA Shape ==
  /\ KbShape /\ LocalShape /\ IsFiniteSet(DOMAIN KbNodes)
  /\ HeapSize \in Int /\ HeapSize >= 20 /\ MaxArenas \in 2..NO_ALLOCATOR
  /\ KbSize \in [DOMAIN KbNodes -> Sizes] /\ LocalSize \in Sizes /\ Arena0Size \in Sizes
  /\ RecSize \in [Nodes -> Nat \ {0}] /\ AuxSize \in [Nodes -> Sizes \cup {0}]
  <1>1. HEADER + MIN_BLOCK_SIZE + FOOTER = 20
    BY DEF HEADER, MIN_BLOCK_SIZE, FOOTER
  <1>2. HeapSize \in Nat /\ HeapSize >= HEADER + MIN_BLOCK_SIZE + FOOTER
    BY CflMemoryAssumption
  <1>3. HeapSize \in Int /\ HeapSize >= 20
    BY <1>1, <1>2
  <1>4. KbShape /\ LocalShape
    BY CflMemoryAssumption DEF KbShape, LocalShape, KbRoot
  <1> QED BY <1>3, <1>4, CflMemoryAssumption

LEMMA RootIs ==
  /\ \A k \in DOMAIN KbNodes : KbRoot(k) \in KbNodes[k] /\ KbRoot(k) \in Nat /\ KbRoot(k) \in Nodes /\ KbRoot(k) \notin DOMAIN Local
  /\ \A j, k \in DOMAIN KbNodes : KbRoot(j) = KbRoot(k) => j = k
  /\ Nodes \subseteq Nat /\ \A k \in DOMAIN KbNodes : KbNodes[k] \subseteq Nodes
  /\ \A j, k \in DOMAIN KbNodes : \A n \in KbNodes[k] : n \in KbNodes[j] => j = k
  <1>1. KbShape /\ LocalShape
    BY Shape
  <1>2. \A k \in DOMAIN KbNodes : KbRoot(k) \in KbNodes[k] /\ KbRoot(k) \in Nat
    <2> SUFFICES ASSUME NEW k \in DOMAIN KbNodes PROVE KbRoot(k) \in KbNodes[k] /\ KbRoot(k) \in Nat
      OBVIOUS
    <2>1. KbNodes[k] \subseteq Nat /\ KbNodes[k] # {}
      BY <1>1 DEF KbShape
    <2> QED BY <2>1, MinIn DEF KbRoot
  <1>3. \A k \in DOMAIN KbNodes : KbNodes[k] \subseteq Nodes
    BY DEF Nodes
  <1>4. Nodes \subseteq Nat
    BY <1>1 DEF Nodes, KbShape
  <1>5. \A j, k \in DOMAIN KbNodes : \A n \in KbNodes[k] : n \in KbNodes[j] => j = k
    BY <1>1 DEF KbShape
  <1>6. ASSUME NEW k \in DOMAIN KbNodes, KbRoot(k) \in DOMAIN Local PROVE FALSE
    <2>1. PICK j \in DOMAIN KbNodes : Below(KbRoot(k)) \subseteq KbNodes[j] \ {KbRoot(j)}
      BY <1>1, <1>6 DEF LocalShape
    <2>2. KbRoot(k) \in Below(KbRoot(k))
      BY DEF Below
    <2>3. KbRoot(k) \in KbNodes[j] /\ KbRoot(k) # KbRoot(j)
      BY <2>1, <2>2
    <2>4. j = k
      BY <1>2, <1>5, <2>3
    <2> QED BY <2>3, <2>4
  <1>7. \A j, k \in DOMAIN KbNodes : KbRoot(j) = KbRoot(k) => j = k
    BY <1>2, <1>5
  <1> QED BY <1>2, <1>3, <1>4, <1>5, <1>6, <1>7

LEMMA LocalIs ==
  ASSUME NEW l \in DOMAIN Local
  PROVE  /\ l \in Nodes /\ Below(l) \subseteq Nodes /\ l \in Residents(l) /\ l \notin Local[l]
         /\ \A k \in DOMAIN KbNodes : (\E n \in Below(l) : n \in KbNodes[k]) => Below(l) \subseteq KbNodes[k]
         /\ \A m \in DOMAIN Local : m \in Local[l] => Local[m] \subseteq Local[l] /\ l \notin Below(m)
  <1>1. LocalShape
    BY Shape
  <1>2. PICK k \in DOMAIN KbNodes : Below(l) \subseteq KbNodes[k] \ {KbRoot(k)}
    BY <1>1 DEF LocalShape
  <1>3. l \in Below(l) /\ l \notin Local[l]
    BY <1>1 DEF Below, LocalShape
  <1>4. Below(l) \subseteq Nodes
    BY <1>2 DEF Nodes
  <1>5. \A j \in DOMAIN KbNodes : (\E n \in Below(l) : n \in KbNodes[j]) => Below(l) \subseteq KbNodes[j]
    BY <1>2, RootIs
  <1>6. ASSUME NEW m \in DOMAIN Local, m \in Local[l] PROVE Local[m] \subseteq Local[l] /\ l \notin Below(m)
    <2>1. m \in Below(m) /\ m \in Below(l) /\ m \notin Local[m] /\ l # m
      BY <1>1, <1>3, <1>6 DEF Below, LocalShape
    <2>2. Below(m) \subseteq Local[l] \/ Below(l) \subseteq Local[m]
      BY <1>1, <2>1 DEF LocalShape
    <2>3. Below(m) \subseteq Local[l]
      BY <2>1, <2>2
    <2> QED BY <1>3, <2>3 DEF Below
  <1>7. l \in Residents(l)
    BY <1>3, <1>6 DEF Residents
  <1> QED BY <1>3, <1>4, <1>5, <1>6, <1>7

LEMMA ResidentIs ==
  ASSUME NEW o \in Owners, NEW n \in Residents(o)
  PROVE  /\ n \in Nodes
         /\ \A k \in DOMAIN KbNodes : o = KbRoot(k) => n \in KbNodes[k]
         /\ o \in DOMAIN Local => n \in Below(o)
         /\ \A l \in DOMAIN Local : n \in Local[l] => o \in DOMAIN Local /\ o \in Below(l)
  <1>1. CASE o \in DOMAIN Local
    <2>1. n \in Below(o) /\ \A m \in DOMAIN Local : m \in Local[o] => n \notin Below(m)
      BY <1>1 DEF Residents
    <2>2. n \in Nodes /\ \A k \in DOMAIN KbNodes : o # KbRoot(k)
      BY <1>1, <2>1, LocalIs, RootIs
    <2>3. ASSUME NEW l \in DOMAIN Local, n \in Local[l] PROVE o \in Below(l)
      <3>1. n \in Below(l) /\ l \in Below(l) /\ o \in Below(o)
        BY <2>3 DEF Below
      <3>2. l = o \/ Below(l) \subseteq Local[o] \/ Below(o) \subseteq Local[l]
        BY <1>1, <2>1, <3>1, Shape DEF LocalShape
      <3>3. ~(Below(l) \subseteq Local[o])
        BY <2>1, <3>1
      <3> QED BY <3>1, <3>2, <3>3 DEF Below
    <2> QED BY <1>1, <2>1, <2>2, <2>3
  <1>2. CASE o \notin DOMAIN Local
    <2>1. /\ n \in Nodes /\ \E k \in DOMAIN KbNodes : o = KbRoot(k) /\ n \in KbNodes[k]
          /\ \A m \in DOMAIN Local : n \notin Below(m)
      BY <1>2 DEF Residents
    <2>2. \A l \in DOMAIN Local : n \notin Local[l]
      BY <2>1 DEF Below
    <2> QED BY <1>2, <2>1, <2>2, RootIs
  <1> QED BY <1>1, <1>2

LEMMA ResidentsFinite ==
  ASSUME NEW o \in Owners
  PROVE  IsFiniteSet(Residents(o))
  <1>1. PICK k \in DOMAIN KbNodes : Residents(o) \subseteq KbNodes[k]
    <2>1. CASE o \in DOMAIN Local
      <3>1. PICK k \in DOMAIN KbNodes : Below(o) \subseteq KbNodes[k] \ {KbRoot(k)}
        BY <2>1, Shape DEF LocalShape
      <3>2. Residents(o) \subseteq Below(o)
        BY <2>1 DEF Residents
      <3> QED BY <3>1, <3>2
    <2>2. CASE o \notin DOMAIN Local
      <3>1. PICK k \in DOMAIN KbNodes : o = KbRoot(k)
        BY <2>2 DEF Owners
      <3> QED BY <3>1, ResidentIs
    <2> QED BY <2>1, <2>2
  <1>2. IsFiniteSet(KbNodes[k])
    BY Shape DEF KbShape
  <1> QED BY <1>1, <1>2, FS_Subset

-----------------------------------------------------------------------------
(* What the arenas say of the nodes.                                       *)

LEMMA OpenIs ==
  /\ Open = {i \in Ids \ {0} : arena[i] # NoArena}
  /\ \A l : LocalArena(l) = {i \in Open : arena[i].owner = l}
  /\ \A l : LocalArena(l) = {} <=> l \notin OpenOwners
  /\ \A k : KbArena(k) = {i \in Open : arena[i].owner = KbRoot(k)}
  /\ \A k : KbArena(k) = {} <=> KbRoot(k) \notin OpenOwners
  /\ \A n : Runs(n) <=> RunsIn(OpenOwners, n)
  <1>1. Open = {i \in Ids \ {0} : arena[i] # NoArena}
    BY DEF Open, LiveArenas
  <1>2. \A l : LocalArena(l) = {i \in Open : arena[i].owner = l}
    BY <1>1 DEF LocalArena
  <1>3. \A k : KbArena(k) = {i \in Open : arena[i].owner = KbRoot(k)}
    BY <1>1 DEF KbArena, KbRoot
  <1>4. \A l : LocalArena(l) = {} <=> l \notin OpenOwners
    BY <1>2 DEF OpenOwners
  <1>5. \A k : KbArena(k) = {} <=> KbRoot(k) \notin OpenOwners
    BY <1>3 DEF OpenOwners
  <1>6. \A n : Runs(n) <=> RunsIn(OpenOwners, n)
    BY <1>4, <1>5 DEF Runs, RunsIn, Active
  <1> QED BY <1>1, <1>2, <1>3, <1>4, <1>5, <1>6

LEMMA RecOpen ==
  ASSUME RunInv, LocInv, PlaceInv, NEW n \in HasRecord
  PROVE  n \in Nodes /\ nalloc[n] \in Open /\ n \in Residents(arena[nalloc[n]].owner)
  <1>1. n \in Nodes /\ RunsIn(OpenOwners, n)
    BY DEF HasRecord, RunInv
  <1>2. CASE n \in DOMAIN Local
    BY <1>1, <1>2, LocalIs DEF LocInv
  <1>3. CASE n \notin DOMAIN Local
    BY <1>1, <1>3 DEF PlaceInv
  <1> QED BY <1>1, <1>2, <1>3

LEMMA ModFacts == ASSUME NEW M \in Nat \ {0}, NEW j \in 0..(M - 1) PROVE j % M = j /\ (j + M) % M = j
  OBVIOUS

LEMMA FreeId ==
  ASSUME MaxArenas \in Nat \ {0}, nextId \in Ids, Free # {}
  PROVE  find_free_id \in Free
  <1> DEFINE X == {i \in Ids : (nextId + i) % MaxArenas \in Free}
  <1>1. PICK j \in Ids : j \in Free
    BY DEF Free
  <1>2. X # {}
    <2>1. CASE j >= nextId
      <3>1. j - nextId \in Ids /\ nextId + (j - nextId) = j
        BY <1>1, <2>1 DEF Ids
      <3>2. j % MaxArenas = j
        BY <1>1, ModFacts DEF Ids
      <3>3. j - nextId \in X
        BY <1>1, <3>1, <3>2
      <3> QED BY <3>3
    <2>2. CASE ~(j >= nextId)
      <3>1. j + MaxArenas - nextId \in Ids /\ nextId + (j + MaxArenas - nextId) = j + MaxArenas
        BY <1>1, <2>2 DEF Ids
      <3>2. (j + MaxArenas) % MaxArenas = j
        BY <1>1, ModFacts DEF Ids
      <3>3. j + MaxArenas - nextId \in X
        BY <1>1, <3>1, <3>2
      <3> QED BY <3>3
    <2> QED BY <2>1, <2>2
  <1>3. X \subseteq Nat
    BY DEF Ids
  <1>4. Min(X) \in X
    <2> HIDE DEF X
    <2> QED BY <1>2, <1>3, MinIn
  <1>5. find_free_id = (nextId + Min(X)) % MaxArenas
    BY DEF find_free_id
  <1> QED BY <1>4, <1>5

LEMMA SomeFree ==
  ASSUME NEW g \in Nat, Roomy(g), SlotsInv, OwnInv, NEW o \in Owners, o \notin OpenOwners, fault = "none"
  PROVE  Free # {} /\ 0 \notin Free /\ find_free_id \in Ids \ {0} /\ arena[find_free_id] = NoArena
  <1>1. MaxArenas \in Nat \ {0} /\ nextId \in Ids /\ 0 \in LiveArenas
    BY Shape DEF SlotsInv, NO_ALLOCATOR
  <1>2. 0 \notin Free
    BY <1>1 DEF LiveArenas, Free
  <1>3. Free # {}
    <2> SUFFICES ASSUME Free = {} PROVE FALSE
      OBVIOUS
    <2> DEFINE D == 1..(MaxArenas - 1)
               T == Owners \ {o}
               f == [i \in D |-> arena[i].owner]
    <2>1. \A i \in D : i \in Open
      <3>1. \A i \in D : i \in Ids /\ i # 0
        BY <1>1 DEF Ids
      <3> QED BY <3>1 DEF Free, Open, LiveArenas
    <2>2. \A i \in D : f[i] \in T
      BY <2>1 DEF OwnInv, OpenOwners
    <2>3. \A i, j \in D : f[i] = f[j] => i = j
      BY <2>1 DEF OwnInv
    <2>4. f \in Injection(D, T)
      BY <2>2, <2>3 DEF Injection, IsInjective
    <2>5. IsFiniteSet(Owners)
      <3>1. IsFiniteSet(DOMAIN Local) /\ IsFiniteSet(DOMAIN KbNodes)
        BY Shape DEF Roomy
      <3> DEFINE R == {KbRoot(k) : k \in DOMAIN KbNodes}
                 h == [k \in DOMAIN KbNodes |-> KbRoot(k)]
      <3>2. h \in Surjection(DOMAIN KbNodes, R)
        BY DEF Surjection
      <3>3. IsFiniteSet(R)
        <4> HIDE DEF R, h
        <4> QED BY <3>1, <3>2, FS_Surjection
      <3>4. Owners = R \cup DOMAIN Local
        BY DEF Owners
      <3> HIDE DEF R
      <3> QED BY <3>1, <3>3, <3>4, FS_Union
    <2>6. IsFiniteSet(T) /\ Cardinality(T) = Cardinality(Owners) - 1
      BY <2>5, FS_RemoveElement
    <2>7. Cardinality(D) <= Cardinality(T)
      <3> HIDE DEF f, D, T
      <3> QED BY <2>4, <2>6, FS_Injection
    <2>8. Cardinality(D) = MaxArenas - 1
      BY <1>1, FS_Interval
    <2>9. Cardinality(Owners) \in Nat /\ Cardinality(Owners) < MaxArenas
      BY <2>5, FS_CardinalityType DEF Roomy
    <2> HIDE DEF D, T
    <2> QED BY <1>1, <2>6, <2>7, <2>8, <2>9
  <1>4. find_free_id \in Free
    BY <1>1, <1>3, FreeId
  <1> QED BY <1>2, <1>3, <1>4 DEF Free

-----------------------------------------------------------------------------
(* Steps of the heap.                                                      *)

LEMMA PoolPrime ==
  ASSUME base' = base, NEW q, pool' = q
  PROVE  Spans(pool)' = Spans(q) /\ (PoolOK(q) => PoolOK(pool)')
  BY DEF Spans, SpansTo, SpanOf, DataAt, DataEnd, BlockAt, EndOf, PoolOK, NoFrag, Taken

LEMMA HeapMalloc ==
  ASSUME HeapInv, NEW size \in Sizes, cfl_heap_malloc(pool, size).ok, pool' = cfl_heap_malloc(pool, size).pool,
         stats' = update_stats(cfl_heap_malloc(pool, size).pool, stats), base' = base, fault' = "none"
  PROVE  LET d == cfl_heap_malloc(pool, size).at
         IN  /\ HeapInv' /\ d \in Int /\ d % 4 = 0
             /\ \E e \in Int : Spans(pool)' = Spans(pool) \cup {<<d, e>>} /\ d + size <= e
             /\ \A s \in Spans(pool) : s[1] # d
  <1> DEFINE r == cfl_heap_malloc(pool, size)
             p == pool
             q == r.pool
  <1>1. base \in Int /\ PoolOK(p) /\ stats \in StatsT /\ HeapSize \in Int
    BY Shape DEF HeapInv, StatsOK
  <1>2. Granted(p, q, r.at, size)
    <2>1. r = cfl_heap_malloc(p, size) /\ r.ok
      OBVIOUS
    <2> HIDE DEF r, p
    <2> QED BY <1>1, <2>1, MallocGrants
  <1>3. PoolOK(q)
    BY <1>2 DEF Granted
  <1>4. StatsOK(q, update_stats(q, stats))
    <2> HIDE DEF q
    <2> QED BY <1>1, <1>3, StatsKept
  <1>5. pool' = q /\ stats' = update_stats(q, stats)
    OBVIOUS
  <1>6. Spans(pool)' = Spans(q) /\ PoolOK(pool)'
    <2> HIDE DEF q
    <2> QED BY <1>3, <1>5, PoolPrime
  <1>7. HeapInv'
    <2> HIDE DEF q
    <2> QED BY <1>1, <1>4, <1>5, <1>6 DEF HeapInv
  <1> QED BY <1>2, <1>6, <1>7 DEF Granted

LEMMA HeapFree ==
  ASSUME HeapInv, NEW d, NEW s \in Spans(pool), s[1] = d, pool' = cfl_heap_free(pool, d).pool,
         stats' = update_stats(cfl_heap_free(pool, d).pool, stats), base' = base, fault' = "none"
  PROVE  HeapInv' /\ Spans(pool)' = {t \in Spans(pool) : t[1] # d}
  <1> DEFINE q == cfl_heap_free(pool, d).pool
  <1>1. base \in Int /\ PoolOK(pool) /\ stats \in StatsT /\ HeapSize \in Int
    BY Shape DEF HeapInv, StatsOK
  <1>2. Freed(pool, q, d)
    BY <1>1, FreeFrees
  <1>3. PoolOK(q)
    BY <1>2 DEF Freed
  <1>4. StatsOK(q, update_stats(q, stats))
    <2> HIDE DEF q
    <2> QED BY <1>1, <1>3, StatsKept
  <1>5. pool' = q /\ stats' = update_stats(q, stats)
    OBVIOUS
  <1>6. Spans(pool)' = Spans(q) /\ PoolOK(pool)'
    <2> HIDE DEF q
    <2> QED BY <1>3, <1>5, PoolPrime
  <1>7. HeapInv'
    <2> HIDE DEF q
    <2> QED BY <1>1, <1>4, <1>5, <1>6 DEF HeapInv
  <1> QED BY <1>2, <1>6, <1>7 DEF Freed

LEMMA HeldFreed ==
  ASSUME HeapInv, NEW d, NEW n, Kept(Spans(pool), d, n)
  PROVE  cfl_heap_free(pool, d).ok /\ \E s \in Spans(pool) : s[1] = d
  <1>1. PICK s \in Spans(pool) : s[1] = d
    BY DEF Kept
  <1>2. base \in Int /\ PoolOK(pool)
    BY DEF HeapInv
  <1> QED BY <1>1, <1>2, FreeFrees

-----------------------------------------------------------------------------
(* A new arena.                                                            *)

LEMMA Numbers ==
  /\ NoIdx \in Nat /\ NoIdx # 0 /\ NoIdx % 4 = 3 /\ (\A x \in Sizes : x \in Nat /\ x >= 1 /\ x < NoIdx)
  /\ NO_ALLOCATOR \in Nat /\ (\A i \in Ids : i \in Nat /\ i # NO_ALLOCATOR) /\ NoArena \notin ArenaT
  /\ 0 \in Ids
  <1>1. NoIdx \in Nat /\ NoIdx # 0 /\ NoIdx % 4 = 3 /\ NoIdx = UINT16 - 1 /\ UINT16 \in Nat
    BY SMT DEF NoIdx, UINT16
  <1>2. \A x \in Sizes : x \in Nat /\ x >= 1 /\ x < NoIdx
    BY <1>1 DEF Sizes, ALIGN
  <1>3. NO_ALLOCATOR \in Nat /\ MaxArenas \in Nat /\ MaxArenas >= 1 /\ MaxArenas <= NO_ALLOCATOR
    <2>1. NO_ALLOCATOR \in Nat
      BY SMT DEF NO_ALLOCATOR
    <2> QED BY <2>1, Shape
  <1>4. \A i \in Ids : i \in Nat /\ i # NO_ALLOCATOR
    BY <1>3 DEF Ids
  <1>5. NoArena \notin ArenaT
    <2> SUFFICES ASSUME NoArena \in ArenaT PROVE FALSE
      OBVIOUS
    <2>1. NoArena.size \in Sizes
      BY DEF ArenaT
    <2>2. NoArena.size = 0
      BY DEF NoArena
    <2> QED BY <1>2, <2>1, <2>2
  <1>6. 0 \in Ids
    BY <1>3 DEF Ids
  <1> QED BY <1>1, <1>2, <1>3, <1>4, <1>5, <1>6

(* Arena a is made under id for owner o, whose nodes S had no records.     *)
Made(id, a, o, S, u) ==
    /\ id \in Ids \ {0} /\ arena[id] = NoArena /\ a \in ArenaT /\ a.owner = o /\ a.used = u /\ u <= a.size
    /\ o \in Owners /\ o \notin OpenOwners /\ o \in S /\ S \subseteq Nodes /\ S \cap HasRecord = {} /\ u \in Nat
    /\ (u > 0 => u = RecSize[o])
    /\ arena' = [arena EXCEPT ![id] = a]
    /\ nalloc' = [n \in Nodes |-> IF n \in S THEN id ELSE nalloc[n]]
    /\ nmem' = [n \in Nodes |-> IF n = o /\ u > 0 THEN 0 ELSE IF n \in S THEN NoIdx ELSE nmem[n]]
    /\ aux' = aux /\ nextId' \in Ids /\ fault' = "none" /\ fault = "none"

LEMMA MadeSees ==
  ASSUME NEW id, NEW a, NEW o, NEW S, NEW u, Made(id, a, o, S, u), SlotsInv
  PROVE  /\ Open' = Open \cup {id} /\ id \notin Open /\ arena'[id] = a /\ \A i \in Open : arena'[i] = arena[i]
         /\ OpenOwners' = OpenOwners \cup {o} /\ HasAux' = HasAux
         /\ HasRecord' = HasRecord \cup (IF u > 0 THEN {o} ELSE {}) /\ o \notin HasRecord
         /\ \A n \in HasRecord : nalloc'[n] = nalloc[n] /\ nmem'[n] = nmem[n]
         /\ nalloc'[o] = id /\ (u > 0 => nmem'[o] = 0)
         /\ \A n \in Nodes : nalloc'[n] = (IF n \in S THEN id ELSE nalloc[n])
         /\ 0 \in LiveArenas'
  <1>1. /\ id \in Ids /\ id # 0 /\ arena[id] = NoArena /\ a \in ArenaT /\ a.owner = o /\ o \in S /\ S \subseteq Nodes
        /\ S \cap HasRecord = {} /\ arena' = [arena EXCEPT ![id] = a] /\ u \in Nat /\ aux' = aux
        /\ nalloc' = [n \in Nodes |-> IF n \in S THEN id ELSE nalloc[n]]
        /\ nmem' = [n \in Nodes |-> IF n = o /\ u > 0 THEN 0 ELSE IF n \in S THEN NoIdx ELSE nmem[n]]
    BY DEF Made
  <1>2. arena \in [Ids -> ArenaT \cup {NoArena}] /\ a # NoArena /\ 0 \in LiveArenas /\ 0 \in Ids
    BY <1>1, Numbers DEF SlotsInv, Made
  <1>3. arena'[id] = a /\ \A i \in Ids : i # id => arena'[i] = arena[i]
    BY <1>1, <1>2
  <1>4. Open' = Open \cup {id} /\ id \notin Open
    BY <1>1, <1>2, <1>3 DEF Open, LiveArenas
  <1>5. \A i \in Open : arena'[i] = arena[i]
    BY <1>3, <1>4 DEF Open, LiveArenas
  <1>6. OpenOwners' = OpenOwners \cup {o}
    BY <1>1, <1>3, <1>4, <1>5 DEF OpenOwners
  <1>7. HasAux' = HasAux
    BY <1>1 DEF HasAux
  <1>8. \A n \in HasRecord : n \in Nodes /\ n \notin S /\ n # o
    BY <1>1 DEF HasRecord
  <1>9. \A n \in HasRecord : nalloc'[n] = nalloc[n] /\ nmem'[n] = nmem[n]
    BY <1>1, <1>8
  <1>10. HasRecord' = HasRecord \cup (IF u > 0 THEN {o} ELSE {})
    <2>1. \A n \in Nodes : nmem'[n] # NoIdx <=> (n \in HasRecord \/ (n = o /\ u > 0))
      <3> SUFFICES ASSUME NEW n \in Nodes PROVE nmem'[n] # NoIdx <=> (n \in HasRecord \/ (n = o /\ u > 0))
        OBVIOUS
      <3>1. nmem'[n] = IF n = o /\ u > 0 THEN 0 ELSE IF n \in S THEN NoIdx ELSE nmem[n]
        BY <1>1
      <3>2. n \in HasRecord <=> nmem[n] # NoIdx
        BY DEF HasRecord
      <3> QED BY <1>8, <3>1, <3>2, Numbers
    <2>2. o \in Nodes
      BY <1>1
    <2>3. HasRecord' = {n \in Nodes : nmem'[n] # NoIdx}
      BY DEF HasRecord
    <2>4. HasRecord \subseteq Nodes
      BY DEF HasRecord
    <2> QED BY <2>1, <2>2, <2>3, <2>4
  <1>11. nalloc'[o] = id /\ (u > 0 => nmem'[o] = 0) /\ \A n \in Nodes : nalloc'[n] = (IF n \in S THEN id ELSE nalloc[n])
    BY <1>1
  <1>12. 0 \in LiveArenas'
    BY <1>1, <1>2, <1>3 DEF LiveArenas
  <1> QED BY <1>3, <1>4, <1>5, <1>6, <1>7, <1>8, <1>9, <1>10, <1>11, <1>12

(* The heap gained the span that the arena or record at d of n bytes is.   *)
Gained(d, n) ==
    /\ HeapInv' /\ d \in Int /\ d % 4 = 0
    /\ \E e \in Int : Spans(pool)' = Spans(pool) \cup {<<d, e>>} /\ d + n <= e
    /\ \A s \in Spans(pool) : s[1] # d

LEMMA GainedKept ==
  ASSUME NEW d, NEW n, Gained(d, n)
  PROVE  /\ Kept(Spans(pool)', d, n) /\ \A x, m : Kept(Spans(pool), x, m) => Kept(Spans(pool)', x, m) /\ x # d
         /\ \A s \in Spans(pool)' : s \in Spans(pool) \/ s[1] = d
  <1>1. PICK e \in Int : Spans(pool)' = Spans(pool) \cup {<<d, e>>} /\ d + n <= e
    BY DEF Gained
  <1>2. <<d, e>>[1] = d /\ <<d, e>>[2] = e
    OBVIOUS
  <1>3. Kept(Spans(pool)', d, n)
    BY <1>1, <1>2 DEF Kept, Gained
  <1>4. \A x, m : Kept(Spans(pool), x, m) => Kept(Spans(pool)', x, m) /\ x # d
    BY <1>1 DEF Kept, Gained
  <1> QED BY <1>1, <1>2, <1>3, <1>4

LEMMA MadeKeeps ==
  ASSUME NEW g \in Nat, Roomy(g), MemInv(g), NEW id, NEW a, NEW o, NEW S, NEW u, Made(id, a, o, S, u),
         (4 * g) * Cardinality(Residents(o)) <= a.size, Gained(a.at, a.size)
  PROVE  HeapInv' /\ SlotsInv' /\ OwnInv' /\ RecInv' /\ RoomInv(g)' /\ HoldInv(Spans(pool))'
  <1>1. HeapInv /\ SlotsInv /\ OwnInv /\ RunInv /\ LocInv /\ PlaceInv /\ RecInv /\ RoomInv(g) /\ HoldInv(Spans(pool))
    BY DEF MemInv
  <1>2. /\ Open' = Open \cup {id} /\ id \notin Open /\ arena'[id] = a /\ \A i \in Open : arena'[i] = arena[i]
        /\ OpenOwners' = OpenOwners \cup {o} /\ HasAux' = HasAux
        /\ HasRecord' = HasRecord \cup (IF u > 0 THEN {o} ELSE {}) /\ o \notin HasRecord
        /\ \A n \in HasRecord : nalloc'[n] = nalloc[n] /\ nmem'[n] = nmem[n]
        /\ nalloc'[o] = id /\ (u > 0 => nmem'[o] = 0) /\ 0 \in LiveArenas'
    BY <1>1, MadeSees
  <1>3. /\ id \in Ids /\ id # 0 /\ arena[id] = NoArena /\ a \in ArenaT /\ a.owner = o /\ a.used = u /\ u <= a.size
        /\ o \in Owners /\ o \notin OpenOwners /\ o \in S /\ S \subseteq Nodes /\ u \in Nat /\ (u > 0 => u = RecSize[o])
        /\ arena' = [arena EXCEPT ![id] = a] /\ aux' = aux /\ nextId' \in Ids /\ fault' = "none"
        /\ nalloc' = [n \in Nodes |-> IF n \in S THEN id ELSE nalloc[n]]
        /\ nmem' = [n \in Nodes |-> IF n = o /\ u > 0 THEN 0 ELSE IF n \in S THEN NoIdx ELSE nmem[n]]
    BY DEF Made
  <1>4. \A n \in HasRecord : nalloc[n] \in Open
    BY <1>1, RecOpen
  <1>5. SlotsInv'
    <2>1. arena' \in [Ids -> ArenaT \cup {NoArena}]
      BY <1>1, <1>3 DEF SlotsInv
    <2>2. \A i \in LiveArenas' : arena'[i].used <= arena'[i].size
      <3> SUFFICES ASSUME NEW i \in LiveArenas' PROVE arena'[i].used <= arena'[i].size
        OBVIOUS
      <3>1. CASE i = id
        BY <1>2, <1>3, <3>1
      <3>2. CASE i # id
        <4>1. i \in Ids /\ arena'[i] = arena[i] /\ i \in LiveArenas
          BY <1>1, <1>3, <3>2 DEF LiveArenas, SlotsInv
        <4> QED BY <1>1, <4>1 DEF SlotsInv
      <3> QED BY <3>1, <3>2
    <2>3. nalloc' \in [Nodes -> Ids \cup {NO_ALLOCATOR}] /\ nmem' \in [Nodes -> Nat] /\ aux' \in [Nodes -> Int]
      BY <1>1, <1>3, Numbers DEF SlotsInv
    <2> QED BY <1>2, <1>3, <2>1, <2>2, <2>3 DEF SlotsInv
  <1>6. OwnInv'
    <2>1. \A i \in Open' : arena'[i].owner \in Owners
      BY <1>1, <1>2, <1>3 DEF OwnInv
    <2>2. \A i \in Open : arena[i].owner # o
      BY <1>3 DEF OpenOwners
    <2>3. \A i, j \in Open' : arena'[i].owner = arena'[j].owner => i = j
      BY <1>1, <1>2, <1>3, <2>2 DEF OwnInv
    <2> QED BY <2>1, <2>3 DEF OwnInv
  <1>7. RecInv'
    <2>1. ASSUME NEW n \in HasRecord' PROVE nmem'[n] + RecSize[n] <= arena'[nalloc'[n]].used
      <3>1. CASE n \in HasRecord
        <4>1. arena'[nalloc'[n]] = arena[nalloc[n]] /\ nmem'[n] = nmem[n]
          BY <1>2, <1>4, <3>1
        <4> QED BY <1>1, <3>1, <4>1 DEF RecInv
      <3>2. CASE n \notin HasRecord
        <4>1. n = o /\ u > 0
          BY <1>2, <3>2
        <4>2. nmem'[n] = 0 /\ arena'[nalloc'[n]].used = u /\ u = RecSize[n]
          BY <1>2, <1>3, <4>1
        <4> QED BY <1>3, <4>2
      <3> QED BY <3>1, <3>2
    <2>2. ASSUME NEW n \in HasRecord', NEW q \in HasRecord', n # q, nalloc'[n] = nalloc'[q]
          PROVE nmem'[n] + RecSize[n] <= nmem'[q] \/ nmem'[q] + RecSize[q] <= nmem'[n]
      <3>1. n \in HasRecord /\ q \in HasRecord
        BY <1>2, <1>4, <2>2
      <3> QED BY <1>1, <1>2, <2>2, <3>1 DEF RecInv
    <2> QED BY <2>1, <2>2 DEF RecInv
  <1>8. RoomInv(g)'
    <2>1. ASSUME NEW i \in Open PROVE Recs(i)' = Recs(i)
      <3>1. Recs(i)' = {n \in HasRecord' : nalloc'[n] = i}
        BY DEF Recs, HasRecord
      <3>2. Recs(i) = {n \in HasRecord : nalloc[n] = i}
        BY DEF Recs, HasRecord
      <3> QED BY <1>2, <3>1, <3>2
    <2>2. Recs(id)' = IF u > 0 THEN {o} ELSE {}
      <3>1. Recs(id)' = {n \in HasRecord' : nalloc'[n] = id}
        BY DEF Recs, HasRecord
      <3> QED BY <1>2, <1>4, <3>1
    <2>3. u <= (4 * g) * Cardinality(Recs(id)')
      <3>1. CASE u > 0
        <4>1. Cardinality(Recs(id)') = 1
          BY <2>2, <3>1, FS_Singleton
        <4>2. u <= 4 * g
          BY <1>3, <3>1 DEF Roomy
        <4> QED BY <1>3, <4>1, <4>2
      <3>2. CASE ~(u > 0)
        <4>1. Cardinality(Recs(id)') = 0 /\ u = 0
          BY <1>3, <2>2, <3>2, FS_EmptySet
        <4> QED BY <4>1
      <3> QED BY <3>1, <3>2
    <2>4. ASSUME NEW i \in Open'
          PROVE  /\ arena'[i].used <= (4 * g) * Cardinality(Recs(i)')
                 /\ (4 * g) * Cardinality(Residents(arena'[i].owner)) <= arena'[i].size
      <3>1. CASE i = id
        BY <1>2, <1>3, <2>3, <3>1
      <3>2. CASE i # id
        <4>1. i \in Open /\ arena'[i] = arena[i] /\ Recs(i)' = Recs(i)
          BY <1>2, <2>1, <3>2
        <4> QED BY <1>1, <4>1 DEF RoomInv
      <3> QED BY <3>1, <3>2
    <2> QED BY <2>4 DEF RoomInv
  <1>9. HoldInv(Spans(pool))'
    <2> DEFINE T == Spans(pool)'
    <2>1. /\ Kept(T, a.at, a.size) /\ \A x, m : Kept(Spans(pool), x, m) => Kept(T, x, m) /\ x # a.at
          /\ \A s \in T : s \in Spans(pool) \/ s[1] = a.at
      BY GainedKept
    <2> HIDE DEF T
    <2>2. \A i \in Open' : Kept(T, arena'[i].at, arena'[i].size)
      BY <1>1, <1>2, <2>1 DEF HoldInv
    <2>3. \A n \in HasAux' : Kept(T, aux'[n], AuxSize[n])
      BY <1>1, <1>2, <1>3, <2>1 DEF HoldInv
    <2>4. \A i \in Open : arena[i].at # a.at
      BY <1>1, <2>1 DEF HoldInv
    <2>5. \A n \in HasAux : aux[n] # a.at
      BY <1>1, <2>1 DEF HoldInv
    <2>6. \A i, j \in Open' : arena'[i].at = arena'[j].at => i = j
      BY <1>1, <1>2, <2>4 DEF HoldInv
    <2>7. \A n, q \in HasAux' : aux'[n] = aux'[q] => n = q
      BY <1>1, <1>2, <1>3 DEF HoldInv
    <2>8. \A i \in Open', n \in HasAux' : arena'[i].at # aux'[n]
      BY <1>1, <1>2, <1>3, <2>5 DEF HoldInv
    <2>9. ASSUME NEW s \in T PROVE (\E i \in Open' : arena'[i].at = s[1]) \/ (\E n \in HasAux' : aux'[n] = s[1])
      <3>1. CASE s[1] = a.at
        BY <1>2, <3>1
      <3>2. CASE s[1] # a.at
        <4>1. s \in Spans(pool)
          BY <2>1, <2>9, <3>2
        <4>2. (\E i \in Open : arena[i].at = s[1]) \/ (\E n \in HasAux : aux[n] = s[1])
          BY <1>1, <4>1 DEF HoldInv
        <4> QED BY <1>2, <1>3, <4>2
      <3> QED BY <3>1, <3>2
    <2> QED BY <2>2, <2>3, <2>6, <2>7, <2>8, <2>9 DEF HoldInv, T
  <1> QED BY <1>5, <1>6, <1>7, <1>8, <1>9 DEF Gained

-----------------------------------------------------------------------------
(* An arena given back.                                                    *)

Lost(d) == HeapInv' /\ Spans(pool)' = {s \in Spans(pool) : s[1] # d}

Dropped(id, o, S, to) ==
    /\ id \in Open /\ arena[id].owner = o /\ \A n \in S \cap HasRecord : nalloc[n] = id
    /\ to \in {0, NO_ALLOCATOR}
    /\ arena' = [arena EXCEPT ![id] = NoArena]
    /\ nalloc' = [n \in Nodes |-> IF n \in S THEN to ELSE IF nalloc[n] = id THEN 0 ELSE nalloc[n]]
    /\ nmem' = [n \in Nodes |-> IF nalloc[n] = id THEN NoIdx ELSE nmem[n]]
    /\ aux' = aux /\ nextId' = nextId /\ fault' = "none" /\ fault = "none"

LEMMA DroppedSees ==
  ASSUME NEW id, NEW o, NEW S, NEW to, Dropped(id, o, S, to), SlotsInv, OwnInv
  PROVE  /\ Open' = Open \ {id} /\ \A i \in Open' : arena'[i] = arena[i]
         /\ OpenOwners' = OpenOwners \ {o} /\ o \in OpenOwners /\ HasAux' = HasAux
         /\ HasRecord' = {n \in HasRecord : nalloc[n] # id}
         /\ \A n \in HasRecord' : nalloc'[n] = nalloc[n] /\ nmem'[n] = nmem[n]
         /\ 0 \in LiveArenas'
  <1>1. /\ id \in Open /\ arena[id].owner = o /\ \A n \in S \cap HasRecord : nalloc[n] = id
        /\ arena' = [arena EXCEPT ![id] = NoArena] /\ aux' = aux
        /\ nalloc' = [n \in Nodes |-> IF n \in S THEN to ELSE IF nalloc[n] = id THEN 0 ELSE nalloc[n]]
        /\ nmem' = [n \in Nodes |-> IF nalloc[n] = id THEN NoIdx ELSE nmem[n]]
    BY DEF Dropped
  <1>2. arena \in [Ids -> ArenaT \cup {NoArena}] /\ 0 \in LiveArenas /\ 0 \in Ids /\ id \in Ids /\ id # 0
    BY <1>1, Numbers DEF SlotsInv, Dropped, Open, LiveArenas
  <1>3. arena'[id] = NoArena /\ \A i \in Ids : i # id => arena'[i] = arena[i]
    BY <1>1, <1>2
  <1>4. Open' = Open \ {id}
    BY <1>3 DEF Open, LiveArenas
  <1>5. \A i \in Open' : arena'[i] = arena[i]
    BY <1>3, <1>4 DEF Open, LiveArenas
  <1>6. OpenOwners' = OpenOwners \ {o} /\ o \in OpenOwners
    <2>1. \A i \in Open : i # id => arena[i].owner # o
      BY <1>1 DEF OwnInv
    <2>2. OpenOwners' = {arena[i].owner : i \in Open \ {id}}
      BY <1>4, <1>5 DEF OpenOwners
    <2>3. OpenOwners = {arena[i].owner : i \in Open}
      BY DEF OpenOwners
    <2> QED BY <1>1, <2>1, <2>2, <2>3
  <1>7. HasAux' = HasAux
    BY <1>1 DEF HasAux
  <1>8. HasRecord' = {n \in HasRecord : nalloc[n] # id}
    BY <1>1 DEF HasRecord
  <1>9. \A n \in HasRecord' : nalloc'[n] = nalloc[n] /\ nmem'[n] = nmem[n]
    <2> SUFFICES ASSUME NEW n \in HasRecord' PROVE nalloc'[n] = nalloc[n] /\ nmem'[n] = nmem[n]
      OBVIOUS
    <2>1. n \in HasRecord /\ nalloc[n] # id /\ n \in Nodes /\ n \notin S
      BY <1>1, <1>8 DEF HasRecord
    <2> QED BY <1>1, <2>1
  <1>10. 0 \in LiveArenas'
    BY <1>2, <1>3 DEF LiveArenas
  <1> QED BY <1>4, <1>5, <1>6, <1>7, <1>8, <1>9, <1>10

LEMMA DroppedKeeps ==
  ASSUME NEW g \in Nat, MemInv(g), NEW id, NEW o, NEW S, NEW to, Dropped(id, o, S, to), Lost(arena[id].at)
  PROVE  HeapInv' /\ SlotsInv' /\ OwnInv' /\ RecInv' /\ RoomInv(g)' /\ HoldInv(Spans(pool))'
  <1>1. HeapInv /\ SlotsInv /\ OwnInv /\ RunInv /\ LocInv /\ PlaceInv /\ RecInv /\ RoomInv(g) /\ HoldInv(Spans(pool))
    BY DEF MemInv
  <1>2. /\ Open' = Open \ {id} /\ \A i \in Open' : arena'[i] = arena[i]
        /\ OpenOwners' = OpenOwners \ {o} /\ HasAux' = HasAux
        /\ HasRecord' = {n \in HasRecord : nalloc[n] # id}
        /\ \A n \in HasRecord' : nalloc'[n] = nalloc[n] /\ nmem'[n] = nmem[n]
        /\ 0 \in LiveArenas'
    BY <1>1, DroppedSees
  <1>3. /\ id \in Open /\ to \in {0, NO_ALLOCATOR} /\ arena' = [arena EXCEPT ![id] = NoArena] /\ aux' = aux
        /\ nextId' = nextId /\ fault' = "none" /\ arena[id].owner = o
        /\ nalloc' = [n \in Nodes |-> IF n \in S THEN to ELSE IF nalloc[n] = id THEN 0 ELSE nalloc[n]]
        /\ nmem' = [n \in Nodes |-> IF nalloc[n] = id THEN NoIdx ELSE nmem[n]]
    BY DEF Dropped
  <1>4. \A n \in HasRecord : nalloc[n] \in Open
    BY <1>1, RecOpen
  <1>5. SlotsInv'
    <2>1. arena' \in [Ids -> ArenaT \cup {NoArena}]
      BY <1>1, <1>3 DEF SlotsInv
    <2>2. \A i \in LiveArenas' : arena'[i].used <= arena'[i].size
      <3> SUFFICES ASSUME NEW i \in LiveArenas' PROVE arena'[i].used <= arena'[i].size
        OBVIOUS
      <3>1. i \in Ids /\ arena'[i] = arena[i] /\ i \in LiveArenas
        BY <1>1, <1>3 DEF LiveArenas, SlotsInv
      <3> QED BY <1>1, <3>1 DEF SlotsInv
    <2>3. nalloc' \in [Nodes -> Ids \cup {NO_ALLOCATOR}] /\ nmem' \in [Nodes -> Nat] /\ aux' \in [Nodes -> Int]
      BY <1>1, <1>3, Numbers DEF SlotsInv
    <2> QED BY <1>1, <1>2, <1>3, <2>1, <2>2, <2>3 DEF SlotsInv
  <1>6. OwnInv'
    BY <1>1, <1>2 DEF OwnInv
  <1>7. RecInv'
    <2>1. ASSUME NEW n \in HasRecord' PROVE nmem'[n] + RecSize[n] <= arena'[nalloc'[n]].used
      <3>1. n \in HasRecord /\ nalloc[n] \in Open' /\ nalloc'[n] = nalloc[n] /\ nmem'[n] = nmem[n]
        BY <1>2, <1>4
      <3>2. arena'[nalloc'[n]] = arena[nalloc[n]]
        BY <1>2, <3>1
      <3> QED BY <1>1, <3>1, <3>2 DEF RecInv
    <2>2. ASSUME NEW n \in HasRecord', NEW q \in HasRecord', n # q, nalloc'[n] = nalloc'[q]
          PROVE nmem'[n] + RecSize[n] <= nmem'[q] \/ nmem'[q] + RecSize[q] <= nmem'[n]
      <3>1. n \in HasRecord /\ q \in HasRecord
        BY <1>2
      <3> QED BY <1>1, <1>2, <2>2, <3>1 DEF RecInv
    <2> QED BY <2>1, <2>2 DEF RecInv
  <1>8. RoomInv(g)'
    <2>1. ASSUME NEW i \in Open' PROVE Recs(i)' = Recs(i)
      <3>1. Recs(i)' = {n \in HasRecord' : nalloc'[n] = i}
        BY DEF Recs, HasRecord
      <3>2. Recs(i) = {n \in HasRecord : nalloc[n] = i}
        BY DEF Recs, HasRecord
      <3> QED BY <1>2, <3>1, <3>2
    <2> QED BY <1>1, <1>2, <2>1 DEF RoomInv
  <1>9. HoldInv(Spans(pool))'
    <2> DEFINE T == Spans(pool)'
               d == arena[id].at
    <2>1. T = {s \in Spans(pool) : s[1] # d}
      BY DEF Lost
    <2> HIDE DEF T
    <2>2. \A x, m : Kept(Spans(pool), x, m) /\ x # d => Kept(T, x, m)
      BY <2>1 DEF Kept
    <2>3. \A i \in Open' : arena[i].at # d
      BY <1>1, <1>2, <1>3 DEF HoldInv
    <2>4. \A n \in HasAux : aux[n] # d
      BY <1>1, <1>3 DEF HoldInv
    <2> HIDE DEF d
    <2>5. \A i \in Open' : Kept(T, arena'[i].at, arena'[i].size)
      BY <1>1, <1>2, <2>2, <2>3 DEF HoldInv
    <2>6. \A n \in HasAux' : Kept(T, aux'[n], AuxSize[n])
      BY <1>1, <1>2, <1>3, <2>2, <2>4 DEF HoldInv
    <2>7. \A i, j \in Open' : arena'[i].at = arena'[j].at => i = j
      BY <1>1, <1>2 DEF HoldInv
    <2>8. \A n, q \in HasAux' : aux'[n] = aux'[q] => n = q
      BY <1>1, <1>2, <1>3 DEF HoldInv
    <2>9. \A i \in Open', n \in HasAux' : arena'[i].at # aux'[n]
      BY <1>1, <1>2, <1>3 DEF HoldInv
    <2>10. ASSUME NEW s \in T PROVE (\E i \in Open' : arena'[i].at = s[1]) \/ (\E n \in HasAux' : aux'[n] = s[1])
      <3>1. s \in Spans(pool) /\ s[1] # d
        BY <2>1
      <3>2. (\E i \in Open : arena[i].at = s[1]) \/ (\E n \in HasAux : aux[n] = s[1])
        BY <1>1, <3>1 DEF HoldInv
      <3>3. \A i \in Open : arena[i].at = s[1] => i \in Open'
        BY <1>2, <3>1 DEF d
      <3> QED BY <1>2, <1>3, <3>2, <3>3
    <2> QED BY <2>5, <2>6, <2>7, <2>8, <2>9, <2>10 DEF HoldInv, T
  <1> QED BY <1>5, <1>6, <1>7, <1>8, <1>9 DEF Lost

-----------------------------------------------------------------------------
(* The engine's steps.                                                     *)

LEMMA ArenasKept ==
  ASSUME NEW g \in Nat, MemInv(g), arena' = arena, nalloc' = nalloc, nmem' = nmem
  PROVE  OwnInv' /\ RunInv' /\ LocInv' /\ PlaceInv' /\ RecInv' /\ RoomInv(g)' /\ Open' = Open /\ LiveArenas' = LiveArenas
  <1>1. OwnInv /\ RunInv /\ LocInv /\ PlaceInv /\ RecInv /\ RoomInv(g)
    BY DEF MemInv
  <1>2. LiveArenas' = LiveArenas
    BY DEF LiveArenas
  <1>3. Open' = Open
    BY <1>2 DEF Open
  <1>4. OpenOwners' = OpenOwners /\ HasRecord' = HasRecord
    BY <1>3 DEF OpenOwners, HasRecord
  <1>5. \A i : Recs(i)' = Recs(i)
    BY DEF Recs
  <1>6. OwnInv'
    BY <1>1, <1>3 DEF OwnInv
  <1>7. RunInv' /\ LocInv' /\ PlaceInv'
    BY <1>1, <1>3, <1>4 DEF RunInv, LocInv, PlaceInv
  <1>8. RecInv'
    BY <1>1, <1>4 DEF RecInv
  <1>9. RoomInv(g)'
    BY <1>1, <1>3, <1>5 DEF RoomInv
  <1> QED BY <1>2, <1>3, <1>6, <1>7, <1>8, <1>9

LEMMA FaultKeeps ==
  ASSUME NEW g \in Nat, MemInv(g), Fault("oom")
  PROVE  MemInv(g)'
  <1>1. /\ fault' = "oom" /\ pool' = pool /\ base' = base /\ arena' = arena /\ nextId' = nextId /\ nalloc' = nalloc
        /\ nmem' = nmem /\ aux' = aux /\ stats' = stats
    BY DEF Fault
  <1>2. OwnInv' /\ RunInv' /\ LocInv' /\ PlaceInv' /\ RecInv' /\ RoomInv(g)' /\ Open' = Open /\ LiveArenas' = LiveArenas
    BY <1>1, ArenasKept
  <1>3. Spans(pool)' = Spans(pool) /\ (PoolOK(pool) => PoolOK(pool)')
    BY <1>1, PoolPrime
  <1>4. HeapInv'
    BY <1>1, <1>3 DEF MemInv, HeapInv
  <1>5. SlotsInv'
    BY <1>1, <1>2 DEF MemInv, SlotsInv
  <1>6. HasAux' = HasAux
    BY <1>1 DEF HasAux
  <1>7. HoldInv(Spans(pool))'
    BY <1>1, <1>2, <1>3, <1>6 DEF MemInv, HoldInv
  <1> QED BY <1>2, <1>4, <1>5, <1>7 DEF MemInv

LEMMA CreateMakes ==
  ASSUME NEW g \in Nat, Roomy(g), MemInv(g), fault = "none", NEW o \in Owners, o \notin OpenOwners, NEW size \in Sizes,
         NEW S, S \subseteq Nodes, o \in S, S \cap HasRecord = {}, NEW u \in Nat, u <= size, u > 0 => u = RecSize[o],
         (4 * g) * Cardinality(Residents(o)) <= align_up(size, ALIGN), cfl_heap_arena_create(o, size, S, u)
  PROVE  Fault("oom") \/ \E id, a : /\ Made(id, a, o, S, u) /\ Gained(a.at, a.size)
                                    /\ (4 * g) * Cardinality(Residents(o)) <= a.size
  <1> DEFINE z == align_up(size, ALIGN)
             r == cfl_heap_malloc(pool, z)
             id == find_free_id
             a == [at |-> r.at, size |-> z, used |-> u, owner |-> o]
  <1>1. HeapInv /\ SlotsInv /\ OwnInv
    BY DEF MemInv
  <1>2. Free # {} /\ id \in Ids \ {0} /\ arena[id] = NoArena
    BY <1>1, SomeFree
  <1>3. z \in Sizes /\ z >= size /\ z \in Nat /\ size \in Nat
    BY AlignFacts, Numbers
  <1>4. ~(u > size)
    BY <1>3
  <1>5. CASE ~r.ok
    BY <1>2, <1>5 DEF cfl_heap_arena_create
  <1>6. CASE r.ok
    <2>1. /\ pool' = r.pool /\ stats' = update_stats(r.pool, stats) /\ Fine
          /\ arena' = [arena EXCEPT ![id] = a]
          /\ nalloc' = [n \in Nodes |-> IF n \in S THEN id ELSE nalloc[n]]
          /\ nmem' = [n \in Nodes |-> IF n = o /\ u > 0 THEN 0 ELSE IF n \in S THEN NoIdx ELSE nmem[n]]
          /\ nextId' = (id + 1) % MaxArenas /\ aux' = aux
      BY <1>2, <1>4, <1>6 DEF cfl_heap_arena_create
    <2>2. fault' = "none" /\ base' = base
      BY <2>1 DEF Fine
    <2>3. Gained(r.at, z)
      <3> HIDE DEF z
      <3>1. /\ HeapInv' /\ r.at \in Int /\ r.at % 4 = 0
            /\ \E e \in Int : Spans(pool)' = Spans(pool) \cup {<<r.at, e>>} /\ r.at + z <= e
            /\ \A s \in Spans(pool) : s[1] # r.at
        BY <1>1, <1>3, <1>6, <2>1, <2>2, HeapMalloc
      <3> QED BY <3>1 DEF Gained
    <2>4. r.at \in Int
      BY <2>3 DEF Gained
    <2>5. o \in Int
      <3>1. CASE o \in DOMAIN Local
        <4>1. o \in Nodes /\ Nodes \subseteq Nat
          BY <3>1, LocalIs, RootIs
        <4> QED BY <4>1
      <3>2. CASE o \notin DOMAIN Local
        <4>1. PICK k \in DOMAIN KbNodes : o = KbRoot(k)
          BY <3>2 DEF Owners
        <4>2. KbRoot(k) \in Nat
          BY RootIs
        <4> QED BY <4>1, <4>2
      <3> QED BY <3>1, <3>2
    <2>6. a \in ArenaT /\ a.owner = o /\ a.used = u /\ a.size = z /\ a.at = r.at /\ u <= z
      <3>1. u <= z
        BY <1>3
      <3> HIDE DEF z, r
      <3> QED BY <1>3, <2>4, <2>5, <3>1 DEF ArenaT
    <2>7. nextId' \in Ids
      <3>1. MaxArenas \in Nat \ {0} /\ id + 1 \in Nat
        BY <1>2, Shape, Numbers DEF Ids, NO_ALLOCATOR
      <3>2. (id + 1) % MaxArenas \in 0..(MaxArenas - 1)
        <4> HIDE DEF id
        <4> QED BY <3>1
      <3> QED BY <2>1, <3>2 DEF Ids
    <2> HIDE DEF a, id, r, z
    <2>8. Made(id, a, o, S, u)
      BY <1>2, <2>1, <2>2, <2>6, <2>7 DEF Made
    <2>9. Gained(a.at, a.size) /\ (4 * g) * Cardinality(Residents(o)) <= a.size
      BY <2>3, <2>6 DEF z
    <2> QED BY <2>8, <2>9
  <1> QED BY <1>5, <1>6

LEMMA KbStarts ==
  ASSUME NEW g \in Nat, Roomy(g), MemInv(g), fault = "none", NEW k \in DOMAIN KbNodes, cfl_add_test_by_index(k)
  PROVE  MemInv(g)'
  <1> DEFINE o == KbRoot(k)
             S == KbNodes[k]
             X == OpenOwners
  <1>1. HeapInv /\ SlotsInv /\ OwnInv /\ RunInv /\ LocInv /\ PlaceInv /\ RecInv /\ RoomInv(g) /\ HoldInv(Spans(pool))
    BY DEF MemInv
  <1>2. o \notin X /\ cfl_heap_arena_create(o, KbSize[k], S, 0)
    BY OpenIs DEF cfl_add_test_by_index, KbRoot
  <1>3. o \in Owners /\ o \in S /\ S \subseteq Nodes /\ o \notin DOMAIN Local /\ KbSize[k] \in Sizes
    BY RootIs, Shape DEF Owners
  <1>4. \A n \in S : ~RunsIn(X, n)
    BY <1>2, RootIs DEF RunsIn
  <1>5. S \cap HasRecord = {}
    BY <1>1, <1>4 DEF RunInv
  <1>6. CASE Fault("oom")
    BY <1>6, FaultKeeps
  <1>7. CASE ~Fault("oom")
    <2>1. PICK id, a : /\ Made(id, a, o, S, 0) /\ Gained(a.at, a.size)
                       /\ (4 * g) * Cardinality(Residents(o)) <= a.size
      <3>1. 0 <= KbSize[k] /\ 0 \in Nat /\ ~(0 > 0)
        BY <1>3, Numbers
      <3>2. (4 * g) * Cardinality(Residents(o)) <= align_up(KbSize[k], ALIGN)
        BY DEF Roomy
      <3> HIDE DEF o, S, X
      <3> QED BY <1>2, <1>3, <1>5, <1>7, <3>1, <3>2, CreateMakes DEF X
    <2>2. HeapInv' /\ SlotsInv' /\ OwnInv' /\ RecInv' /\ RoomInv(g)' /\ HoldInv(Spans(pool))'
      BY <2>1, MadeKeeps
    <2>3. /\ Open' = Open \cup {id} /\ id \notin Open /\ arena'[id] = a /\ \A i \in Open : arena'[i] = arena[i]
          /\ OpenOwners' = X \cup {o} /\ HasRecord' = HasRecord
          /\ \A n \in HasRecord : nalloc'[n] = nalloc[n]
          /\ \A n \in Nodes : nalloc'[n] = (IF n \in S THEN id ELSE nalloc[n])
      <3>1. HasRecord' = HasRecord \cup (IF 0 > 0 THEN {o} ELSE {})
        BY <1>1, <2>1, MadeSees
      <3>2. HasRecord' = HasRecord
        BY <3>1
      <3> QED BY <1>1, <2>1, <3>2, MadeSees
    <2>4. a.owner = o
      BY <2>1 DEF Made
    <2> HIDE DEF X
    <2>5. RunInv'
      BY <1>1, <2>3 DEF RunInv, RunsIn, X
    <2>6. LocInv'
      BY <1>1, <1>3, <2>3 DEF LocInv, X
    <2>7. ASSUME NEW n \in Nodes \ DOMAIN Local, RunsIn(X \cup {o}, n), n \in S
          PROVE nalloc'[n] \in Open' /\ n \in Residents(arena'[nalloc'[n]].owner)
      <3>1. nalloc'[n] = id /\ arena'[nalloc'[n]].owner = o
        BY <2>3, <2>4, <2>7
      <3>2. ASSUME NEW m \in DOMAIN Local, n \in Below(m) PROVE FALSE
        <4>1. n \in Local[m]
          BY <3>2 DEF Below
        <4>2. m \in X
          BY <1>3, <2>7, <4>1 DEF RunsIn
        <4>3. RunsIn(X, m)
          BY <1>1, <4>2 DEF LocInv, RunInv, X
        <4>4. m \in S
          <5>1. m \in Below(m) /\ Below(m) \subseteq KbNodes[k]
            BY <2>7, <3>2, LocalIs DEF Below
          <5> QED BY <5>1
        <4> QED BY <1>4, <4>3, <4>4 DEF X
      <3>3. n \in Residents(o)
        BY <1>3, <2>7, <3>2 DEF Residents
      <3> QED BY <2>3, <3>1, <3>3
    <2>8. ASSUME NEW n \in Nodes \ DOMAIN Local, RunsIn(X \cup {o}, n), n \notin S
          PROVE nalloc'[n] \in Open' /\ n \in Residents(arena'[nalloc'[n]].owner)
      <3>1. RunsIn(X, n)
        BY <1>3, <2>8, RootIs DEF RunsIn
      <3>2. nalloc[n] \in Open /\ n \in Residents(arena[nalloc[n]].owner)
        BY <1>1, <3>1 DEF PlaceInv, X
      <3> QED BY <2>3, <2>8, <3>2
    <2>9. PlaceInv'
      BY <2>3, <2>7, <2>8 DEF PlaceInv
    <2> QED BY <2>2, <2>5, <2>6, <2>9 DEF MemInv
  <1> QED BY <1>6, <1>7

LEMMA LocalStarts ==
  ASSUME NEW g \in Nat, Roomy(g), MemInv(g), fault = "none", NEW l \in DOMAIN Local, cfl_local_arena_init_one_shot_fn(l)
  PROVE  MemInv(g)'
  <1> DEFINE S == Below(l)
             X == OpenOwners
             u == RecSize[l]
  <1>1. HeapInv /\ SlotsInv /\ OwnInv /\ RunInv /\ LocInv /\ PlaceInv /\ RecInv /\ RoomInv(g) /\ HoldInv(Spans(pool))
    BY DEF MemInv
  <1>2. l \in Nodes /\ S \subseteq Nodes /\ l \in S /\ l \in Owners /\ l \notin Local[l]
    BY LocalIs DEF Below, Owners
  <1>3. RunsIn(X, l) /\ l \notin HasRecord /\ cfl_heap_arena_create(l, LocalSize, S, u)
    BY OpenIs DEF cfl_local_arena_init_one_shot_fn, Below, HasRecord
  <1>4. l \notin X
    BY <1>1, <1>3 DEF LocInv
  <1>5. S \cap HasRecord = {}
    BY <1>1, <1>3, <1>4 DEF RunInv, RunsIn, Below
  <1>6. u \in Nat /\ u > 0 /\ u <= LocalSize /\ LocalSize \in Sizes
    BY <1>2, Shape DEF Roomy
  <1>7. CASE Fault("oom")
    BY <1>7, FaultKeeps
  <1>8. CASE ~Fault("oom")
    <2>1. PICK id, a : /\ Made(id, a, l, S, u) /\ Gained(a.at, a.size)
                       /\ (4 * g) * Cardinality(Residents(l)) <= a.size
      <3>1. (4 * g) * Cardinality(Residents(l)) <= align_up(LocalSize, ALIGN) /\ (u > 0 => u = RecSize[l])
        BY DEF Roomy
      <3> HIDE DEF u, S, X
      <3> QED BY <1>2, <1>3, <1>4, <1>5, <1>6, <1>8, <3>1, CreateMakes DEF X
    <2>2. HeapInv' /\ SlotsInv' /\ OwnInv' /\ RecInv' /\ RoomInv(g)' /\ HoldInv(Spans(pool))'
      BY <2>1, MadeKeeps
    <2>3. /\ Open' = Open \cup {id} /\ id \notin Open /\ arena'[id] = a /\ \A i \in Open : arena'[i] = arena[i]
          /\ OpenOwners' = X \cup {l} /\ HasRecord' = HasRecord \cup {l}
          /\ \A n \in HasRecord : nalloc'[n] = nalloc[n]
          /\ \A n \in Nodes : nalloc'[n] = (IF n \in S THEN id ELSE nalloc[n])
      <3>1. HasRecord' = HasRecord \cup (IF u > 0 THEN {l} ELSE {})
        BY <1>1, <2>1, MadeSees
      <3>2. HasRecord' = HasRecord \cup {l}
        BY <1>6, <3>1
      <3> QED BY <1>1, <2>1, <3>2, MadeSees
    <2>4. a.owner = l
      BY <2>1 DEF Made
    <2> HIDE DEF X
    <2>5. RunInv'
      BY <1>1, <1>3, <2>3 DEF RunInv, RunsIn, X
    <2>6. LocInv'
      <3>1. nalloc'[l] = id
        BY <1>2, <2>3
      <3> QED BY <1>1, <2>3, <2>4, <3>1 DEF LocInv, X
    <2>7. ASSUME NEW n \in Nodes \ DOMAIN Local, RunsIn(X \cup {l}, n), n \in S
          PROVE nalloc'[n] \in Open' /\ n \in Residents(arena'[nalloc'[n]].owner)
      <3>1. nalloc'[n] = id /\ arena'[nalloc'[n]].owner = l
        BY <2>3, <2>4, <2>7
      <3>2. ASSUME NEW m \in DOMAIN Local, m \in Local[l], n \in Below(m) PROVE FALSE
        <4>1. n \in Local[m] /\ m # l
          BY <1>2, <3>2 DEF Below
        <4>2. m \in X
          BY <2>7, <4>1 DEF RunsIn
        <4>3. RunsIn(X, m)
          BY <1>1, <4>2 DEF LocInv, RunInv, X
        <4> QED BY <1>4, <3>2, <4>3 DEF RunsIn, X
      <3>3. n \in Residents(l)
        BY <2>7, <3>2 DEF Residents
      <3> QED BY <2>3, <3>1, <3>3
    <2>8. ASSUME NEW n \in Nodes \ DOMAIN Local, RunsIn(X \cup {l}, n), n \notin S
          PROVE nalloc'[n] \in Open' /\ n \in Residents(arena'[nalloc'[n]].owner)
      <3>1. n \notin Local[l]
        BY <2>8 DEF Below
      <3>2. RunsIn(X, n)
        BY <2>8, <3>1, RootIs DEF RunsIn
      <3>3. nalloc[n] \in Open /\ n \in Residents(arena[nalloc[n]].owner)
        BY <1>1, <3>2 DEF PlaceInv, X
      <3> QED BY <2>3, <2>8, <3>3
    <2>9. PlaceInv'
      BY <2>3, <2>7, <2>8 DEF PlaceInv
    <2> QED BY <2>2, <2>5, <2>6, <2>9 DEF MemInv
  <1> QED BY <1>7, <1>8

LEMMA DestroyDrops ==
  ASSUME NEW g \in Nat, MemInv(g), fault = "none", NEW id \in Open, NEW o, arena[id].owner = o, NEW S, NEW to \in {0, NO_ALLOCATOR},
         \A n \in S \cap HasRecord : nalloc[n] = id, cfl_heap_arena_destroy(id, o, to, S)
  PROVE  Dropped(id, o, S, to) /\ Lost(arena[id].at)
  <1> DEFINE d == arena[id].at
             r == cfl_heap_free(pool, d)
  <1>1. HeapInv /\ HoldInv(Spans(pool))
    BY DEF MemInv
  <1>2. Kept(Spans(pool), d, arena[id].size)
    BY <1>1 DEF HoldInv
  <1>3. r.ok /\ \E s \in Spans(pool) : s[1] = d
    BY <1>1, <1>2, HeldFreed
  <1>4. id # 0 /\ arena[id] # NoArena
    BY DEF Open, LiveArenas
  <1>5. /\ pool' = r.pool /\ stats' = update_stats(r.pool, stats) /\ Fine
        /\ arena' = [arena EXCEPT ![id] = NoArena]
        /\ nalloc' = [n \in Nodes |-> IF n \in S THEN to ELSE IF nalloc[n] = id THEN 0 ELSE nalloc[n]]
        /\ Forget(id) /\ nextId' = nextId /\ aux' = aux
    BY <1>3, <1>4 DEF cfl_heap_arena_destroy
  <1>6. fault' = "none" /\ base' = base
    BY <1>5 DEF Fine
  <1>7. PICK s \in Spans(pool) : s[1] = d
    BY <1>3
  <1>8. Lost(d)
    <2> HIDE DEF d
    <2>1. HeapInv' /\ Spans(pool)' = {t \in Spans(pool) : t[1] # d}
      BY <1>1, <1>5, <1>6, <1>7, HeapFree
    <2> QED BY <2>1 DEF Lost
  <1>9. Dropped(id, o, S, to)
    BY <1>5, <1>6 DEF Dropped, Forget
  <1> QED BY <1>8, <1>9

LEMMA KbStops ==
  ASSUME NEW g \in Nat, MemInv(g), fault = "none", NEW k \in DOMAIN KbNodes, cfl_delete_test_by_index(k)
  PROVE  MemInv(g)'
  <1> DEFINE o == KbRoot(k)
             S == KbNodes[k]
             X == OpenOwners
  <1>1. HeapInv /\ SlotsInv /\ OwnInv /\ RunInv /\ LocInv /\ PlaceInv /\ RecInv /\ RoomInv(g) /\ HoldInv(Spans(pool))
    BY DEF MemInv
  <1>2. \A l \in DOMAIN Local : l \in S => l \notin X
    BY OpenIs DEF cfl_delete_test_by_index
  <1>3. PICK id \in Open : arena[id].owner = o /\ cfl_heap_arena_destroy(id, o, NO_ALLOCATOR, S)
    BY OpenIs DEF cfl_delete_test_by_index, KbRoot
  <1>4. o \in Owners /\ o \notin DOMAIN Local
    BY RootIs DEF Owners
  <1>5. ASSUME NEW n \in S \cap HasRecord PROVE nalloc[n] = id
    <2> DEFINE w == arena[nalloc[n]].owner
    <2>1. nalloc[n] \in Open /\ n \in Residents(w) /\ n \in S
      BY <1>1, RecOpen
    <2>2. w \in Owners /\ w \in X
      BY <1>1, <2>1 DEF OwnInv, OpenOwners
    <2> HIDE DEF w
    <2>3. w \notin DOMAIN Local
      <3> SUFFICES ASSUME w \in DOMAIN Local PROVE FALSE
        OBVIOUS
      <3>1. n \in Below(w) /\ w \in Below(w)
        BY <2>1, <2>2, ResidentIs DEF Below
      <3>2. Below(w) \subseteq S
        BY <2>1, <3>1, LocalIs
      <3> QED BY <1>2, <2>2, <3>1, <3>2
    <2>4. PICK j \in DOMAIN KbNodes : w = KbRoot(j)
      BY <2>2, <2>3 DEF Owners
    <2>5. n \in KbNodes[j]
      BY <2>1, <2>2, <2>4, ResidentIs
    <2>6. j = k
      BY <2>1, <2>5, RootIs
    <2> QED BY <1>1, <1>3, <2>1, <2>4, <2>6 DEF OwnInv, w
  <1>6. Dropped(id, o, S, NO_ALLOCATOR) /\ Lost(arena[id].at)
    <2> HIDE DEF S, o
    <2> QED BY <1>3, <1>5, DestroyDrops
  <1>7. HeapInv' /\ SlotsInv' /\ OwnInv' /\ RecInv' /\ RoomInv(g)' /\ HoldInv(Spans(pool))'
    BY <1>6, DroppedKeeps
  <1>8. /\ Open' = Open \ {id} /\ \A i \in Open' : arena'[i] = arena[i]
        /\ OpenOwners' = X \ {o} /\ HasRecord' = {n \in HasRecord : nalloc[n] # id}
        /\ \A n \in HasRecord' : nalloc'[n] = nalloc[n]
    BY <1>1, <1>6, DroppedSees
  <1> HIDE DEF X
  <1>9. \A n : n \notin S /\ RunsIn(X, n) => RunsIn(X \ {o}, n)
    BY <1>4, RootIs DEF RunsIn
  <1>10. RunInv'
    <2> SUFFICES ASSUME NEW n \in HasRecord' PROVE RunsIn(X \ {o}, n)
      BY <1>8 DEF RunInv
    <2>1. n \in HasRecord /\ n \notin S
      BY <1>5, <1>8
    <2> QED BY <1>1, <1>9, <2>1 DEF RunInv, X
  <1>11. LocInv'
    <2>1. ASSUME NEW l \in DOMAIN Local, l \in HasRecord' PROVE nalloc'[l] \in Open' /\ arena'[nalloc'[l]].owner = l
      <3>1. l \in HasRecord /\ nalloc[l] # id /\ nalloc'[l] = nalloc[l]
        BY <1>8, <2>1
      <3>2. nalloc[l] \in Open /\ arena[nalloc[l]].owner = l
        BY <1>1, <3>1 DEF LocInv
      <3> QED BY <1>8, <3>1, <3>2
    <2>2. ASSUME NEW l \in DOMAIN Local, l \in X \ {o} PROVE l \in HasRecord'
      <3>1. l \in HasRecord
        BY <1>1, <2>2 DEF LocInv, X
      <3>2. nalloc[l] # id
        BY <1>1, <1>3, <1>4, <3>1 DEF LocInv
      <3> QED BY <1>8, <3>1, <3>2
    <2> QED BY <1>8, <2>1, <2>2 DEF LocInv
  <1>12. PlaceInv'
    <2> SUFFICES ASSUME NEW n \in Nodes \ DOMAIN Local, RunsIn(X \ {o}, n)
                 PROVE nalloc'[n] \in Open' /\ n \in Residents(arena'[nalloc'[n]].owner)
      BY <1>8 DEF PlaceInv
    <2>1. RunsIn(X, n) /\ n \notin S
      BY RootIs DEF RunsIn
    <2>2. nalloc[n] \in Open /\ n \in Residents(arena[nalloc[n]].owner)
      BY <1>1, <2>1 DEF PlaceInv, X
    <2>3. nalloc[n] # id
      <3> SUFFICES ASSUME nalloc[n] = id PROVE FALSE
        OBVIOUS
      <3>1. n \in Residents(o)
        BY <1>3, <2>2
      <3>2. n \in KbNodes[k]
        BY <1>4, <3>1, ResidentIs
      <3> QED BY <2>1, <3>2
    <2>4. nalloc'[n] = nalloc[n]
      BY <1>6, <2>1, <2>3 DEF Dropped
    <2> QED BY <1>8, <2>2, <2>3, <2>4
  <1> QED BY <1>7, <1>10, <1>11, <1>12 DEF MemInv

LEMMA LocalEnds ==
  ASSUME NEW g \in Nat, MemInv(g), fault = "none", NEW l \in DOMAIN Local, cfl_local_arena_term_one_shot_fn(l)
  PROVE  MemInv(g)'
  <1> DEFINE id == nalloc[l]
             X == OpenOwners
  <1>1. HeapInv /\ SlotsInv /\ OwnInv /\ RunInv /\ LocInv /\ PlaceInv /\ RecInv /\ RoomInv(g) /\ HoldInv(Spans(pool))
    BY DEF MemInv
  <1>2. l \in HasRecord /\ cfl_heap_arena_destroy(id, l, 0, {}) /\ \A m \in DOMAIN Local : m \in Local[l] => m \notin X
    BY OpenIs, LocalIs DEF cfl_local_arena_term_one_shot_fn, HasRecord
  <1>3. id \in Open /\ arena[id].owner = l /\ l \in Owners
    BY <1>1, <1>2 DEF LocInv, Owners
  <1>4. Dropped(id, l, {}, 0) /\ Lost(arena[id].at)
    <2> HIDE DEF id
    <2> QED BY <1>2, <1>3, DestroyDrops
  <1> HIDE DEF id
  <1>5. HeapInv' /\ SlotsInv' /\ OwnInv' /\ RecInv' /\ RoomInv(g)' /\ HoldInv(Spans(pool))'
    BY <1>4, DroppedKeeps
  <1>6. /\ Open' = Open \ {id} /\ \A i \in Open' : arena'[i] = arena[i]
        /\ OpenOwners' = X \ {l} /\ HasRecord' = {n \in HasRecord : nalloc[n] # id}
        /\ \A n \in HasRecord' : nalloc'[n] = nalloc[n]
    BY <1>1, <1>4, DroppedSees
  <1> HIDE DEF X
  <1>7. RunInv'
    <2> SUFFICES ASSUME NEW n \in HasRecord' PROVE RunsIn(X \ {l}, n)
      BY <1>6 DEF RunInv
    <2> DEFINE w == arena[nalloc[n]].owner
    <2>1. n \in HasRecord /\ nalloc[n] # id
      BY <1>6
    <2>2. nalloc[n] \in Open /\ n \in Residents(w)
      BY <1>1, <2>1, RecOpen
    <2>3. w \in Owners /\ w \in X /\ w # l
      BY <1>1, <1>3, <2>1, <2>2 DEF OwnInv, OpenOwners, X
    <2> HIDE DEF w
    <2>4. n \notin Local[l]
      <3> SUFFICES ASSUME n \in Local[l] PROVE FALSE
        OBVIOUS
      <3>1. w \in DOMAIN Local /\ w \in Below(l)
        BY <2>2, <2>3, ResidentIs
      <3> QED BY <1>2, <2>3, <3>1 DEF Below
    <2>5. RunsIn(X, n)
      BY <1>1, <2>1 DEF RunInv, X
    <2> QED BY <2>4, <2>5, RootIs DEF RunsIn
  <1>8. LocInv'
    <2>1. ASSUME NEW m \in DOMAIN Local, m \in HasRecord' PROVE nalloc'[m] \in Open' /\ arena'[nalloc'[m]].owner = m
      <3>1. m \in HasRecord /\ nalloc[m] # id /\ nalloc'[m] = nalloc[m]
        BY <1>6, <2>1
      <3>2. nalloc[m] \in Open /\ arena[nalloc[m]].owner = m
        BY <1>1, <3>1 DEF LocInv
      <3> QED BY <1>6, <3>1, <3>2
    <2>2. ASSUME NEW m \in DOMAIN Local, m \in X \ {l} PROVE m \in HasRecord'
      <3>1. m \in HasRecord
        BY <1>1, <2>2 DEF LocInv, X
      <3>2. nalloc[m] # id
        BY <1>1, <1>3, <2>2, <3>1 DEF LocInv
      <3> QED BY <1>6, <3>1, <3>2
    <2> QED BY <1>6, <2>1, <2>2 DEF LocInv
  <1>9. PlaceInv'
    <2> SUFFICES ASSUME NEW n \in Nodes \ DOMAIN Local, RunsIn(X \ {l}, n)
                 PROVE nalloc'[n] \in Open' /\ n \in Residents(arena'[nalloc'[n]].owner)
      BY <1>6 DEF PlaceInv
    <2>1. RunsIn(X, n) /\ n \notin Local[l]
      BY DEF RunsIn
    <2>2. nalloc[n] \in Open /\ n \in Residents(arena[nalloc[n]].owner)
      BY <1>1, <2>1 DEF PlaceInv, X
    <2>3. nalloc[n] # id
      <3> SUFFICES ASSUME nalloc[n] = id PROVE FALSE
        OBVIOUS
      <3>1. n \in Residents(l)
        BY <1>3, <2>2
      <3>2. n \in Below(l)
        BY <1>3, <3>1, ResidentIs
      <3> QED BY <2>1, <3>2 DEF Below
    <2>4. nalloc'[n] = nalloc[n]
      BY <1>4, <2>3 DEF Dropped
    <2> QED BY <1>6, <2>2, <2>3, <2>4
  <1> QED BY <1>5, <1>7, <1>8, <1>9 DEF MemInv

LEMMA AuxTaken ==
  ASSUME NEW g \in Nat, MemInv(g), fault = "none", NEW n \in Nodes, cfl_heap_malloc_pointer(n)
  PROVE  MemInv(g)'
  <1> DEFINE z == AuxSize[n]
             r == cfl_heap_malloc(pool, z)
  <1>1. HeapInv /\ SlotsInv /\ HoldInv(Spans(pool))
    BY DEF MemInv
  <1>2. z \in Sizes /\ n \notin HasAux
    <2>1. z \in Sizes \cup {0} /\ z > 0
      BY Shape DEF cfl_heap_malloc_pointer
    <2>2. n \notin HasAux
      BY DEF cfl_heap_malloc_pointer, HasAux
    <2> QED BY <2>1, <2>2
  <1>3. CASE ~r.ok
    <2>1. Fault("oom")
      BY <1>3 DEF cfl_heap_malloc_pointer
    <2> QED BY <2>1, FaultKeeps
  <1>4. CASE r.ok
    <2>1. /\ pool' = r.pool /\ stats' = update_stats(r.pool, stats) /\ Fine
          /\ aux' = [aux EXCEPT ![n] = r.at]
          /\ arena' = arena /\ nextId' = nextId /\ nalloc' = nalloc /\ nmem' = nmem
      BY <1>4 DEF cfl_heap_malloc_pointer
    <2>2. fault' = "none" /\ base' = base
      BY <2>1 DEF Fine
    <2>3. Gained(r.at, z)
      <3> HIDE DEF z
      <3>1. /\ HeapInv' /\ r.at \in Int /\ r.at % 4 = 0
            /\ \E e \in Int : Spans(pool)' = Spans(pool) \cup {<<r.at, e>>} /\ r.at + z <= e
            /\ \A s \in Spans(pool) : s[1] # r.at
        BY <1>1, <1>2, <1>4, <2>1, <2>2, HeapMalloc
      <3> QED BY <3>1 DEF Gained
    <2> DEFINE d == r.at
    <2>4. HeapInv' /\ d \in Int /\ d % 4 = 0 /\ aux' = [aux EXCEPT ![n] = d]
      BY <2>1, <2>3 DEF Gained
    <2>5. /\ Kept(Spans(pool)', d, z) /\ \A x, m : Kept(Spans(pool), x, m) => Kept(Spans(pool)', x, m) /\ x # d
          /\ \A s \in Spans(pool)' : s \in Spans(pool) \/ s[1] = d
      BY <2>3, GainedKept
    <2> HIDE DEF d, r
    <2>6. OwnInv' /\ RunInv' /\ LocInv' /\ PlaceInv' /\ RecInv' /\ RoomInv(g)' /\ Open' = Open /\ LiveArenas' = LiveArenas
      BY <2>1, ArenasKept
    <2>7. aux \in [Nodes -> Int] /\ aux' \in [Nodes -> Int] /\ aux'[n] = d /\ \A q \in Nodes : q # n => aux'[q] = aux[q]
      BY <1>1, <2>4 DEF SlotsInv
    <2>8. SlotsInv'
      BY <1>1, <2>1, <2>2, <2>6, <2>7 DEF SlotsInv
    <2>9. HasAux' = HasAux \cup {n}
      <3>1. d # NoIdx
        BY <2>4, Numbers
      <3> QED BY <2>7, <3>1 DEF HasAux
    <2>10. \A q \in HasAux : q # n /\ aux'[q] = aux[q]
      BY <1>2, <2>7 DEF HasAux
    <2>11. HoldInv(Spans(pool))'
      <3> DEFINE T == Spans(pool)'
      <3>1. /\ Kept(T, d, z) /\ \A x, m : Kept(Spans(pool), x, m) => Kept(T, x, m) /\ x # d
            /\ \A s \in T : s \in Spans(pool) \/ s[1] = d
        BY <2>5
      <3> HIDE DEF T
      <3>2. \A i \in Open' : Kept(T, arena'[i].at, arena'[i].size)
        BY <1>1, <2>1, <2>6, <3>1 DEF HoldInv
      <3>3. \A q \in HasAux' : Kept(T, aux'[q], AuxSize[q])
        BY <1>1, <2>7, <2>9, <2>10, <3>1 DEF HoldInv
      <3>4. \A i, j \in Open' : arena'[i].at = arena'[j].at => i = j
        BY <1>1, <2>1, <2>6 DEF HoldInv
      <3>5. \A q \in HasAux : aux[q] # d
        BY <1>1, <3>1 DEF HoldInv
      <3>6. \A q, m \in HasAux' : aux'[q] = aux'[m] => q = m
        BY <1>1, <2>7, <2>9, <2>10, <3>5 DEF HoldInv
      <3>7. \A i \in Open : arena[i].at # d
        BY <1>1, <3>1 DEF HoldInv
      <3>8. \A i \in Open', q \in HasAux' : arena'[i].at # aux'[q]
        BY <1>1, <2>1, <2>6, <2>7, <2>9, <2>10, <3>7 DEF HoldInv
      <3>9. ASSUME NEW s \in T PROVE (\E i \in Open' : arena'[i].at = s[1]) \/ (\E q \in HasAux' : aux'[q] = s[1])
        <4>1. CASE s[1] = d
          BY <2>7, <2>9, <4>1
        <4>2. CASE s[1] # d
          <5>1. s \in Spans(pool)
            BY <3>1, <3>9, <4>2
          <5>2. (\E i \in Open : arena[i].at = s[1]) \/ (\E q \in HasAux : aux[q] = s[1])
            BY <1>1, <5>1 DEF HoldInv
          <5> QED BY <2>1, <2>6, <2>9, <2>10, <5>2
        <4> QED BY <4>1, <4>2
      <3> QED BY <3>2, <3>3, <3>4, <3>6, <3>8, <3>9 DEF HoldInv, T
    <2> QED BY <2>4, <2>6, <2>8, <2>11 DEF MemInv
  <1> QED BY <1>3, <1>4

LEMMA AuxFreed ==
  ASSUME NEW g \in Nat, MemInv(g), fault = "none", NEW n \in Nodes, cfl_heap_free_pointer(n)
  PROVE  MemInv(g)'
  <1> DEFINE d == aux[n]
             r == cfl_heap_free(pool, d)
  <1>1. HeapInv /\ SlotsInv /\ HoldInv(Spans(pool))
    BY DEF MemInv
  <1>2. n \in HasAux
    BY DEF cfl_heap_free_pointer, HasAux
  <1>3. Kept(Spans(pool), d, AuxSize[n])
    BY <1>1, <1>2 DEF HoldInv
  <1>4. r.ok /\ \E s \in Spans(pool) : s[1] = d
    BY <1>1, <1>3, HeldFreed
  <1>5. /\ pool' = r.pool /\ stats' = update_stats(r.pool, stats) /\ Fine
        /\ aux' = [aux EXCEPT ![n] = NoIdx]
        /\ arena' = arena /\ nextId' = nextId /\ nalloc' = nalloc /\ nmem' = nmem
    BY <1>4 DEF cfl_heap_free_pointer
  <1>6. fault' = "none" /\ base' = base
    BY <1>5 DEF Fine
  <1>7. PICK s \in Spans(pool) : s[1] = d
    BY <1>4
  <1>8. HeapInv' /\ Spans(pool)' = {t \in Spans(pool) : t[1] # d}
    <2> HIDE DEF d
    <2> QED BY <1>1, <1>5, <1>6, <1>7, HeapFree
  <1>9. OwnInv' /\ RunInv' /\ LocInv' /\ PlaceInv' /\ RecInv' /\ RoomInv(g)' /\ Open' = Open /\ LiveArenas' = LiveArenas
    BY <1>5, ArenasKept
  <1>10. aux \in [Nodes -> Int] /\ aux' \in [Nodes -> Int] /\ aux'[n] = NoIdx /\ \A q \in Nodes : q # n => aux'[q] = aux[q]
    BY <1>1, <1>5, Numbers DEF SlotsInv
  <1>11. SlotsInv'
    BY <1>1, <1>5, <1>6, <1>9, <1>10 DEF SlotsInv
  <1>12. HasAux' = HasAux \ {n} /\ \A q \in HasAux' : aux'[q] = aux[q]
    BY <1>10 DEF HasAux
  <1>13. HoldInv(Spans(pool))'
    <2> DEFINE T == Spans(pool)'
    <2>1. T = {t \in Spans(pool) : t[1] # d}
      BY <1>8
    <2> HIDE DEF T
    <2>2. \A x, m : Kept(Spans(pool), x, m) /\ x # d => Kept(T, x, m)
      BY <2>1 DEF Kept
    <2>3. \A i \in Open : arena[i].at # d
      BY <1>1, <1>2 DEF HoldInv
    <2>4. \A q \in HasAux' : aux[q] # d
      BY <1>1, <1>2, <1>12 DEF HoldInv
    <2> HIDE DEF d
    <2>5. \A i \in Open' : Kept(T, arena'[i].at, arena'[i].size)
      BY <1>1, <1>5, <1>9, <2>2, <2>3 DEF HoldInv
    <2>6. \A q \in HasAux' : Kept(T, aux'[q], AuxSize[q])
      BY <1>1, <1>12, <2>2, <2>4 DEF HoldInv
    <2>7. \A i, j \in Open' : arena'[i].at = arena'[j].at => i = j
      BY <1>1, <1>5, <1>9 DEF HoldInv
    <2>8. \A q, m \in HasAux' : aux'[q] = aux'[m] => q = m
      BY <1>1, <1>12 DEF HoldInv
    <2>9. \A i \in Open', q \in HasAux' : arena'[i].at # aux'[q]
      BY <1>1, <1>5, <1>9, <1>12 DEF HoldInv
    <2>10. ASSUME NEW t \in T PROVE (\E i \in Open' : arena'[i].at = t[1]) \/ (\E q \in HasAux' : aux'[q] = t[1])
      <3>1. t \in Spans(pool) /\ t[1] # d
        BY <2>1
      <3>2. (\E i \in Open : arena[i].at = t[1]) \/ (\E q \in HasAux : aux[q] = t[1])
        BY <1>1, <3>1 DEF HoldInv
      <3>3. \A q \in HasAux : aux[q] = t[1] => q \in HasAux'
        BY <1>12, <3>1 DEF d
      <3> QED BY <1>5, <1>9, <1>12, <3>2, <3>3
    <2> QED BY <2>5, <2>6, <2>7, <2>8, <2>9, <2>10 DEF HoldInv, T
  <1> QED BY <1>8, <1>9, <1>11, <1>13 DEF MemInv

(* A record that begins at the next multiple of 4 stays within the units   *)
(* of 4 * g bytes, one for each record and one for itself.                 *)
LEMMA UnitsHold ==
  ASSUME NEW g \in Nat, NEW c \in Nat, NEW m \in Nat, c + 1 <= m, NEW at \in Int, at % 4 = 0,
         NEW u \in Nat, u <= (4 * g) * c, NEW z \in Nat, z <= 4 * g
  PROVE  /\ u + Padding(at + u) + z <= (4 * g) * (c + 1)
         /\ (4 * g) * (c + 1) <= (4 * g) * m
  <1> DEFINE y == g * c
             pad == Padding(at + u)
  <1>1. y \in Nat /\ (4 * g) * c = 4 * y /\ (4 * g) * (c + 1) = 4 * y + 4 * g
    BY SMT
  <1>2. pad \in 0..3 /\ (at + u + pad) % 4 = 0
    BY PadFacts
  <1>3. (4 * g) * (c + 1) <= (4 * g) * m
    <2>1. \A b \in Nat : (4 * g) * b \in Nat
      BY SMT
    <2>2. (4 * g) * m = (4 * g) * (c + 1) + (4 * g) * (m - (c + 1)) /\ m - (c + 1) \in Nat
      BY SMT
    <2> QED BY <2>1, <2>2
  <1> HIDE DEF y, pad
  <1>4. u + pad <= 4 * y
    BY <1>1, <1>2
  <1> QED BY <1>1, <1>2, <1>3, <1>4 DEF pad

LEMMA RecordFits ==
  ASSUME NEW g \in Nat, Roomy(g), MemInv(g), NEW n \in Nodes \ DOMAIN Local, Runs(n), nmem[n] = NoIdx,
         NEW i, i = nalloc[n]
  PROVE  LET pad == Padding(arena[i].at + arena[i].used)
         IN  /\ i \in Open /\ n \in Residents(arena[i].owner) /\ arena[i] \in ArenaT /\ pad \in Nat
             /\ Cardinality(Recs(i)) \in Nat /\ Cardinality(Recs(i) \cup {n}) = Cardinality(Recs(i)) + 1
             /\ arena[i].used + pad + RecSize[n] <= (4 * g) * (Cardinality(Recs(i)) + 1)
             /\ arena[i].used + pad + RecSize[n] <= arena[i].size
  <1> DEFINE o == arena[i].owner
             c == Cardinality(Recs(i))
             m == Cardinality(Residents(o))
  <1>1. HeapInv /\ SlotsInv /\ OwnInv /\ RunInv /\ LocInv /\ PlaceInv /\ RecInv /\ RoomInv(g) /\ HoldInv(Spans(pool))
    BY DEF MemInv
  <1>2. i \in Open /\ n \in Residents(o)
    BY <1>1, OpenIs DEF PlaceInv
  <1>3. o \in Owners
    BY <1>1, <1>2 DEF OwnInv
  <1>4. arena[i] \in ArenaT
    BY <1>1, <1>2 DEF SlotsInv, Open, LiveArenas
  <1>5. arena[i].at % 4 = 0
    BY <1>1, <1>2 DEF HoldInv, Kept
  <1>6. Recs(i) \subseteq Residents(o) /\ n \notin Recs(i)
    <2>1. \A q \in Recs(i) : q \in HasRecord /\ nalloc[q] = i
      BY DEF Recs, HasRecord
    <2> QED BY <1>1, <2>1, RecOpen DEF Recs
  <1>7. IsFiniteSet(Residents(o)) /\ IsFiniteSet(Recs(i))
    BY <1>3, <1>6, ResidentsFinite, FS_Subset
  <1>8. c \in Nat /\ m \in Nat /\ Cardinality(Recs(i) \cup {n}) = c + 1
    BY <1>6, <1>7, FS_CardinalityType, FS_AddElement
  <1>9. c + 1 <= m
    <2>1. Recs(i) \cup {n} \subseteq Residents(o)
      BY <1>2, <1>6
    <2> QED BY <1>7, <1>8, <2>1, FS_Subset
  <1>10. arena[i].used <= (4 * g) * c /\ (4 * g) * m <= arena[i].size
    BY <1>1, <1>2 DEF RoomInv
  <1>11. RecSize[n] \in Nat /\ RecSize[n] <= 4 * g
    BY Shape DEF Roomy
  <1>12. arena[i].at \in Int /\ arena[i].used \in Nat /\ arena[i].size \in Nat
    BY <1>4, Numbers DEF ArenaT
  <1>13. Padding(arena[i].at + arena[i].used) \in Nat
    <2>1. arena[i].at + arena[i].used \in Int
      BY <1>12
    <2>2. Padding(arena[i].at + arena[i].used) \in 0..3
      BY <2>1, PadFacts
    <2>3. 0..3 \subseteq Nat
      OBVIOUS
    <2> QED BY <2>2, <2>3
  <1> HIDE DEF c, m, o
  <1>14. /\ arena[i].used + Padding(arena[i].at + arena[i].used) + RecSize[n] <= (4 * g) * (c + 1)
         /\ (4 * g) * (c + 1) <= (4 * g) * m
    BY <1>5, <1>8, <1>9, <1>10, <1>11, <1>12, UnitsHold
  <1>15. (4 * g) * (c + 1) \in Nat /\ (4 * g) * m \in Nat
    BY <1>8, SMT
  <1>16. arena[i].used + Padding(arena[i].at + arena[i].used) + RecSize[n] <= arena[i].size
    BY <1>10, <1>11, <1>12, <1>13, <1>14, <1>15
  <1> QED BY <1>2, <1>4, <1>8, <1>13, <1>14, <1>16 DEF c, o

LEMMA RecordTaken ==
  ASSUME NEW g \in Nat, Roomy(g), MemInv(g), fault = "none", NEW n \in Nodes, cfl_smart_arena_alloc(n)
  PROVE  MemInv(g)'
  <1> DEFINE i == nalloc[n]
             v == arena[i].used + Padding(arena[i].at + arena[i].used)
             c == Cardinality(Recs(i))
             a == [arena[i] EXCEPT !.used = v + RecSize[n]]
  <1>1. HeapInv /\ SlotsInv /\ OwnInv /\ RunInv /\ LocInv /\ PlaceInv /\ RecInv /\ RoomInv(g) /\ HoldInv(Spans(pool))
    BY DEF MemInv
  <1>2. n \in Nodes \ DOMAIN Local /\ Runs(n) /\ nmem[n] = NoIdx
    BY DEF cfl_smart_arena_alloc
  <1>3. /\ i \in Open /\ n \in Residents(arena[i].owner) /\ arena[i] \in ArenaT
        /\ Padding(arena[i].at + arena[i].used) \in Nat
        /\ c \in Nat /\ Cardinality(Recs(i) \cup {n}) = c + 1
        /\ v + RecSize[n] <= (4 * g) * (c + 1) /\ v + RecSize[n] <= arena[i].size
    BY <1>2, RecordFits
  <1>4. RecSize[n] \in Nat \ {0}
    BY Shape
  <1>5. arena[i].used \in Nat /\ arena[i].size \in Sizes /\ v \in Nat /\ arena[i].used <= v
    BY <1>3 DEF ArenaT
  <1>6. arena[i].size \in Nat /\ arena[i].size < NoIdx /\ NoIdx \in Nat
    BY <1>5, Numbers
  <1>7. ~(v + RecSize[n] > arena[i].size)
    BY <1>3, <1>4, <1>5, <1>6
  <1>8. arena_bump_alloc(i, RecSize[n]) = [ok |-> TRUE, offset |-> v, used |-> v + RecSize[n]]
    BY <1>7 DEF arena_bump_alloc, ArenaBase
  <1>9. /\ arena' = [arena EXCEPT ![i].used = v + RecSize[n]]
        /\ nmem' = [nmem EXCEPT ![n] = v] /\ Fine
        /\ pool' = pool /\ nextId' = nextId /\ nalloc' = nalloc /\ aux' = aux /\ stats' = stats
    BY <1>8 DEF cfl_smart_arena_alloc
  <1>10. fault' = "none" /\ base' = base
    BY <1>9 DEF Fine
  <1> HIDE DEF v
  <1>11. arena' = [arena EXCEPT ![i] = a]
    BY <1>9
  <1>12. /\ a \in ArenaT /\ a.at = arena[i].at /\ a.size = arena[i].size /\ a.owner = arena[i].owner
         /\ a.used = v + RecSize[n] /\ a.used <= a.size /\ a.used >= arena[i].used /\ a.used \in Nat
    BY <1>3, <1>4, <1>5, <1>6 DEF ArenaT
  <1> HIDE DEF a
  <1>13. a # NoArena /\ i \in Ids /\ i # 0 /\ arena[i] # NoArena
    BY <1>3, <1>12, Numbers DEF Open, LiveArenas
  <1>14. v # NoIdx
    BY <1>3, <1>4, <1>5, <1>6
  <1> HIDE DEF i
  <1>15. arena'[i] = a /\ \A j \in Ids : j # i => arena'[j] = arena[j]
    BY <1>1, <1>11, <1>13 DEF SlotsInv
  <1>16. /\ LiveArenas' = LiveArenas /\ Open' = Open
         /\ \A j \in Ids : arena'[j].at = arena[j].at \/ j \notin Open
         /\ \A j \in Open : /\ j \in Ids /\ arena'[j].at = arena[j].at /\ arena'[j].size = arena[j].size
                            /\ arena'[j].owner = arena[j].owner
    <2>1. LiveArenas' = LiveArenas
      BY <1>13, <1>15 DEF LiveArenas
    <2>2. Open' = Open
      BY <2>1 DEF Open
    <2>3. \A j \in Open : /\ j \in Ids /\ arena'[j].at = arena[j].at /\ arena'[j].size = arena[j].size
                          /\ arena'[j].owner = arena[j].owner
      BY <1>12, <1>15 DEF Open, LiveArenas
    <2> QED BY <2>1, <2>2, <2>3
  <1>17. OpenOwners' = OpenOwners
    BY <1>16 DEF OpenOwners
  <1>18. /\ nmem' \in [Nodes -> Nat] /\ nmem'[n] = v /\ \A q \in Nodes : q # n => nmem'[q] = nmem[q]
    BY <1>1, <1>5, <1>9 DEF SlotsInv
  <1>19. HasRecord' = HasRecord \cup {n} /\ n \notin HasRecord /\ HasRecord \subseteq Nodes
    BY <1>2, <1>14, <1>18 DEF HasRecord
  <1>20. SlotsInv'
    <2>1. arena' \in [Ids -> ArenaT \cup {NoArena}]
      BY <1>1, <1>11, <1>12 DEF SlotsInv
    <2>2. \A j \in LiveArenas' : arena'[j].used <= arena'[j].size
      <3> SUFFICES ASSUME NEW j \in LiveArenas PROVE arena'[j].used <= arena'[j].size
        BY <1>16
      <3>1. CASE j = i
        BY <1>12, <1>15, <3>1
      <3>2. CASE j # i
        BY <1>1, <1>15, <3>2 DEF SlotsInv, LiveArenas
      <3> QED BY <3>1, <3>2
    <2> QED BY <1>1, <1>9, <1>10, <1>16, <1>18, <2>1, <2>2 DEF SlotsInv
  <1>21. OwnInv'
    BY <1>1, <1>16 DEF OwnInv
  <1>22. RunInv'
    BY <1>1, <1>2, <1>17, <1>19, OpenIs DEF RunInv
  <1>23. LocInv'
    <2>1. \A l \in DOMAIN Local : l \in HasRecord' <=> l \in HasRecord
      BY <1>2, <1>19
    <2> QED BY <1>1, <1>9, <1>16, <1>17, <2>1 DEF LocInv
  <1>24. PlaceInv'
    BY <1>1, <1>9, <1>16, <1>17 DEF PlaceInv
  <1>25. RecInv'
    <2>1. \A q \in HasRecord : /\ nmem'[q] = nmem[q] /\ nalloc[q] \in Open /\ q # n /\ q \in Nodes /\ nmem[q] \in Nat
                               /\ RecSize[q] \in Nat /\ nmem[q] + RecSize[q] <= arena[nalloc[q]].used
      BY <1>1, <1>18, <1>19, RecOpen, Shape DEF RecInv, SlotsInv
    <2>2. \A j \in Open : arena[j].used \in Nat /\ arena'[j].used \in Nat /\ arena[j].used <= arena'[j].used
      <3> SUFFICES ASSUME NEW j \in Open PROVE arena[j].used \in Nat /\ arena'[j].used \in Nat /\ arena[j].used <= arena'[j].used
        OBVIOUS
      <3>1. j \in Ids /\ arena[j].used \in Nat
        BY <1>1 DEF SlotsInv, Open, LiveArenas, ArenaT
      <3>2. CASE j = i
        BY <1>12, <1>15, <3>1, <3>2
      <3>3. CASE j # i
        BY <1>15, <3>1, <3>3
      <3> QED BY <3>2, <3>3
    <2>3. \A q \in HasRecord : nmem'[q] + RecSize[q] <= arena'[nalloc'[q]].used
      BY <1>9, <2>1, <2>2
    <2>4. nmem'[n] + RecSize[n] <= arena'[nalloc'[n]].used
      BY <1>9, <1>12, <1>15, <1>18, <1>4, <1>5 DEF i
    <2>5. \A q \in HasRecord : nalloc[q] = i => nmem'[q] + RecSize[q] <= nmem'[n]
      BY <1>5, <1>18, <2>1, <2>2
    <2>6. \A q, m \in HasRecord : q # m /\ nalloc[q] = nalloc[m] =>
             nmem'[q] + RecSize[q] <= nmem'[m] \/ nmem'[m] + RecSize[m] <= nmem'[q]
      BY <1>1, <2>1 DEF RecInv
    <2>7. \A q, m \in HasRecord' : q # m /\ nalloc'[q] = nalloc'[m] =>
             nmem'[q] + RecSize[q] <= nmem'[m] \/ nmem'[m] + RecSize[m] <= nmem'[q]
      BY <1>9, <1>19, <2>5, <2>6 DEF i
    <2>8. \A q \in HasRecord' : nmem'[q] + RecSize[q] <= arena'[nalloc'[q]].used
      BY <1>19, <2>3, <2>4
    <2> QED BY <2>7, <2>8 DEF RecInv
  <1>26. RoomInv(g)'
    <2> SUFFICES ASSUME NEW j \in Open
                 PROVE  /\ arena'[j].used <= (4 * g) * Cardinality(Recs(j)')
                        /\ (4 * g) * Cardinality(Residents(arena'[j].owner)) <= arena'[j].size
      BY <1>16 DEF RoomInv
    <2>1. (4 * g) * Cardinality(Residents(arena'[j].owner)) <= arena'[j].size
      BY <1>1, <1>16 DEF RoomInv
    <2>2. CASE j = i
      <3>1. Recs(j)' = Recs(j) \cup {n}
        BY <1>2, <1>9, <1>14, <1>18, <2>2 DEF Recs, i
      <3> QED BY <1>3, <1>12, <1>15, <2>1, <2>2, <3>1
    <2>3. CASE j # i
      <3>1. Recs(j)' = Recs(j)
        BY <1>2, <1>9, <1>18, <2>3 DEF Recs, i
      <3> QED BY <1>1, <1>15, <1>16, <2>1, <2>3, <3>1 DEF RoomInv
    <2> QED BY <2>2, <2>3
  <1>27. Spans(pool)' = Spans(pool) /\ PoolOK(pool)'
    BY <1>1, <1>9, <1>10, PoolPrime DEF HeapInv
  <1>28. HeapInv'
    BY <1>1, <1>9, <1>10, <1>27 DEF HeapInv, StatsOK, Taken
  <1>29. HasAux' = HasAux
    BY <1>9 DEF HasAux
  <1>30. HoldInv(Spans(pool))'
    BY <1>1, <1>9, <1>16, <1>27, <1>29 DEF HoldInv
  <1> QED BY <1>20, <1>21, <1>22, <1>23, <1>24, <1>25, <1>26, <1>28, <1>30 DEF MemInv

-----------------------------------------------------------------------------
(* The initial states.                                                     *)

PermT == [ok : {TRUE}, used : Nat, given : Seq([at : Nat, size : Nat])] \cup {NoFit}

LEMMA PermGives ==
  ASSUME NEW p \in PermT, NEW size \in Nat
  PROVE  LET q == cfl_perm_alloc(p, size)
         IN  q \in PermT /\ q.ok \in BOOLEAN /\ (q.ok => p.ok /\ q.given[Len(q.given)].at \in Nat)
  <1> DEFINE at == p.used + Padding(p.used)
             q == cfl_perm_alloc(p, size)
             x == [at |-> at, size |-> size]
  <1>1. NoFit.ok = FALSE /\ NoFit \in PermT
    BY DEF NoFit, PermT
  <1>2. CASE ~p.ok \/ at + Rounded(size) > PermSize
    BY <1>1, <1>2 DEF cfl_perm_alloc
  <1>3. CASE ~(~p.ok \/ at + Rounded(size) > PermSize)
    <2>1. p.used \in Nat /\ p.given \in Seq([at : Nat, size : Nat]) /\ p.ok
      BY <1>1, <1>3 DEF PermT
    <2>2. Padding(p.used) \in 0..3
      BY <2>1, PadFacts
    <2>3. at \in Nat
      BY <2>1, <2>2
    <2>4. Rounded(size) \in Nat
      <3>1. ALIGN = 4 /\ UINT16 \in Nat /\ UINT16 > 0 /\ MIN_BLOCK_SIZE \in Nat
        BY SMT DEF ALIGN, UINT16, MIN_BLOCK_SIZE
      <3>2. ((size + ALIGN - 1) \div ALIGN) * ALIGN \in Nat
        BY <3>1
      <3>3. align_up(size, ALIGN) \in Nat
        BY <3>1, <3>2 DEF align_up
      <3> QED BY <3>1, <3>3 DEF Rounded
    <2>5. q = [ok |-> TRUE, used |-> at + Rounded(size), given |-> Append(p.given, x)]
      BY <1>3 DEF cfl_perm_alloc
    <2>6. at + Rounded(size) \in Nat /\ x \in [at : Nat, size : Nat] /\ x.at = at
      BY <2>3, <2>4
    <2> HIDE DEF x, at
    <2>7. /\ Append(p.given, x) \in Seq([at : Nat, size : Nat])
          /\ Append(p.given, x)[Len(Append(p.given, x))] = x
      BY <2>1, <2>6
    <2> HIDE DEF q
    <2>8. q \in PermT /\ q.ok = TRUE /\ q.given = Append(p.given, x)
      BY <2>5, <2>6, <2>7 DEF PermT
    <2> QED BY <2>1, <2>3, <2>6, <2>7, <2>8 DEF q
  <1> QED BY <1>2, <1>3

LEMMA ObjectsIs ==
  ASSUME NEW sizes \in Seq(Nat)
  PROVE  Objects(sizes) \in PermT
  <1> DEFINE m == Len(sizes)
             G == [a \in PermT \X (1..m) |-> cfl_perm_alloc(a[1], sizes[a[2]])]
             F(q) == q = [k \in 0..Len(sizes) |-> IF k = 0 THEN cfl_perm_init ELSE cfl_perm_alloc(q[k - 1], sizes[k])]
  <1>1. m \in Nat /\ \A i \in 1..m : sizes[i] \in Nat
    OBVIOUS
  <1>2. \A x \in PermT, i \in 1..m : <<x, i>> \in PermT \X (1..m) /\ G[<<x, i>>] = cfl_perm_alloc(x, sizes[i])
    OBVIOUS
  <1> HIDE DEF G
  <1>3. \A x \in PermT, i \in 1..m : cfl_perm_alloc(x, sizes[i]) \in PermT
    BY <1>1, PermGives
  <1>4. cfl_perm_init \in PermT
    BY DEF cfl_perm_init, PermT
  <1>5. PICK f \in [0..m -> PermT] : f[0] = cfl_perm_init /\ \A i \in 1..m : f[i] = G[<<f[i - 1], i>>]
    <2>1. StaysIn(PermT, m, G)
      BY <1>2, <1>3 DEF StaysIn
    <2>2. Solvable(PermT, m, cfl_perm_init, G)
      <3> HIDE DEF m
      <3> QED BY <1>1, <1>4, <2>1, Recursion
    <2> QED BY <2>2 DEF Solvable
  <1>6. \A i \in 1..m : f[i] = cfl_perm_alloc(f[i - 1], sizes[i])
    <2> SUFFICES ASSUME NEW i \in 1..m PROVE f[i] = cfl_perm_alloc(f[i - 1], sizes[i])
      OBVIOUS
    <2>1. i - 1 \in 0..m
      BY <1>1
    <2> QED BY <1>2, <1>5, <2>1
  <1>7. F(f)
    <2> DEFINE h == [k \in 0..m |-> IF k = 0 THEN cfl_perm_init ELSE cfl_perm_alloc(f[k - 1], sizes[k])]
    <2>1. \A k \in 0..m : k # 0 => k \in 1..m
      BY <1>1
    <2>2. \A k \in 0..m : f[k] = h[k]
      BY <1>5, <1>6, <2>1
    <2>3. DOMAIN f = 0..m /\ DOMAIN h = 0..m
      OBVIOUS
    <2> QED BY <1>5, <2>2, <2>3
  <1> DEFINE r == CHOOSE q : F(q)
  <1>8. Objects(sizes) = r[m]
    BY DEF Objects
  <1>9. F(r)
    BY <1>7
  <1>10. r = [k \in 0..m |-> IF k = 0 THEN cfl_perm_init ELSE cfl_perm_alloc(r[k - 1], sizes[k])]
    BY <1>9
  <1> HIDE DEF r
  <1>11. r[0] = cfl_perm_init /\ \A k \in 1..m : r[k] = cfl_perm_alloc(r[k - 1], sizes[k])
    <2>1. 0 \in 0..m /\ \A k \in 1..m : k \in 0..m /\ k # 0
      BY <1>1
    <2> QED BY <1>10, <2>1
  <1>12. r[0] \in PermT /\ \A i \in 1..m : r[i - 1] \in PermT => r[i] \in PermT
    BY <1>3, <1>4, <1>11
  <1>13. r[m] \in PermT
    <2> HIDE DEF m
    <2> QED BY <1>1, <1>12, StaysInside
  <1> QED BY <1>8, <1>13

LEMMA CreateIs ==
  ASSUME NEW sizes \in BootSizes, Create(sizes)
  PROVE  /\ base \in Int /\ fault \in {"none", "oom"}
         /\ arena \in [Ids -> ArenaT \cup {NoArena}] /\ LiveArenas \subseteq {0}
         /\ (fault = "none" => 0 \in LiveArenas) /\ \A i \in LiveArenas : arena[i].used = 0
  <1> DEFINE b == cfl_perm_alloc(Objects(sizes), HeapSize)
             c == cfl_perm_alloc(b, Arena0Size)
             z == [at |-> c.given[Len(c.given)].at, size |-> align_up(Arena0Size, ALIGN), used |-> 0, owner |-> NoIdx]
  <1>1. sizes \in Seq(Nat) /\ HeapSize \in Nat /\ Arena0Size \in Sizes /\ Arena0Size \in Nat
    BY CflMemoryAssumption, Numbers
  <1>2. b \in PermT /\ (b.ok => b.given[Len(b.given)].at \in Nat)
    BY <1>1, ObjectsIs, PermGives
  <1>3. c \in PermT /\ c.ok \in BOOLEAN /\ (c.ok => b.ok /\ c.given[Len(c.given)].at \in Nat)
    <2> HIDE DEF b
    <2> QED BY <1>1, <1>2, PermGives
  <1>4. CASE ~c.ok
    <2>1. fault = "oom" /\ base = 0 /\ arena = [i \in Ids |-> NoArena]
      BY <1>4 DEF Create
    <2> QED BY <2>1 DEF LiveArenas
  <1>5. CASE c.ok
    <2>1. /\ fault = "none" /\ base = b.given[Len(b.given)].at
          /\ arena = [i \in Ids |-> IF i > 0 THEN NoArena ELSE z]
      BY <1>5 DEF Create
    <2>2. z \in ArenaT /\ z.used = 0
      BY <1>1, <1>3, <1>5, AlignFacts, Numbers DEF ArenaT
    <2> HIDE DEF z
    <2>3. z # NoArena
      BY <2>2, Numbers
    <2>4. base \in Int
      BY <1>2, <1>3, <1>5, <2>1
    <2>5. \A i \in Ids : i \in Nat /\ 0 \in Ids
      BY Numbers
    <2>6. arena \in [Ids -> ArenaT \cup {NoArena}] /\ arena[0] = z /\ \A i \in Ids : i # 0 => arena[i] = NoArena
      BY <2>1, <2>2, <2>5, Numbers
    <2> QED BY <2>1, <2>2, <2>3, <2>4, <2>5, <2>6, Numbers DEF LiveArenas
  <1> QED BY <1>3, <1>4, <1>5

LEMMA MemInitInv ==
  ASSUME NEW g \in Nat, MemInit
  PROVE  MemInv(g)
  <1>1. /\ base \in Int /\ fault \in {"none", "oom"}
        /\ arena \in [Ids -> ArenaT \cup {NoArena}] /\ LiveArenas \subseteq {0}
        /\ (fault = "none" => 0 \in LiveArenas) /\ \A i \in LiveArenas : arena[i].used = 0
    BY CreateIs DEF MemInit
  <1>2. /\ pool = cfl_heap_init /\ stats = update_stats(cfl_heap_init, ZeroStats) /\ nextId = 1
        /\ nalloc = [n \in Nodes |-> 0] /\ nmem = [n \in Nodes |-> NoIdx] /\ aux = [n \in Nodes |-> NoIdx]
    BY DEF MemInit
  <1>3. Open = {} /\ OpenOwners = {} /\ HasRecord = {} /\ HasAux = {}
    BY <1>1, <1>2 DEF Open, OpenOwners, HasRecord, HasAux
  <1>4. PoolOK(pool) /\ Spans(pool) = {}
    BY <1>1, <1>2, FirstHeap, Shape
  <1>5. StatsOK(pool, stats)
    <2>1. ZeroStats \in StatsT
      BY DEF ZeroStats, StatsT
    <2> QED BY <1>1, <1>2, <1>4, <2>1, StatsKept, Shape
  <1>6. HeapInv
    BY <1>1, <1>4, <1>5 DEF HeapInv
  <1>7. SlotsInv
    <2>1. \A i \in LiveArenas : arena[i].used <= arena[i].size
      <3> SUFFICES ASSUME NEW i \in LiveArenas PROVE arena[i].used <= arena[i].size
        OBVIOUS
      <3>1. arena[i] \in ArenaT /\ arena[i].used = 0
        BY <1>1 DEF LiveArenas
      <3>2. arena[i].size \in Nat
        BY <3>1, Numbers DEF ArenaT
      <3> QED BY <3>1, <3>2
    <2>2. nextId \in Ids
      BY <1>2, Shape DEF Ids, NO_ALLOCATOR
    <2>3. nalloc \in [Nodes -> Ids \cup {NO_ALLOCATOR}] /\ nmem \in [Nodes -> Nat] /\ aux \in [Nodes -> Int]
      BY <1>2, Numbers
    <2> QED BY <1>1, <2>1, <2>2, <2>3 DEF SlotsInv
  <1>8. OwnInv /\ RunInv /\ LocInv /\ RecInv /\ RoomInv(g)
    BY <1>3 DEF OwnInv, RunInv, LocInv, RecInv, RoomInv
  <1>9. PlaceInv
    BY <1>3 DEF PlaceInv, RunsIn
  <1>10. HoldInv(Spans(pool))
    BY <1>3, <1>4 DEF HoldInv
  <1> QED BY <1>6, <1>7, <1>8, <1>9, <1>10 DEF MemInv

-----------------------------------------------------------------------------
(* The steps.                                                              *)

LEMMA MemStep ==
  ASSUME NEW g \in Nat, Roomy(g), MemInv(g), [MemNext]_memVars
  PROVE  MemInv(g)'
  <1>1. CASE UNCHANGED memVars
    <2>1. /\ fault' = fault /\ pool' = pool /\ base' = base /\ arena' = arena /\ nextId' = nextId /\ nalloc' = nalloc
          /\ nmem' = nmem /\ aux' = aux /\ stats' = stats
      BY <1>1 DEF memVars
    <2>2. OwnInv' /\ RunInv' /\ LocInv' /\ PlaceInv' /\ RecInv' /\ RoomInv(g)' /\ Open' = Open /\ LiveArenas' = LiveArenas
      BY <2>1, ArenasKept
    <2>3. Spans(pool)' = Spans(pool) /\ (PoolOK(pool) => PoolOK(pool)')
      BY <2>1, PoolPrime
    <2>4. HeapInv' /\ SlotsInv'
      BY <2>1, <2>2, <2>3 DEF MemInv, HeapInv, SlotsInv
    <2>5. HasAux' = HasAux
      BY <2>1 DEF HasAux
    <2>6. HoldInv(Spans(pool))'
      BY <2>1, <2>2, <2>3, <2>5 DEF MemInv, HoldInv
    <2> QED BY <2>2, <2>4, <2>6 DEF MemInv
  <1>2. CASE MemNext
    <2>1. fault = "none"
      BY <1>2 DEF MemNext
    <2>2. \/ \E k \in DOMAIN KbNodes : cfl_add_test_by_index(k)
          \/ \E k \in DOMAIN KbNodes : cfl_delete_test_by_index(k)
          \/ \E n \in Nodes : cfl_smart_arena_alloc(n)
          \/ \E n \in Nodes : cfl_heap_malloc_pointer(n)
          \/ \E n \in Nodes : cfl_heap_free_pointer(n)
          \/ \E n \in DOMAIN Local : cfl_local_arena_init_one_shot_fn(n)
          \/ \E n \in DOMAIN Local : cfl_local_arena_term_one_shot_fn(n)
      BY <1>2 DEF MemNext
    <2>3. ASSUME NEW k \in DOMAIN KbNodes, cfl_add_test_by_index(k) PROVE MemInv(g)'
      BY <2>1, <2>3, KbStarts
    <2>4. ASSUME NEW k \in DOMAIN KbNodes, cfl_delete_test_by_index(k) PROVE MemInv(g)'
      BY <2>1, <2>4, KbStops
    <2>5. ASSUME NEW n \in Nodes, cfl_smart_arena_alloc(n) PROVE MemInv(g)'
      BY <2>1, <2>5, RecordTaken
    <2>6. ASSUME NEW n \in Nodes, cfl_heap_malloc_pointer(n) PROVE MemInv(g)'
      BY <2>1, <2>6, AuxTaken
    <2>7. ASSUME NEW n \in Nodes, cfl_heap_free_pointer(n) PROVE MemInv(g)'
      BY <2>1, <2>7, AuxFreed
    <2>8. ASSUME NEW l \in DOMAIN Local, cfl_local_arena_init_one_shot_fn(l) PROVE MemInv(g)'
      BY <2>1, <2>8, LocalStarts
    <2>9. ASSUME NEW l \in DOMAIN Local, cfl_local_arena_term_one_shot_fn(l) PROVE MemInv(g)'
      BY <2>1, <2>9, LocalEnds
    <2> QED BY <2>2, <2>3, <2>4, <2>5, <2>6, <2>7, <2>8, <2>9
  <1> QED BY <1>1, <1>2

-----------------------------------------------------------------------------
(* What the invariant says.                                                *)

(* A function that is one-to-one keeps the number of elements.             *)
LEMMA SameCount ==
  ASSUME NEW S, NEW T, NEW f \in [S -> T], IsFiniteSet(S), \A x, y \in S : f[x] = f[y] => x = y, \A t \in T : \E x \in S : f[x] = t
  PROVE  Cardinality(T) = Cardinality(S)
  <1>1. f \in Surjection(S, T) /\ f \in Injection(S, T)
    BY DEF Injection, Surjection, IsInjective
  <1> QED BY <1>1, FS_Surjection

LEMMA HeldBlock ==
  ASSUME HeapInv, NEW x, NEW z, Kept(Spans(pool), x, z)
  PROVE  x % ALIGN = 0 /\ \E i \in Taken(pool, Len(pool)) : DataAt(pool, i) = x /\ x + z <= DataEnd(pool, i)
  <1>1. x % 4 = 0 /\ \E s \in Spans(pool) : s[1] = x /\ x + z <= s[2]
    BY DEF Kept
  <1>2. PICK s \in Spans(pool) : s[1] = x /\ x + z <= s[2]
    BY <1>1
  <1>3. PICK i \in Taken(pool, Len(pool)) : s = SpanOf(pool, i)
    BY <1>2 DEF Spans, SpansTo
  <1>4. s[1] = DataAt(pool, i) /\ s[2] = DataEnd(pool, i)
    BY <1>3 DEF SpanOf
  <1> QED BY <1>1, <1>2, <1>4 DEF ALIGN

LEMMA HeldInBlocks ==
  ASSUME NEW g \in Nat, MemInv(g)
  PROVE  EachInItsBlock
  <1> DEFINE B == Taken(pool, Len(pool))
             A == {x.at : x \in Held}
             f == [i \in B |-> DataAt(pool, i)]
  <1>1. HeapInv /\ HoldInv(Spans(pool))
    BY DEF MemInv
  <1>2. base \in Int /\ pool \in Seq(BlockT) /\ Len(pool) \in Nat /\ DOMAIN pool = 1..Len(pool)
    BY <1>1 DEF HeapInv, PoolOK
  <1>3. {i \in DOMAIN pool : ~pool[i].free} = B
    BY <1>2 DEF Taken
  <1>4. \A x \in Held : Kept(Spans(pool), x.at, x.size)
    <2> SUFFICES ASSUME NEW x \in Held PROVE Kept(Spans(pool), x.at, x.size)
      OBVIOUS
    <2>1. CASE \E i \in Open : x = [at |-> arena[i].at, size |-> arena[i].size]
      BY <1>1, <2>1 DEF HoldInv
    <2>2. CASE \E n \in HasAux : x = [at |-> aux[n], size |-> AuxSize[n]]
      BY <1>1, <2>2 DEF HoldInv
    <2> QED BY <2>1, <2>2 DEF Held, Open, HasAux
  <1>5. \A x \in Held : /\ x.at % ALIGN = 0
                        /\ \E i \in DOMAIN pool : /\ ~pool[i].free /\ DataAt(pool, i) = x.at
                                                  /\ x.at + x.size <= DataEnd(pool, i)
    <2> SUFFICES ASSUME NEW x \in Held
                 PROVE  /\ x.at % ALIGN = 0
                        /\ \E i \in DOMAIN pool : /\ ~pool[i].free /\ DataAt(pool, i) = x.at
                                                  /\ x.at + x.size <= DataEnd(pool, i)
      OBVIOUS
    <2>1. x.at % ALIGN = 0 /\ \E i \in B : DataAt(pool, i) = x.at /\ x.at + x.size <= DataEnd(pool, i)
      BY <1>1, <1>4, HeldBlock
    <2> QED BY <1>3, <2>1
  <1>6. f \in [B -> A]
    <2> SUFFICES ASSUME NEW i \in B PROVE DataAt(pool, i) \in A
      OBVIOUS
    <2>1. SpanOf(pool, i) \in Spans(pool) /\ SpanOf(pool, i)[1] = DataAt(pool, i)
      BY DEF Spans, SpansTo, SpanOf
    <2>2. (\E j \in Open : arena[j].at = DataAt(pool, i)) \/ (\E n \in HasAux : aux[n] = DataAt(pool, i))
      BY <1>1, <2>1 DEF HoldInv
    <2>3. \A j \in Open : [at |-> arena[j].at, size |-> arena[j].size] \in Held
      BY DEF Held, Open
    <2>4. \A n \in HasAux : [at |-> aux[n], size |-> AuxSize[n]] \in Held
      BY DEF Held, HasAux
    <2>5. \A y, z : [at |-> y, size |-> z].at = y
      OBVIOUS
    <2>6. CASE \E j \in Open : arena[j].at = DataAt(pool, i)
      BY <2>3, <2>5, <2>6
    <2>7. CASE \E n \in HasAux : aux[n] = DataAt(pool, i)
      BY <2>4, <2>5, <2>7
    <2> QED BY <2>2, <2>6, <2>7
  <1>7. \A i, j \in B : f[i] = f[j] => i = j
    BY <1>2, StartsDiffer
  <1>8. \A t \in A : \E i \in B : f[i] = t
    <2> SUFFICES ASSUME NEW x \in Held PROVE \E i \in B : f[i] = x.at
      OBVIOUS
    <2>1. \E i \in B : DataAt(pool, i) = x.at /\ x.at + x.size <= DataEnd(pool, i)
      BY <1>1, <1>4, HeldBlock
    <2> QED BY <2>1
  <1>9. IsFiniteSet(B)
    BY <1>2, TakenFinite
  <1>10. stats.allocated = Cardinality(B)
    BY <1>1 DEF HeapInv, StatsOK
  <1> HIDE DEF B, A, f
  <1>11. Cardinality(A) = Cardinality(B)
    BY <1>6, <1>7, <1>8, <1>9, SameCount
  <1>12. Cardinality({i \in DOMAIN pool : ~pool[i].free}) = Cardinality({x.at : x \in Held})
    BY <1>3, <1>11 DEF A
  <1>13. stats.allocated = Cardinality({x.at : x \in Held})
    BY <1>10, <1>11 DEF A
  <1> QED BY <1>5, <1>12, <1>13 DEF EachInItsBlock

LEMMA ArenasApart ==
  ASSUME NEW g \in Nat, MemInv(g), NEW i \in Open, NEW j \in Open, i # j
  PROVE  /\ arena[i].at \in Int /\ arena[i].size \in Int /\ arena[j].at \in Int /\ arena[j].size \in Int
         /\ arena[i].at + arena[i].size <= arena[j].at \/ arena[j].at + arena[j].size <= arena[i].at
  <1>1. HeapInv /\ SlotsInv /\ HoldInv(Spans(pool))
    BY DEF MemInv
  <1>2. base \in Int /\ pool \in Seq(BlockT) /\ Len(pool) \in Nat
    BY <1>1 DEF HeapInv, PoolOK
  <1>3. \A k \in Open : arena[k].at \in Int /\ arena[k].size \in Int
    <2> SUFFICES ASSUME NEW k \in Open PROVE arena[k].at \in Int /\ arena[k].size \in Int
      OBVIOUS
    <2>1. arena[k] \in ArenaT
      BY <1>1 DEF SlotsInv, Open, LiveArenas
    <2>2. arena[k].at \in Int /\ arena[k].size \in Sizes
      BY <2>1 DEF ArenaT
    <2> QED BY <2>2, Numbers
  <1>4. Kept(Spans(pool), arena[i].at, arena[i].size) /\ Kept(Spans(pool), arena[j].at, arena[j].size)
    BY <1>1 DEF HoldInv
  <1>5. PICK a \in Taken(pool, Len(pool)) : DataAt(pool, a) = arena[i].at /\ arena[i].at + arena[i].size <= DataEnd(pool, a)
    BY <1>1, <1>4, HeldBlock
  <1>6. PICK b \in Taken(pool, Len(pool)) : DataAt(pool, b) = arena[j].at /\ arena[j].at + arena[j].size <= DataEnd(pool, b)
    BY <1>1, <1>4, HeldBlock
  <1>7. a # b
    <2>1. arena[i].at # arena[j].at
      BY <1>1 DEF HoldInv
    <2> QED BY <1>5, <1>6, <2>1
  <1>8. a \in 1..Len(pool) /\ b \in 1..Len(pool)
    BY DEF Taken
  <1>9. DataEnd(pool, a) \in Int /\ DataEnd(pool, b) \in Int
    BY <1>2, <1>8, SpanIn
  <1>10. a < b \/ b < a
    BY <1>7, <1>8
  <1>11. CASE a < b
    <2>1. DataEnd(pool, a) + 12 <= DataAt(pool, b)
      BY <1>2, <1>8, <1>11, SpansOrder
    <2> QED BY <1>3, <1>5, <1>6, <1>9, <2>1
  <1>12. CASE b < a
    <2>1. DataEnd(pool, b) + 12 <= DataAt(pool, a)
      BY <1>2, <1>8, <1>12, SpansOrder
    <2> QED BY <1>3, <1>5, <1>6, <1>9, <2>1
  <1> QED BY <1>10, <1>11, <1>12

LEMMA RecordsDiffer ==
  ASSUME NEW g \in Nat, MemInv(g), NEW n \in HasRecord, NEW q \in HasRecord, n # q
  PROVE  /\ RecordAt(n) \in Int /\ RecordAt(q) \in Int /\ RecSize[n] \in Nat \ {0} /\ RecSize[q] \in Nat \ {0}
         /\ RecordAt(n) + RecSize[n] <= RecordAt(q) \/ RecordAt(q) + RecSize[q] <= RecordAt(n)
  <1> DEFINE i == nalloc[n]
             j == nalloc[q]
  <1>1. SlotsInv /\ RunInv /\ LocInv /\ PlaceInv /\ RecInv
    BY DEF MemInv
  <1>2. i \in Open /\ j \in Open /\ n \in Nodes /\ q \in Nodes
    BY <1>1, RecOpen
  <1>3. RecSize[n] \in Nat \ {0} /\ RecSize[q] \in Nat \ {0} /\ nmem[n] \in Nat /\ nmem[q] \in Nat
    BY <1>1, <1>2, Shape DEF SlotsInv
  <1>4. \A k \in Open : /\ arena[k].at \in Int /\ arena[k].size \in Int /\ arena[k].used \in Nat
                        /\ arena[k].used <= arena[k].size
    <2> SUFFICES ASSUME NEW k \in Open
                 PROVE  /\ arena[k].at \in Int /\ arena[k].size \in Int /\ arena[k].used \in Nat
                        /\ arena[k].used <= arena[k].size
      OBVIOUS
    <2>1. arena[k] \in ArenaT /\ arena[k].used <= arena[k].size
      BY <1>1 DEF SlotsInv, Open, LiveArenas
    <2>2. arena[k].at \in Int /\ arena[k].size \in Sizes /\ arena[k].used \in Nat
      BY <2>1 DEF ArenaT
    <2> QED BY <2>1, <2>2, Numbers
  <1>5. RecordAt(n) = arena[i].at + nmem[n] /\ RecordAt(q) = arena[j].at + nmem[q]
    BY DEF RecordAt
  <1>6. nmem[n] + RecSize[n] <= arena[i].used /\ nmem[q] + RecSize[q] <= arena[j].used
    BY <1>1 DEF RecInv
  <1>7. RecordAt(n) \in Int /\ RecordAt(q) \in Int
    BY <1>2, <1>3, <1>4, <1>5
  <1>8. CASE i = j
    <2>1. nmem[n] + RecSize[n] <= nmem[q] \/ nmem[q] + RecSize[q] <= nmem[n]
      BY <1>1, <1>8 DEF RecInv
    <2> QED BY <1>2, <1>3, <1>4, <1>5, <1>7, <1>8, <2>1
  <1>9. CASE i # j
    <2>1. arena[i].at + arena[i].size <= arena[j].at \/ arena[j].at + arena[j].size <= arena[i].at
      <3> HIDE DEF i, j
      <3> QED BY <1>2, <1>9, ArenasApart
    <2> HIDE DEF i, j
    <2> QED BY <1>2, <1>3, <1>4, <1>5, <1>6, <1>7, <2>1
  <1> QED BY <1>3, <1>7, <1>8, <1>9

LEMMA RecordsSound ==
  ASSUME NEW g \in Nat, MemInv(g)
  PROVE  RecordsApart
  <1> DEFINE A == {RecordAt(n) : n \in HasRecord}
             f == [n \in HasRecord |-> RecordAt(n)]
  <1>1. SlotsInv /\ RunInv /\ LocInv /\ PlaceInv /\ RecInv
    BY DEF MemInv
  <1>2. \A n \in HasRecord : nalloc[n] \in LiveArenas /\ nmem[n] + RecSize[n] <= arena[nalloc[n]].used
    BY <1>1, RecOpen DEF Open, RecInv
  <1>3. \A n, q \in HasRecord : RecordAt(n) < RecordAt(q) => RecordAt(n) + RecSize[n] <= RecordAt(q)
    <2> SUFFICES ASSUME NEW n \in HasRecord, NEW q \in HasRecord, RecordAt(n) < RecordAt(q)
                 PROVE RecordAt(n) + RecSize[n] <= RecordAt(q)
      OBVIOUS
    <2>1. CASE n = q
      <3>1. RecordAt(n) \in Int
        <4>1. nalloc[n] \in Open /\ n \in Nodes
          BY <1>1, RecOpen
        <4>2. arena[nalloc[n]] \in ArenaT /\ nmem[n] \in Nat
          BY <1>1, <4>1 DEF SlotsInv, Open, LiveArenas
        <4>3. arena[nalloc[n]].at \in Int
          BY <4>2 DEF ArenaT
        <4> QED BY <4>2, <4>3 DEF RecordAt
      <3> QED BY <2>1, <3>1
    <2>2. CASE n # q
      <3>1. /\ RecordAt(n) \in Int /\ RecordAt(q) \in Int /\ RecSize[n] \in Nat \ {0} /\ RecSize[q] \in Nat \ {0}
            /\ RecordAt(n) + RecSize[n] <= RecordAt(q) \/ RecordAt(q) + RecSize[q] <= RecordAt(n)
        BY <2>2, RecordsDiffer
      <3> QED BY <3>1
    <2> QED BY <2>1, <2>2
  <1>4. \A n, q \in HasRecord : f[n] = f[q] => n = q
    <2> SUFFICES ASSUME NEW n \in HasRecord, NEW q \in HasRecord, RecordAt(n) = RecordAt(q), n # q PROVE FALSE
      OBVIOUS
    <2>1. /\ RecordAt(n) \in Int /\ RecordAt(q) \in Int /\ RecSize[n] \in Nat \ {0} /\ RecSize[q] \in Nat \ {0}
          /\ RecordAt(n) + RecSize[n] <= RecordAt(q) \/ RecordAt(q) + RecSize[q] <= RecordAt(n)
      BY RecordsDiffer
    <2> QED BY <2>1
  <1>5. f \in [HasRecord -> A] /\ \A t \in A : \E n \in HasRecord : f[n] = t
    OBVIOUS
  <1>6. IsFiniteSet(HasRecord)
    <2>1. HasRecord \subseteq Nodes
      BY DEF HasRecord
    <2>2. IsFiniteSet(Nodes)
      <3> DEFINE N == {KbNodes[k] : k \in DOMAIN KbNodes}
                 h == [k \in DOMAIN KbNodes |-> KbNodes[k]]
      <3>1. h \in Surjection(DOMAIN KbNodes, N)
        BY DEF Surjection
      <3>2. IsFiniteSet(N)
        <4> HIDE DEF N, h
        <4> QED BY <3>1, Shape, FS_Surjection
      <3>3. \A X \in N : IsFiniteSet(X)
        BY Shape DEF KbShape
      <3>4. Nodes = UNION N
        BY DEF Nodes
      <3> HIDE DEF N
      <3> QED BY <3>2, <3>3, <3>4, FS_UNION
    <2> QED BY <2>1, <2>2, FS_Subset
  <1>7. Cardinality(A) = Cardinality(HasRecord)
    <2> HIDE DEF A, f
    <2> QED BY <1>4, <1>5, <1>6, SameCount
  <1> QED BY <1>2, <1>3, <1>7 DEF RecordsApart

LEMMA MemSound ==
  ASSUME NEW g \in Nat, MemInv(g)
  PROVE  HeapSound
  <1>1. HeapInv /\ SlotsInv
    BY DEF MemInv
  <1>2. base \in Int /\ PoolOK(pool) /\ fault \in {"none", "oom"}
    BY <1>1 DEF HeapInv
  <1>3. MemTypeOK
    <2>1. \A i \in DOMAIN pool : pool[i].size \in MIN_BLOCK_SIZE..HeapSize
      BY <1>2, BlockFits, Shape
    <2>2. \A i \in LiveArenas : arena[i].used \in 0..arena[i].size
      <3> SUFFICES ASSUME NEW i \in LiveArenas PROVE arena[i].used \in 0..arena[i].size
        OBVIOUS
      <3>1. arena[i] \in ArenaT /\ arena[i].used <= arena[i].size
        BY <1>1 DEF SlotsInv, LiveArenas
      <3>2. arena[i].size \in Nat /\ arena[i].used \in Nat
        BY <3>1, Numbers DEF ArenaT
      <3> QED BY <3>1, <3>2
    <2>3. stats.used <= HeapSize
      BY <1>1 DEF HeapInv, StatsOK
    <2> QED BY <1>1, <1>2, <2>1, <2>2, <2>3 DEF MemTypeOK, SlotsInv
  <1>4. Tiled /\ NoFragments
    BY <1>2 DEF Tiled, NoFragments, PoolOK, NoFrag
  <1>5. OnlyHeapFull
    BY <1>2 DEF OnlyHeapFull
  <1> QED BY <1>3, <1>4, <1>5, HeldInBlocks, RecordsSound DEF HeapSound

(* For every set of KBs, local arenas and boot sizes: if each arena has    *)
(* room for a unit of 4 * g bytes per resident, then whatever the order in *)
(* which KBs, local arenas and nodes start and end, the heap's blocks tile *)
(* it, everything held has a block of its own and nothing else has one,    *)
(* free neighbours are merged, records never overlap, and no exception but *)
(* a full heap is raised.                                                  *)
THEOREM HeapSafety ==
  ASSUME NEW CONSTANT g \in Nat, Roomy(g)
  PROVE  MemSpec => []HeapSound
  <1>1. MemInit => MemInv(g)
    BY MemInitInv
  <1>2. MemInv(g) /\ [MemNext]_memVars => MemInv(g)'
    BY MemStep
  <1>3. MemInv(g) => HeapSound
    BY MemSound
  <1> QED BY <1>1, <1>2, <1>3, PTL DEF MemSpec

=============================================================================
