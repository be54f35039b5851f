------------------------------ MODULE CflMemory ------------------------------
(***************************************************************************)
(* The engine's three allocators, to the byte: the permanent bump pool     *)
(* (cfl_perm), the first-fit heap carved out of it (cfl_heap), and the     *)
(* arenas on that heap from which a KB's nodes take their records          *)
(* (cfl_heap_arena_allocate).  The actions are the engine's uses of them:  *)
(* KBs started and stopped, local arenas entered and left, nodes started   *)
(* and ended, in any order the engine can produce.                         *)
(*                                                                         *)
(* The heap is the sequence of its blocks, each [size, free, pad]; a block *)
(* occupies HEADER + size + FOOTER bytes and hands out the address after   *)
(* its padding.  Block magics and footers are not modelled: nothing in the *)
(* engine writes past its record.  C's uint16_t arithmetic wraps.          *)
(***************************************************************************)
EXTENDS Integers, Sequences, FiniteSets, FiniteSetsExt

CONSTANTS
    PermSize,     \* perm_buffer_size
    HeapSize,     \* heap_size
    Arena0Size,   \* allocator_0_size
    BootSizes,    \* sizes of the engine objects made before the heap: a set of sequences
    KbNodes,      \* KB -> the set of its nodes
    KbSize,       \* KB -> node_count * memory_factor
    Local,        \* local-arena node -> the set of nodes below it
    LocalSize,    \* arena_size of a local-arena node
    RecSize,      \* node -> size of its record
    AuxSize,      \* node -> size of the aux record it mallocs, 0 for none
    MaxArenas     \* max_allocator_count

HEADER == 10
FOOTER == 2
ALIGN  == 4
MIN_BLOCK_SIZE == 8
UINT16  == 65536
NoIdx   == 65535
NoArena == [size |-> 0]
NO_ALLOCATOR == 255
Nodes == UNION {KbNodes[k] : k \in DOMAIN KbNodes}
Ids   == 0..MaxArenas - 1

(* Sizes that align_up does not wrap; cfl_heap_init refuses a small pool.  *)
(* KBs have nodes of their own, and local arenas are nested as the tree is *)
(* and are no root of a KB.                                                *)
Sizes == 1..(UINT16 - ALIGN)
Below(l) == Local[l] \cup {l}
ASSUME CflMemoryAssumption ==
    /\ PermSize \in Nat /\ Arena0Size \in Sizes /\ BootSizes \subseteq Seq(Nat)
    /\ HeapSize \in Nat /\ HeapSize >= HEADER + MIN_BLOCK_SIZE + FOOTER
    /\ MaxArenas \in 2..NO_ALLOCATOR
    /\ \A k \in DOMAIN KbNodes : KbNodes[k] \subseteq Nat /\ KbNodes[k] # {} /\ IsFiniteSet(KbNodes[k])
    /\ \A j, k \in DOMAIN KbNodes : j # k => KbNodes[j] \cap KbNodes[k] = {}
    /\ IsFiniteSet(DOMAIN KbNodes)
    /\ KbSize \in [DOMAIN KbNodes -> Sizes] /\ LocalSize \in Sizes
    /\ RecSize \in [Nodes -> Nat \ {0}] /\ AuxSize \in [Nodes -> Sizes \cup {0}]
    /\ \A l \in DOMAIN Local :
         /\ l \notin Local[l]
         /\ \E k \in DOMAIN KbNodes : Below(l) \subseteq KbNodes[k] \ {Min(KbNodes[k])}
    /\ \A l, m \in DOMAIN Local :
         l = m \/ Below(l) \cap Below(m) = {} \/ Below(l) \subseteq Local[m] \/ Below(m) \subseteq Local[l]

VARIABLES
    perm,      \* [used, given]: perm->used and the regions handed out
    pool,      \* the heap's blocks, in address order
    base,      \* address of heap->pool
    arena,     \* sys->arenas: id -> control block
    nextId,    \* sys->next_allocator_id
    nalloc,    \* sys->node_allocator_ids
    nmem,      \* sys->node_memory_index
    aux,       \* auxiliary_data of each node, NoIdx when it has none
    stats,     \* heap->stats
    fault      \* the EXCEPTION raised: oom, ids, arena or free

memVars == <<perm, pool, base, arena, nextId, nalloc, nmem, aux, stats, fault>>

align_up(v, a) == (((v + a - 1) \div a) * a) % UINT16
Rounded(size) == IF align_up(size, ALIGN) < MIN_BLOCK_SIZE THEN MIN_BLOCK_SIZE ELSE align_up(size, ALIGN)
(* Bytes from address a to the next aligned one.                           *)
Padding(a) == (-a) % ALIGN

-----------------------------------------------------------------------------
(* cfl_perm: a bump allocator that never frees.                            *)

NoFit == [ok |-> FALSE]

cfl_perm_init == [ok |-> TRUE, used |-> 0, given |-> <<>>]

cfl_perm_alloc(p, size) ==
    LET at == p.used + Padding(p.used)
    IN  IF ~p.ok \/ at + Rounded(size) > PermSize THEN NoFit
        ELSE [ok |-> TRUE, used |-> at + Rounded(size),
              given |-> Append(p.given, [at |-> at, size |-> size])]

-----------------------------------------------------------------------------
(* cfl_heap.                                                               *)

Whole(b) == HEADER + b.size + FOOTER
FreeBlock(size) == [size |-> size, free |-> TRUE, pad |-> 0]
UsedBlock(size, pad) == [size |-> size, free |-> FALSE, pad |-> pad]

(* The running totals of a sequence of numbers.                            *)
Running(xs) ==
    LET t[k \in 0..Len(xs)] == IF k = 0 THEN 0 ELSE t[k - 1] + xs[k] IN t

(* Addresses of the end of block i of heap p, of the block and its data.   *)
EndOf(p, i)   == base + Running([j \in 1..Len(p) |-> Whole(p[j])])[i]
BlockAt(p, i) == EndOf(p, i - 1)
DataAt(p, i)  == BlockAt(p, i) + HEADER + p[i].pad
DataEnd(p, i) == BlockAt(p, i) + HEADER + p[i].size

(* The statistics nothing reads (calls so far, peak) are left out.         *)
update_stats(p, s) ==
    [s EXCEPT !.blocks = Len(p),
              !.allocated = Running([j \in 1..Len(p) |-> IF p[j].free THEN 0 ELSE 1])[Len(p)],
              !.used = Running([j \in 1..Len(p) |-> IF p[j].free THEN 0 ELSE Whole(p[j])])[Len(p)]]

ZeroStats == [blocks |-> 0, allocated |-> 0, used |-> 0]

cfl_heap_init == <<FreeBlock(HeapSize - HEADER - FOOTER)>>

(* The pad of block i for an aligned address, and the first block that is  *)
(* free and large enough with it.                                          *)
PadIn(p, i)   == Padding(BlockAt(p, i) + HEADER)
Fits(p, size) == {i \in DOMAIN p : p[i].free /\ p[i].size >= PadIn(p, i) + size}

(* Block i taken for total bytes: split when what is left can be a block.  *)
Take(p, i, total, pad) ==
    LET rest == p[i].size - total
    IN  IF rest < HEADER + MIN_BLOCK_SIZE + FOOTER THEN [p EXCEPT ![i] = UsedBlock(@.size, pad)]
        ELSE SubSeq(p, 1, i - 1) \o <<UsedBlock(total, pad), FreeBlock(rest - HEADER - FOOTER)>>
             \o SubSeq(p, i + 1, Len(p))

(* The heap after an allocation of size bytes, and the address handed out. *)
cfl_heap_malloc(p, size) ==
    LET n == Rounded(size)
        i == Min(Fits(p, n))
        q == Take(p, i, PadIn(p, i) + n, PadIn(p, i))
    IN  IF size = 0 \/ Fits(p, n) = {} THEN NoFit
        ELSE [ok |-> TRUE, pool |-> q, at |-> DataAt(q, i)]

(* Block b put behind the blocks q: a free one joins a free one before it. *)
Merged(q, b) == [q EXCEPT ![Len(q)] = FreeBlock(@.size + Whole(b))]
Join(q, b) == IF q # <<>> /\ q[Len(q)].free /\ b.free THEN Merged(q, b) ELSE Append(q, b)

(* Mutant: a free block is merged with the block after it, free or not.    *)
coalesce_any(p) ==
    LET q[k \in 0..Len(p)] == IF k = 0 THEN <<>>
                              ELSE IF q[k - 1] # <<>> /\ q[k - 1][Len(q[k - 1])].free THEN Merged(q[k - 1], p[k])
                              ELSE Append(q[k - 1], p[k])
    IN  q[Len(p)]

coalesce_free_blocks(p) ==
    LET q[k \in 0..Len(p)] == IF k = 0 THEN <<>> ELSE Join(q[k - 1], p[k])
    IN  q[Len(p)]

(* The block is found by the address: it must lie in some block's data,    *)
(* and that block must be allocated.                                       *)
cfl_heap_free(p, at) ==
    LET B == {i \in DOMAIN p : DataAt(p, i) <= at /\ at < DataEnd(p, i)}
    IN  IF B = {} \/ p[Min(B)].free THEN NoFit
        ELSE [ok |-> TRUE,
              pool |-> coalesce_free_blocks([p EXCEPT ![Min(B)] = FreeBlock(@.size)])]

-----------------------------------------------------------------------------
(* Arenas.                                                                 *)

Free == {i \in Ids : arena[i] = NoArena}

(* Ids are given out round robin from next_allocator_id.                   *)
find_free_id == (nextId + Min({i \in Ids : (nextId + i) % MaxArenas \in Free})) % MaxArenas

ArenaBase(id) == arena[id].at

(* The record of size bytes that a node of arena id takes next.            *)
arena_bump_alloc(id, size) ==
    LET pad == Padding(ArenaBase(id) + arena[id].used)
    IN  IF arena[id].used + pad + size > arena[id].size THEN NoFit
        ELSE [ok |-> TRUE, offset |-> arena[id].used + pad, used |-> arena[id].used + pad + size]

Fault(f) == fault' = f /\ UNCHANGED <<perm, pool, base, arena, nextId, nalloc, nmem, aux, stats>>
Fine     == fault' = "none" /\ UNCHANGED <<perm, base>>

(* A new arena of size bytes for owner, to which the nodes in S move; the  *)
(* owner may take its own record in it at once.                            *)
cfl_heap_arena_create(owner, size, S, used) ==
    LET r == cfl_heap_malloc(pool, align_up(size, ALIGN))
    IN  IF Free = {} THEN Fault("ids") ELSE IF ~r.ok THEN Fault("oom")
        ELSE IF used > size THEN Fault("arena")
        ELSE /\ pool' = r.pool /\ stats' = update_stats(r.pool, stats) /\ Fine
             /\ arena' = [arena EXCEPT ![find_free_id] =
                            [at |-> r.at, size |-> align_up(size, ALIGN), used |-> used,
                             owner |-> owner]]
             /\ nalloc' = [n \in Nodes |-> IF n \in S THEN find_free_id ELSE nalloc[n]]
             /\ nmem' = [n \in Nodes |-> IF n = owner /\ used > 0 THEN 0
                                         ELSE IF n \in S THEN NoIdx ELSE nmem[n]]
             /\ nextId' = (find_free_id + 1) % MaxArenas
             /\ UNCHANGED aux

(* The nodes of a destroyed arena have no record any more.                 *)
Forget(id) == nmem' = [n \in Nodes |-> IF nalloc[n] = id THEN NoIdx ELSE nmem[n]]

(* The arena is given back; its nodes fall to allocator to.                *)
cfl_heap_arena_destroy(id, owner, to, S) ==
    LET r == cfl_heap_free(pool, arena[id].at)
    IN  IF id = 0 \/ arena[id] = NoArena THEN Fault("free")
        ELSE IF arena[id].owner # owner \/ ~r.ok THEN Fault("free")
        ELSE /\ pool' = r.pool /\ stats' = update_stats(r.pool, stats) /\ Fine
             /\ arena' = [arena EXCEPT ![id] = NoArena]
             /\ nalloc' = [n \in Nodes |-> IF n \in S THEN to
                                           ELSE IF nalloc[n] = id THEN 0 ELSE nalloc[n]]
             /\ Forget(id) /\ UNCHANGED <<nextId, aux>>

-----------------------------------------------------------------------------
(* cfl_runtime_create: engine objects, the heap's pool and allocator 0.    *)
Objects(sizes) ==
    LET a[k \in 0..Len(sizes)] == IF k = 0 THEN cfl_perm_init ELSE cfl_perm_alloc(a[k - 1], sizes[k])
    IN  a[Len(sizes)]

Create(sizes) ==
    LET b == cfl_perm_alloc(Objects(sizes), HeapSize)
        c == cfl_perm_alloc(b, Arena0Size)
    IN  IF ~c.ok
        THEN /\ fault = "oom" /\ perm = cfl_perm_init /\ base = 0
             /\ arena = [i \in Ids |-> NoArena]
        ELSE /\ fault = "none" /\ perm = c /\ base = b.given[Len(b.given)].at
             /\ arena = [i \in Ids |-> IF i > 0 THEN NoArena
                            ELSE [at |-> c.given[Len(c.given)].at, size |-> align_up(Arena0Size, ALIGN),
                                  used |-> 0, owner |-> NoIdx]]

MemInit ==
    /\ \E sizes \in BootSizes : Create(sizes)
    /\ pool = cfl_heap_init /\ stats = update_stats(cfl_heap_init, ZeroStats)
    /\ nextId = 1
    /\ nalloc = [n \in Nodes |-> 0] /\ nmem = [n \in Nodes |-> NoIdx]
    /\ aux = [n \in Nodes |-> NoIdx]

-----------------------------------------------------------------------------
(* The engine's uses.                                                      *)

KbArena(k) == {i \in Ids \ {0} : arena[i] # NoArena /\ arena[i].owner = Min(KbNodes[k])}
LocalArena(n) == {i \in Ids \ {0} : arena[i] # NoArena /\ arena[i].owner = n}

cfl_add_test_by_index(k) ==
    /\ KbArena(k) = {}
    /\ cfl_heap_arena_create(Min(KbNodes[k]), KbSize[k], KbNodes[k], 0)

(* The KB's nodes were torn down first, local arenas and aux records with  *)
(* them.                                                                   *)
cfl_delete_test_by_index(k) ==
    /\ \A n \in KbNodes[k] : aux[n] = NoIdx
    /\ \A n \in KbNodes[k] \cap DOMAIN Local : LocalArena(n) = {}
    /\ \E id \in KbArena(k) :
         cfl_heap_arena_destroy(id, Min(KbNodes[k]), NO_ALLOCATOR, KbNodes[k])

Active(n) == \E k \in DOMAIN KbNodes : n \in KbNodes[k] /\ KbArena(k) # {}
(* A node below a local arena runs only while that arena is there.         *)
Runs(n) == Active(n) /\ \A l \in DOMAIN Local : n \in Local[l] => LocalArena(l) # {}

(* A node started for the first time in its arena takes its record.        *)
cfl_smart_arena_alloc(n) ==
    LET r == arena_bump_alloc(nalloc[n], RecSize[n])
    IN  /\ Runs(n) /\ n \notin DOMAIN Local
        /\ nmem[n] = NoIdx
        /\ IF ~r.ok THEN Fault("arena")
           ELSE /\ arena' = [arena EXCEPT ![nalloc[n]].used = r.used]
                /\ nmem' = [nmem EXCEPT ![n] = r.offset] /\ Fine
                /\ UNCHANGED <<pool, nextId, nalloc, aux, stats>>

(* Entering a local arena: the nodes below move to it and forget their     *)
(* records, and the node's own record is the first one in it.              *)
cfl_local_arena_init_one_shot_fn(n) ==
    /\ Runs(n) /\ nmem[n] = NoIdx
    /\ cfl_heap_arena_create(n, LocalSize, Local[n] \cup {n}, RecSize[n])

cfl_local_arena_term_one_shot_fn(n) ==
    /\ nmem[n] # NoIdx /\ \A q \in Local[n] : aux[q] = NoIdx
    /\ \A l \in Local[n] \cap DOMAIN Local : LocalArena(l) = {}
    /\ cfl_heap_arena_destroy(nalloc[n], n, 0, {})

(* A waiting node mallocs its aux record when it starts, frees it when it  *)
(* ends.                                                                   *)
cfl_heap_malloc_pointer(n) ==
    LET r == cfl_heap_malloc(pool, AuxSize[n])
    IN  /\ AuxSize[n] > 0 /\ Runs(n) /\ nmem[n] # NoIdx /\ aux[n] = NoIdx
        /\ IF ~r.ok THEN Fault("oom")
           ELSE /\ pool' = r.pool /\ stats' = update_stats(r.pool, stats) /\ Fine
                /\ aux' = [aux EXCEPT ![n] = r.at]
                /\ UNCHANGED <<arena, nextId, nalloc, nmem>>

cfl_heap_free_pointer(n) ==
    LET r == cfl_heap_free(pool, aux[n])
    IN  /\ aux[n] # NoIdx
        /\ IF ~r.ok THEN Fault("free")
           ELSE /\ pool' = r.pool /\ stats' = update_stats(r.pool, stats) /\ Fine
                /\ aux' = [aux EXCEPT ![n] = NoIdx]
                /\ UNCHANGED <<arena, nextId, nalloc, nmem>>

MemNext ==
    /\ fault = "none"
    /\ \/ \E k \in DOMAIN KbNodes : cfl_add_test_by_index(k) \/ cfl_delete_test_by_index(k)
       \/ \E n \in Nodes : \/ cfl_smart_arena_alloc(n)
                           \/ cfl_heap_malloc_pointer(n)
                           \/ cfl_heap_free_pointer(n)
       \/ \E n \in DOMAIN Local : \/ cfl_local_arena_init_one_shot_fn(n)
                                  \/ cfl_local_arena_term_one_shot_fn(n)

MemSpec == MemInit /\ [][MemNext]_memVars

-----------------------------------------------------------------------------
(* How the engine is sized.  A KB's arena has memory_factor bytes per node *)
(* and a local arena what its node asks for: Roomy(g) says that this is    *)
(* 4 * g bytes for each node whose record lies there, and that no record   *)
(* is larger.  cfl_calculate_arrena_number counts an id per KB and local   *)
(* arena, and allocator 0.                                                 *)
KbRoot(k) == Min(KbNodes[k])
Owners == {KbRoot(k) : k \in DOMAIN KbNodes} \cup DOMAIN Local

(* The nodes whose records lie in the arena of o: those of its KB, or      *)
(* below it, that are below no local arena nested in it.                   *)
Residents(o) ==
    IF o \in DOMAIN Local
    THEN {n \in Below(o) : \A m \in DOMAIN Local : m \in Local[o] => n \notin Below(m)}
    ELSE {n \in Nodes : /\ \E k \in DOMAIN KbNodes : o = KbRoot(k) /\ n \in KbNodes[k]
                        /\ \A m \in DOMAIN Local : n \notin Below(m)}

Roomy(g) ==
    /\ \A n \in Nodes : RecSize[n] <= 4 * g
    /\ \A l \in DOMAIN Local : /\ RecSize[l] <= LocalSize
                               /\ (4 * g) * Cardinality(Residents(l)) <= align_up(LocalSize, ALIGN)
    /\ \A k \in DOMAIN KbNodes : (4 * g) * Cardinality(Residents(KbRoot(k))) <= align_up(KbSize[k], ALIGN)
    /\ IsFiniteSet(DOMAIN Local) /\ Cardinality(Owners) < MaxArenas

-----------------------------------------------------------------------------
LiveArenas == {i \in Ids : arena[i] # NoArena}

MemTypeOK ==
    /\ fault \in {"none", "oom", "ids", "arena", "free"} /\ nextId \in Ids
    /\ nalloc \in [Nodes -> Ids \cup {NO_ALLOCATOR}]
    /\ \A i \in DOMAIN pool : pool[i].size \in MIN_BLOCK_SIZE..HeapSize
    /\ \A i \in LiveArenas : arena[i].used \in 0..arena[i].size
    /\ stats.used <= HeapSize

(* The blocks tile the heap exactly: no split, padding or merge loses or   *)
(* invents a byte.                                                         *)
Tiled == EndOf(pool, Len(pool)) = base + HeapSize

(* What the engine holds on the heap: address and size of each.            *)
Held == {[at |-> arena[i].at, size |-> arena[i].size] : i \in LiveArenas \ {0}}
        \cup {[at |-> aux[n], size |-> AuxSize[n]] : n \in {q \in Nodes : aux[q] # NoIdx}}

(* Every arena and aux record the engine holds lies, aligned, inside an    *)
(* allocated block of its own, and no other block is allocated: nothing    *)
(* overlaps, leaks or is freed under its owner, whatever the order of      *)
(* KB, local-arena and node starts and ends.                               *)
EachInItsBlock ==
    fault = "none" =>
    /\ \A x \in Held :
         /\ x.at % ALIGN = 0
         /\ \E i \in DOMAIN pool : /\ ~pool[i].free /\ DataAt(pool, i) = x.at
                                   /\ x.at + x.size <= DataEnd(pool, i)
    /\ Cardinality({i \in DOMAIN pool : ~pool[i].free}) = Cardinality({x.at : x \in Held})
    /\ stats.allocated = Cardinality({x.at : x \in Held})

(* No two free blocks touch, so once everything is given back the heap is  *)
(* one block again: fragmentation never outlives the allocations.          *)
NoFragments == \A i \in 1..Len(pool) - 1 : ~(pool[i].free /\ pool[i + 1].free)

HasRecord == {n \in Nodes : nmem[n] # NoIdx}
RecordAt(n) == arena[nalloc[n]].at + nmem[n]

(* A node that has a record can reach it (cfl_heap_arena_get_node_ptr      *)
(* never raises an exception), inside its arena and apart from the record  *)
(* of any other node, also when its arena's id was reused.                 *)
RecordsApart ==
    fault = "none" =>
    /\ \A n \in HasRecord : /\ nalloc[n] \in LiveArenas
                            /\ nmem[n] + RecSize[n] <= arena[nalloc[n]].used
    /\ \A n, q \in HasRecord : RecordAt(n) < RecordAt(q) => RecordAt(n) + RecSize[n] <= RecordAt(q)
    /\ Cardinality({RecordAt(n) : n \in HasRecord}) = Cardinality(HasRecord)

(* The only exception these uses can raise is a full heap: ids never run   *)
(* out, a free always finds its block, and an arena with room for one      *)
(* record per node is never exhausted, however often nodes start again.    *)
OnlyHeapFull == fault \in {"none", "oom"}

(* cfl_heap and the arenas: whatever the order of starts and ends, the     *)
(* blocks tile the heap, every arena and aux record has an aligned block   *)
(* of its own and no block is lost, free blocks never stay apart, node     *)
(* records never overlap, and a full heap is the only exception.           *)
HeapSound ==
    MemTypeOK /\ Tiled /\ EachInItsBlock /\ NoFragments /\ RecordsApart /\ OnlyHeapFull
=============================================================================
