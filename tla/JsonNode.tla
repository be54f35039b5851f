------------------------------ MODULE JsonNode ------------------------------
(***************************************************************************)
(* json_node_decoder.c: every function of the chain-tree engine reads its  *)
(* node's parameters from one flat array of records that the knowledge     *)
(* base compiler wrote depth first, through a decoder context all nodes    *)
(* share.  Nothing in a record says where its subtree ends: the decoder    *)
(* counts.                                                                 *)
(*                                                                         *)
(* A path is a sequence of characters, a key of the image too.  A float is *)
(* a number of halves.  The document a node was compiled from is kept      *)
(* beside the records, for the properties.  Names are prefixed so that the *)
(* module can be extended with others.  A definition marked faulty is a    *)
(* mutant of the one below it.                                             *)
(***************************************************************************)
EXTENDS Integers, Sequences, SequencesExt

CONSTANTS
    JnDocs,        \* documents the second node may be compiled from
    JnFirst,       \* the document of the first node
    JnPaths,       \* paths the engine's functions ask for
    JnKeyBuf       \* sizeof(key_buf)

VARIABLES
    jnDoc,         \* the documents of the nodes, in the order of their regions
    jnRecords,     \* node_data_records
    jnControl,     \* node_data_controls: start_position, num_records
    jnCtx,         \* current_control_idx of the decoder context
    jnOut,         \* the last answer and what was asked for
    jnUp           \* FALSE: EXCEPTION, spinning until the watchdog bites
jnVars == <<jnDoc, jnRecords, jnControl, jnCtx, jnOut, jnUp>>
jnImage == <<jnDoc, jnRecords, jnControl>>

-----------------------------------------------------------------------------
(* The compiler: a container is followed by its children, an object's are  *)
(* key, value, key, value.                                                 *)
IsContainer(t) == t.type \in {"array", "object"}
RECURSIVE Flat(_)
Flat(t) ==
    CASE t.type = "array" -> <<[type |-> "array", v |-> Len(t.v)]>> \o FlattenSeq([i \in DOMAIN t.v |-> Flat(t.v[i])])
      [] t.type = "object" -> <<[type |-> "object", v |-> 2 * Len(t.v)]>> \o
             FlattenSeq([i \in DOMAIN t.v |-> <<[type |-> "string", v |-> t.v[i].key]>> \o Flat(t.v[i].val)])
      [] OTHER -> <<t>>

JnInit == /\ jnDoc = << >> /\ jnRecords = << >> /\ jnControl = << >>
          /\ jnCtx = 0 /\ jnOut = [kind |-> "none"] /\ jnUp = TRUE
Flashed(first, second) ==
    /\ jnRecords' = first \o second
    /\ jnControl' = <<[start |-> 0, num |-> Len(first)], [start |-> Len(first), num |-> Len(second)]>>
FlashImage(doc) ==
    /\ jnDoc = << >> /\ jnDoc' = <<JnFirst, doc>>
    /\ Flashed(Flat(JnFirst), Flat(doc))
    /\ UNCHANGED <<jnCtx, jnOut, jnUp>>

-----------------------------------------------------------------------------
(* json_get_record, NULL past the end; json_calc_subtree_size.             *)
NullRecord == [type |-> "NULL"]
GetRecord(i) == IF i < Len(jnRecords) THEN jnRecords[i + 1] ELSE NullRecord
ShallowSize(i) == IF IsContainer(GetRecord(i)) THEN 1 + GetRecord(i).v ELSE 1          \* faulty
RECURSIVE SubtreeSize(_), Elements(_, _), Members(_, _)
NextElement(c, n, size) == size + Elements(c + size, n - 1)
Elements(c, n) == IF n = 0 THEN 0 ELSE NextElement(c, n, SubtreeSize(c))
NextMember(c, n, size) == 1 + size + Members(c + 1 + size, n - 2)
Members(c, n) == IF n <= 0 THEN 0 ELSE NextMember(c, n, SubtreeSize(c + 1))
SubtreeSize(i) ==
    CASE GetRecord(i).type = "array" -> 1 + Elements(i + 1, GetRecord(i).v)
      [] GetRecord(i).type = "object" -> 1 + Members(i + 1, GetRecord(i).v)
      [] OTHER -> 1

(* json_find_object_child and json_get_array_child; Exc is EXCEPTION.      *)
Exc == -1
KeyAt(c, key) == GetRecord(c).type = "string" /\ GetRecord(c).v = key
NextKeyFlat(c) == c + 2                                                      \* faulty
NextKey(c) == c + 1 + SubtreeSize(c + 1)
RECURSIVE FindKey(_, _, _), SkipElements(_, _)
FindKey(c, n, key) == IF n <= 0 THEN Exc ELSE IF KeyAt(c, key) THEN c + 1
                      ELSE FindKey(NextKey(c), n - 2, key)
FindObjectChild(p, key) == IF GetRecord(p).type # "object" THEN Exc ELSE FindKey(p + 1, GetRecord(p).v, key)
SkipElements(c, n) == IF n = 0 THEN c ELSE SkipElements(c + SubtreeSize(c), n - 1)
GetArrayChild(p, i) == IF GetRecord(p).type # "array" THEN Exc
                       ELSE IF i >= GetRecord(p).v THEN Exc ELSE SkipElements(p + 1, i)

(* parse_path_component: a key, at most one index, one dot.  A key that    *)
(* does not fit the buffer is cut there and goes on as the next component. *)
Digits == [d \in {"0", "1", "2", "3"} |-> CASE d = "0" -> 0 [] d = "1" -> 1 [] d = "2" -> 2 [] OTHER -> 3]
RunUpTo(p, stops) == IF stops = {} THEN Len(p) ELSE (CHOOSE i \in stops : \A j \in stops : i <= j) - 1
KeyLen(p) == LET n == RunUpTo(p, {i \in DOMAIN p : p[i] \in {".", "["}}) IN IF n < JnKeyBuf - 1 THEN n ELSE JnKeyBuf - 1
From(p, i) == SubSeq(p, i, Len(p))
DropIf(p, c) == IF p # << >> /\ Head(p) = c THEN Tail(p) ELSE p
Decimal(ds) == FoldLeft(LAMBDA n, d : 10 * n + Digits[d], 0, ds)
Indexed(key, p, n) == [key |-> key, idx |-> Decimal(SubSeq(p, 1, n)), next |-> DropIf(DropIf(From(p, n + 1), "]"), ".")]
AfterKey(key, p) == IF p = << >> \/ Head(p) # "[" THEN [key |-> key, idx |-> -1, next |-> DropIf(p, ".")]
                    ELSE Indexed(key, Tail(p), RunUpTo(Tail(p), {i \in DOMAIN Tail(p) : Tail(p)[i] \notin DOMAIN Digits}))
ParsePathComponent(p) == AfterKey(SubSeq(p, 1, KeyLen(p)), From(p, KeyLen(p) + 1))

(* json_navigate_path                                                      *)
ByKey(rec, key) == IF key = << >> THEN rec ELSE FindObjectChild(rec, key)
ByIndex(rec, i) == IF i < 0 \/ rec = Exc THEN rec ELSE GetArrayChild(rec, i)
RECURSIVE NavigatePath(_, _)
Along(rec, c) == NavigatePath(ByIndex(ByKey(rec, c.key), c.idx), c.next)
NavigatePath(rec, path) == IF path = << >> \/ rec = Exc THEN rec ELSE Along(rec, ParsePathComponent(path))

(* json_get_int32, _float32, _bool, _string_value, json_is_null,           *)
(* json_get_child_count: the answer, or the exception.                     *)
Raise == [ok |-> FALSE]
Ok(v) == [ok |-> TRUE, v |-> v]
Truncated(h) == IF h >= 0 THEN h \div 2 ELSE -((-h) \div 2)
Read(r, kind) ==
    CASE kind = "int32" /\ r.type = "int32" -> Ok(r.v)
      [] kind = "int32" /\ r.type = "float32" -> Ok(Truncated(r.v))
      [] kind = "float32" /\ r.type = "float32" -> Ok(r.v)
      [] kind = "float32" /\ r.type = "int32" -> Ok(2 * r.v)
      [] kind = "bool" /\ r.type = "bool" -> Ok(r.v)
      [] kind = "string" /\ r.type = "string" -> Ok(r.v)
      [] kind = "is_null" -> Ok(r.type = "null")
      [] kind = "length" /\ r.type = "array" -> Ok(r.v)
      [] OTHER -> Raise

-----------------------------------------------------------------------------
Root == jnControl[jnCtx].start
Answered(kind, path, a) ==
    /\ jnOut' = [kind |-> kind, path |-> path, node |-> jnCtx, ans |-> a]
    /\ jnUp' = a.ok
    /\ UNCHANGED <<jnImage, jnCtx>>

(* json_decoder_init_from_runtime                                          *)
DecoderInit(n) ==
    /\ jnUp /\ jnDoc # << >> /\ n # jnCtx
    /\ jnCtx' = n
    /\ UNCHANGED <<jnImage, jnOut, jnUp>>

(* json_extract_*_runtime                                                  *)
Extract(kind, path) ==
    /\ jnUp /\ jnCtx # 0
    /\ Answered(kind, path, IF NavigatePath(Root, path) = Exc THEN Raise
                            ELSE Read(GetRecord(NavigatePath(Root, path)), kind))

(* An array read element by element: json_get_child_count, then            *)
(* json_get_array_child and json_get_int32 for every index below it.       *)
ListOf(els) == IF \A i \in DOMAIN els : els[i].ok THEN Ok([i \in DOMAIN els |-> els[i].v]) ELSE Raise
IntAt(rec, i) == IF GetArrayChild(rec, i) = Exc THEN Raise ELSE Read(GetRecord(GetArrayChild(rec, i)), "int32")
ListAt(rec) == IF ~IsContainer(GetRecord(rec)) THEN Raise
               ELSE ListOf([i \in 1..GetRecord(rec).v |-> IntAt(rec, i - 1)])
ReadList(path) ==
    /\ jnUp /\ jnCtx # 0
    /\ Answered("list", path, IF NavigatePath(Root, path) = Exc THEN Raise ELSE ListAt(NavigatePath(Root, path)))

(* json_validate_records                                                   *)
EndsInside(i, last) == IsContainer(GetRecord(i)) => i + 1 + GetRecord(i).v <= last
ValidRegion(c) == /\ c.start + c.num <= Len(jnRecords)
                  /\ \A i \in c.start..(c.start + c.num - 1) : EndsInside(i, c.start + c.num)

JnKinds == {"int32", "float32", "bool", "string", "is_null", "length"}
JnNext == \/ \E doc \in JnDocs : FlashImage(doc)
          \/ \E n \in DOMAIN jnDoc : DecoderInit(n)
          \/ \E path \in JnPaths : ReadList(path) \/ \E kind \in JnKinds : Extract(kind, path)
JnSpec == JnInit /\ [][JnNext]_jnVars

-----------------------------------------------------------------------------
(* What the decoder counts as the subtree of a node's root is the region   *)
(* the compiler gave the node, for every document, and the region passes   *)
(* json_validate_records.                                                  *)
RegionIsSubtree ==
    \A n \in DOMAIN jnControl : /\ SubtreeSize(jnControl[n].start) = jnControl[n].num
                                /\ ValidRegion(jnControl[n])

(* The document, walked as the tree it is.                                 *)
Missing == [type |-> "missing"]
MemberOf(t, key) == LET at == {i \in DOMAIN t.v : t.v[i].key = key} IN
                    IF at = {} THEN Missing ELSE t.v[CHOOSE i \in at : \A j \in at : i <= j].val
StepKey(t, key) == IF key = << >> THEN t ELSE IF t.type = "object" THEN MemberOf(t, key) ELSE Missing
StepIdx(t, i) == IF i < 0 THEN t
                 ELSE IF t.type = "array" /\ i < Len(t.v) THEN t.v[i + 1] ELSE Missing
RECURSIVE WalkTree(_, _)
WalkTree(t, path) == IF path = << >> \/ t = Missing THEN t
                     ELSE WalkTree(StepIdx(StepKey(t, ParsePathComponent(path).key), ParsePathComponent(path).idx),
                                   ParsePathComponent(path).next)
ShouldRead(t, kind) ==
    CASE t = Missing -> Raise
      [] kind = "length" -> IF t.type = "array" THEN Ok(Len(t.v)) ELSE Raise
      [] kind = "list" -> IF t.type = "array"
                          THEN ListOf([i \in DOMAIN t.v |-> Read(t.v[i], "int32")])
                          ELSE IF t.type = "object" /\ t.v = << >> THEN Ok(<< >>) ELSE Raise
      [] OTHER -> Read(t, kind)

(* Whatever a function asks for, it gets what the document of its own node *)
(* says there - and the engine stops exactly when the document has no such *)
(* value - although values of any shape lie before it and another node's   *)
(* records after it.                                                       *)
ReadsDocument ==
    jnOut.kind # "none" => jnOut.ans = ShouldRead(WalkTree(jnDoc[jnOut.node], jnOut.path), jnOut.kind)
=============================================================================
