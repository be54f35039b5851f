-------------------------- MODULE ConfigStoreProofs --------------------------
(***************************************************************************)
(* Proofs about ConfigStore, for any names, any number of rows and slots,  *)
(* any file length and any number of commits, with the power failing at    *)
(* any step: the records in RAM follow the flash (StoreSound), a           *)
(* commissioning session loses no file it was promised (SessionKept), and  *)
(* the flash implements the map of whole files of NamedStore (PowerSafe).  *)
(*                                                                         *)
(* All three rest on one inductive invariant.  What a commit may erase is  *)
(* decided by the records alone, so it says what they know: a slot's       *)
(* sequence number is not below that of any entry of its name (Covered),   *)
(* and its row holds the entry of that number (LiveOK); the one exception  *)
(* is the row written and not verified yet (JobPart).  Every name in flash *)
(* having a slot bounds their number, which is what store_load needs to    *)
(* find a slot for each.                                                   *)
(*                                                                         *)
(* The hypothesis is that the master does not reload the store while a     *)
(* commit is running; the run of ConfigStore_reload.cfg shows what happens *)
(* when it does.                                                           *)
(***************************************************************************)
EXTENDS ConfigStore, FiniteSetTheorems, TLAPS

Records == [used : BOOLEAN, name : Names, file : Files, seq : Nat, row : {-1} \cup Rows]

-----------------------------------------------------------------------------
(* What flash fl and the records rc hold.                                  *)
FlashOK(fl) ==
    /\ fl \in [Rows -> Entries \cup {Torn}]
    /\ \A p, q \in Valid(fl) : fl[p].name = fl[q].name /\ fl[p].seq = fl[q].seq => p = q
RecOK(rc) ==
    /\ rc \in [Slots -> Records]
    /\ \A i \in Slots : /\ ~rc[i].used => rc[i].row = -1
                        /\ rc[i].row = -1 => rc[i].seq = 0
    /\ \A i, j \in Slots : rc[i].used /\ rc[j].used /\ rc[i].name = rc[j].name => i = j

(* Every entry outside the rows x has a slot that knows one as new.        *)
Covered(fl, rc, x) ==
    \A r \in Valid(fl) \ x : \E i \in Slots : /\ rc[i].used /\ rc[i].name = fl[r].name
                                              /\ fl[r].seq <= rc[i].seq
LiveOK(fl, rc) ==
    \A i \in Slots : rc[i].row # -1 => /\ fl[rc[i].row] # Torn
                                       /\ fl[rc[i].row].name = rc[i].name
                                       /\ fl[rc[i].row].seq = rc[i].seq

-----------------------------------------------------------------------------
(* The parts of the invariant.                                             *)
Unverified == IF pc = "verify" THEN {job.row} ELSE {}
DataPart ==
    /\ FlashOK(flash) /\ RecOK(rec) /\ Covered(flash, rec, Unverified)
    /\ (pc # "format" => LiveOK(flash, rec))
CtlPart ==
    /\ g_store_wr_cursor \in Rows /\ g_commit_pending \in {-1} \cup Slots
    /\ wr \in [slot : {-1} \cup Slots, file : Files]
    /\ (wr.slot # -1 => g_offline /\ rec[wr.slot].used)
    /\ pc \in {"poll", "service", "copy", "erase", "pages", "verify", "tail", "format"}
    /\ (g_offline /\ pc \in {"poll", "tail", "format"} => g_commit_pending = -1)
Published == [name |-> job.name, seq |-> job.seq, file |-> job.crc]
Jobs == [slot : {-1} \cup Slots, row : {-1} \cup 0..STORE_ROWS, name : Names, seq : Nat,
         crc : Files, file : Files]
JobPart ==
    /\ job \in Jobs
    /\ Committing =>
         /\ job.slot \in Slots /\ job.row \in Rows
         /\ rec[job.slot].used /\ rec[job.slot].name = job.name
         /\ job.seq = rec[job.slot].seq + 1
         /\ \A i \in Slots : rec[i].row # job.row
    /\ (pc = "pages" => flash[job.row] = Torn)
    /\ (pc = "verify" => flash[job.row] \in {Torn, Published})
    /\ (pc = "format" => /\ g_offline /\ job.row \in 0..STORE_ROWS
                         /\ \A r \in 0..(job.row - 1) : flash[r] = Torn)
AskPart ==
    /\ asked \in [Names -> Files \cup {NoFile}]
    /\ \A n \in Names : asked[n] # NoFile =>
         /\ g_offline /\ g_commit_pending # -1
         /\ rec[g_commit_pending].used /\ rec[g_commit_pending].name = n
         /\ \/ pc = "service" /\ rec[g_commit_pending].file = asked[n]
            \/ Committing /\ job.name = n /\ job.crc = asked[n]

(* The inductive invariant.                                                *)
IInv == DataPart /\ CtlPart /\ JobPart /\ AskPart

-----------------------------------------------------------------------------

(* A non-empty set of numbers has a least one.                             *)
LEMMA LeastNat ==
    ASSUME NEW T, T \subseteq Nat, T # {}
    PROVE  \E x \in T : \A y \in T : x <= y
  <1>1. PICK R : R = {ss \in Nat \X Nat : ss[1] < ss[2]}
    OBVIOUS
  <1>2. IsWellFoundedOn(R, Nat)
    BY <1>1, NatLessThanWellFounded DEF OpToRel
  <1>3. PICK x \in T : \A y \in T : ~(<<y, x>> \in R)
    BY <1>2, WFMin
  <1>4. \A y \in T : <<y, x>> \in R <=> y < x
    BY <1>1
  <1>5. ASSUME NEW y \in T PROVE x <= y
    <2>1. x \in Nat /\ y \in Nat /\ ~(y < x)
      BY <1>3, <1>4
    <2> QED BY <2>1
  <1> QED BY <1>5

LEMMA MinProps ==
    ASSUME NEW T, T \subseteq Nat, T # {}
    PROVE  Min(T) \in T /\ \A y \in T : Min(T) <= y
  BY LeastNat DEF Min

LEMMA Consts ==
    /\ STORE_ROWS \in Nat /\ STORE_SLOTS \in Nat /\ STORE_ROWS > STORE_SLOTS /\ STORE_SLOTS > 0
    /\ STORE_DATA_MAX \in Nat /\ Idnt \in Names
    /\ Rows \subseteq Nat /\ Slots \subseteq Nat /\ -1 \notin Rows /\ -1 \notin Slots
    /\ 0 \in Rows
    /\ Torn \notin Entries /\ NoFile \notin Names /\ NoFile \notin Files
  <1>1. /\ STORE_ROWS \in Nat /\ STORE_SLOTS \in Nat /\ STORE_ROWS > STORE_SLOTS
        /\ STORE_SLOTS > 0 /\ STORE_DATA_MAX \in Nat /\ Idnt \in Names
    BY StoreAssumption
  <1>2. Rows \subseteq Nat /\ Slots \subseteq Nat /\ -1 \notin Rows /\ -1 \notin Slots /\ 0 \in Rows
    BY <1>1 DEF Rows, Slots
  <1> QED BY <1>1, <1>2, MarksAssumption

LEMMA FiniteRows ==
    /\ IsFiniteSet(Rows) /\ Cardinality(Rows) = STORE_ROWS
    /\ IsFiniteSet(Slots) /\ Cardinality(Slots) = STORE_SLOTS
  <1>1. STORE_ROWS \in Nat \ {0} /\ STORE_SLOTS \in Nat \ {0}
    BY Consts
  <1>2. ASSUME NEW n \in Nat \ {0}
        PROVE  IsFiniteSet(0..(n - 1)) /\ Cardinality(0..(n - 1)) = n
    <2>1. n - 1 \in Int /\ ~(0 > n - 1) /\ ((n - 1) - 0) + 1 = n
      OBVIOUS
    <2> QED BY ONLY <2>1, FS_Interval
  <1> QED BY <1>1, <1>2, Zenon DEF Rows, Slots

LEMMA EmptyFile == << >> \in Files
  <1>1. << >> \in [0..(0 - 1) -> Bytes]
    OBVIOUS
  <1>2. 0 \in 0..STORE_DATA_MAX
    BY Consts
  <1> QED BY <1>1, <1>2 DEF Files

LEMMA FileProps ==
    ASSUME NEW f \in Files
    PROVE  \E len \in 0..STORE_DATA_MAX : /\ f \in [0..(len - 1) -> Bytes] /\ Len(f) = len
                                          /\ DOMAIN f = 0..(len - 1)
  <1>1. PICK len \in 0..STORE_DATA_MAX : f \in [0..(len - 1) -> Bytes]
    BY DEF Files
  <1>2. DOMAIN f = 0..(len - 1)
    BY <1>1
  <1>3. Cardinality(0..(len - 1)) = len
    BY <1>1, Consts, FS_Interval
  <1> QED BY <1>1, <1>2, <1>3 DEF Len

(* A file stays one when a byte of it is replaced or one is appended.      *)
LEMMA FileSet ==
    ASSUME NEW f \in Files, NEW k \in DOMAIN f, NEW b \in Bytes
    PROVE  [f EXCEPT ![k] = b] \in Files
  <1>1. PICK len \in 0..STORE_DATA_MAX : f \in [0..(len - 1) -> Bytes] /\ DOMAIN f = 0..(len - 1)
    BY FileProps
  <1>2. [f EXCEPT ![k] = b] \in [0..(len - 1) -> Bytes]
    BY <1>1
  <1> QED BY <1>1, <1>2 DEF Files

LEMMA FileAppend ==
    ASSUME NEW f \in Files, NEW b \in Bytes, Len(f) < STORE_DATA_MAX
    PROVE  (CHOOSE g \in Written(f, Len(f), b) : TRUE) \in Files
  <1>1. PICK len \in 0..STORE_DATA_MAX : /\ f \in [0..(len - 1) -> Bytes] /\ Len(f) = len
                                         /\ DOMAIN f = 0..(len - 1)
    BY FileProps
  <1>2. PICK g : g = [j \in 0..len |-> IF j = len THEN b ELSE f[j]]
    OBVIOUS
  <1>3. len \in Nat /\ len + 1 \in 0..STORE_DATA_MAX
    BY <1>1, Consts
  <1>4. g \in [0..len -> Bytes] /\ DOMAIN g = 0..len /\ g[len] = b
        /\ \A j \in 0..(len - 1) : g[j] = f[j]
    BY <1>1, <1>2, <1>3
  <1>5. g \in Files
    <2>1. 0..((len + 1) - 1) = 0..len
      BY <1>3
    <2>2. g \in [0..((len + 1) - 1) -> Bytes]
      BY <1>4, <2>1
    <2> QED BY <1>3, <2>2 DEF Files
  <1>6. Len(g) = len + 1
    BY <1>3, <1>4, FS_Interval DEF Len
  <1>7. g \in Written(f, Len(f), b)
    <2>1. (IF len + 1 > len THEN len + 1 ELSE len) = len + 1
      BY <1>3
    <2>2. \A j \in DOMAIN f \ {len} : g[j] = f[j]
      BY <1>1, <1>4
    <2> QED BY <1>1, <1>4, <1>5, <1>6, <2>1, <2>2 DEF Written
  <1>8. (CHOOSE h \in Written(f, Len(f), b) : TRUE) \in Written(f, Len(f), b)
    BY <1>7
  <1> QED BY <1>8 DEF Written


-----------------------------------------------------------------------------
(* The newest entry of a name.                                             *)

(* What makes row r the newest of name n.                                  *)
IsNewest(fl, n, r) == r \in OfName(fl, n) /\ \A q \in OfName(fl, n) : fl[q].seq <= fl[r].seq

LEMMA ValidProps ==
    ASSUME NEW fl, FlashOK(fl), NEW r \in Valid(fl)
    PROVE  /\ r \in Rows /\ r \in Nat /\ fl[r] # Torn /\ fl[r] \in Entries
           /\ fl[r].name \in Names /\ fl[r].seq \in Nat /\ fl[r].seq # 0 /\ fl[r].file \in Files
  <1>1. r \in Rows /\ fl[r] # Torn
    BY DEF Valid, store_entry_valid
  <1>2. fl[r] \in Entries
    BY <1>1 DEF FlashOK
  <1> QED BY <1>1, <1>2, Consts DEF Entries

LEMMA NewestIs ==
    ASSUME NEW fl, FlashOK(fl), NEW n, NEW r, IsNewest(fl, n, r)
    PROVE  Newest(fl, n) = r
  <1>1. PICK x : x = Newest(fl, n)
    OBVIOUS
  <1>2. x \in OfName(fl, n) /\ \A q \in OfName(fl, n) : fl[q].seq <= fl[x].seq
    BY <1>1 DEF Newest, IsNewest
  <1>3. /\ x \in Valid(fl) /\ r \in Valid(fl) /\ fl[x].name = n /\ fl[r].name = n
        /\ r \in OfName(fl, n)
    BY <1>2 DEF IsNewest, OfName
  <1>4. fl[x].seq \in Nat /\ fl[r].seq \in Nat
    BY <1>3, ValidProps
  <1>5. fl[x].seq = fl[r].seq
    BY <1>2, <1>3, <1>4 DEF IsNewest
  <1> QED BY <1>1, <1>3, <1>5 DEF FlashOK

(* Some entry of a name in flash is the newest: the slot's number bounds   *)
(* them all.                                                               *)
LEMMA NewestExists ==
    ASSUME NEW fl, FlashOK(fl), NEW n, OfName(fl, n) # {}, NEW b \in Nat,
           \A r \in OfName(fl, n) : fl[r].seq <= b
    PROVE  IsNewest(fl, n, Newest(fl, n))
  <1>1. PICK T : T = {b - fl[r].seq : r \in OfName(fl, n)}
    OBVIOUS
  <1>2. \A r \in OfName(fl, n) : r \in Valid(fl) /\ fl[r].seq \in Nat /\ b - fl[r].seq \in Nat
    BY ValidProps DEF OfName
  <1>3. T \subseteq Nat /\ T # {}
    BY <1>1, <1>2
  <1>4. PICK x \in T : \A y \in T : x <= y
    BY <1>3, LeastNat
  <1>5. PICK r \in OfName(fl, n) : x = b - fl[r].seq
    BY <1>1, <1>4
  <1>6. ASSUME NEW q \in OfName(fl, n) PROVE fl[q].seq <= fl[r].seq
    <2>1. b - fl[r].seq <= b - fl[q].seq
      BY <1>1, <1>4, <1>5
    <2> QED BY <2>1, <1>2, <1>5
  <1>7. IsNewest(fl, n, r)
    BY <1>6 DEF IsNewest
  <1> QED BY <1>7, NewestIs

(* The slot of a name in flash knows its newest entry.                     *)
LEMMA SlotOfName ==
    ASSUME NEW fl, NEW rc, NEW x, FlashOK(fl), RecOK(rc), Covered(fl, rc, x), LiveOK(fl, rc),
           NEW n, NEW r \in OfName(fl, n) \ x
    PROVE  \E i \in Slots : /\ rc[i].used /\ rc[i].name = n /\ rc[i].row \in Rows
                            /\ rc[i].row \in OfName(fl, n) /\ fl[rc[i].row].seq = rc[i].seq
                            /\ \A q \in OfName(fl, n) \ x : fl[q].seq <= rc[i].seq
  <1>1. r \in Valid(fl) \ x /\ fl[r].name = n
    BY DEF OfName
  <1>2. PICK i \in Slots : rc[i].used /\ rc[i].name = n /\ fl[r].seq <= rc[i].seq
    BY <1>1 DEF Covered
  <1>3. fl[r].seq \in Nat /\ fl[r].seq # 0
    BY <1>1, ValidProps
  <1>4. rc[i] \in Records
    BY DEF RecOK
  <1>5. rc[i].row # -1
    BY <1>2, <1>3 DEF RecOK
  <1>6. rc[i].row \in Rows
    BY <1>4, <1>5 DEF Records
  <1>7. rc[i].row \in OfName(fl, n) /\ fl[rc[i].row].seq = rc[i].seq
    BY <1>2, <1>5, <1>6 DEF LiveOK, OfName, Valid, store_entry_valid
  <1>8. ASSUME NEW q \in OfName(fl, n) \ x PROVE fl[q].seq <= rc[i].seq
    <2>1. q \in Valid(fl) \ x /\ fl[q].name = n
      BY DEF OfName
    <2>2. PICK j \in Slots : rc[j].used /\ rc[j].name = n /\ fl[q].seq <= rc[j].seq
      BY <2>1 DEF Covered
    <2>3. j = i
      BY <1>2, <2>2 DEF RecOK
    <2> QED BY <2>2, <2>3
  <1> QED BY <1>2, <1>6, <1>7, <1>8

(* So it is its row that a reboot would find.                              *)
LEMMA SlotIsNewest ==
    ASSUME NEW fl, NEW rc, FlashOK(fl), RecOK(rc), Covered(fl, rc, {}), LiveOK(fl, rc),
           NEW n, OfName(fl, n) # {}
    PROVE  \E i \in Slots : /\ rc[i].used /\ rc[i].name = n /\ rc[i].row \in Rows
                            /\ IsNewest(fl, n, rc[i].row) /\ Newest(fl, n) = rc[i].row
                            /\ fl[rc[i].row].seq = rc[i].seq
  <1>1. PICK r : r \in OfName(fl, n) \ {}
    OBVIOUS
  <1>2. PICK i \in Slots : /\ rc[i].used /\ rc[i].name = n /\ rc[i].row \in Rows
                           /\ rc[i].row \in OfName(fl, n) /\ fl[rc[i].row].seq = rc[i].seq
                           /\ \A q \in OfName(fl, n) \ {} : fl[q].seq <= rc[i].seq
    BY <1>1, SlotOfName
  <1>3. IsNewest(fl, n, rc[i].row)
    BY <1>2 DEF IsNewest
  <1>4. Newest(fl, n) = rc[i].row
    BY <1>3, NewestIs
  <1> QED BY <1>2, <1>3, <1>4

(* The numbers of a name's entries are bounded, also half-way through a    *)
(* format.                                                                 *)
LEMMA NewestProps ==
    ASSUME NEW fl, NEW rc, FlashOK(fl), RecOK(rc), Covered(fl, rc, {}), NEW n, OfName(fl, n) # {}
    PROVE  IsNewest(fl, n, Newest(fl, n))
  <1>1. PICK r : r \in OfName(fl, n)
    OBVIOUS
  <1>2. PICK i \in Slots : rc[i].used /\ rc[i].name = n
    BY <1>1 DEF Covered, OfName
  <1>3. ASSUME NEW q \in OfName(fl, n) PROVE fl[q].seq <= rc[i].seq
    <2>1. q \in Valid(fl) \ {} /\ fl[q].name = n
      BY DEF OfName
    <2>2. PICK j \in Slots : rc[j].used /\ rc[j].name = n /\ fl[q].seq <= rc[j].seq
      BY <2>1 DEF Covered
    <2>3. j = i
      BY <1>2, <2>2 DEF RecOK
    <2> QED BY <2>2, <2>3
  <1>4. rc[i].seq \in Nat
    BY DEF RecOK, Records
  <1> QED BY <1>3, <1>4, NewestExists


-----------------------------------------------------------------------------
(* store_load finds a slot for every name in flash.                        *)

Rank(fl, r) == Cardinality({q \in First(fl) : q < r})
HasSlots(fl, rc) == \A r \in Valid(fl) : \E i \in Slots : rc[i].used /\ rc[i].name = fl[r].name
HasNewest(fl) == \A n \in Names : OfName(fl, n) # {} => IsNewest(fl, n, Newest(fl, n))

LEMMA FirstProps ==
    ASSUME NEW fl, FlashOK(fl)
    PROVE  /\ First(fl) \subseteq Rows /\ First(fl) \subseteq Valid(fl) /\ IsFiniteSet(First(fl))
           /\ \A r, s \in First(fl) : fl[r].name = fl[s].name => r = s
           /\ \A n : OfName(fl, n) # {} => \E r \in First(fl) : fl[r].name = n
  <1>1. First(fl) \subseteq Valid(fl) /\ First(fl) \subseteq Rows /\ Rows \subseteq Nat
    BY Consts DEF First, Valid
  <1>2. IsFiniteSet(First(fl))
    BY <1>1, FiniteRows, FS_Subset
  <1>3. ASSUME NEW r \in First(fl), NEW s \in First(fl), fl[r].name = fl[s].name PROVE r = s
    <2>1. r \in OfName(fl, fl[s].name) /\ s \in OfName(fl, fl[r].name)
      BY <1>1, <1>3 DEF OfName
    <2>2. r <= s /\ s <= r /\ r \in Nat /\ s \in Nat
      BY <1>1, <2>1 DEF First
    <2> QED BY <2>2
  <1>4. ASSUME NEW n, OfName(fl, n) # {} PROVE \E r \in First(fl) : fl[r].name = n
    <2>1. OfName(fl, n) \subseteq Nat
      BY Consts DEF OfName, Valid
    <2>2. PICK r \in OfName(fl, n) : \A q \in OfName(fl, n) : r <= q
      BY <2>1, <1>4, LeastNat
    <2>3. r \in Valid(fl) /\ fl[r].name = n
      BY DEF OfName
    <2> QED BY <2>2, <2>3 DEF First
  <1> QED BY <1>1, <1>2, <1>3, <1>4

LEMMA RankProps ==
    ASSUME NEW fl, FlashOK(fl)
    PROVE  /\ \A r \in First(fl) : Rank(fl, r) \in Nat /\ Rank(fl, r) < Cardinality(First(fl))
           /\ \A r, s \in First(fl) : Rank(fl, r) = Rank(fl, s) => r = s
           /\ Cardinality(First(fl)) \in Nat
  <1> DEFINE Below(r) == {q \in First(fl) : q < r}
  <1>1. First(fl) \subseteq Nat /\ IsFiniteSet(First(fl)) /\ Cardinality(First(fl)) \in Nat
    BY FirstProps, Consts, FS_CardinalityType
  <1>2. ASSUME NEW r \in First(fl)
        PROVE  /\ IsFiniteSet(Below(r)) /\ Cardinality(Below(r)) \in Nat
               /\ Cardinality(Below(r)) < Cardinality(First(fl))
    <2>1. Below(r) \in SUBSET First(fl) /\ Below(r) # First(fl)
      <3>1. r \notin Below(r)
        BY <1>1
      <3> QED BY <3>1
    <2>2. /\ IsFiniteSet(Below(r)) /\ Cardinality(Below(r)) <= Cardinality(First(fl))
          /\ Cardinality(First(fl)) # Cardinality(Below(r))
      BY <2>1, <1>1, FS_Subset
    <2>3. Cardinality(Below(r)) \in Nat
      BY <2>2, FS_CardinalityType
    <2> QED BY <2>2, <2>3, <1>1
  <1>3. ASSUME NEW r \in First(fl), NEW s \in First(fl), r < s
        PROVE  Cardinality(Below(r)) # Cardinality(Below(s))
    <2>1. Below(r) \in SUBSET Below(s) /\ Below(r) # Below(s)
      <3>1. r \in Below(s) /\ r \notin Below(r)
        BY <1>1, <1>3
      <3>2. \A q \in First(fl) : q < r => q < s
        BY <1>1, <1>3
      <3> QED BY <3>1, <3>2
    <2>2. Cardinality(Below(s)) = Cardinality(Below(r)) => Below(s) = Below(r)
      BY <2>1, <1>2, FS_Subset
    <2> QED BY <2>1, <2>2
  <1>4. \A r : Rank(fl, r) = Cardinality(Below(r))
    BY DEF Rank
  <1> HIDE DEF Below
  <1>5. ASSUME NEW r \in First(fl), NEW s \in First(fl), Rank(fl, r) = Rank(fl, s) PROVE r = s
    <2>1. ~(r < s) /\ ~(s < r)
      BY <1>3, <1>4, <1>5
    <2> QED BY <2>1, <1>1
  <1> QED BY <1>1, <1>2, <1>4, <1>5

LEMMA FewNames ==
    ASSUME NEW fl, NEW rc, FlashOK(fl), HasSlots(fl, rc)
    PROVE  Cardinality(First(fl)) <= STORE_SLOTS
  <1> DEFINE S(r) == CHOOSE i \in Slots : rc[i].used /\ rc[i].name = fl[r].name
             f == [r \in First(fl) |-> S(r)]
  <1>1. ASSUME NEW r \in First(fl) PROVE S(r) \in Slots /\ rc[S(r)].name = fl[r].name
    <2>1. r \in Valid(fl)
      BY FirstProps
    <2>2. \E i \in Slots : rc[i].used /\ rc[i].name = fl[r].name
      BY <2>1 DEF HasSlots
    <2> QED BY <2>2
  <1> HIDE DEF S
  <1>2. f \in [First(fl) -> Slots] /\ \A r \in First(fl) : f[r] = S(r)
    BY <1>1
  <1>3. \A r, s \in First(fl) : f[r] = f[s] => r = s
    BY <1>1, <1>2, FirstProps
  <1> HIDE DEF f
  <1>4. f \in Injection(First(fl), Slots)
    BY <1>2, <1>3 DEF Injection, IsInjective
  <1> QED BY <1>4, FiniteRows, FS_Injection

(* The slot a name is loaded into.                                         *)
LEMMA NameOfProps ==
    ASSUME NEW fl, NEW rc, FlashOK(fl), HasSlots(fl, rc)
    PROVE  /\ \A i \in Slots : NameOf(fl, i) # NoFile =>
                \E r \in First(fl) : Rank(fl, r) = i /\ NameOf(fl, i) = fl[r].name
           /\ \A r \in First(fl) : Rank(fl, r) \in Slots /\ NameOf(fl, Rank(fl, r)) = fl[r].name
  <1> DEFINE At(i) == {r \in First(fl) : Cardinality({q \in First(fl) : q < r}) = i}
  <1>1. ASSUME NEW i, At(i) # {}
        PROVE  /\ Min(At(i)) \in First(fl) /\ Rank(fl, Min(At(i))) = i
               /\ NameOf(fl, i) = fl[Min(At(i))].name
    <2>1. At(i) \subseteq Nat
      BY FirstProps, Consts
    <2>2. Min(At(i)) \in At(i)
      BY <2>1, <1>1, MinProps
    <2>3. NameOf(fl, i) = fl[Min(At(i))].name
      BY <1>1 DEF NameOf
    <2> QED BY <2>2, <2>3 DEF Rank
  <1>2. ASSUME NEW i, At(i) = {} PROVE NameOf(fl, i) = NoFile
    BY <1>2 DEF NameOf
  <1>3. ASSUME NEW i \in Slots, NameOf(fl, i) # NoFile
        PROVE  \E r \in First(fl) : Rank(fl, r) = i /\ NameOf(fl, i) = fl[r].name
    BY <1>1, <1>2, <1>3
  <1>4. ASSUME NEW r \in First(fl)
        PROVE  Rank(fl, r) \in Slots /\ NameOf(fl, Rank(fl, r)) = fl[r].name
    <2>1. Rank(fl, r) \in Nat /\ Rank(fl, r) < STORE_SLOTS
      BY RankProps, FewNames, Consts
    <2>2. Rank(fl, r) \in Slots
      BY <2>1, Consts DEF Slots
    <2>3. r \in At(Rank(fl, r))
      BY DEF Rank
    <2>4. PICK s \in First(fl) : Rank(fl, s) = Rank(fl, r) /\ NameOf(fl, Rank(fl, r)) = fl[s].name
      BY <2>3, <1>1
    <2>5. s = r
      BY <2>4, RankProps
    <2> QED BY <2>2, <2>4, <2>5
  <1> QED BY <1>3, <1>4

(* What store_load makes of a flash whose names fit.                       *)
LEMMA LoadProps ==
    ASSUME NEW fl, NEW rc, FlashOK(fl), HasSlots(fl, rc), HasNewest(fl)
    PROVE  /\ RecOK(store_load(fl)) /\ Covered(fl, store_load(fl), {})
           /\ LiveOK(fl, store_load(fl))
  <1>l. PICK L : L = store_load(fl)
    OBVIOUS
  <1>0. DOMAIN L = Slots /\ L = [i \in Slots |-> L[i]]
        /\ \A i \in Slots : L[i] = Loaded(fl, NameOf(fl, i))
    BY <1>l DEF store_load
  <1>1. ASSUME NEW i \in Slots
        PROVE  \/ NameOf(fl, i) = NoFile /\ L[i] = Unused
               \/ \E r \in First(fl) :
                    /\ Rank(fl, r) = i /\ L[i].used /\ L[i].name = fl[r].name
                    /\ IsNewest(fl, fl[r].name, L[i].row) /\ L[i].seq = fl[L[i].row].seq
                    /\ L[i] \in Records /\ L[i].row # -1
    <2>1. CASE NameOf(fl, i) = NoFile
      BY <2>1, <1>0 DEF Loaded
    <2>2. CASE NameOf(fl, i) # NoFile
      <3>1. PICK r \in First(fl) : Rank(fl, r) = i /\ NameOf(fl, i) = fl[r].name
        BY <2>2, NameOfProps
      <3>2. PICK n : n = fl[r].name
        OBVIOUS
      <3>3. r \in Valid(fl) /\ n \in Names /\ r \in OfName(fl, n)
        BY <3>2, FirstProps, ValidProps DEF OfName
      <3>4. PICK x : x = Newest(fl, n)
        OBVIOUS
      <3>5. IsNewest(fl, n, x)
        BY <3>3, <3>4 DEF HasNewest
      <3>6. x \in Valid(fl)
        BY <3>5 DEF IsNewest, OfName
      <3>7. x \in Rows /\ x # -1 /\ fl[x].seq \in Nat /\ fl[x].file \in Files
        BY <3>6, ValidProps, Consts
      <3>8. L[i] = [used |-> TRUE, name |-> n, seq |-> fl[x].seq, row |-> x, file |-> fl[x].file]
        BY <1>0, <2>2, <3>1, <3>2, <3>4 DEF Loaded
      <3>9. /\ L[i].used /\ L[i].name = n /\ L[i].row = x /\ L[i].seq = fl[x].seq
            /\ L[i] \in Records
        BY <3>3, <3>7, <3>8 DEF Records
      <3> QED BY <3>1, <3>2, <3>5, <3>7, <3>9
    <2> QED BY <2>1, <2>2
  <1>2. /\ Unused \in Records /\ ~Unused.used /\ Unused.row = -1 /\ Unused.seq = 0
    BY Consts, EmptyFile DEF Unused, Records
  <1>3. RecOK(L)
    <2>1. L \in [Slots -> Records]
      BY <1>0, <1>1, <1>2
    <2>2. \A i \in Slots : (~L[i].used => L[i].row = -1) /\ (L[i].row = -1 => L[i].seq = 0)
      BY <1>1, <1>2
    <2>3. ASSUME NEW i \in Slots, NEW j \in Slots, L[i].used, L[j].used, L[i].name = L[j].name
          PROVE  i = j
      <3>1. PICK r \in First(fl) : Rank(fl, r) = i /\ L[i].name = fl[r].name
        BY <1>1, <1>2, <2>3
      <3>2. PICK s \in First(fl) : Rank(fl, s) = j /\ L[j].name = fl[s].name
        BY <1>1, <1>2, <2>3
      <3>3. r = s
        BY <3>1, <3>2, <2>3, FirstProps, ZenonT(60)
      <3> QED BY <3>1, <3>2, <3>3
    <2> QED BY <2>1, <2>2, <2>3 DEF RecOK
  <1>4. Covered(fl, L, {})
    <2> SUFFICES ASSUME NEW r \in Valid(fl)
                 PROVE  \E i \in Slots : /\ L[i].used /\ L[i].name = fl[r].name
                                         /\ fl[r].seq <= L[i].seq
      BY DEF Covered
    <2>1. PICK n : n = fl[r].name
      OBVIOUS
    <2>2. r \in OfName(fl, n) /\ n \in Names
      BY <2>1, ValidProps DEF OfName
    <2>3. PICK s \in First(fl) : fl[s].name = n
      BY <2>2, FirstProps
    <2>4. PICK i \in Slots : i = Rank(fl, s) /\ NameOf(fl, i) = n
      BY <2>3, NameOfProps
    <2>5. NameOf(fl, i) # NoFile
      BY <2>2, <2>4, Consts
    <2>6. PICK t \in First(fl) : /\ Rank(fl, t) = i /\ L[i].used /\ L[i].name = fl[t].name
                                 /\ IsNewest(fl, fl[t].name, L[i].row)
                                 /\ L[i].seq = fl[L[i].row].seq
      BY <1>1, <2>5
    <2>7. t = s
      BY <2>4, <2>6, RankProps
    <2> QED BY <2>1, <2>2, <2>3, <2>6, <2>7 DEF IsNewest
  <1>5. LiveOK(fl, L)
    <2> SUFFICES ASSUME NEW i \in Slots, L[i].row # -1
                 PROVE  /\ fl[L[i].row] # Torn /\ fl[L[i].row].name = L[i].name
                        /\ fl[L[i].row].seq = L[i].seq
      BY DEF LiveOK
    <2>1. PICK r \in First(fl) : /\ L[i].name = fl[r].name /\ L[i].seq = fl[L[i].row].seq
                                 /\ IsNewest(fl, fl[r].name, L[i].row)
      BY <1>1, <1>2
    <2> QED BY <2>1 DEF IsNewest, OfName, Valid, store_entry_valid
  <1> QED BY <1>l, <1>3, <1>4, <1>5


-----------------------------------------------------------------------------
(* Choosing a row and a slot.                                              *)

(* store_commit finds a row that no record refers to: there is one row     *)
(* more than there are slots.                                              *)
LEMMA PickRowProps ==
    ASSUME RecOK(rec), g_store_wr_cursor \in Rows
    PROVE  PickRow \in Rows /\ \A i \in Slots : rec[i].row # PickRow
  <1> DEFINE Open == {r \in Rows : ~store_row_live(r)}
             S(r) == CHOOSE i \in Slots : rec[i].used /\ rec[i].row = r
             f == [r \in Rows |-> S(r)]
  <1>1. Open # {}
    <2> SUFFICES ASSUME Open = {} PROVE FALSE
      OBVIOUS
    <2>1. ASSUME NEW r \in Rows PROVE S(r) \in Slots /\ rec[S(r)].row = r
      <3>1. \E i \in Slots : rec[i].used /\ rec[i].row = r
        BY DEF store_row_live
      <3> QED BY <3>1
    <2> HIDE DEF S
    <2>2. f \in [Rows -> Slots] /\ \A r \in Rows : f[r] = S(r)
      BY <2>1
    <2>3. \A r, q \in Rows : f[r] = f[q] => r = q
      BY <2>1, <2>2
    <2> HIDE DEF f
    <2>4. f \in Injection(Rows, Slots)
      BY <2>2, <2>3 DEF Injection, IsInjective
    <2>5. STORE_ROWS <= STORE_SLOTS
      BY <2>4, FiniteRows, FS_Injection
    <2> QED BY <2>5, Consts
  <1>2. \A r \in Rows : Distance(r) \in Nat
    <2> SUFFICES ASSUME NEW r \in Rows PROVE Distance(r) \in Nat
      OBVIOUS
    <2>1. r \in Nat /\ g_store_wr_cursor \in Nat /\ STORE_ROWS \in Nat /\ STORE_ROWS > 0
      BY Consts
    <2>2. PICK d \in Int : d = r - g_store_wr_cursor + STORE_ROWS
      BY <2>1
    <2>3. d % STORE_ROWS \in 0..(STORE_ROWS - 1)
      BY <2>1, <2>2
    <2> QED BY <2>2, <2>3, <2>1 DEF Distance
  <1>3. PICK T : T = {Distance(r) : r \in Open}
    OBVIOUS
  <1>4. T \subseteq Nat /\ T # {}
    BY <1>1, <1>2, <1>3
  <1>5. PICK x \in T : \A y \in T : x <= y
    BY <1>4, LeastNat
  <1>6. PICK r \in Open : Distance(r) = x
    BY <1>3, <1>5
  <1>7. \A q \in Open : Distance(r) <= Distance(q)
    BY <1>3, <1>5, <1>6
  <1>8. PickRow \in Open
    BY <1>7 DEF PickRow
  <1>9. PickRow \in Rows /\ ~store_row_live(PickRow)
    BY <1>8
  <1> QED BY <1>9, Consts DEF store_row_live, RecOK

(* The slot store_alloc hands out holds the name, or is free for it.       *)
LEMMA AllocProps ==
    ASSUME RecOK(rec), NEW n \in Names, store_alloc(n) >= 0
    PROVE  /\ store_alloc(n) \in Slots
           /\ store_find(n) >= 0 => rec[store_alloc(n)].used /\ rec[store_alloc(n)].name = n
           /\ ~(store_find(n) >= 0) => /\ ~rec[store_alloc(n)].used
                                       /\ \A i \in Slots : rec[i].used => rec[i].name # n
  <1> DEFINE U == {i \in Slots : rec[i].used /\ rec[i].name = n}
             E == {i \in Slots : ~rec[i].used}
  <1>1. U \subseteq Nat /\ E \subseteq Nat /\ Slots \subseteq Nat
    BY Consts
  <1>2. store_find(n) = IF U = {} THEN -1 ELSE Min(U)
    BY DEF store_find
  <1>3. FreeSlot = IF E = {} THEN -1 ELSE Min(E)
    BY DEF FreeSlot
  <1>4. CASE U # {}
    <2>1. Min(U) \in U
      BY <1>1, <1>4, MinProps
    <2>2. store_find(n) = Min(U) /\ store_find(n) \in Nat
      BY <2>1, <1>1, <1>2, <1>4
    <2>3. store_find(n) >= 0
      BY <2>2
    <2>4. store_alloc(n) = Min(U)
      BY <2>2, <2>3 DEF store_alloc
    <2> QED BY <2>1, <2>3, <2>4
  <1>5. CASE U = {}
    <2>1. store_find(n) = -1
      BY <1>2, <1>5
    <2>2. ~(store_find(n) >= 0)
      BY <2>1
    <2>3. store_alloc(n) = FreeSlot
      BY <2>2 DEF store_alloc
    <2>4. E # {}
      BY <2>3, <1>3
    <2>5. Min(E) \in E
      BY <2>4, <1>1, MinProps
    <2>6. store_alloc(n) \in E
      BY <2>3, <2>4, <2>5, <1>3
    <2> QED BY <2>2, <2>6, <1>5
  <1> QED BY <1>4, <1>5

-----------------------------------------------------------------------------
(* What changes of the records keep.                                       *)

SameButFiles(rc, rc2) ==
    \A i \in Slots : /\ rc2[i].used = rc[i].used /\ rc2[i].name = rc[i].name
                     /\ rc2[i].seq = rc[i].seq /\ rc2[i].row = rc[i].row

LEMMA FilesKeep ==
    ASSUME NEW rc, NEW rc2, RecOK(rc), rc2 \in [Slots -> Records], SameButFiles(rc, rc2)
    PROVE  /\ RecOK(rc2)
           /\ \A fl, x : Covered(fl, rc, x) => Covered(fl, rc2, x)
           /\ \A fl : LiveOK(fl, rc) => LiveOK(fl, rc2)
  BY DEF RecOK, SameButFiles, Covered, LiveOK

(* A file of the record of slot s is replaced.                             *)
LEMMA FileChange ==
    ASSUME NEW rc \in [Slots -> Records], NEW s \in Slots, NEW g \in Files
    PROVE  /\ [rc EXCEPT ![s].file = g] \in [Slots -> Records]
           /\ SameButFiles(rc, [rc EXCEPT ![s].file = g])
           /\ [rc EXCEPT ![s].file = g][s].file = g
  <1>1. [rc EXCEPT ![s].file = g] = [rc EXCEPT ![s] = [rc[s] EXCEPT !.file = g]]
    OBVIOUS
  <1>2. rc[s] \in Records
    OBVIOUS
  <1>3. /\ [rc[s] EXCEPT !.file = g] \in Records /\ [rc[s] EXCEPT !.file = g].file = g
        /\ [rc[s] EXCEPT !.file = g].used = rc[s].used
        /\ [rc[s] EXCEPT !.file = g].name = rc[s].name
        /\ [rc[s] EXCEPT !.file = g].seq = rc[s].seq
        /\ [rc[s] EXCEPT !.file = g].row = rc[s].row
    BY <1>2 DEF Records
  <1> QED BY <1>1, <1>3 DEF SameButFiles

FreshRecord(n, g) == [used |-> TRUE, name |-> n, file |-> g, seq |-> 0, row |-> -1]

LEMMA FreshProps ==
    ASSUME NEW n \in Names, NEW g \in Files
    PROVE  /\ FreshRecord(n, g) \in Records /\ FreshRecord(n, g).used
           /\ FreshRecord(n, g).name = n /\ FreshRecord(n, g).seq = 0
           /\ FreshRecord(n, g).row = -1
  BY DEF FreshRecord, Records

(* A free slot is claimed for a name that has none.                        *)
ClaimOf(rc, rc2, s, n, g) ==
    /\ s \in Slots /\ n \in Names /\ g \in Files /\ ~rc[s].used
    /\ \A i \in Slots : rc[i].used => rc[i].name # n
    /\ rc2 = [rc EXCEPT ![s] = FreshRecord(n, g)]
LEMMA ClaimKeeps ==
    ASSUME NEW rc, NEW rc2, NEW s, NEW n, NEW g, NEW fl, NEW x, RecOK(rc),
           ClaimOf(rc, rc2, s, n, g), Covered(fl, rc, x), LiveOK(fl, rc)
    PROVE  /\ RecOK(rc2) /\ rc2[s].used /\ rc2[s].row = -1
           /\ \A i \in Slots : i # s => rc2[i] = rc[i]
           /\ Covered(fl, rc2, x) /\ LiveOK(fl, rc2)
  <1>a. /\ s \in Slots /\ n \in Names /\ g \in Files /\ ~rc[s].used
        /\ \A i \in Slots : rc[i].used => rc[i].name # n
        /\ rc2 = [rc EXCEPT ![s] = FreshRecord(n, g)]
    BY DEF ClaimOf
  <1>1. /\ rc \in [Slots -> Records] /\ FreshRecord(n, g) \in Records /\ FreshRecord(n, g).used
        /\ FreshRecord(n, g).name = n /\ FreshRecord(n, g).seq = 0
        /\ FreshRecord(n, g).row = -1
    BY <1>a, FreshProps DEF RecOK
  <1>2. /\ rc2 \in [Slots -> Records] /\ rc2[s] = FreshRecord(n, g)
        /\ \A i \in Slots : i # s => rc2[i] = rc[i]
    BY <1>a, <1>1
  <1>3. RecOK(rc2)
    BY <1>a, <1>1, <1>2 DEF RecOK
  <1>4. Covered(fl, rc2, x)
    BY <1>a, <1>2 DEF Covered
  <1>5. LiveOK(fl, rc2)
    BY <1>1, <1>2 DEF LiveOK
  <1> QED BY <1>1, <1>2, <1>3, <1>4, <1>5

LEMMA ClaimedIs ==
    ASSUME RecOK(rec), NEW s \in Slots, NEW n \in Names
    PROVE  Claimed(s, n) = FreshRecord(n, << >>)
  <1>1. rec[s] \in Records
    BY DEF RecOK
  <1>2. rec[s] = [used |-> rec[s].used, name |-> rec[s].name, file |-> rec[s].file,
                  seq |-> rec[s].seq, row |-> rec[s].row]
    BY <1>1 DEF Records
  <1>3. PICK c : c = Claimed(s, n)
    OBVIOUS
  <1>4. DOMAIN c = {"used", "name", "file", "seq", "row"}
    BY <1>2, <1>3 DEF Claimed
  <1>5. c.used = TRUE /\ c.name = n /\ c.file = << >> /\ c.seq = 0 /\ c.row = -1
    BY <1>2, <1>3 DEF Claimed
  <1>6. c = [used |-> c.used, name |-> c.name, file |-> c.file, seq |-> c.seq, row |-> c.row]
    BY <1>2, <1>3, <1>4 DEF Claimed
  <1> QED BY <1>3, <1>5, <1>6 DEF FreshRecord

-----------------------------------------------------------------------------
(* Every step keeps the invariant.                                         *)

LEMMA IInvInit == Init => IInv
  <1> SUFFICES ASSUME Init PROVE IInv
    OBVIOUS
  <1>u. /\ flash = [r \in Rows |-> Torn] /\ rec = [i \in Slots |-> Unused]
        /\ g_store_wr_cursor = 0 /\ g_commit_pending = -1 /\ wr = NoWrite
        /\ g_offline = FALSE /\ pc = "poll" /\ job = NoJob /\ asked = [n \in Names |-> NoFile]
    BY DEF Init
  <1>1. /\ Unused \in Records /\ ~Unused.used /\ Unused.row = -1 /\ Unused.seq = 0
    BY Consts, EmptyFile DEF Unused, Records
  <1>2. Valid(flash) = {} /\ flash \in [Rows -> Entries \cup {Torn}]
    BY <1>u DEF Valid, store_entry_valid
  <1>3. \A i \in Slots : rec[i] = Unused
    BY <1>u
  <1>4. RecOK(rec)
    <2>1. rec \in [Slots -> Records]
      BY <1>u, <1>1
    <2> QED BY <2>1, <1>1, <1>3 DEF RecOK
  <1>5. DataPart
    <2>1. FlashOK(flash)
      BY <1>2 DEF FlashOK
    <2>2. Covered(flash, rec, Unverified)
      BY <1>2 DEF Covered
    <2>3. LiveOK(flash, rec)
      BY <1>1, <1>3 DEF LiveOK
    <2> QED BY <2>1, <2>2, <2>3, <1>4 DEF DataPart
  <1>6. CtlPart
    <2>1. wr \in [slot : {-1} \cup Slots, file : Files] /\ wr.slot = -1
      BY <1>u, EmptyFile DEF NoWrite
    <2> QED BY <2>1, <1>u, Consts DEF CtlPart
  <1>7. JobPart /\ AskPart
    <2>1. job \in Jobs
      BY <1>u, Consts, EmptyFile DEF NoJob, Jobs
    <2> QED BY <2>1, <1>u DEF JobPart, AskPart, Committing
  <1> QED BY <1>5, <1>6, <1>7 DEF IInv

(* What an interrupt must keep: while the unit is online nothing is being  *)
(* written through USB and nothing is promised to the host.                *)
LEMMA IsrKeeps ==
    ASSUME IInv, ~g_offline, IsrFrame, RecOK(rec'), Covered(flash, rec', Unverified),
           LiveOK(flash, rec'), g_store_wr_cursor' \in Rows,
           g_commit_pending' \in {-1} \cup Slots,
           Committing => /\ rec'[job.slot].used /\ rec'[job.slot].name = rec[job.slot].name
                         /\ rec'[job.slot].seq = rec[job.slot].seq
                         /\ \A i \in Slots : rec'[i].row # job.row
    PROVE  IInv'
  <1>u. /\ flash' = flash /\ wr' = wr /\ g_offline' = g_offline /\ pc' = pc /\ job' = job
        /\ asked' = asked
    BY DEF IsrFrame, host
  <1>1. DataPart /\ CtlPart /\ JobPart /\ AskPart
    BY DEF IInv
  <1>2. wr.slot = -1 /\ pc # "format" /\ \A n \in Names : asked[n] = NoFile
    BY <1>1 DEF CtlPart, JobPart, AskPart
  <1>3. Unverified' = Unverified /\ (Committing' <=> Committing) /\ Published' = Published
    BY <1>u DEF Unverified, Committing, Published
  <1>4. DataPart'
    BY <1>1, <1>u, <1>3 DEF DataPart
  <1>5. CtlPart'
    BY <1>1, <1>2, <1>u DEF CtlPart
  <1>6. JobPart'
    BY <1>1, <1>2, <1>3, <1>u DEF JobPart
  <1>7. AskPart'
    BY <1>1, <1>2, <1>u DEF AskPart
  <1> QED BY <1>4, <1>5, <1>6, <1>7 DEF IInv

(* The interrupt writes bytes of a record.                                 *)
LEMMA IsrFile ==
    ASSUME IInv, ~g_offline, IsrFrame, NEW s \in Slots, NEW g \in Files,
           rec' = [rec EXCEPT ![s].file = g], UNCHANGED <<g_store_wr_cursor, g_commit_pending>>
    PROVE  IInv'
  <1>1. DataPart /\ CtlPart /\ JobPart
    BY DEF IInv
  <1>2. RecOK(rec) /\ rec \in [Slots -> Records] /\ Covered(flash, rec, Unverified)
    BY <1>1 DEF DataPart, RecOK
  <1>3. LiveOK(flash, rec)
    BY <1>1 DEF DataPart, JobPart
  <1>4. rec' \in [Slots -> Records] /\ SameButFiles(rec, rec')
    BY <1>2, FileChange
  <1>5. RecOK(rec') /\ Covered(flash, rec', Unverified) /\ LiveOK(flash, rec')
    BY <1>2, <1>3, <1>4, FilesKeep
  <1>6. Committing => /\ rec'[job.slot].used /\ rec'[job.slot].name = rec[job.slot].name
                      /\ rec'[job.slot].seq = rec[job.slot].seq
                      /\ \A i \in Slots : rec'[i].row # job.row
    BY <1>1, <1>4 DEF JobPart, SameButFiles
  <1>7. g_store_wr_cursor' \in Rows /\ g_commit_pending' \in {-1} \cup Slots
    BY <1>1 DEF CtlPart
  <1> QED BY <1>5, <1>6, <1>7, IsrKeeps

LEMMA RecLenStep ==
    ASSUME IInv, NEW s \in Slots, NEW len \in 0..STORE_DATA_MAX, RecLen(s, len) PROVE IInv'
  <1>1. PICK g \in Resized(rec[s].file, len) : rec' = [rec EXCEPT ![s].file = g]
    BY DEF RecLen
  <1>2. g \in Files
    BY <1>1 DEF Resized
  <1>3. ~g_offline /\ IsrFrame /\ UNCHANGED <<g_store_wr_cursor, g_commit_pending>>
    BY DEF RecLen, Isr
  <1> QED BY <1>1, <1>2, <1>3, IsrFile

LEMMA RecDataStep ==
    ASSUME IInv, NEW s \in Slots, NEW k \in 0..(STORE_DATA_MAX - 1), NEW b \in Bytes,
           RecData(s, k, b)
    PROVE  IInv'
  <1>1. PICK g \in Written(rec[s].file, k, b) : rec' = [rec EXCEPT ![s].file = g]
    BY DEF RecData
  <1>2. g \in Files
    BY <1>1 DEF Written
  <1>3. ~g_offline /\ IsrFrame /\ UNCHANGED <<g_store_wr_cursor, g_commit_pending>>
    BY DEF RecData, Isr
  <1> QED BY <1>1, <1>2, <1>3, IsrFile

LEMMA RecCommitStep ==
    ASSUME IInv, NEW s \in Slots, RecCommit(s) PROVE IInv'
  <1>u. /\ ~g_offline /\ IsrFrame /\ rec' = rec /\ g_commit_pending' = s
        /\ g_store_wr_cursor' = g_store_wr_cursor
    BY DEF RecCommit, Isr
  <1>1. DataPart /\ CtlPart /\ JobPart
    BY DEF IInv
  <1>2. RecOK(rec') /\ Covered(flash, rec', Unverified) /\ LiveOK(flash, rec')
    BY <1>1, <1>u DEF DataPart, JobPart
  <1>3. Committing => /\ rec'[job.slot].used /\ rec'[job.slot].name = rec[job.slot].name
                      /\ rec'[job.slot].seq = rec[job.slot].seq
                      /\ \A i \in Slots : rec'[i].row # job.row
    BY <1>1, <1>u DEF JobPart
  <1>4. g_store_wr_cursor' \in Rows /\ g_commit_pending' \in {-1} \cup Slots
    BY <1>1, <1>u DEF CtlPart
  <1> QED BY <1>u, <1>2, <1>3, <1>4, IsrKeeps

(* The slot of "idnt" is not the one a running commit holds unless it has  *)
(* that name already.                                                      *)
LEMMA SetAddrStep ==
    ASSUME IInv, NEW b \in Bytes, SetAddr(b) PROVE IInv'
  <1>u. /\ ~g_offline /\ IsrFrame /\ g_store_wr_cursor' = g_store_wr_cursor
        /\ store_alloc(Idnt) >= 0 /\ g_commit_pending' = store_alloc(Idnt)
    BY DEF SetAddr, Isr
  <1>1. DataPart /\ CtlPart /\ JobPart
    BY DEF IInv
  <1>2. RecOK(rec) /\ rec \in [Slots -> Records] /\ Covered(flash, rec, Unverified)
    BY <1>1 DEF DataPart, RecOK
  <1>3. LiveOK(flash, rec)
    BY <1>1, <1>u DEF DataPart, JobPart
  <1>4. PICK s \in Slots : s = store_alloc(Idnt)
    BY <1>2, <1>u, Consts, AllocProps
  <1>5. PICK g \in Files :
          rec' = [rec EXCEPT ![s] = [(IF store_find(Idnt) < 0 THEN Claimed(s, Idnt)
                                      ELSE rec[s]) EXCEPT !.file = g]]
    BY <1>4 DEF SetAddr, Written
  <1>6. g_store_wr_cursor' \in Rows /\ g_commit_pending' \in {-1} \cup Slots
    BY <1>1, <1>u, <1>4 DEF CtlPart
  <1>7. store_find(Idnt) \in Int
    <2>1. {i \in Slots : rec[i].used /\ rec[i].name = Idnt} \subseteq Nat
      BY Consts
    <2> QED BY <2>1, MinProps DEF store_find
  <1>8. CASE store_find(Idnt) < 0
    <2>1. ~(store_find(Idnt) >= 0)
      BY <1>7, <1>8
    <2>2. ~rec[s].used /\ \A i \in Slots : rec[i].used => rec[i].name # Idnt
      BY <1>2, <1>4, <1>u, <2>1, Consts, AllocProps
    <2>3. [Claimed(s, Idnt) EXCEPT !.file = g] = FreshRecord(Idnt, g)
      <3>1. Claimed(s, Idnt) = FreshRecord(Idnt, << >>)
        BY <1>2, Consts, ClaimedIs
      <3>2. PICK c : c = [FreshRecord(Idnt, << >>) EXCEPT !.file = g]
        OBVIOUS
      <3>3. c.used = TRUE /\ c.name = Idnt /\ c.file = g /\ c.seq = 0 /\ c.row = -1
        BY <3>2 DEF FreshRecord
      <3>4. c = [used |-> c.used, name |-> c.name, file |-> c.file, seq |-> c.seq, row |-> c.row]
        BY <3>2 DEF FreshRecord
      <3> QED BY <3>1, <3>2, <3>3, <3>4 DEF FreshRecord
    <2>4. rec' = [rec EXCEPT ![s] = FreshRecord(Idnt, g)]
      BY <1>5, <1>8, <2>3
    <2>5. /\ RecOK(rec') /\ rec'[s].used /\ \A i \in Slots : i # s => rec'[i] = rec[i]
          /\ rec'[s].row = -1
          /\ Covered(flash, rec', Unverified) /\ LiveOK(flash, rec')
      <3>1. ClaimOf(rec, rec', s, Idnt, g)
        BY <2>2, <2>4, Consts DEF ClaimOf
      <3> QED BY <3>1, <1>2, <1>3, ClaimKeeps
    <2>6. Committing => /\ rec'[job.slot].used /\ rec'[job.slot].name = rec[job.slot].name
                        /\ rec'[job.slot].seq = rec[job.slot].seq
                        /\ \A i \in Slots : rec'[i].row # job.row
      BY <1>1, <2>2, <2>5, Consts DEF JobPart
    <2> QED BY <1>u, <1>6, <2>5, <2>6, IsrKeeps
  <1>9. CASE ~(store_find(Idnt) < 0)
    <2>1. rec' = [rec EXCEPT ![s].file = g]
      BY <1>5, <1>9
    <2>2. rec' \in [Slots -> Records] /\ SameButFiles(rec, rec')
      BY <1>2, <2>1, FileChange
    <2>3. RecOK(rec') /\ Covered(flash, rec', Unverified) /\ LiveOK(flash, rec')
      BY <1>2, <1>3, <2>2, FilesKeep
    <2>4. Committing => /\ rec'[job.slot].used /\ rec'[job.slot].name = rec[job.slot].name
                        /\ rec'[job.slot].seq = rec[job.slot].seq
                        /\ \A i \in Slots : rec'[i].row # job.row
      BY <1>1, <2>2 DEF JobPart, SameButFiles
    <2> QED BY <1>u, <1>6, <2>3, <2>4, IsrKeeps
  <1> QED BY <1>8, <1>9

(* A reload between commits.                                               *)
LEMMA LoadNow ==
    ASSUME DataPart, pc # "verify"
    PROVE  /\ RecOK(store_load(flash)) /\ Covered(flash, store_load(flash), {})
           /\ LiveOK(flash, store_load(flash))
  <1>1. FlashOK(flash) /\ RecOK(rec) /\ Covered(flash, rec, {})
    BY DEF DataPart, Unverified
  <1>2. HasSlots(flash, rec)
    BY <1>1 DEF HasSlots, Covered
  <1>3. HasNewest(flash)
    BY <1>1, NewestProps DEF HasNewest
  <1> QED BY <1>1, <1>2, <1>3, LoadProps

LEMMA ReloadStep ==
    ASSUME IInv, ~ReloadInCommit, Reload PROVE IInv'
  <1>u. /\ ~g_offline /\ IsrFrame /\ rec' = store_load(flash) /\ g_store_wr_cursor' = 0
        /\ g_commit_pending' = g_commit_pending /\ ~Committing
    BY DEF Reload, Isr
  <1>1. DataPart /\ CtlPart /\ pc # "verify" /\ Unverified = {}
    BY <1>u DEF IInv, Committing, Unverified
  <1>2. RecOK(rec') /\ Covered(flash, rec', Unverified) /\ LiveOK(flash, rec')
    BY <1>1, <1>u, LoadNow
  <1>3. g_store_wr_cursor' \in Rows /\ g_commit_pending' \in {-1} \cup Slots
    BY <1>1, <1>u, Consts DEF CtlPart
  <1> QED BY <1>u, <1>2, <1>3, IsrKeeps

(* What a step of the main loop that ends outside a commit and a format    *)
(* must establish.                                                         *)
LEMMA LoopKeeps ==
    ASSUME pc' \in {"poll", "service", "tail"}, FlashOK(flash'), RecOK(rec'),
           Covered(flash', rec', {}), LiveOK(flash', rec'), g_store_wr_cursor' \in Rows,
           g_commit_pending' \in {-1} \cup Slots,
           wr' \in [slot : {-1} \cup Slots, file : Files],
           wr'.slot # -1 => g_offline' /\ rec'[wr'.slot].used,
           g_offline' /\ pc' # "service" => g_commit_pending' = -1,
           job' \in Jobs, AskPart'
    PROVE  IInv'
  <1>1. Unverified' = {} /\ ~Committing'
    BY DEF Unverified, Committing
  <1>2. DataPart'
    BY <1>1 DEF DataPart
  <1>3. CtlPart'
    BY DEF CtlPart
  <1>4. JobPart'
    BY <1>1 DEF JobPart
  <1> QED BY <1>2, <1>3, <1>4 DEF IInv

LEMMA NothingAsked ==
    ASSUME asked' \in [Names -> Files \cup {NoFile}], \A n \in Names : asked'[n] = NoFile
    PROVE  AskPart'
  BY DEF AskPart

(* Nothing is promised to the host outside "service" and a commit.         *)
LEMMA NothingAskedNow ==
    ASSUME IInv, pc # "service", ~Committing, asked' = asked
    PROVE  AskPart'
  <1>1. AskPart
    BY DEF IInv
  <1>2. \A n \in Names : asked[n] = NoFile
    BY <1>1 DEF AskPart
  <1> QED BY <1>1, <1>2 DEF AskPart

LEMMA NoJobProps == NoJob \in Jobs /\ NoWrite \in [slot : {-1} \cup Slots, file : Files] /\ NoWrite.slot = -1
  BY Consts, EmptyFile DEF NoJob, NoWrite, Jobs

(* The invariant at the points where no commit runs.                       *)
LEMMA AtRest ==
    ASSUME IInv, ~Committing, pc # "format"
    PROVE  /\ FlashOK(flash) /\ RecOK(rec) /\ rec \in [Slots -> Records]
           /\ Covered(flash, rec, {}) /\ LiveOK(flash, rec)
           /\ g_store_wr_cursor \in Rows /\ g_commit_pending \in {-1} \cup Slots
           /\ wr \in [slot : {-1} \cup Slots, file : Files]
           /\ (wr.slot # -1 => g_offline /\ rec[wr.slot].used)
           /\ job \in Jobs
  <1>1. Unverified = {}
    BY DEF Unverified, Committing
  <1> QED BY <1>1 DEF IInv, DataPart, CtlPart, JobPart, RecOK

LEMMA OfflineStep ==
    ASSUME IInv, cmd_offline PROVE IInv'
  <1>u. /\ pc = "poll" /\ pc' = "service" /\ g_offline' = TRUE /\ flash' = flash /\ rec' = rec
        /\ g_store_wr_cursor' = g_store_wr_cursor /\ g_commit_pending' = g_commit_pending
        /\ wr' = wr /\ asked' = asked /\ job' = job
    BY DEF cmd_offline
  <1>1. ~Committing
    BY <1>u DEF Committing
  <1>2. AskPart'
    BY <1>u, <1>1, NothingAskedNow
  <1> QED BY <1>u, <1>1, <1>2, AtRest, LoopKeeps

LEMMA UsbLineStep ==
    ASSUME IInv, UsbLine PROVE IInv'
  <1>u. /\ pc = "poll" /\ pc' = pc /\ g_offline' = g_offline /\ flash' = flash /\ rec' = rec
        /\ g_store_wr_cursor' = g_store_wr_cursor /\ g_commit_pending' = g_commit_pending
        /\ wr' = wr /\ asked' = asked /\ job' = job
    BY DEF UsbLine
  <1>1. ~Committing
    BY <1>u DEF Committing
  <1>2. AskPart'
    BY <1>u, <1>1, NothingAskedNow
  <1>3. g_offline => g_commit_pending = -1
    BY <1>u DEF IInv, CtlPart
  <1> QED BY <1>u, <1>1, <1>2, <1>3, AtRest, LoopKeeps

LEMMA BeginStep ==
    ASSUME IInv, NEW n \in Names, cmd_file_begin(n) PROVE IInv'
  <1>u. /\ pc = "poll" /\ pc' = "service" /\ g_offline /\ g_offline' = g_offline /\ flash' = flash
        /\ g_store_wr_cursor' = g_store_wr_cursor /\ g_commit_pending' = g_commit_pending
        /\ asked' = asked /\ job' = job /\ store_alloc(n) >= 0
    BY DEF cmd_file_begin, Command
  <1>1. ~Committing
    BY <1>u DEF Committing
  <1>2. AskPart'
    BY <1>u, <1>1, NothingAskedNow
  <1>3. /\ FlashOK(flash) /\ RecOK(rec) /\ rec \in [Slots -> Records]
        /\ Covered(flash, rec, {}) /\ LiveOK(flash, rec)
        /\ g_store_wr_cursor \in Rows /\ g_commit_pending \in {-1} \cup Slots /\ job \in Jobs
    BY <1>u, <1>1, AtRest
  <1>4. PICK s \in Slots : s = store_alloc(n)
    BY <1>u, <1>3, AllocProps
  <1>5. /\ wr' = [NoWrite EXCEPT !.slot = s]
        /\ rec' = IF store_find(n) >= 0 THEN rec ELSE [rec EXCEPT ![s] = Claimed(s, n)]
    BY <1>4 DEF cmd_file_begin
  <1>6. wr' \in [slot : {-1} \cup Slots, file : Files] /\ wr'.slot = s
    BY <1>5, EmptyFile DEF NoWrite
  <1>7. RecOK(rec') /\ rec'[s].used /\ Covered(flash, rec', {}) /\ LiveOK(flash, rec')
    <2>1. CASE store_find(n) >= 0
      <3>1. rec' = rec /\ rec[s].used
        BY <2>1, <1>3, <1>4, <1>5, <1>u, AllocProps
      <3> QED BY <3>1, <1>3
    <2>2. CASE ~(store_find(n) >= 0)
      <3>1. ~rec[s].used /\ \A i \in Slots : rec[i].used => rec[i].name # n
        BY <2>2, <1>3, <1>4, <1>u, AllocProps
      <3>2. rec' = [rec EXCEPT ![s] = FreshRecord(n, << >>)]
        BY <2>2, <1>3, <1>5, ClaimedIs
      <3>3. ClaimOf(rec, rec', s, n, << >>)
        BY <3>1, <3>2, EmptyFile DEF ClaimOf
      <3> QED BY <3>3, <1>3, ClaimKeeps
    <2> QED BY <2>1, <2>2
  <1> QED BY <1>u, <1>2, <1>3, <1>6, <1>7, LoopKeeps

LEMMA DataStep ==
    ASSUME IInv, NEW b \in Bytes, cmd_file_data(b) PROVE IInv'
  <1>u. /\ pc = "poll" /\ pc' = "service" /\ g_offline /\ g_offline' = g_offline /\ flash' = flash
        /\ g_store_wr_cursor' = g_store_wr_cursor /\ g_commit_pending' = g_commit_pending
        /\ asked' = asked /\ job' = job /\ wr.slot >= 0 /\ Len(wr.file) < STORE_DATA_MAX
    BY DEF cmd_file_data, Command
  <1>1. ~Committing
    BY <1>u DEF Committing
  <1>2. AskPart'
    BY <1>u, <1>1, NothingAskedNow
  <1>3. /\ FlashOK(flash) /\ RecOK(rec) /\ rec \in [Slots -> Records]
        /\ Covered(flash, rec, {}) /\ LiveOK(flash, rec)
        /\ g_store_wr_cursor \in Rows /\ g_commit_pending \in {-1} \cup Slots /\ job \in Jobs
        /\ wr \in [slot : {-1} \cup Slots, file : Files]
    BY <1>u, <1>1, AtRest
  <1>4. wr.slot \in Slots /\ wr.slot # -1 /\ wr.file \in Files
    BY <1>u, <1>3
  <1>5. rec[wr.slot].used
    BY <1>u, <1>1, <1>4, AtRest
  <1>6. PICK k : k = Len(wr.file)
    OBVIOUS
  <1>7. PICK g : g = (CHOOSE f \in Written(wr.file, Len(wr.file), b) : TRUE)
    OBVIOUS
  <1>8. g \in Files
    BY <1>4, <1>7, <1>u, FileAppend
  <1>9. wr' = [wr EXCEPT !.file = g]
    BY <1>7 DEF cmd_file_data
  <1>10. wr' \in [slot : {-1} \cup Slots, file : Files] /\ wr'.slot = wr.slot
    BY <1>3, <1>8, <1>9
  <1>11. rec[wr.slot].file \in Files
    BY <1>3, <1>4 DEF Records
  <1>12. PICK h : h = IF k \in DOMAIN rec[wr.slot].file
                      THEN [rec[wr.slot].file EXCEPT ![k] = b] ELSE rec[wr.slot].file
    OBVIOUS
  <1>13. h \in Files
    BY <1>11, <1>12, FileSet
  <1>14. rec' = [rec EXCEPT ![wr.slot].file = h]
    BY <1>6, <1>12 DEF cmd_file_data
  <1>15. rec' \in [Slots -> Records] /\ SameButFiles(rec, rec')
    BY <1>3, <1>4, <1>13, <1>14, FileChange
  <1>16. RecOK(rec') /\ Covered(flash, rec', {}) /\ LiveOK(flash, rec')
    BY <1>3, <1>15, FilesKeep
  <1>17. rec'[wr'.slot].used
    BY <1>4, <1>5, <1>10, <1>15 DEF SameButFiles
  <1> QED BY <1>u, <1>2, <1>3, <1>10, <1>16, <1>17, LoopKeeps

(* A file is promised to the host: its slot holds it.                      *)
LEMMA CommitStep ==
    ASSUME IInv, cmd_file_commit PROVE IInv'
  <1>u. /\ pc = "poll" /\ pc' = "service" /\ g_offline /\ g_offline' = g_offline /\ flash' = flash
        /\ g_store_wr_cursor' = g_store_wr_cursor /\ g_commit_pending' = wr.slot
        /\ rec' = [rec EXCEPT ![wr.slot].file = wr.file]
        /\ asked' = [asked EXCEPT ![rec[wr.slot].name] = wr.file]
        /\ wr' = NoWrite /\ job' = job /\ wr.slot >= 0
    BY DEF cmd_file_commit, Command
  <1>1. ~Committing /\ AskPart
    BY <1>u DEF Committing, IInv
  <1>3. /\ FlashOK(flash) /\ RecOK(rec) /\ rec \in [Slots -> Records]
        /\ Covered(flash, rec, {}) /\ LiveOK(flash, rec)
        /\ g_store_wr_cursor \in Rows /\ g_commit_pending \in {-1} \cup Slots /\ job \in Jobs
        /\ wr \in [slot : {-1} \cup Slots, file : Files]
    BY <1>u, <1>1, AtRest
  <1>4. wr.slot \in Slots /\ wr.slot # -1 /\ wr.file \in Files
    BY <1>u, <1>3
  <1>5. rec[wr.slot].used /\ rec[wr.slot].name \in Names
    BY <1>u, <1>1, <1>3, <1>4, AtRest DEF Records
  <1>6. /\ rec' \in [Slots -> Records] /\ SameButFiles(rec, rec')
        /\ rec'[wr.slot].file = wr.file
    <2>1. PICK s, g : s = wr.slot /\ g = wr.file
      OBVIOUS
    <2>2. s \in Slots /\ g \in Files /\ rec \in [Slots -> Records]
      BY <2>1, <1>3, <1>4
    <2>3. rec' = [rec EXCEPT ![s].file = g]
      BY <2>1, <1>u
    <2>4. rec' \in [Slots -> Records] /\ SameButFiles(rec, rec') /\ rec'[s].file = g
      <3>1. /\ [rec EXCEPT ![s].file = g] \in [Slots -> Records]
            /\ SameButFiles(rec, [rec EXCEPT ![s].file = g])
            /\ [rec EXCEPT ![s].file = g][s].file = g
        BY ONLY <2>2, FileChange, Zenon
      <3> QED BY <2>3, <3>1, Zenon
    <2> QED BY <2>1, <2>4
  <1>7. RecOK(rec') /\ Covered(flash, rec', {}) /\ LiveOK(flash, rec')
    BY <1>3, <1>6, FilesKeep
  <1>8. AskPart'
    <2>1. \A n \in Names : asked[n] = NoFile
      BY <1>u, <1>1 DEF AskPart
    <2>2. asked' \in [Names -> Files \cup {NoFile}]
      BY <1>1, <1>4, <1>5, <1>u DEF AskPart
    <2>3. \A n \in Names : asked'[n] # NoFile => n = rec[wr.slot].name /\ asked'[n] = wr.file
      BY <1>1, <1>5, <1>u, <2>1 DEF AskPart
    <2>4. rec'[wr.slot].used /\ rec'[wr.slot].name = rec[wr.slot].name
      BY <1>4, <1>5, <1>6 DEF SameButFiles
    <2> QED BY <1>u, <1>4, <1>6, <2>2, <2>3, <2>4 DEF AskPart
  <1>9. g_commit_pending' \in Slots
    BY <1>u, <1>4
  <1> QED BY <1>u, <1>3, <1>7, <1>8, <1>9, NoJobProps, LoopKeeps

LEMMA FormatStep ==
    ASSUME IInv, cmd_file_format PROVE IInv'
  <1>u. /\ pc = "poll" /\ pc' = "format" /\ g_offline /\ g_offline' = g_offline /\ flash' = flash
        /\ rec' = rec /\ wr' = wr
        /\ g_store_wr_cursor' = g_store_wr_cursor /\ g_commit_pending' = g_commit_pending
        /\ asked' = [n \in Names |-> NoFile] /\ job' = [NoJob EXCEPT !.row = 0]
    BY DEF cmd_file_format, Command, host
  <1>1. ~Committing /\ ~Committing' /\ Unverified' = {}
    BY <1>u DEF Committing, Unverified
  <1>2. /\ FlashOK(flash) /\ RecOK(rec) /\ Covered(flash, rec, {})
        /\ g_store_wr_cursor \in Rows /\ g_commit_pending \in {-1} \cup Slots /\ job \in Jobs
        /\ wr \in [slot : {-1} \cup Slots, file : Files]
        /\ (wr.slot # -1 => g_offline /\ rec[wr.slot].used)
    BY <1>u, <1>1, AtRest
  <1>3. g_commit_pending = -1
    BY <1>u DEF IInv, CtlPart
  <1>4. job' \in Jobs /\ job'.row = 0
    BY <1>u, Consts, EmptyFile DEF NoJob, Jobs
  <1>5. DataPart'
    BY <1>u, <1>1, <1>2 DEF DataPart
  <1>6. CtlPart'
    BY <1>u, <1>2, <1>3 DEF CtlPart
  <1>7. JobPart'
    BY <1>u, <1>1, <1>4, Consts DEF JobPart
  <1>8. AskPart'
    BY <1>u, NothingAsked
  <1> QED BY <1>5, <1>6, <1>7, <1>8 DEF IInv

(* Taking an entry away leaves the others as they were.                    *)
EraseOf(fl, fl2, r) == r \in Rows /\ fl2 = [fl EXCEPT ![r] = Torn]
LEMMA Erased ==
    ASSUME NEW fl, NEW fl2, NEW rc, NEW x, NEW r, FlashOK(fl), Covered(fl, rc, x),
           EraseOf(fl, fl2, r)
    PROVE  /\ FlashOK(fl2) /\ Valid(fl2) = Valid(fl) \ {r} /\ fl2[r] = Torn
           /\ \A q \in Rows : q # r => fl2[q] = fl[q]
           /\ Covered(fl2, rc, x)
  <1>1. /\ fl \in [Rows -> Entries \cup {Torn}] /\ fl2 \in [Rows -> Entries \cup {Torn}]
        /\ fl2[r] = Torn /\ \A q \in Rows : q # r => fl2[q] = fl[q]
    BY DEF FlashOK, EraseOf
  <1>2. Valid(fl2) = Valid(fl) \ {r}
    BY <1>1 DEF Valid, store_entry_valid
  <1>3. \A q \in Valid(fl2) : fl2[q] = fl[q] /\ q \in Valid(fl)
    BY <1>1, <1>2 DEF Valid
  <1>4. FlashOK(fl2)
    <2>1. ASSUME NEW p \in Valid(fl2), NEW q \in Valid(fl2), fl2[p].name = fl2[q].name,
                 fl2[p].seq = fl2[q].seq
          PROVE  p = q
      <3>1. p \in Valid(fl) /\ q \in Valid(fl) /\ fl2[p] = fl[p] /\ fl2[q] = fl[q]
        BY <1>3
      <3> QED BY <3>1, <2>1 DEF FlashOK
    <2> QED BY <2>1, <1>1 DEF FlashOK
  <1>5. Covered(fl2, rc, x)
    BY <1>3 DEF Covered
  <1> QED BY <1>1, <1>2, <1>4, <1>5

LEMMA FormatRowStep ==
    ASSUME IInv, FormatRow PROVE IInv'
  <1>u. /\ pc = "format" /\ g_commit_pending' = g_commit_pending /\ g_offline' = g_offline
        /\ asked' = asked
    BY DEF FormatRow
  <1>1. /\ DataPart /\ CtlPart /\ JobPart /\ ~Committing /\ pc # "service" /\ Unverified = {}
        /\ pc # "verify"
    BY <1>u DEF IInv, Committing, Unverified
  <1>2. AskPart'
    BY <1>u, <1>1, NothingAskedNow
  <1>3. /\ g_offline /\ job \in Jobs /\ job.row \in 0..STORE_ROWS /\ job.row \in Nat
        /\ \A r \in 0..(job.row - 1) : flash[r] = Torn
    BY <1>u, <1>1, Consts DEF JobPart
  <1>4. FlashOK(flash) /\ RecOK(rec) /\ Covered(flash, rec, {})
    BY <1>1 DEF DataPart
  <1>5. CASE job.row < STORE_ROWS
    <2>u. /\ flash' = [flash EXCEPT ![job.row] = Torn] /\ job' = [job EXCEPT !.row = @ + 1]
          /\ rec' = rec /\ g_store_wr_cursor' = g_store_wr_cursor /\ wr' = wr /\ pc' = pc
      BY <1>5 DEF FormatRow
    <2>1. job.row \in Rows
      BY <1>3, <1>5, Consts DEF Rows
    <2>2. /\ FlashOK(flash') /\ flash'[job.row] = Torn /\ Covered(flash', rec, {})
          /\ \A q \in Rows : q # job.row => flash'[q] = flash[q]
      <3>1. PICK r \in Rows : r = job.row
        BY <2>1
      <3>2. EraseOf(flash, flash', r)
        BY <3>1, <2>u DEF EraseOf
      <3>3. /\ FlashOK(flash') /\ flash'[r] = Torn /\ Covered(flash', rec, {})
            /\ \A q \in Rows : q # r => flash'[q] = flash[q]
        BY <1>4, <3>2, Erased
      <3> QED BY <3>1, <3>3
    <2>3. job' \in Jobs /\ job'.row = job.row + 1
      BY <2>u, <1>3, <1>5, Consts DEF Jobs
    <2>4. \A r \in 0..(job'.row - 1) : flash'[r] = Torn
      <3> SUFFICES ASSUME NEW r \in 0..(job'.row - 1) PROVE flash'[r] = Torn
        OBVIOUS
      <3>1. r = job.row \/ r \in 0..(job.row - 1)
        BY <2>3, <1>3
      <3>2. r \in Rows
        BY <3>1, <2>1, <1>3, <1>5, Consts DEF Rows
      <3> QED BY <3>1, <3>2, <2>2, <1>3
    <2>5. job'.row \in 0..STORE_ROWS
      BY <2>3, <1>3, <1>5, Consts
    <2>6. ~Committing' /\ Unverified' = {}
      BY <1>u, <2>u DEF Committing, Unverified
    <2>7. DataPart'
      BY <1>4, <2>2, <2>6, <2>u, <1>u DEF DataPart
    <2>8. CtlPart'
      BY <1>1, <1>u, <2>u DEF CtlPart
    <2>9. JobPart'
      BY <1>3, <2>3, <2>4, <2>5, <2>6, <1>u, <2>u DEF JobPart
    <2> QED BY <1>2, <2>7, <2>8, <2>9 DEF IInv
  <1>6. CASE ~(job.row < STORE_ROWS)
    <2>u. /\ rec' = store_load(flash) /\ g_store_wr_cursor' = 0 /\ wr' = NoWrite
          /\ job' = NoJob /\ pc' = "service" /\ flash' = flash
      BY <1>6 DEF FormatRow
    <2>1. RecOK(rec') /\ Covered(flash', rec', {}) /\ LiveOK(flash', rec')
      BY <1>1, <2>u, LoadNow
    <2>2. g_commit_pending' \in {-1} \cup Slots /\ FlashOK(flash') /\ g_store_wr_cursor' \in Rows
      BY <1>1, <1>4, <1>u, <2>u, Consts DEF CtlPart
    <2> QED BY <1>2, <2>u, <2>1, <2>2, NoJobProps, LoopKeeps
  <1> QED BY <1>5, <1>6

LEMMA NothingPendingStep ==
    ASSUME IInv, NothingPending PROVE IInv'
  <1>u. /\ AtService /\ g_commit_pending < 0 /\ pc' = AfterService /\ flash' = flash /\ rec' = rec
        /\ g_store_wr_cursor' = g_store_wr_cursor /\ g_commit_pending' = g_commit_pending
        /\ wr' = wr /\ g_offline' = g_offline /\ job' = job /\ asked' = asked
    BY DEF NothingPending, host
  <1>1. ~Committing /\ pc # "format" /\ pc' \in {"poll", "tail"}
    BY <1>u DEF Committing, AtService, AfterService
  <1>2. g_commit_pending = -1
    <2>1. g_commit_pending \in {-1} \cup Slots
      BY <1>1, AtRest
    <2> QED BY <2>1, <1>u DEF Slots
  <1>3. AskPart'
    <2>1. AskPart
      BY DEF IInv
    <2>2. \A n \in Names : asked[n] = NoFile
      BY <2>1, <1>2 DEF AskPart
    <2> QED BY <2>1, <2>2, <1>u DEF AskPart
  <1> QED BY <1>u, <1>1, <1>2, <1>3, AtRest, LoopKeeps

(* A commit that is skipped has nothing to do: the file is in flash.       *)
LEMMA SkippedStep ==
    ASSUME IInv, NEW i \in Slots, CommitSkipped(i) PROVE IInv'
  <1>u. /\ AtService /\ g_commit_pending = i /\ pc' = AfterService /\ flash' = flash /\ rec' = rec
        /\ g_store_wr_cursor' = g_store_wr_cursor /\ g_commit_pending' = -1
        /\ wr' = wr /\ g_offline' = g_offline /\ job' = job
        /\ (~rec[i].used \/ Unchanged(i))
        /\ asked' = [n \in Names |-> IF Disk(n) = asked[n] THEN NoFile ELSE asked[n]]
    BY DEF CommitSkipped, host
  <1>1. ~Committing /\ pc # "format" /\ pc' \in {"poll", "tail"}
    BY <1>u DEF Committing, AtService, AfterService
  <1>2. /\ FlashOK(flash) /\ RecOK(rec) /\ Covered(flash, rec, {}) /\ LiveOK(flash, rec)
        /\ rec \in [Slots -> Records]
    BY <1>1, AtRest
  <1>3. ASSUME NEW n \in Names, asked[n] # NoFile PROVE Disk(n) = asked[n]
    <2>1. rec[i].used /\ rec[i].name = n /\ rec[i].file = asked[n]
      BY <1>u, <1>1, <1>3 DEF IInv, AskPart
    <2>2. /\ rec[i].row >= 0 /\ flash[rec[i].row] # Torn /\ flash[rec[i].row].file = rec[i].file
      BY <2>1, <1>u DEF Unchanged, store_entry_valid
    <2>3. rec[i].row # -1 /\ rec[i].row \in Rows
      BY <2>2, <1>2 DEF Records
    <2>4. rec[i].row \in OfName(flash, n)
      BY <2>1, <2>2, <2>3, <1>2 DEF OfName, Valid, store_entry_valid, LiveOK
    <2>5. PICK j \in Slots : rec[j].used /\ rec[j].name = n /\ Newest(flash, n) = rec[j].row
      BY <2>4, <1>2, SlotIsNewest
    <2>6. j = i
      BY <2>1, <2>5, <1>2 DEF RecOK
    <2> QED BY <2>1, <2>2, <2>4, <2>5, <2>6 DEF Disk
  <1>4. AskPart'
    <2>1. asked' \in [Names -> Files \cup {NoFile}]
      BY <1>u DEF IInv, AskPart
    <2>2. \A n \in Names : asked'[n] = NoFile
      BY <1>u, <1>3
    <2> QED BY <2>1, <2>2, NothingAsked
  <1> QED BY <1>u, <1>1, <1>4, AtRest, LoopKeeps

LEMMA CommitStartStep ==
    ASSUME IInv, NEW i \in Slots, CommitStart(i) PROVE IInv'
  <1>u. /\ AtService /\ g_commit_pending = i /\ pc' = "copy" /\ flash' = flash /\ rec' = rec
        /\ g_commit_pending' = g_commit_pending /\ wr' = wr /\ g_offline' = g_offline
        /\ asked' = asked /\ rec[i].used
        /\ g_store_wr_cursor' = (PickRow + 1) % STORE_ROWS
        /\ job' = [slot |-> i, row |-> PickRow, name |-> rec[i].name, seq |-> rec[i].seq + 1,
                   crc |-> rec[i].file, file |-> rec[i].file]
    BY DEF CommitStart, host
  <1>1. /\ ~Committing /\ pc # "format" /\ Committing' /\ Unverified' = {}
    BY <1>u DEF Committing, AtService, Unverified
  <1>2. /\ FlashOK(flash) /\ RecOK(rec) /\ rec \in [Slots -> Records]
        /\ Covered(flash, rec, {}) /\ LiveOK(flash, rec)
        /\ g_store_wr_cursor \in Rows /\ g_commit_pending \in {-1} \cup Slots
        /\ wr \in [slot : {-1} \cup Slots, file : Files]
        /\ (wr.slot # -1 => g_offline /\ rec[wr.slot].used)
    BY <1>1, AtRest
  <1>3. PickRow \in Rows /\ \A j \in Slots : rec[j].row # PickRow
    BY <1>2, PickRowProps
  <1>4. rec[i].name \in Names /\ rec[i].seq \in Nat /\ rec[i].file \in Files
    BY <1>2 DEF Records
  <1>5. job' \in Jobs
    <2>1. PickRow \in 0..STORE_ROWS /\ rec[i].seq + 1 \in Nat
      BY <1>3, <1>4, Consts DEF Rows
    <2> QED BY <1>u, <1>4, <2>1 DEF Jobs
  <1>6. g_store_wr_cursor' \in Rows
    <2>1. PickRow + 1 \in Nat /\ STORE_ROWS \in Nat /\ STORE_ROWS > 0
      BY <1>3, Consts
    <2>2. (PickRow + 1) % STORE_ROWS \in 0..(STORE_ROWS - 1)
      BY <2>1
    <2> QED BY <1>u, <2>2 DEF Rows
  <1>7. /\ job'.slot = i /\ job'.row = PickRow /\ job'.name = rec[i].name
        /\ job'.seq = rec[i].seq + 1 /\ job'.crc = rec[i].file
    BY <1>u
  <1>8. DataPart'
    BY <1>u, <1>1, <1>2 DEF DataPart
  <1>9. CtlPart'
    BY <1>u, <1>2, <1>6 DEF CtlPart
  <1>10. JobPart'
    BY <1>u, <1>1, <1>3, <1>5, <1>7 DEF JobPart
  <1>11. AskPart'
    BY <1>u, <1>1, <1>7 DEF IInv, AskPart
  <1> QED BY <1>8, <1>9, <1>10, <1>11 DEF IInv

(* The steps of a commit leave the rest of the store alone.                *)
LEMMA CommitKeeps ==
    ASSUME IInv, Committing, Committing', FlashOK(flash'), Covered(flash', rec, Unverified'),
           LiveOK(flash', rec), job' \in Jobs,
           job'.slot = job.slot /\ job'.row = job.row /\ job'.name = job.name
             /\ job'.seq = job.seq /\ job'.crc = job.crc,
           pc' = "pages" => flash'[job.row] = Torn,
           pc' = "verify" => flash'[job.row] \in {Torn, Published},
           UNCHANGED <<rec, g_store_wr_cursor, g_commit_pending, host, asked>>
    PROVE  IInv'
  <1>u. /\ rec' = rec /\ g_store_wr_cursor' = g_store_wr_cursor
        /\ g_commit_pending' = g_commit_pending /\ wr' = wr /\ g_offline' = g_offline
        /\ asked' = asked
    BY DEF host
  <1>1. DataPart /\ CtlPart /\ JobPart /\ AskPart
    BY DEF IInv
  <1>2. pc' \in {"copy", "erase", "pages", "verify"} /\ Published' = Published
    BY DEF Committing, Published
  <1>3. DataPart'
    BY <1>1, <1>u DEF DataPart
  <1>4. CtlPart'
    BY <1>1, <1>2, <1>u DEF CtlPart
  <1>5. JobPart'
    BY <1>1, <1>2, <1>u DEF JobPart
  <1>6. AskPart'
    <2>1. pc # "service"
      BY DEF Committing
    <2> QED BY <1>1, <1>u, <2>1 DEF AskPart
  <1> QED BY <1>3, <1>4, <1>5, <1>6 DEF IInv

(* What the invariant says while a commit runs.                            *)
LEMMA InCommit ==
    ASSUME IInv, Committing
    PROVE  /\ FlashOK(flash) /\ RecOK(rec) /\ rec \in [Slots -> Records] /\ LiveOK(flash, rec)
           /\ Covered(flash, rec, Unverified) /\ (pc # "verify" => Covered(flash, rec, {}))
           /\ job \in Jobs /\ job.slot \in Slots /\ job.row \in Rows
           /\ job.name \in Names /\ job.crc \in Files
           /\ rec[job.slot].used /\ rec[job.slot].name = job.name
           /\ job.seq = rec[job.slot].seq + 1 /\ rec[job.slot].seq \in Nat /\ job.seq \in Nat \ {0}
           /\ \A i \in Slots : rec[i].row # job.row
  <1>1. DataPart /\ JobPart /\ pc # "format"
    BY DEF IInv, Committing
  <1>2. /\ FlashOK(flash) /\ RecOK(rec) /\ rec \in [Slots -> Records] /\ LiveOK(flash, rec)
        /\ Covered(flash, rec, Unverified) /\ (pc # "verify" => Covered(flash, rec, {}))
    BY <1>1 DEF DataPart, RecOK, Unverified
  <1>3. /\ job \in Jobs /\ job.slot \in Slots /\ job.row \in Rows
        /\ rec[job.slot].used /\ rec[job.slot].name = job.name
        /\ job.seq = rec[job.slot].seq + 1
        /\ \A i \in Slots : rec[i].row # job.row
    BY <1>1 DEF JobPart
  <1>4. job.name \in Names /\ job.crc \in Files
    BY <1>3 DEF Jobs
  <1>5. rec[job.slot].seq \in Nat
    BY <1>2, <1>3 DEF Records
  <1>6. job.seq \in Nat \ {0}
    BY <1>3, <1>5
  <1> QED BY <1>2, <1>3, <1>4, <1>5, <1>6

LEMMA CopyStep ==
    ASSUME IInv, Copy PROVE IInv'
  <1>1. PICK f \in Resized(rec[job.slot].file, Len(job.crc)) : job' = [job EXCEPT !.file = f]
    BY DEF Copy
  <1>u. /\ pc = "copy" /\ pc' = "erase" /\ flash' = flash
        /\ UNCHANGED <<rec, g_store_wr_cursor, g_commit_pending, host, asked>>
    BY DEF Copy
  <1>2. Committing /\ Committing' /\ Unverified' = {}
    BY <1>u DEF Committing, Unverified
  <1>3. f \in Files /\ job \in Jobs
    BY <1>1, <1>2, InCommit DEF Resized
  <1>4. /\ job' \in Jobs /\ job'.slot = job.slot /\ job'.row = job.row /\ job'.name = job.name
        /\ job'.seq = job.seq /\ job'.crc = job.crc
    BY <1>1, <1>3 DEF Jobs
  <1>5. FlashOK(flash') /\ Covered(flash', rec, Unverified') /\ LiveOK(flash', rec)
    BY <1>2, <1>u, InCommit
  <1>6. (pc' = "pages" => flash'[job.row] = Torn)
        /\ (pc' = "verify" => flash'[job.row] \in {Torn, Published})
    BY <1>u
  <1> QED BY <1>u, <1>2, <1>4, <1>5, <1>6, CommitKeeps

(* The row is no record's: what it held is not the newest of its name.     *)
LEMMA EraseStep ==
    ASSUME IInv, cs_nvm_erase_row PROVE IInv'
  <1>u. /\ pc = "erase" /\ pc' = "pages" /\ flash' = [flash EXCEPT ![job.row] = Torn] /\ job' = job
        /\ UNCHANGED <<rec, g_store_wr_cursor, g_commit_pending, host, asked>>
    BY DEF cs_nvm_erase_row
  <1>2. Committing /\ Committing' /\ Unverified' = {} /\ pc # "verify"
    BY <1>u DEF Committing, Unverified
  <1>3. /\ FlashOK(flash) /\ LiveOK(flash, rec) /\ rec \in [Slots -> Records]
        /\ Covered(flash, rec, {}) /\ job \in Jobs /\ \A i \in Slots : rec[i].row # job.row
    BY <1>2, InCommit
  <1>4. PICK r \in Rows : r = job.row
    BY <1>2, InCommit
  <1>5. /\ FlashOK(flash') /\ flash'[r] = Torn /\ Covered(flash', rec, {})
        /\ \A q \in Rows : q # r => flash'[q] = flash[q]
    <2>1. EraseOf(flash, flash', r)
      BY <1>u, <1>4 DEF EraseOf
    <2> QED BY <1>3, <2>1, Erased
  <1>6. LiveOK(flash', rec)
    <2>1. \A i \in Slots : rec[i].row # -1 => rec[i].row \in Rows /\ rec[i].row # r
      BY <1>3, <1>4 DEF Records
    <2> QED BY <2>1, <1>3, <1>5 DEF LiveOK
  <1>7. (pc' = "pages" => flash'[job.row] = Torn)
        /\ (pc' = "verify" => flash'[job.row] \in {Torn, Published})
    BY <1>u, <1>4, <1>5
  <1> QED BY <1>u, <1>2, <1>3, <1>5, <1>6, <1>7, CommitKeeps

(* The new number is above all numbers of the name.                        *)
LEMMA WriteStep ==
    ASSUME IInv, cs_nvm_write_page PROVE IInv'
  <1>u. /\ pc = "pages" /\ pc' = "verify" /\ job' = job
        /\ flash' = [flash EXCEPT ![job.row] = IF job.file = job.crc
                     THEN [name |-> job.name, seq |-> job.seq, file |-> job.file] ELSE Torn]
        /\ UNCHANGED <<rec, g_store_wr_cursor, g_commit_pending, host, asked>>
    BY DEF cs_nvm_write_page
  <1>2. Committing /\ Committing' /\ Unverified' = {job.row} /\ pc # "verify"
    BY <1>u DEF Committing, Unverified
  <1>3. /\ FlashOK(flash) /\ RecOK(rec) /\ LiveOK(flash, rec) /\ rec \in [Slots -> Records]
        /\ Covered(flash, rec, {}) /\ job \in Jobs /\ job.name \in Names /\ job.crc \in Files
        /\ job.slot \in Slots /\ rec[job.slot].used /\ rec[job.slot].name = job.name
        /\ job.seq = rec[job.slot].seq + 1 /\ rec[job.slot].seq \in Nat
        /\ job.seq \in Nat \ {0} /\ \A i \in Slots : rec[i].row # job.row
    BY <1>2, InCommit
  <1>4. PICK r \in Rows : r = job.row
    BY <1>2, InCommit
  <1>5. PICK e : e = IF job.file = job.crc THEN Published ELSE Torn
    OBVIOUS
  <1>6. flash' = [flash EXCEPT ![r] = e]
    BY <1>u, <1>4, <1>5 DEF Published
  <1>7. Published \in Entries /\ Published.name = job.name /\ Published.seq = job.seq
    BY <1>3 DEF Published, Entries
  <1>8. /\ flash' \in [Rows -> Entries \cup {Torn}] /\ flash'[r] = e
        /\ \A q \in Rows : q # r => flash'[q] = flash[q]
    BY <1>3, <1>5, <1>6, <1>7 DEF FlashOK
  <1>9. \A q \in Valid(flash') : q # r => q \in Valid(flash) /\ flash'[q] = flash[q]
    BY <1>8 DEF Valid, store_entry_valid
  <1>10. ASSUME NEW q \in Valid(flash), flash[q].name = job.name PROVE flash[q].seq # job.seq
    <2>1. PICK j \in Slots : rec[j].used /\ rec[j].name = flash[q].name /\ flash[q].seq <= rec[j].seq
      BY <1>3 DEF Covered
    <2>2. j = job.slot
      BY <1>3, <2>1, <1>10 DEF RecOK
    <2>3. flash[q].seq \in Nat
      BY <1>3, ValidProps
    <2> QED BY <2>1, <2>2, <2>3, <1>3
  <1>11. FlashOK(flash')
    <2>1. ASSUME NEW p \in Valid(flash'), NEW q \in Valid(flash'),
                 flash'[p].name = flash'[q].name, flash'[p].seq = flash'[q].seq, p # r
          PROVE  p = q
      <3>1. p \in Valid(flash) /\ flash'[p] = flash[p]
        BY <1>9, <2>1
      <3>2. CASE q = r
        <4>1. flash'[q] = Published
          BY <3>2, <1>5, <1>8 DEF Valid, store_entry_valid
        <4> QED BY <4>1, <3>1, <1>7, <1>10, <2>1
      <3>3. CASE q # r
        <4>1. q \in Valid(flash) /\ flash'[q] = flash[q]
          BY <1>9, <3>3
        <4> QED BY <4>1, <3>1, <2>1, <1>3 DEF FlashOK
      <3> QED BY <3>2, <3>3
    <2>2. ASSUME NEW p \in Valid(flash'), NEW q \in Valid(flash'),
                 flash'[p].name = flash'[q].name, flash'[p].seq = flash'[q].seq
          PROVE  p = q
      BY <2>1, <2>2
    <2> QED BY <2>2, <1>8 DEF FlashOK
  <1>12. Covered(flash', rec, Unverified')
    BY <1>2, <1>3, <1>4, <1>9 DEF Covered
  <1>13. LiveOK(flash', rec)
    <2>1. \A i \in Slots : rec[i].row # -1 => rec[i].row \in Rows /\ rec[i].row # r
      BY <1>3, <1>4 DEF Records
    <2> QED BY <2>1, <1>3, <1>8 DEF LiveOK
  <1>14. (pc' = "pages" => flash'[job.row] = Torn)
         /\ (pc' = "verify" => flash'[job.row] \in {Torn, Published})
    BY <1>u, <1>4, <1>5, <1>8
  <1> QED BY <1>u, <1>2, <1>3, <1>11, <1>12, <1>13, <1>14, CommitKeeps

(* An entry just written is the newest of its name.                        *)
LEMMA WrittenIsNewest ==
    ASSUME IInv, pc = "verify", flash[job.row] # Torn
    PROVE  /\ flash[job.row] = Published /\ job.row \in Valid(flash)
           /\ IsNewest(flash, job.name, job.row) /\ Newest(flash, job.name) = job.row
  <1>1. Committing
    BY DEF Committing
  <1>2. /\ FlashOK(flash) /\ RecOK(rec) /\ Covered(flash, rec, {job.row})
        /\ job.slot \in Slots /\ job.row \in Rows /\ rec[job.slot].used
        /\ rec[job.slot].name = job.name /\ job.seq = rec[job.slot].seq + 1
        /\ rec[job.slot].seq \in Nat
    BY <1>1, InCommit DEF Unverified
  <1>3. flash[job.row] = Published /\ job.row \in Valid(flash)
    BY <1>2 DEF IInv, JobPart, Valid, store_entry_valid
  <1>4. flash[job.row].name = job.name /\ flash[job.row].seq = job.seq
    BY <1>3 DEF Published
  <1>5. ASSUME NEW q \in OfName(flash, job.name) PROVE flash[q].seq <= flash[job.row].seq
    <2>1. CASE q = job.row
      BY <2>1, <1>4, <1>2
    <2>2. CASE q # job.row
      <3>1. q \in Valid(flash) \ {job.row} /\ flash[q].name = job.name
        BY <2>2 DEF OfName
      <3>2. PICK j \in Slots : rec[j].used /\ rec[j].name = flash[q].name /\ flash[q].seq <= rec[j].seq
        BY <3>1, <1>2 DEF Covered
      <3>3. j = job.slot
        BY <1>2, <3>1, <3>2 DEF RecOK
      <3>4. flash[q].seq \in Nat
        BY <1>2, <3>1, ValidProps
      <3> QED BY <3>2, <3>3, <3>4, <1>2, <1>4
    <2> QED BY <2>1, <2>2
  <1>6. IsNewest(flash, job.name, job.row)
    BY <1>3, <1>4, <1>5 DEF IsNewest, OfName
  <1>7. Newest(flash, job.name) = job.row
    BY <1>2, <1>6, NewestIs
  <1> QED BY <1>3, <1>6, <1>7

(* The slot learns the row that was written.                               *)
LEMMA VerifyRecord ==
    ASSUME IInv, pc = "verify", flash[job.row] # Torn,
           rec' = [rec EXCEPT ![job.slot].seq = job.seq, ![job.slot].row = job.row]
    PROVE  /\ RecOK(rec') /\ Covered(flash, rec', {}) /\ LiveOK(flash, rec')
           /\ \A i \in Slots : rec'[i].used = rec[i].used
  <1>1. Committing
    BY DEF Committing
  <1>2. /\ FlashOK(flash) /\ RecOK(rec) /\ rec \in [Slots -> Records] /\ LiveOK(flash, rec)
        /\ Covered(flash, rec, {job.row})
        /\ job.slot \in Slots /\ job.row \in Rows /\ rec[job.slot].used
        /\ rec[job.slot].name = job.name /\ job.seq = rec[job.slot].seq + 1
        /\ rec[job.slot].seq \in Nat /\ job.seq \in Nat \ {0}
    BY <1>1, InCommit DEF Unverified
  <1>3. flash[job.row] = Published
    BY WrittenIsNewest
  <1>4. PICK s, w, m : s = job.slot /\ w = job.row /\ m = job.seq
    OBVIOUS
  <1>5. rec' = [rec EXCEPT ![s] = [rec[s] EXCEPT !.seq = m, !.row = w]]
    BY <1>2, <1>4
  <1>6. rec[s] \in Records /\ w \in Rows /\ m \in Nat /\ w # -1
    BY <1>2, <1>4, Consts
  <1>7. PICK c : c = [rec[s] EXCEPT !.seq = m, !.row = w]
    OBVIOUS
  <1>8. /\ c \in Records /\ c.used = rec[s].used /\ c.name = rec[s].name /\ c.seq = m /\ c.row = w
    BY <1>6, <1>7 DEF Records
  <1>9. /\ rec' \in [Slots -> Records] /\ rec'[s] = c /\ \A i \in Slots : i # s => rec'[i] = rec[i]
    <2>1. rec' = [rec EXCEPT ![s] = c]
      BY <1>5, <1>7, Zenon
    <2>2. rec \in [Slots -> Records] /\ s \in Slots /\ c \in Records
      BY <1>2, <1>4, <1>8, Zenon
    <2> QED BY ONLY <2>1, <2>2
  <1>10. \A i \in Slots : /\ rec'[i].used = rec[i].used /\ rec'[i].name = rec[i].name
                          /\ rec[i].seq <= rec'[i].seq
    <2>1. \A i \in Slots : rec[i].seq \in Nat
      BY <1>2 DEF Records
    <2>2. rec[s].seq <= m
      BY <1>2, <1>4
    <2> SUFFICES ASSUME NEW i \in Slots
                 PROVE  /\ rec'[i].used = rec[i].used /\ rec'[i].name = rec[i].name
                        /\ rec[i].seq <= rec'[i].seq
      OBVIOUS
    <2>3. CASE i = s
      <3>1. rec'[i].used = rec[i].used /\ rec'[i].name = rec[i].name
        BY <2>3, <1>8, <1>9
      <3>2. rec'[i].seq = m
        BY <2>3, <1>8, <1>9
      <3>3. rec[i].seq <= rec'[i].seq
        BY <2>2, <2>3, <3>2
      <3> QED BY <3>1, <3>3
    <2>4. CASE i # s
      <3>1. rec'[i] = rec[i]
        BY <2>4, <1>9
      <3>2. rec[i].seq <= rec[i].seq
        BY <2>1
      <3> QED BY <3>1, <3>2
    <2> QED BY <2>3, <2>4
  <1>11. RecOK(rec')
    <2>1. \A i \in Slots : /\ ~rec'[i].used => rec'[i].row = -1
                           /\ rec'[i].row = -1 => rec'[i].seq = 0
      BY <1>2, <1>4, <1>6, <1>8, <1>9 DEF RecOK
    <2>2. \A i, j \in Slots : rec'[i].used /\ rec'[j].used /\ rec'[i].name = rec'[j].name => i = j
      <3>1. \A i, j \in Slots : rec[i].used /\ rec[j].used /\ rec[i].name = rec[j].name => i = j
        BY <1>2, Zenon DEF RecOK
      <3> QED BY <1>10, <3>1, Zenon
    <2> QED BY <1>9, <2>1, <2>2 DEF RecOK
  <1>12. Covered(flash, rec', {})
    <2> SUFFICES ASSUME NEW r \in Valid(flash)
                 PROVE  \E i \in Slots : /\ rec'[i].used /\ rec'[i].name = flash[r].name
                                         /\ flash[r].seq <= rec'[i].seq
      BY DEF Covered
    <2>1. CASE r = w
      <3>1. flash[r].name = rec[s].name /\ flash[r].seq = m
        BY <2>1, <1>2, <1>3, <1>4 DEF Published
      <3>2. s \in Slots /\ rec[s].used /\ m \in Nat
        BY <1>2, <1>4
      <3>3. rec'[s].used /\ rec'[s].name = flash[r].name /\ flash[r].seq <= rec'[s].seq
        <4>1. rec'[s].used = rec[s].used /\ rec'[s].name = rec[s].name /\ rec'[s].seq = m
          BY <1>8, <1>9, Zenon
        <4>2. flash[r].seq <= m
          BY ONLY <3>1, <3>2
        <4> QED BY <3>1, <3>2, <4>1, <4>2, Zenon
      <3> QED BY <3>2, <3>3, Zenon
    <2>2. CASE r # w
      <3>1. PICK i \in Slots : rec[i].used /\ rec[i].name = flash[r].name /\ flash[r].seq <= rec[i].seq
        BY <2>2, <1>2, <1>4 DEF Covered
      <3>2. flash[r].seq \in Nat /\ rec[i].seq \in Nat /\ rec'[i].seq \in Nat
        BY <1>2, <1>9, ValidProps DEF Records
      <3>3. rec'[i].used /\ rec'[i].name = flash[r].name
        BY <3>1, <1>10
      <3>4. rec[i].seq <= rec'[i].seq
        BY <1>10
      <3>5. flash[r].seq <= rec'[i].seq
        BY <3>1, <3>2, <3>4
      <3> QED BY <3>3, <3>5
    <2> QED BY <2>1, <2>2
  <1>13. LiveOK(flash, rec')
    <2> SUFFICES ASSUME NEW i \in Slots, rec'[i].row # -1
                 PROVE  /\ flash[rec'[i].row] # Torn /\ flash[rec'[i].row].name = rec'[i].name
                        /\ flash[rec'[i].row].seq = rec'[i].seq
      BY DEF LiveOK
    <2>1. CASE i = s
      <3>1. flash[w] # Torn /\ flash[w].name = rec[s].name /\ flash[w].seq = m
        BY <1>2, <1>3, <1>4 DEF Published
      <3> QED BY <2>1, <3>1, <1>8, <1>9
    <2>2. CASE i # s
      <3>1. rec'[i] = rec[i] /\ rec[i].row # -1
        BY <2>2, <1>9
      <3>2. /\ flash[rec[i].row] # Torn /\ flash[rec[i].row].name = rec[i].name
            /\ flash[rec[i].row].seq = rec[i].seq
        BY <1>2, <3>1 DEF LiveOK
      <3> QED BY <3>1, <3>2
    <2> QED BY <2>1, <2>2
  <1> QED BY <1>10, <1>11, <1>12, <1>13

LEMMA VerifyStep ==
    ASSUME IInv, Verify PROVE IInv'
  <1>u. /\ pc = "verify" /\ pc' = AfterService /\ job' = NoJob /\ flash' = flash
        /\ g_store_wr_cursor' = g_store_wr_cursor /\ g_commit_pending' = -1
        /\ wr' = wr /\ g_offline' = g_offline
        /\ asked' = [n \in Names |->
                       IF Disk(n) = asked[n] \/ (n = job.name /\ flash[job.row] = Torn)
                       THEN NoFile ELSE asked[n]]
    BY DEF Verify, host
  <1>1. Committing /\ pc' \in {"poll", "tail"}
    BY <1>u DEF Committing, AfterService
  <1>2. /\ FlashOK(flash) /\ RecOK(rec) /\ LiveOK(flash, rec) /\ Covered(flash, rec, {job.row})
    BY <1>u, <1>1, InCommit DEF Unverified
  <1>3. /\ RecOK(rec') /\ Covered(flash, rec', {}) /\ LiveOK(flash, rec')
        /\ \A i \in Slots : rec'[i].used = rec[i].used
    <2>1. CASE flash[job.row] # Torn
      <3>1. rec' = [rec EXCEPT ![job.slot].seq = job.seq, ![job.slot].row = job.row]
        BY <2>1 DEF Verify, store_entry_valid
      <3> QED BY <2>1, <3>1, <1>u, VerifyRecord
    <2>2. CASE flash[job.row] = Torn
      <3>1. rec' = rec
        BY <2>2 DEF Verify, store_entry_valid
      <3>2. Covered(flash, rec, {})
        BY <2>2, <1>2 DEF Covered, Valid, store_entry_valid
      <3> QED BY <3>1, <3>2, <1>2
    <2> QED BY <2>1, <2>2
  <1>4. ASSUME NEW n \in Names, asked[n] # NoFile, flash[job.row] # Torn PROVE Disk(n) = asked[n]
    <2>1. job.name = n /\ job.crc = asked[n]
      BY <1>u, <1>4 DEF IInv, AskPart
    <2>2. /\ flash[job.row] = Published /\ Newest(flash, n) = job.row
          /\ job.row \in OfName(flash, n)
      BY <2>1, <1>u, <1>4, WrittenIsNewest DEF IsNewest
    <2>3. flash[job.row].file = job.crc
      BY <2>2 DEF Published
    <2> QED BY <2>1, <2>2, <2>3 DEF Disk
  <1>5. AskPart'
    <2>1. asked' \in [Names -> Files \cup {NoFile}]
      BY <1>u DEF IInv, AskPart
    <2>2. ASSUME NEW n \in Names, asked[n] # NoFile PROVE job.name = n
      BY <1>u, <2>2 DEF IInv, AskPart
    <2>3. \A n \in Names : asked'[n] = NoFile
      BY <1>u, <1>4, <2>2
    <2> QED BY <2>1, <2>3, NothingAsked
  <1>6. /\ g_store_wr_cursor \in Rows /\ wr \in [slot : {-1} \cup Slots, file : Files]
        /\ (wr.slot # -1 => g_offline /\ rec[wr.slot].used)
    BY DEF IInv, CtlPart
  <1>7. wr.slot # -1 => rec'[wr.slot].used
    BY <1>3, <1>6
  <1> QED BY <1>u, <1>1, <1>2, <1>3, <1>5, <1>6, <1>7, NoJobProps, LoopKeeps

(* After a reset the records are as the flash says, whatever was cut.      *)
LEMMA LoadAfterCut ==
    ASSUME IInv
    PROVE  /\ HasNewest(flash) /\ FlashOK(flash)
           /\ RecOK(store_load(flash)) /\ Covered(flash, store_load(flash), {})
           /\ LiveOK(flash, store_load(flash))
  <1>1. FlashOK(flash) /\ RecOK(rec) /\ Covered(flash, rec, Unverified) /\ DataPart
    BY DEF IInv, DataPart
  <1>2. CASE pc # "verify"
    <2>1. HasNewest(flash)
      BY <1>1, <1>2, NewestProps DEF HasNewest, Unverified
    <2> QED BY <1>1, <1>2, <2>1, LoadNow
  <1>3. CASE pc = "verify"
    <2>1. Committing
      BY <1>3 DEF Committing
    <2>2. /\ Covered(flash, rec, {job.row}) /\ job.slot \in Slots /\ rec[job.slot].used
          /\ rec[job.slot].name = job.name
      BY <2>1, <1>3, InCommit DEF Unverified
    <2>3. ASSUME job.row \in Valid(flash)
          PROVE  /\ flash[job.row].name = job.name /\ IsNewest(flash, job.name, job.row)
                 /\ Newest(flash, job.name) = job.row
      <3>1. flash[job.row] # Torn
        BY <2>3 DEF Valid, store_entry_valid
      <3> QED BY <3>1, <1>3, WrittenIsNewest DEF Published
    <2>4. HasSlots(flash, rec)
      BY <2>2, <2>3 DEF HasSlots, Covered
    <2>5. HasNewest(flash)
      <3> SUFFICES ASSUME NEW n \in Names, OfName(flash, n) # {}
                   PROVE  IsNewest(flash, n, Newest(flash, n))
        BY DEF HasNewest
      <3>1. CASE job.row \in OfName(flash, n)
        <4>1. job.row \in Valid(flash) /\ flash[job.row].name = n
          BY <3>1 DEF OfName
        <4> QED BY <4>1, <2>3
      <3>2. CASE job.row \notin OfName(flash, n)
        <4>1. PICK r : r \in OfName(flash, n) \ {job.row}
          BY <3>2
        <4>2. PICK i \in Slots : rec[i].used /\ rec[i].name = n
          BY <4>1, <2>2 DEF Covered, OfName
        <4>3. ASSUME NEW q \in OfName(flash, n) PROVE flash[q].seq <= rec[i].seq
          <5>1. q \in Valid(flash) \ {job.row} /\ flash[q].name = n
            BY <3>2 DEF OfName
          <5>2. PICK j \in Slots : rec[j].used /\ rec[j].name = n /\ flash[q].seq <= rec[j].seq
            BY <5>1, <2>2 DEF Covered
          <5>3. j = i
            BY <1>1, <4>2, <5>2 DEF RecOK
          <5> QED BY <5>2, <5>3
        <4>4. rec[i].seq \in Nat
          BY <1>1 DEF RecOK, Records
        <4> QED BY <1>1, <4>3, <4>4, NewestExists
      <3> QED BY <3>1, <3>2
    <2> QED BY <1>1, <2>4, <2>5, LoadProps
  <1> QED BY <1>2, <1>3

LEMMA BootStep ==
    ASSUME IInv, Boot PROVE IInv'
  <1>u. /\ rec' = store_load(flash) /\ flash' = flash /\ g_store_wr_cursor' = 0
        /\ g_commit_pending' = -1 /\ wr' = NoWrite /\ g_offline' = FALSE /\ pc' = "poll"
        /\ job' = NoJob /\ asked' = [n \in Names |-> NoFile]
    BY DEF Boot
  <1>1. AskPart'
    BY <1>u, NothingAsked
  <1> QED BY <1>u, <1>1, LoadAfterCut, NoJobProps, Consts, LoopKeeps

LEMMA TailStep ==
    ASSUME IInv, Tail PROVE IInv'
  <1>1. CASE RebootNow
    <2>1. Boot
      BY <1>1 DEF Tail
    <2> QED BY <2>1, BootStep
  <1>2. CASE ~RebootNow
    <2>u. /\ pc = "tail" /\ pc' = "poll" /\ flash' = flash /\ rec' = rec
          /\ g_store_wr_cursor' = g_store_wr_cursor /\ g_commit_pending' = g_commit_pending
          /\ wr' = wr /\ g_offline' = g_offline /\ asked' = asked /\ job' = job
      BY <1>2 DEF Tail
    <2>1. ~Committing
      BY <2>u DEF Committing
    <2>2. AskPart'
      BY <2>u, <2>1, NothingAskedNow
    <2>3. g_offline => g_commit_pending = -1
      BY <2>u DEF IInv, CtlPart
    <2> QED BY <2>u, <2>1, <2>2, <2>3, AtRest, LoopKeeps
  <1> QED BY <1>1, <1>2

LEMMA StutterStep ==
    ASSUME IInv, UNCHANGED vars PROVE IInv'
  <1>u. /\ flash' = flash /\ rec' = rec /\ g_store_wr_cursor' = g_store_wr_cursor
        /\ g_commit_pending' = g_commit_pending /\ wr' = wr /\ g_offline' = g_offline
        /\ pc' = pc /\ job' = job /\ asked' = asked
    BY DEF vars
  <1>1. Unverified' = Unverified /\ (Committing' <=> Committing) /\ Published' = Published
    BY <1>u DEF Unverified, Committing, Published
  <1>2. DataPart'
    BY <1>u, <1>1 DEF IInv, DataPart
  <1>3. CtlPart'
    BY <1>u, <1>1 DEF IInv, CtlPart
  <1>4. JobPart'
    BY <1>u, <1>1 DEF IInv, JobPart
  <1>5. AskPart'
    BY <1>u, <1>1 DEF IInv, AskPart
  <1> QED BY <1>2, <1>3, <1>4, <1>5 DEF IInv

LEMMA IInvStep ==
    ASSUME IInv, ~ReloadInCommit, [Next]_vars PROVE IInv'
  <1>1. CASE HostCommand
    BY <1>1, OfflineStep, CommitStep, FormatStep, BeginStep, DataStep DEF HostCommand
  <1>2. CASE FormatRow
    BY <1>2, FormatRowStep
  <1>3. CASE NothingPending
    BY <1>3, NothingPendingStep
  <1>4. CASE \E i \in Slots : CommitSkipped(i) \/ CommitStart(i)
    BY <1>4, SkippedStep, CommitStartStep
  <1>5. CASE Copy
    BY <1>5, CopyStep
  <1>6. CASE cs_nvm_erase_row
    BY <1>6, EraseStep
  <1>7. CASE cs_nvm_write_page
    BY <1>7, WriteStep
  <1>8. CASE Verify
    BY <1>8, VerifyStep
  <1>9. CASE Tail
    BY <1>9, TailStep
  <1>10. CASE Interrupt
    BY <1>10, RecLenStep, RecDataStep, RecCommitStep, SetAddrStep, ReloadStep DEF Interrupt
  <1>11. CASE UsbLine
    BY <1>11, UsbLineStep
  <1>12. CASE PowerCut
    BY <1>12, BootStep DEF PowerCut
  <1>13. CASE UNCHANGED vars
    BY <1>13, StutterStep
  <1> QED BY <1>1, <1>2, <1>3, <1>4, <1>5, <1>6, <1>7, <1>8, <1>9, <1>10, <1>11, <1>12, <1>13
          DEF Next, MainLoop

-----------------------------------------------------------------------------
(* What the invariant says of the store.                                   *)

LEMMA IInvSound == IInv => StoreSound
  <1> SUFFICES ASSUME IInv PROVE StoreSound
    OBVIOUS
  <1>1. DataPart /\ CtlPart /\ JobPart
    BY DEF IInv
  <1>2. FlashOK(flash) /\ RecOK(rec) /\ Covered(flash, rec, Unverified)
    BY <1>1 DEF DataPart
  <1>3. TypeOK
    BY <1>1, <1>2 DEF CtlPart, FlashOK, RecOK, Records, TypeOK
  <1>4. OneOfEach
    BY <1>2 DEF OneOfEach, FlashOK, RecOK
  <1>5. NewestIsLive
    <2> SUFFICES ASSUME pc # "format", NEW n \in Names, OfName(flash, n) # {}
                 PROVE  \/ pc = "verify" /\ job.row = Newest(flash, n)
                        \/ \E i \in Slots : /\ rec[i].used /\ rec[i].name = n
                                            /\ rec[i].row = Newest(flash, n)
                                            /\ rec[i].seq = flash[rec[i].row].seq
      BY DEF NewestIsLive
    <2>0. LiveOK(flash, rec)
      BY <1>1 DEF DataPart
    <2>1. CASE Covered(flash, rec, {})
      BY <2>0, <2>1, <1>2, SlotIsNewest
    <2>2. CASE ~Covered(flash, rec, {})
      <3>1. pc = "verify" /\ Covered(flash, rec, {job.row})
        BY <1>2, <2>2 DEF Unverified
      <3>2. flash[job.row] # Torn
        BY <2>2, <3>1 DEF Covered, Valid, store_entry_valid
      <3>3. /\ flash[job.row] = Published /\ job.row \in Valid(flash)
            /\ Newest(flash, job.name) = job.row
        BY <3>1, <3>2, WrittenIsNewest
      <3>4. CASE n = job.name
        BY <3>1, <3>3, <3>4
      <3>5. CASE n # job.name
        <4>1. job.row \notin OfName(flash, n)
          BY <3>3, <3>5 DEF OfName, Published
        <4>2. PICK r : r \in OfName(flash, n) \ {job.row}
          BY <4>1
        <4>3. PICK i \in Slots :
                /\ rec[i].used /\ rec[i].name = n /\ rec[i].row \in Rows
                /\ rec[i].row \in OfName(flash, n) /\ flash[rec[i].row].seq = rec[i].seq
                /\ \A q \in OfName(flash, n) \ {job.row} : flash[q].seq <= rec[i].seq
          BY <4>2, <3>1, <2>0, <1>2, SlotOfName
        <4>4. IsNewest(flash, n, rec[i].row)
          BY <4>1, <4>3 DEF IsNewest
        <4>5. Newest(flash, n) = rec[i].row
          BY <4>4, <1>2, NewestIs
        <4> QED BY <4>3, <4>5
      <3> QED BY <3>4, <3>5
    <2> QED BY <2>1, <2>2
  <1> QED BY <1>3, <1>4, <1>5 DEF StoreSound

(* The records in RAM and the entries in flash agree after any sequence of *)
(* commands, interrupts, commits, formats and power failures: the newest   *)
(* entry of every name is its slot's row, so no commit erases it; a name   *)
(* has one slot and its entries have different numbers.                    *)
THEOREM StoreSafety == ~ReloadInCommit => (Spec => []StoreSound)
  <1>1. ASSUME ~ReloadInCommit PROVE Spec => []StoreSound
    <2>1. IInv /\ [Next]_vars => IInv'
      BY <1>1, IInvStep
    <2> QED BY <2>1, IInvInit, IInvSound, PTL DEF Spec
  <1> QED BY <1>1

(* The reboot that ends a commissioning session happens with every file    *)
(* the host was promised in flash, or reported as failed.                  *)
THEOREM SessionPersists == ~ReloadInCommit => (Spec => SessionKept)
  <1>1. ASSUME ~ReloadInCommit PROVE Spec => SessionKept
    <2>1. IInv /\ [Next]_vars => IInv'
      BY <1>1, IInvStep
    <2>2. IInv => (pc = "tail" /\ RebootNow /\ pc' = "poll" =>
                     \A n \in Names : asked[n] = NoFile)
      BY DEF IInv, AskPart, Committing
    <2> QED BY <2>1, <2>2, IInvInit, PTL DEF Spec, SessionKept
  <1> QED BY <1>1

-----------------------------------------------------------------------------
(* The store implements NamedStore.                                        *)

(* The files a reboot would find in flash fl, and those it holds.          *)
DiskOf(fl) == [n \in Names |-> IF OfName(fl, n) = {} THEN NoFile ELSE fl[Newest(fl, n)].file]
KeptOf(fl) == [n \in Names |-> {fl[r].file : r \in OfName(fl, n)}]
Writing == IF pc \in {"copy", "erase", "pages"} THEN <<job.name, job.crc>> ELSE Idle
Dropped(fl, fl2) ==
    \A n \in Names : /\ KeptOf(fl2)[n] \subseteq KeptOf(fl)[n]
                     /\ DiskOf(fl2)[n] # NoFile => DiskOf(fl2)[n] \in KeptOf(fl2)[n]

(* The steps of NamedStore over the flash.                                 *)
LEMMA AbsView ==
    /\ DiskOf(flash) = [n \in Names |-> Disk(n)]
    /\ DiskOf(flash') = [n \in Names |-> Disk(n)']
  BY DEF DiskOf, Disk

LEMMA AbsDropped ==
    ASSUME Dropped(flash, flash') PROVE Abs!OnlyOldDropped
  BY DEF Dropped, DiskOf, KeptOf, Disk, Abs!OnlyOldDropped

LEMMA AbsBegin ==
    ASSUME Writing = Idle, pc # "format", Writing' \in Names \X Files, pc' # "format",
           DiskOf(flash') = DiskOf(flash), Dropped(flash, flash')
    PROVE  Abs!AbsNext
  <1>1. Abs!OnlyOldDropped
    BY AbsDropped
  <1>2. [n \in Names |-> Disk(n)]' = [n \in Names |-> Disk(n)]
    BY AbsView
  <1> QED BY <1>1, <1>2 DEF Writing, Abs!AbsNext, Abs!Begin

LEMMA AbsReclaim ==
    ASSUME DiskOf(flash') = DiskOf(flash), Dropped(flash, flash'), Writing' = Writing,
           pc # "format", pc' # "format"
    PROVE  Abs!AbsNext
  <1>1. Abs!OnlyOldDropped
    BY AbsDropped
  <1>2. [n \in Names |-> Disk(n)]' = [n \in Names |-> Disk(n)]
    BY AbsView
  <1> QED BY <1>1, <1>2 DEF Writing, Abs!AbsNext, Abs!Reclaim

LEMMA AbsPublish ==
    ASSUME Writing # Idle, Writing' = Idle, pc # "format", pc' # "format",
           DiskOf(flash') = [DiskOf(flash) EXCEPT ![Writing[1]] = Writing[2]],
           KeptOf(flash') = [KeptOf(flash) EXCEPT ![Writing[1]] = @ \cup {Writing[2]}]
    PROVE  Abs!AbsNext
  BY AbsView DEF Writing, KeptOf, Abs!AbsNext, Abs!Publish

LEMMA AbsAbandon ==
    ASSUME Writing' = Idle, pc' # "format",
           DiskOf(flash') = DiskOf(flash), Dropped(flash, flash')
    PROVE  Abs!AbsNext
  <1>1. Abs!OnlyOldDropped
    BY AbsDropped
  <1>2. [n \in Names |-> Disk(n)]' = [n \in Names |-> Disk(n)]
    BY AbsView
  <1> QED BY <1>1, <1>2 DEF Writing, Abs!AbsNext, Abs!Abandon

LEMMA AbsFormat ==
    ASSUME Writing = Idle, Writing' = Idle, pc' = "format", flash' = flash
    PROVE  Abs!AbsNext
  BY DEF Writing, Disk, Abs!AbsNext, Abs!Format

LEMMA AbsErase ==
    ASSUME pc = "format", pc' = "format",
           DiskOf(flash') \in [Names -> Files \cup {NoFile}], Dropped(flash, flash')
    PROVE  Abs!AbsNext
  <1>1. Abs!OnlyOldDropped
    BY AbsDropped
  <1>2. [n \in Names |-> Disk(n)]' \in [Names -> Files \cup {NoFile}]
    BY AbsView
  <1> QED BY <1>1, <1>2 DEF Abs!AbsNext, Abs!Erase

LEMMA AbsFormatted ==
    ASSUME pc = "format", pc' = "service", flash' = flash,
           \A n \in Names : DiskOf(flash)[n] = NoFile
    PROVE  Abs!AbsNext
  BY DEF DiskOf, Disk, Abs!AbsNext, Abs!Formatted

LEMMA AbsStutter ==
    ASSUME flash' = flash, Writing' = Writing, (pc' = "format") = (pc = "format")
    PROVE  UNCHANGED Abs!absVars
  BY DEF Writing, Disk, Abs!absVars

-----------------------------------------------------------------------------
(* What a change of flash does to the map of files.                        *)

LEMMA DiskKept ==
    ASSUME NEW fl, HasNewest(fl), NEW n \in Names, DiskOf(fl)[n] # NoFile
    PROVE  DiskOf(fl)[n] \in KeptOf(fl)[n]
  <1>1. OfName(fl, n) # {} /\ DiskOf(fl)[n] = fl[Newest(fl, n)].file
    BY DEF DiskOf
  <1>2. Newest(fl, n) \in OfName(fl, n)
    BY <1>1 DEF HasNewest, IsNewest
  <1> QED BY <1>1, <1>2 DEF KeptOf

LEMMA NoneDropped ==
    ASSUME NEW fl, HasNewest(fl) PROVE Dropped(fl, fl)
  BY DiskKept DEF Dropped

LEMMA DiskType ==
    ASSUME NEW fl, FlashOK(fl), HasNewest(fl)
    PROVE  DiskOf(fl) \in [Names -> Files \cup {NoFile}]
  <1>1. ASSUME NEW n \in Names, OfName(fl, n) # {} PROVE fl[Newest(fl, n)].file \in Files
    <2>1. Newest(fl, n) \in Valid(fl)
      BY <1>1 DEF HasNewest, IsNewest, OfName
    <2> QED BY <2>1, ValidProps
  <1> QED BY <1>1 DEF DiskOf

LEMMA OneDropped ==
    ASSUME NEW fl, NEW fl2, NEW r, EraseOf(fl, fl2, r), FlashOK(fl), HasNewest(fl2)
    PROVE  /\ Dropped(fl, fl2)
           /\ \A n : OfName(fl2, n) = OfName(fl, n) \ {r}
           /\ \A q \in Rows \ {r} : fl2[q] = fl[q]
  <1>1. /\ fl \in [Rows -> Entries \cup {Torn}] /\ r \in Rows /\ fl2[r] = Torn
        /\ \A q \in Rows \ {r} : fl2[q] = fl[q]
    BY DEF FlashOK, EraseOf
  <1>2. \A n : OfName(fl2, n) = OfName(fl, n) \ {r}
    BY <1>1 DEF OfName, Valid, store_entry_valid
  <1>3. ASSUME NEW n \in Names PROVE KeptOf(fl2)[n] \subseteq KeptOf(fl)[n]
    <2>1. \A q \in OfName(fl2, n) : q \in OfName(fl, n) /\ fl2[q] = fl[q]
      BY <1>1, <1>2 DEF OfName, Valid
    <2> QED BY <2>1 DEF KeptOf
  <1> QED BY <1>1, <1>2, <1>3, DiskKept DEF Dropped

(* Erasing a row that is not the newest of a name takes nothing away.      *)
LEMMA OldErased ==
    ASSUME NEW fl, NEW fl2, NEW r, EraseOf(fl, fl2, r), FlashOK(fl), FlashOK(fl2), HasNewest(fl),
           \A n \in Names : OfName(fl, n) # {} => Newest(fl, n) # r
    PROVE  HasNewest(fl2) /\ DiskOf(fl2) = DiskOf(fl)
  <1>1. /\ \A q \in Rows \ {r} : fl2[q] = fl[q]
        /\ \A n : OfName(fl2, n) = OfName(fl, n) \ {r}
    <2>1. /\ fl \in [Rows -> Entries \cup {Torn}] /\ r \in Rows /\ fl2[r] = Torn
          /\ \A q \in Rows \ {r} : fl2[q] = fl[q]
      BY DEF FlashOK, EraseOf
    <2> QED BY <2>1 DEF OfName, Valid, store_entry_valid
  <1>2. ASSUME NEW n \in Names, OfName(fl, n) # {}
        PROVE  /\ IsNewest(fl2, n, Newest(fl, n)) /\ Newest(fl2, n) = Newest(fl, n)
               /\ fl2[Newest(fl, n)] = fl[Newest(fl, n)] /\ OfName(fl2, n) # {}
    <2>1. PICK x : x = Newest(fl, n)
      OBVIOUS
    <2>2. x # r /\ x \in OfName(fl, n) /\ \A q \in OfName(fl, n) : fl[q].seq <= fl[x].seq
      BY <2>1, <1>2 DEF HasNewest, IsNewest
    <2>3. OfName(fl2, n) \subseteq Rows \ {r} /\ x \in OfName(fl2, n)
      BY <1>1, <2>2 DEF OfName, Valid
    <2>4. IsNewest(fl2, n, x)
      BY <1>1, <2>2, <2>3 DEF IsNewest
    <2>5. Newest(fl2, n) = x
      BY <2>4, NewestIs
    <2> QED BY <1>1, <2>1, <2>3, <2>4, <2>5
  <1>3. HasNewest(fl2)
    BY <1>1, <1>2 DEF HasNewest
  <1>4. \A n \in Names : OfName(fl2, n) = {} <=> OfName(fl, n) = {}
    BY <1>1, <1>2
  <1>5. \A n \in Names : (IF OfName(fl2, n) = {} THEN NoFile ELSE fl2[Newest(fl2, n)].file)
                         = (IF OfName(fl, n) = {} THEN NoFile ELSE fl[Newest(fl, n)].file)
    BY <1>2, <1>4
  <1> QED BY <1>3, <1>5 DEF DiskOf

(* Writing an entry above all others of its name replaces that file alone. *)
WriteOf(fl, fl2, r, e) ==
    /\ r \in Rows /\ fl2 = [fl EXCEPT ![r] = e] /\ fl[r] = Torn
    /\ e \in Entries /\ \A q \in OfName(fl, e.name) : fl[q].seq <= e.seq
LEMMA NewWritten ==
    ASSUME NEW fl, NEW fl2, NEW r, NEW e, WriteOf(fl, fl2, r, e), FlashOK(fl), FlashOK(fl2),
           HasNewest(fl)
    PROVE  /\ DiskOf(fl2) = [DiskOf(fl) EXCEPT ![e.name] = e.file]
           /\ KeptOf(fl2) = [KeptOf(fl) EXCEPT ![e.name] = @ \cup {e.file}]
  <1>1. /\ fl \in [Rows -> Entries \cup {Torn}] /\ r \in Rows /\ fl2[r] = e /\ fl[r] = Torn
        /\ e # Torn /\ e.name \in Names /\ e.seq \in Nat
        /\ \A q \in Rows \ {r} : fl2[q] = fl[q]
        /\ \A q \in OfName(fl, e.name) : fl[q].seq <= e.seq
    BY Consts DEF FlashOK, WriteOf, Entries
  <1>2. /\ \A n : n # e.name => OfName(fl2, n) = OfName(fl, n)
        /\ OfName(fl2, e.name) = OfName(fl, e.name) \cup {r}
        /\ \A n : r \notin OfName(fl, n)
    BY <1>1 DEF OfName, Valid, store_entry_valid
  <1>3. \A n : \A q \in OfName(fl, n) : q \in Rows \ {r} /\ fl2[q] = fl[q]
    BY <1>1, <1>2 DEF OfName, Valid
  <1>4. ASSUME NEW n \in Names, n # e.name, OfName(fl, n) # {}
        PROVE  fl2[Newest(fl2, n)].file = fl[Newest(fl, n)].file
    <2>1. PICK x : x = Newest(fl, n)
      OBVIOUS
    <2>2. x \in OfName(fl, n) /\ \A q \in OfName(fl, n) : fl[q].seq <= fl[x].seq
      BY <2>1, <1>4 DEF HasNewest, IsNewest
    <2>3. IsNewest(fl2, n, x)
      BY <1>2, <1>3, <1>4, <2>2 DEF IsNewest
    <2>4. Newest(fl2, n) = x
      BY <2>3, NewestIs
    <2> QED BY <2>1, <2>2, <2>4, <1>3
  <1>5. fl2[Newest(fl2, e.name)].file = e.file
    <2>1. IsNewest(fl2, e.name, r)
      <3>1. \A q \in OfName(fl2, e.name) : q = r \/ (q \in OfName(fl, e.name) /\ fl2[q] = fl[q])
        BY <1>2, <1>3
      <3>2. e.seq <= e.seq
        BY <1>1
      <3> QED BY <3>1, <3>2, <1>1, <1>2 DEF IsNewest
    <2>2. Newest(fl2, e.name) = r
      BY <2>1, NewestIs
    <2> QED BY <2>2, <1>1
  <1>6. DiskOf(fl2) = [DiskOf(fl) EXCEPT ![e.name] = e.file]
    <2>1. /\ DOMAIN DiskOf(fl2) = Names /\ DOMAIN DiskOf(fl) = Names
          /\ DiskOf(fl2) = [n \in Names |-> DiskOf(fl2)[n]]
          /\ DiskOf(fl) = [n \in Names |-> DiskOf(fl)[n]]
      BY DEF DiskOf
    <2>2. DiskOf(fl2)[e.name] = e.file
      BY <1>1, <1>2, <1>5 DEF DiskOf
    <2>3. \A n \in Names : n # e.name => DiskOf(fl2)[n] = DiskOf(fl)[n]
      BY <1>2, <1>4 DEF DiskOf
    <2> QED BY <1>1, <2>1, <2>2, <2>3
  <1>7. KeptOf(fl2) = [KeptOf(fl) EXCEPT ![e.name] = @ \cup {e.file}]
    <2>1. /\ DOMAIN KeptOf(fl2) = Names /\ DOMAIN KeptOf(fl) = Names
          /\ KeptOf(fl2) = [n \in Names |-> KeptOf(fl2)[n]]
          /\ KeptOf(fl) = [n \in Names |-> KeptOf(fl)[n]]
      BY DEF KeptOf
    <2>2. KeptOf(fl2)[e.name] = KeptOf(fl)[e.name] \cup {e.file}
      <3>1. {fl2[q].file : q \in OfName(fl2, e.name)}
              = {fl[q].file : q \in OfName(fl, e.name)} \cup {e.file}
        BY <1>1, <1>2, <1>3
      <3> QED BY <3>1, <1>1 DEF KeptOf
    <2>3. \A n \in Names : n # e.name => KeptOf(fl2)[n] = KeptOf(fl)[n]
      BY <1>2, <1>3 DEF KeptOf
    <2> QED BY <1>1, <2>1, <2>2, <2>3
  <1> QED BY <1>6, <1>7

-----------------------------------------------------------------------------
(* Every step is a step of NamedStore or leaves it as it was.              *)

LEMMA RefInit == Init => Abs!AbsInit
  <1> SUFFICES ASSUME Init PROVE Abs!AbsInit
    OBVIOUS
  <1>1. flash = [r \in Rows |-> Torn] /\ pc = "poll"
    BY DEF Init
  <1>2. \A n : OfName(flash, n) = {}
    BY <1>1 DEF OfName, Valid, store_entry_valid
  <1> QED BY <1>1, <1>2 DEF Disk, Abs!AbsInit

LEMMA RefStart ==
    ASSUME IInv, NEW i \in Slots, CommitStart(i) PROVE Abs!AbsNext
  <1>u. /\ AtService /\ pc' = "copy" /\ flash' = flash
        /\ job' = [slot |-> i, row |-> PickRow, name |-> rec[i].name, seq |-> rec[i].seq + 1,
                   crc |-> rec[i].file, file |-> rec[i].file]
    BY DEF CommitStart
  <1>1. Writing = Idle /\ pc # "format" /\ pc' # "format" /\ ~Committing
    BY <1>u DEF AtService, Writing, Committing
  <1>2. rec[i].name \in Names /\ rec[i].file \in Files
    BY <1>1, AtRest DEF Records
  <1>3. Writing' \in Names \X Files
    BY <1>u, <1>2 DEF Writing
  <1>4. Dropped(flash, flash') /\ DiskOf(flash') = DiskOf(flash)
    BY <1>u, LoadAfterCut, NoneDropped
  <1> QED BY <1>1, <1>3, <1>4, AbsBegin

(* The erase of a commit: the row is none of those a reboot would read.    *)
LEMMA RefErase ==
    ASSUME IInv, cs_nvm_erase_row PROVE Abs!AbsNext
  <1>u. pc = "erase" /\ pc' = "pages" /\ flash' = [flash EXCEPT ![job.row] = Torn] /\ job' = job
    BY DEF cs_nvm_erase_row
  <1>1. Committing /\ pc # "verify"
    BY <1>u DEF Committing
  <1>2. /\ FlashOK(flash) /\ RecOK(rec) /\ LiveOK(flash, rec) /\ Covered(flash, rec, {})
        /\ \A i \in Slots : rec[i].row # job.row
    BY <1>1, InCommit
  <1>3. PICK r \in Rows : r = job.row
    BY <1>1, InCommit
  <1>4. EraseOf(flash, flash', r)
    BY <1>u, <1>3 DEF EraseOf
  <1>5. FlashOK(flash')
    BY <1>2, <1>4, Erased
  <1>6. \A n \in Names : OfName(flash, n) # {} => Newest(flash, n) # r
    BY <1>2, <1>3, SlotIsNewest
  <1>7. HasNewest(flash)
    BY LoadAfterCut
  <1>8. HasNewest(flash') /\ DiskOf(flash') = DiskOf(flash)
    BY <1>2, <1>4, <1>5, <1>6, <1>7, OldErased
  <1>9. Dropped(flash, flash')
    BY <1>2, <1>4, <1>8, OneDropped
  <1>10. Writing' = Writing /\ pc # "format" /\ pc' # "format"
    BY <1>u DEF Writing
  <1> QED BY <1>8, <1>9, <1>10, AbsReclaim

(* The last page: the file appears whole, or the row stays torn.           *)
LEMMA RefWrite ==
    ASSUME IInv, cs_nvm_write_page PROVE Abs!AbsNext
  <1>u. /\ pc = "pages" /\ pc' = "verify" /\ job' = job
        /\ flash' = [flash EXCEPT ![job.row] = IF job.file = job.crc
                     THEN [name |-> job.name, seq |-> job.seq, file |-> job.file] ELSE Torn]
    BY DEF cs_nvm_write_page
  <1>1. Committing /\ pc # "verify" /\ pc # "format" /\ pc' # "format"
    BY <1>u DEF Committing
  <1>2. /\ FlashOK(flash) /\ RecOK(rec) /\ Covered(flash, rec, {})
        /\ job.slot \in Slots /\ job.name \in Names /\ job.crc \in Files
        /\ rec[job.slot].used /\ rec[job.slot].name = job.name
        /\ job.seq = rec[job.slot].seq + 1 /\ rec[job.slot].seq \in Nat /\ job.seq \in Nat \ {0}
    BY <1>1, InCommit
  <1>3. PICK r \in Rows : r = job.row
    BY <1>1, InCommit
  <1>4. flash[r] = Torn
    BY <1>u, <1>3 DEF IInv, JobPart
  <1>5. HasNewest(flash)
    BY LoadAfterCut
  <1>6. Writing' = Idle /\ Writing = <<job.name, job.crc>>
    BY <1>u DEF Writing
  <1>7. CASE job.file = job.crc
    <2>1. PICK e : e = Published
      OBVIOUS
    <2>2. flash' = [flash EXCEPT ![r] = e]
      BY <1>u, <1>3, <1>7, <2>1 DEF Published
    <2>3. e \in Entries /\ e.name = job.name /\ e.seq = job.seq /\ e.file = job.crc
      BY <1>2, <2>1 DEF Published, Entries
    <2>4. ASSUME NEW q \in OfName(flash, e.name) PROVE flash[q].seq <= e.seq
      <3>1. q \in Valid(flash) /\ flash[q].name = job.name
        BY <2>3 DEF OfName
      <3>2. PICK j \in Slots : rec[j].used /\ rec[j].name = flash[q].name /\ flash[q].seq <= rec[j].seq
        BY <3>1, <1>2 DEF Covered
      <3>3. j = job.slot
        BY <1>2, <3>1, <3>2 DEF RecOK
      <3>4. flash[q].seq \in Nat
        BY <1>2, <3>1, ValidProps
      <3> QED BY <3>2, <3>3, <3>4, <1>2, <2>3
    <2>5. WriteOf(flash, flash', r, e)
      BY <1>4, <2>2, <2>3, <2>4 DEF WriteOf
    <2>6. FlashOK(flash')
      <3>1. IInv'
        BY WriteStep
      <3> QED BY <3>1 DEF IInv, DataPart
    <2>7. /\ DiskOf(flash') = [DiskOf(flash) EXCEPT ![e.name] = e.file]
          /\ KeptOf(flash') = [KeptOf(flash) EXCEPT ![e.name] = @ \cup {e.file}]
      BY <1>2, <1>5, <2>5, <2>6, NewWritten
    <2>8. Writing # Idle
      BY <1>2, <1>6, MarksAssumption
    <2>9. Writing[1] = e.name /\ Writing[2] = e.file
      BY <1>6, <2>3
    <2>10. /\ DiskOf(flash') = [DiskOf(flash) EXCEPT ![Writing[1]] = Writing[2]]
           /\ KeptOf(flash') = [KeptOf(flash) EXCEPT ![Writing[1]] = @ \cup {Writing[2]}]
      BY <2>7, <2>9
    <2> QED BY <1>1, <1>6, <2>8, <2>10, AbsPublish
  <1>8. CASE job.file # job.crc
    <2>1. flash' = [flash EXCEPT ![r] = Torn]
      BY <1>u, <1>3, <1>8
    <2>2. flash' = flash
      BY <2>1, <1>2, <1>4 DEF FlashOK
    <2>3. Dropped(flash, flash') /\ DiskOf(flash') = DiskOf(flash)
      BY <2>2, <1>5, NoneDropped
    <2> QED BY <1>1, <1>6, <2>3, AbsAbandon
  <1> QED BY <1>7, <1>8

LEMMA RefBoot ==
    ASSUME IInv, Boot PROVE Abs!AbsNext
  <1>1. flash' = flash /\ pc' = "poll"
    BY DEF Boot
  <1>2. Writing' = Idle /\ pc' # "format"
    BY <1>1 DEF Writing
  <1>3. Dropped(flash, flash') /\ DiskOf(flash') = DiskOf(flash)
    BY <1>1, LoadAfterCut, NoneDropped
  <1> QED BY <1>2, <1>3, AbsAbandon

LEMMA RefFormat ==
    ASSUME cmd_file_format PROVE Abs!AbsNext
  <1>1. pc = "poll" /\ pc' = "format" /\ flash' = flash
    BY DEF cmd_file_format, Command
  <1>2. Writing = Idle /\ Writing' = Idle
    BY <1>1 DEF Writing
  <1> QED BY <1>1, <1>2, AbsFormat

LEMMA RefFormatRow ==
    ASSUME IInv, FormatRow PROVE Abs!AbsNext
  <1>u. pc = "format"
    BY DEF FormatRow
  <1>1. /\ FlashOK(flash) /\ RecOK(rec) /\ Covered(flash, rec, {})
        /\ job.row \in 0..STORE_ROWS /\ \A r \in 0..(job.row - 1) : flash[r] = Torn
    BY <1>u DEF IInv, DataPart, JobPart, Unverified
  <1>2. CASE job.row < STORE_ROWS
    <2>1. flash' = [flash EXCEPT ![job.row] = Torn] /\ pc' = "format"
      BY <1>u, <1>2 DEF FormatRow
    <2>2. PICK r \in Rows : r = job.row
      BY <1>1, <1>2, Consts DEF Rows
    <2>3. EraseOf(flash, flash', r)
      BY <2>1, <2>2 DEF EraseOf
    <2>4. FlashOK(flash') /\ Covered(flash', rec, {})
      BY <1>1, <2>3, Erased
    <2>5. HasNewest(flash')
      BY <1>1, <2>4, NewestProps DEF HasNewest
    <2>6. Dropped(flash, flash')
      BY <1>1, <2>3, <2>5, OneDropped
    <2>7. DiskOf(flash') \in [Names -> Files \cup {NoFile}]
      BY <2>4, <2>5, DiskType
    <2> QED BY <1>u, <2>1, <2>6, <2>7, AbsErase
  <1>3. CASE ~(job.row < STORE_ROWS)
    <2>1. flash' = flash /\ pc' = "service"
      BY <1>3 DEF FormatRow
    <2>2. \A r \in Rows : flash[r] = Torn
      BY <1>1, <1>3, Consts DEF Rows
    <2>3. \A n \in Names : DiskOf(flash)[n] = NoFile
      BY <2>2 DEF DiskOf, OfName, Valid, store_entry_valid
    <2> QED BY <1>u, <2>1, <2>3, AbsFormatted
  <1> QED BY <1>2, <1>3

(* The other steps do not touch the flash.                                 *)
LEMMA RefOthers ==
    ASSUME flash' = flash, pc # "format", pc' # "format",
           \/ Writing' = Idle /\ Writing = Idle
           \/ pc' = pc /\ job' = job
    PROVE  UNCHANGED Abs!absVars
  <1>1. Writing' = Writing
    BY DEF Writing
  <1> QED BY <1>1, AbsStutter

LEMMA RefIsr ==
    ASSUME Interrupt PROVE UNCHANGED Abs!absVars
  <1>1. flash' = flash /\ pc' = pc /\ job' = job
    BY DEF Interrupt, RecLen, RecData, RecCommit, SetAddr, Reload, IsrFrame
  <1>2. Writing' = Writing
    BY <1>1 DEF Writing
  <1> QED BY <1>1, <1>2, AbsStutter

LEMMA RefCopy ==
    ASSUME IInv, Copy PROVE UNCHANGED Abs!absVars
  <1>1. PICK f : job' = [job EXCEPT !.file = f]
    BY DEF Copy
  <1>2. pc = "copy" /\ pc' = "erase" /\ flash' = flash
    BY DEF Copy
  <1>3. job \in Jobs
    BY DEF IInv, JobPart
  <1>4. job'.name = job.name /\ job'.crc = job.crc
    BY <1>1, <1>3 DEF Jobs
  <1>5. Writing' = Writing
    BY <1>2, <1>4 DEF Writing
  <1> QED BY <1>2, <1>5, AbsStutter

LEMMA RefStep ==
    ASSUME IInv, [Next]_vars PROVE [Abs!AbsNext]_(Abs!absVars)
  <1>1. CASE cmd_offline \/ cmd_file_commit \/ (\E n \in Names : cmd_file_begin(n))
             \/ (\E b \in Bytes : cmd_file_data(b))
    <2>1. flash' = flash /\ pc = "poll" /\ pc' = "service"
      BY <1>1 DEF cmd_offline, cmd_file_commit, cmd_file_begin, cmd_file_data, Command
    <2> QED BY <2>1, RefOthers DEF Writing
  <1>2. CASE cmd_file_format
    BY <1>2, RefFormat
  <1>3. CASE FormatRow
    BY <1>3, RefFormatRow
  <1>4. CASE NothingPending \/ \E i \in Slots : CommitSkipped(i)
    <2>1. flash' = flash /\ pc \in {"poll", "service"} /\ pc' \in {"poll", "tail"}
      BY <1>4 DEF NothingPending, CommitSkipped, AtService, AfterService
    <2> QED BY <2>1, RefOthers DEF Writing
  <1>5. CASE \E i \in Slots : CommitStart(i)
    BY <1>5, RefStart
  <1>6. CASE Copy
    BY <1>6, RefCopy
  <1>7. CASE cs_nvm_erase_row
    BY <1>7, RefErase
  <1>8. CASE cs_nvm_write_page
    BY <1>8, RefWrite
  <1>9. CASE Verify
    <2>1. flash' = flash /\ pc = "verify" /\ pc' \in {"poll", "tail"}
      BY <1>9 DEF Verify, AfterService
    <2> QED BY <2>1, RefOthers DEF Writing
  <1>10. CASE Tail
    <2>1. CASE RebootNow
      BY <1>10, <2>1, RefBoot DEF Tail
    <2>2. CASE ~RebootNow
      <3>1. flash' = flash /\ pc = "tail" /\ pc' = "poll"
        BY <1>10, <2>2 DEF Tail
      <3> QED BY <3>1, RefOthers DEF Writing
    <2> QED BY <2>1, <2>2
  <1>11. CASE Interrupt
    BY <1>11, RefIsr
  <1>12. CASE UsbLine
    <2>1. flash' = flash /\ pc = "poll" /\ pc' = "poll"
      BY <1>12 DEF UsbLine
    <2> QED BY <2>1, RefOthers DEF Writing
  <1>13. CASE PowerCut
    BY <1>13, RefBoot DEF PowerCut
  <1>14. CASE UNCHANGED vars
    <2>1. flash' = flash /\ pc' = pc /\ job' = job
      BY <1>14 DEF vars
    <2>2. Writing' = Writing
      BY <2>1 DEF Writing
    <2> QED BY <2>1, <2>2, AbsStutter
  <1> QED BY <1>1, <1>2, <1>3, <1>4, <1>5, <1>6, <1>7, <1>8, <1>9, <1>10, <1>11, <1>12, <1>13,
             <1>14 DEF Next, MainLoop, HostCommand

(* The flash implements a map of whole files in which a write happens at   *)
(* one instant or not at all, wherever the power fails, and only a format  *)
(* takes files away.                                                       *)
THEOREM StoreRefines == ~ReloadInCommit => (Spec => PowerSafe)
  <1>1. ASSUME ~ReloadInCommit PROVE Spec => PowerSafe
    <2>1. IInv /\ [Next]_vars => IInv'
      BY <1>1, IInvStep
    <2>2. IInv /\ [Next]_vars => [Abs!AbsNext]_(Abs!absVars)
      BY RefStep
    <2> QED BY <2>1, <2>2, IInvInit, RefInit, PTL DEF Spec, PowerSafe, Abs!AbsSpec
  <1> QED BY <1>1
=============================================================================
