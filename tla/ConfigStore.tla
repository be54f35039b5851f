---------------------------- MODULE ConfigStore ----------------------------
(***************************************************************************)
(* The name-keyed, log-structured configuration store of the SAMD21        *)
(* client (src/app/samd21_client).  Two actors share it: the main loop,    *)
(* which runs the USB commands and the deferred flash commit, and the I2C  *)
(* interrupt, which may run between any two flash operations.  Power may   *)
(* fail at any moment.                                                     *)
(*                                                                         *)
(* A row of flash holds an entry of one name or nothing valid: it is blank *)
(* or torn, and the CRC-8 is taken to detect every torn entry.  A shadow   *)
(* record is the file it holds; bytes beyond its length, which a longer    *)
(* REC_LEN would expose, may be any.  g_rec_dirty and the store-err bit    *)
(* are left out: no code reads them, and a failed commit shows in the      *)
(* history variable.                                                       *)
(***************************************************************************)
EXTENDS Integers, FiniteSets, FiniteSetsExt

CONSTANTS
    Names,            \* the four-character file names
    Idnt,             \* the name "idnt"
    Bytes,            \* data bytes
    STORE_ROWS, STORE_SLOTS, STORE_DATA_MAX,
    Master,           \* which registers the I2C master writes
    Torn,             \* a row with no valid entry
    NoFile, Idle,     \* no file of that name; no write in progress
    ReloadInCommit,   \* the master may reload while a commit is running
    MaxSeq            \* bound: sequence numbers, added up over the slots

ASSUME StoreAssumption ==
    /\ Idnt \in Names /\ IsFiniteSet(Names)
    /\ STORE_ROWS \in Nat \ {0} /\ STORE_SLOTS \in 1..(STORE_ROWS - 1)
    /\ STORE_DATA_MAX \in Nat \ {0} /\ MaxSeq \in Nat
    /\ Master \subseteq {"rec", "addr", "reload"} /\ ReloadInCommit \in BOOLEAN

Rows  == 0..(STORE_ROWS - 1)
Slots == 0..(STORE_SLOTS - 1)

(* The bytes of a file; the length is the size of the domain.              *)
Files == UNION {[0..(len - 1) -> Bytes] : len \in 0..STORE_DATA_MAX}

(* The entries of flash; the marks of absence are none of what they mark.  *)
Entries == [name : Names, seq : Nat \ {0}, file : Files]

ASSUME MarksAssumption ==
    Torn \notin Entries /\ NoFile \notin Names \cup Files /\ Idle \notin Names \X Files

VARIABLES
    flash,               \* the STORE_ROWS rows
    rec,                 \* g_rec_*: the RAM shadow, one record per slot
    g_store_wr_cursor,
    g_commit_pending,    \* slot asked to be committed, or -1
    wr,                  \* g_file_wr_slot and g_file_wr_len
    g_offline,
    usb,                 \* while offline: CDC connected, its value one loop ago,
                         \* reboot_armed
    pc,                  \* where the main loop is
    job,                 \* its locals
    asked                \* history: files accepted from the host, not yet in flash

vars == <<flash, rec, g_store_wr_cursor, g_commit_pending, wr, g_offline, usb, pc, job, asked>>

host == <<wr, g_offline, usb>>

store_entry_valid(e) == e # Torn

Len(file) == Cardinality(DOMAIN file)

(* The file with byte k written, the length grown to hold it.              *)
Written(file, k, b) ==
    {f \in Files : /\ Len(f) = IF k + 1 > Len(file) THEN k + 1 ELSE Len(file)
                   /\ f[k] = b
                   /\ \A j \in DOMAIN file \ {k} : f[j] = file[j]}

Resized(file, len) ==
    {f \in Files : /\ Len(f) = len
                   /\ \A j \in DOMAIN f \cap DOMAIN file : f[j] = file[j]}

store_findCommitted(n) ==
    LET s == {i \in Slots : rec[i].row >= 0 /\ rec[i].name = n}
    IN IF s = {} THEN -1 ELSE Min(s)

store_find(n) ==
    LET s == {i \in Slots : rec[i].used /\ rec[i].name = n}
    IN IF s = {} THEN -1 ELSE Min(s)

FreeSlot == LET s == {i \in Slots : ~rec[i].used}
            IN IF s = {} THEN -1 ELSE Min(s)

(* The slot store_alloc returns; Claimed is what it does to that slot.     *)
store_alloc(n) == IF store_find(n) >= 0 THEN store_find(n) ELSE FreeSlot

Claimed(i, n) == [rec[i] EXCEPT !.used = TRUE, !.name = n,
                                !.file = <<>>, !.seq = 0, !.row = -1]

(* store_load: slots are handed out in the order in which names first      *)
(* appear in flash; the highest sequence number of a name wins.            *)
Valid(fl)  == {r \in Rows : store_entry_valid(fl[r])}
OfName(fl, n) == {r \in Valid(fl) : fl[r].name = n}
Newest(fl, n) == CHOOSE r \in OfName(fl, n) :
                    \A q \in OfName(fl, n) : fl[q].seq =< fl[r].seq
First(fl)  == {r \in Valid(fl) : \A q \in OfName(fl, fl[r].name) : r =< q}
NameOf(fl, i) ==
    LET at == {r \in First(fl) : Cardinality({q \in First(fl) : q < r}) = i}
    IN IF at = {} THEN NoFile ELSE fl[Min(at)].name

(* The file a reboot would find.                                           *)
Disk(n) == IF OfName(flash, n) = {} THEN NoFile
           ELSE flash[Newest(flash, n)].file

Unused == [used |-> FALSE, name |-> Idnt, file |-> <<>>, seq |-> 0, row |-> -1]

Loaded(fl, n) ==
    IF n = NoFile THEN Unused
    ELSE LET r == Newest(fl, n) IN
         [used |-> TRUE, name |-> n, seq |-> fl[r].seq, row |-> r, file |-> fl[r].file]

store_load(fl) == [i \in Slots |-> Loaded(fl, NameOf(fl, i))]

MayCommit == MapThenSumSet(LAMBDA i : rec[i].seq, Slots) < MaxSeq

store_row_live(r) == \E i \in Slots : rec[i].used /\ rec[i].row = r

-----------------------------------------------------------------------------
NoJob == [slot |-> -1, row |-> -1, name |-> Idnt, seq |-> 0, crc |-> <<>>, file |-> <<>>]
Attached == [conn |-> TRUE, prev |-> TRUE, armed |-> FALSE]
NoWrite == [slot |-> -1, file |-> <<>>]

Init ==
    /\ flash = [r \in Rows |-> Torn]
    /\ rec = [i \in Slots |-> Unused]
    /\ g_store_wr_cursor = 0 /\ g_commit_pending = -1
    /\ wr = NoWrite
    /\ g_offline = FALSE
    /\ usb = Attached
    /\ pc = "poll" /\ job = NoJob
    /\ asked = [n \in Names |-> NoFile]

(* Every path through a reset ends in i2c_slave_init, which loads the      *)
(* store; RAM starts from zero.                                            *)
Boot ==
    /\ rec' = store_load(flash) /\ UNCHANGED flash
    /\ g_store_wr_cursor' = 0 /\ g_commit_pending' = -1
    /\ wr' = NoWrite
    /\ g_offline' = FALSE
    /\ usb' = Attached
    /\ pc' = "poll" /\ job' = NoJob
    /\ asked' = [n \in Names |-> NoFile]

-----------------------------------------------------------------------------
(* USB commands, in the main loop.  The host waits for each reply, and     *)
(* replies leave at the end of the loop: one command in a pass.            *)

Command == pc = "poll" /\ usb.conn /\ g_offline

cmd_offline == /\ pc = "poll" /\ ~g_offline
               /\ g_offline' = TRUE /\ pc' = "service"
               /\ UNCHANGED <<flash, rec, g_store_wr_cursor, g_commit_pending, wr, usb, asked, job>>

cmd_file_begin(n) ==
    /\ Command /\ store_alloc(n) >= 0
    /\ LET s == store_alloc(n) IN
       /\ wr' = [NoWrite EXCEPT !.slot = s]
       /\ rec' = IF store_find(n) >= 0 THEN rec ELSE [rec EXCEPT ![s] = Claimed(s, n)]
    /\ pc' = "service"
    /\ UNCHANGED <<flash, g_store_wr_cursor, g_commit_pending, g_offline, usb, asked, job>>

(* The chunk goes straight into the shadow: where it overlaps the file     *)
(* that is there, it replaces it.                                          *)
cmd_file_data(b) ==
    /\ Command /\ wr.slot >= 0 /\ Len(wr.file) < STORE_DATA_MAX
    /\ LET k == Len(wr.file) IN
       /\ wr' = [wr EXCEPT !.file = CHOOSE f \in Written(@, k, b) : TRUE]
       /\ rec' = [rec EXCEPT ![wr.slot].file =
                    IF k \in DOMAIN @ THEN [@ EXCEPT ![k] = b] ELSE @]
    /\ pc' = "service"
    /\ UNCHANGED <<flash, g_store_wr_cursor, g_commit_pending, g_offline, usb, asked, job>>

cmd_file_commit ==
    /\ Command /\ wr.slot >= 0 /\ MayCommit
    /\ rec' = [rec EXCEPT ![wr.slot].file = wr.file]
    /\ g_commit_pending' = wr.slot
    /\ asked' = [asked EXCEPT ![rec[wr.slot].name] = wr.file]
    /\ wr' = NoWrite
    /\ pc' = "service"
    /\ UNCHANGED <<flash, g_store_wr_cursor, g_offline, usb, job>>

cmd_file_format ==
    /\ Command /\ pc' = "format" /\ job' = [NoJob EXCEPT !.row = 0]
    /\ asked' = [n \in Names |-> NoFile]
    /\ UNCHANGED <<flash, rec, g_store_wr_cursor, g_commit_pending, host>>

FormatRow ==
    /\ pc = "format"
    /\ IF job.row < STORE_ROWS
       THEN /\ flash' = [flash EXCEPT ![job.row] = Torn]
            /\ job' = [job EXCEPT !.row = @ + 1]
            /\ UNCHANGED <<rec, g_store_wr_cursor, wr, pc>>
       ELSE /\ rec' = store_load(flash) /\ g_store_wr_cursor' = 0
            /\ wr' = NoWrite
            /\ job' = NoJob /\ pc' = "service"
            /\ UNCHANGED flash
    /\ UNCHANGED <<g_commit_pending, g_offline, usb, asked>>
-----------------------------------------------------------------------------
(* i2c_store_service and store_commit.                                     *)

UnchangedLength(i) ==
    /\ rec[i].row >= 0 /\ store_entry_valid(flash[rec[i].row])
    /\ Len(flash[rec[i].row].file) = Len(rec[i].file)

Unchanged(i) == /\ rec[i].row >= 0 /\ store_entry_valid(flash[rec[i].row])
                /\ flash[rec[i].row].file = rec[i].file

Distance(r) == (r - g_store_wr_cursor + STORE_ROWS) % STORE_ROWS

PickRow == LET open == {r \in Rows : ~store_row_live(r)}
           IN CHOOSE r \in open : \A q \in open : Distance(r) =< Distance(q)

(* Online, the end of the loop has no effect.                              *)
AfterService == IF g_offline THEN "tail" ELSE "poll"

AtService == pc \in {"poll", "service"}

NothingPending ==
    /\ AtService /\ g_commit_pending < 0 /\ pc' = AfterService
    /\ UNCHANGED <<flash, rec, g_store_wr_cursor, g_commit_pending, host, job, asked>>

(* A slot that was freed by a reload cannot be committed; unchanged bytes  *)
(* are not written again.                                                  *)
CommitSkipped(i) ==
    /\ AtService /\ g_commit_pending = i
    /\ ~rec[i].used \/ Unchanged(i)
    /\ asked' = [n \in Names |-> IF Disk(n) = asked[n] THEN NoFile ELSE asked[n]]
    /\ g_commit_pending' = -1 /\ pc' = AfterService
    /\ UNCHANGED <<flash, rec, g_store_wr_cursor, host, job>>

CommitStartNoWrap(i) ==
    /\ AtService /\ g_commit_pending = i
    /\ rec[i].used /\ ~Unchanged(i)
    /\ LET row == PickRow IN
       /\ g_store_wr_cursor' = row + 1
       /\ job' = [slot |-> i, row |-> row, name |-> rec[i].name, seq |-> rec[i].seq + 1,
                  crc |-> rec[i].file, file |-> rec[i].file]
    /\ pc' = "copy"
    /\ UNCHANGED <<flash, rec, g_commit_pending, host, asked>>

CommitStart(i) ==
    /\ AtService /\ g_commit_pending = i
    /\ rec[i].used /\ ~Unchanged(i)
    /\ LET row == PickRow IN
       /\ g_store_wr_cursor' = (row + 1) % STORE_ROWS
       /\ job' = [slot |-> i, row |-> row, name |-> rec[i].name, seq |-> rec[i].seq + 1,
                  crc |-> rec[i].file, file |-> rec[i].file]
    /\ pc' = "copy"
    /\ UNCHANGED <<flash, rec, g_commit_pending, host, asked>>

(* The data is copied after its CRC was taken; the length was read before. *)
Copy == /\ pc = "copy" /\ pc' = "erase"
        /\ \E f \in Resized(rec[job.slot].file, Len(job.crc)) :
             job' = [job EXCEPT !.file = f]
        /\ UNCHANGED <<flash, rec, g_store_wr_cursor, g_commit_pending, host, asked>>

(* From the erase to the last page the row has no valid entry.             *)
cs_nvm_erase_row ==
    /\ pc = "erase" /\ pc' = "pages"
    /\ flash' = [flash EXCEPT ![job.row] = Torn]
    /\ UNCHANGED <<rec, g_store_wr_cursor, g_commit_pending, host, job, asked>>

WriteUnchecked ==
    /\ pc = "pages" /\ pc' = "verify"
    /\ flash' = [flash EXCEPT ![job.row] =
                   IF TRUE
                   THEN [name |-> job.name, seq |-> job.seq, file |-> job.file]
                   ELSE Torn]
    /\ UNCHANGED <<rec, g_store_wr_cursor, g_commit_pending, host, job, asked>>

cs_nvm_write_page ==
    /\ pc = "pages" /\ pc' = "verify"
    /\ flash' = [flash EXCEPT ![job.row] =
                   IF job.file = job.crc
                   THEN [name |-> job.name, seq |-> job.seq, file |-> job.file]
                   ELSE Torn]
    /\ UNCHANGED <<rec, g_store_wr_cursor, g_commit_pending, host, job, asked>>

(* Clearing the request here also clears one made since it was read.       *)
VerifyRowKept ==
    /\ pc = "verify" /\ pc' = AfterService /\ job' = NoJob
    /\ IF store_entry_valid(flash[job.row])
       THEN rec' = [rec EXCEPT ![job.slot].seq = job.seq]
       ELSE UNCHANGED rec
    /\ asked' = [n \in Names |->
                    IF Disk(n) = asked[n] \/ (n = job.name /\ flash[job.row] = Torn)
                    THEN NoFile ELSE asked[n]]
    /\ g_commit_pending' = -1
    /\ UNCHANGED <<flash, g_store_wr_cursor, host>>

Verify ==
    /\ pc = "verify" /\ pc' = AfterService /\ job' = NoJob
    /\ IF store_entry_valid(flash[job.row])
       THEN rec' = [rec EXCEPT ![job.slot].seq = job.seq,
                               ![job.slot].row = job.row]
       ELSE UNCHANGED rec
    /\ asked' = [n \in Names |->
                    IF Disk(n) = asked[n] \/ (n = job.name /\ flash[job.row] = Torn)
                    THEN NoFile ELSE asked[n]]
    /\ g_commit_pending' = -1
    /\ UNCHANGED <<flash, g_store_wr_cursor, host>>

(* At the end of the loop a disconnect seen while offline arms the reboot, *)
(* which waits for a queued commit.                                        *)
RebootArmed == usb.armed \/ (usb.prev /\ ~usb.conn /\ g_offline)
RebootNow == RebootArmed /\ g_commit_pending < 0

Tail ==
    /\ pc = "tail"
    /\ IF RebootNow
       THEN Boot
       ELSE /\ usb' = [usb EXCEPT !.armed = RebootArmed, !.prev = usb.conn]
            /\ pc' = "poll"
            /\ UNCHANGED <<flash, rec, g_store_wr_cursor, g_commit_pending, wr, g_offline, asked, job>>

-----------------------------------------------------------------------------
(* The I2C interrupt.  The master stages and commits records while the     *)
(* unit is online; commissioning is the only writer while it is offline.   *)
(* REC_SEL and REC_OFF can be set at any time and nobody else reads them:  *)
(* a write may go to any slot and offset.                                  *)

Isr(op) == op \in Master /\ ~g_offline
IsrFrame == UNCHANGED <<flash, host, pc, job, asked>>

RecLen(s, len) == /\ Isr("rec")
                  /\ \E f \in Resized(rec[s].file, len) :
                       rec' = [rec EXCEPT ![s].file = f]
                  /\ UNCHANGED <<g_store_wr_cursor, g_commit_pending>> /\ IsrFrame

RecData(s, k, b) == /\ Isr("rec")
                    /\ \E f \in Written(rec[s].file, k, b) :
                         rec' = [rec EXCEPT ![s].file = f]
                    /\ UNCHANGED <<g_store_wr_cursor, g_commit_pending>> /\ IsrFrame

RecCommit(s) == /\ Isr("rec") /\ rec[s].used /\ MayCommit
                /\ g_commit_pending' = s
                /\ UNCHANGED <<rec, g_store_wr_cursor>>
                /\ IsrFrame

Committing == pc \in {"copy", "erase", "pages", "verify"}

Reload == /\ Isr("reload") /\ (Committing => ReloadInCommit)
          /\ rec' = store_load(flash) /\ g_store_wr_cursor' = 0
          /\ UNCHANGED g_commit_pending /\ IsrFrame

(* The magic byte and the address byte that follows it.                    *)
SetAddr(b) ==
    /\ Isr("addr") /\ MayCommit
    /\ LET s == store_alloc(Idnt) IN
       /\ s >= 0 /\ g_commit_pending' = s
       /\ \E f \in Written(IF store_find(Idnt) < 0 THEN <<>> ELSE rec[s].file, 0, b) :
            rec' = [rec EXCEPT ![s] = [(IF store_find(Idnt) < 0 THEN Claimed(s, Idnt)
                                        ELSE rec[s]) EXCEPT !.file = f]]
    /\ UNCHANGED g_store_wr_cursor /\ IsrFrame

-----------------------------------------------------------------------------
(* The USB stack runs at the top of the loop.  Online, a connect or        *)
(* disconnect has no effect.                                               *)
UsbLine == /\ pc = "poll" /\ g_offline /\ usb' = [usb EXCEPT !.conn = ~@]
           /\ UNCHANGED <<flash, rec, g_store_wr_cursor, g_commit_pending, wr, g_offline, pc, job, asked>>

(* Power fails, the watchdog bites, or the master writes the reset         *)
(* register.                                                               *)
PowerCut == Boot

HostCommand == \/ cmd_offline \/ cmd_file_commit \/ cmd_file_format
               \/ \E n \in Names : cmd_file_begin(n)
               \/ \E b \in Bytes : cmd_file_data(b)

MainLoop == \/ HostCommand \/ FormatRow \/ NothingPending
            \/ \E i \in Slots : CommitSkipped(i) \/ CommitStart(i)
            \/ Copy \/ cs_nvm_erase_row \/ cs_nvm_write_page \/ Verify \/ Tail

Interrupt == \/ \E s \in Slots :
                   \/ \E len \in 0..STORE_DATA_MAX : RecLen(s, len)
                   \/ \E k \in 0..(STORE_DATA_MAX - 1), b \in Bytes : RecData(s, k, b)
                   \/ RecCommit(s)
             \/ \E b \in Bytes : SetAddr(b)
             \/ Reload

Next == MainLoop \/ Interrupt \/ UsbLine \/ PowerCut

Spec == Init /\ [][Next]_vars
FairSpec == Spec /\ WF_vars(MainLoop)
-----------------------------------------------------------------------------
TypeOK ==
    /\ flash \in [Rows -> Entries \cup {Torn}]
    /\ rec \in [Slots -> [used : BOOLEAN, name : Names, file : Files, seq : Nat,
                          row : {-1} \cup Rows]]
    /\ g_store_wr_cursor \in Rows /\ g_commit_pending \in {-1} \cup Slots
    /\ wr \in [slot : {-1} \cup Slots, file : Files]

(* What store_row_live protects is the newest entry of every name in       *)
(* flash: no name is without a slot, and its slot knows its row.  The      *)
(* commit erases rows by this table alone.                                 *)
NewestIsLive ==
    pc # "format" =>
      \A n \in Names : OfName(flash, n) # {} =>
         \/ pc = "verify" /\ job.row = Newest(flash, n)
         \/ \E i \in Slots : /\ rec[i].used /\ rec[i].name = n
                             /\ rec[i].row = Newest(flash, n)
                             /\ rec[i].seq = flash[rec[i].row].seq

(* A name has one slot, whoever allocated it, and one newest entry.        *)
OneOfEach ==
    /\ \A i, j \in Slots : rec[i].used /\ rec[j].used /\ rec[i].name = rec[j].name
                              => i = j
    /\ \A p, q \in Valid(flash) : flash[p].name = flash[q].name /\ flash[p].seq = flash[q].seq
                              => p = q

(* The records in RAM and the rows in flash agree through commits,           *)
(* compactions and power cuts.                                               *)
StoreSound == TypeOK /\ NewestIsLive /\ OneOfEach

(* The reboot after a commissioning session finds every file whose COMMIT  *)
(* was answered OK in flash, unless store-err was raised for it ("so the   *)
(* just-written files persist before reset", main.c:463-464).              *)
SessionKept ==
    [][pc = "tail" /\ RebootNow /\ pc' = "poll" =>
         \A n \in Names : asked[n] = NoFile]_vars

(* The store is a map of whole files, updated atomically (NamedStore).     *)
Abs == INSTANCE NamedStore WITH
         disk    <- [n \in Names |-> Disk(n)],
         kept    <- [n \in Names |-> {flash[r].file : r \in OfName(flash, n)}],
         writing <- IF pc \in {"copy", "erase", "pages"}
                    THEN <<job.name, job.crc>> ELSE Idle,
         wiping  <- pc = "format"
PowerSafe == Abs!AbsSpec
=============================================================================
