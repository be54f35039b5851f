------------------------------- MODULE FatLog -------------------------------
(***************************************************************************)
(* The SD-card log of the SAMD21 gateway: the CMD_LOG_* handlers of        *)
(* samd21_commands.c on the FAT file system of fatfs/ff.c as ffconf.h      *)
(* builds it (FAT32, one sector window shared by FAT, directory and data,  *)
(* no LFN, no clock, no locks), on a card that loses power at any moment.  *)
(*                                                                         *)
(* The file system runs to completion between two commands, so a command   *)
(* is computed as a whole: an operator named after a function of ff.c maps *)
(* the record s, which holds the mounted volume, the card and the list of  *)
(* sector writes made so far, to the one the function leaves.  The writes  *)
(* of a command then reach the card one by one, and a power cut drops the  *)
(* rest.  Both copies of the FAT are one; a line of the log is LineLen     *)
(* units and a sector holds SectorLen of them, so that lines straddle      *)
(* sectors.  A definition marked faulty is a mutant of the one below it.   *)
(***************************************************************************)
EXTENDS Integers, Sequences, FiniteSets, TLC

CONSTANTS
    Names,       \* the names the host uses
    Sfn,         \* the 8.3 name each of them becomes: letters are folded to upper case
    Files,       \* the 8.3 names
    NoName,      \* s_log_name is empty
    NFatEnt,     \* n_fatent: clusters are 2..NFatEnt - 1
    FatPerSec,   \* entries of a FAT sector
    CSize,       \* sectors of a cluster
    SectorLen,   \* units of a sector
    LineLen,     \* units of a log line
    MaxLines, MaxDeletes, MaxCuts     \* bounds

ASSUME FatLogAssumption ==
    /\ {NFatEnt, FatPerSec, CSize, SectorLen, LineLen} \subseteq Nat \ {0}
    /\ NFatEnt > 2 /\ LineLen < SectorLen /\ NoName \notin Names /\ Sfn \in [Names -> Files]
    /\ {MaxLines, MaxDeletes, MaxCuts} \subseteq Nat

VARIABLES
    flCard,      \* what is on the card, by sector
    flFs,        \* the mounted volume: window, free_clst, last_clst, fsi_flag
    flPend,      \* writes of the running command that have not reached the card
    flOp,        \* the running command
    flName,      \* s_log_name
    flAcked,     \* the lines answered with OK: [file, at, line]
    flBudget
flVars == <<flCard, flFs, flPend, flOp, flName, flAcked, flBudget>>

-----------------------------------------------------------------------------
EOC == NFatEnt                        \* any end-of-chain mark is >= n_fatent
Clusters == 2..(NFatEnt - 1)
FatSec(c) == <<"fat", c \div FatPerSec>>
DirSec == <<"dir">>
FsiSec == <<"fsi">>
DataSec(c, k) == <<"data", c, k>>     \* clst2sect
NoSec == <<"none">>
Absent == [used |-> FALSE, cl |-> 0, size |-> 0]
Garbage == [i \in 1..SectorLen |-> 0]

FatSectors == {FatSec(c) : c \in Clusters}
DataSectors == {DataSec(c, k) : c \in Clusters, k \in 0..(CSize - 1)}
EmptyCard == [x \in FatSectors \cup {DirSec, FsiSec} \cup DataSectors |->
    IF x \in FatSectors THEN [c \in {d \in Clusters : FatSec(d) = x} |-> 0]
    ELSE IF x = DirSec THEN [f \in Files |-> Absent]
    ELSE IF x = FsiSec THEN [free |-> NFatEnt - 2, last |-> 1]
    ELSE Garbage]

(* f_mount: mount_volume finds the FAT32 volume and takes the counts from  *)
(* FSINFO, which it leaves in the window.                                  *)
FsInfo(card) == card[FsiSec]
MountVolume(card) == [sect |-> FsiSec, win |-> FsInfo(card), dirty |-> FALSE,
                      free |-> FsInfo(card).free, last |-> FsInfo(card).last, fsi |-> FALSE]
FMount(card) == MountVolume(card)
Session(fs, card) == [sect |-> fs.sect, win |-> fs.win, dirty |-> fs.dirty, free |-> fs.free,
                      last |-> fs.last, fsi |-> fs.fsi, card |-> card, log |-> << >>]
Volume(s) == [sect |-> s.sect, win |-> s.win, dirty |-> s.dirty, free |-> s.free,
              last |-> s.last, fsi |-> s.fsi]

-----------------------------------------------------------------------------
(* The sector window.                                                      *)
DiskWrite(s, x, v) == [s EXCEPT !.card[x] = v, !.log = Append(s.log, [sec |-> x, val |-> v])]
SyncNothing(s) == s                                                          \* faulty
SyncWindow(s) == IF s.dirty THEN [DiskWrite(s, s.sect, s.win) EXCEPT !.dirty = FALSE] ELSE s
Load(s, x) == [s EXCEPT !.sect = x, !.win = s.card[x]]
MoveAnyway(s, x) == IF x = s.sect THEN s ELSE Load([s EXCEPT !.dirty = FALSE], x)   \* faulty
MoveWindow(s, x) == IF x = s.sect THEN s ELSE Load(SyncWindow(s), x)

(* sync_fs: the window, then FSINFO when a count changed.                  *)
WriteFsInfo(s) ==
    IF ~s.fsi THEN s
    ELSE [DiskWrite(s, FsiSec, [free |-> s.free, last |-> s.last]) EXCEPT
             !.sect = FsiSec, !.win = [free |-> s.free, last |-> s.last], !.fsi = FALSE]
SyncFs(s) == WriteFsInfo(SyncWindow(s))

(* The FAT.  A look-up moves the window too, and so may write.             *)
LookUp(s, c) == MoveWindow(s, FatSec(c))
PutFat(s, c, v) == [LookUp(s, c) EXCEPT !.win[c] = v, !.dirty = TRUE]

(* create_chain: the link that is already there, or the next free cluster, *)
(* marked as the end of its chain before the chain is extended to it.      *)
After(c) == IF c + 1 \in Clusters THEN c + 1 ELSE 2
RECURSIVE Search(_, _, _)
Search(s, c, left) ==
    IF s.win[c] = 0 THEN [s |-> s, n |-> c]
    ELSE IF left = 0 THEN [s |-> s, n |-> 0]
    ELSE Search(LookUp(s, After(c)), After(c), left - 1)
LinkFirst(s, c, n) == IF c = 0 THEN PutFat(s, n, EOC)                        \* faulty
                      ELSE PutFat(PutFat(s, c, n), n, EOC)
Link(s, c, n) == IF c = 0 THEN PutFat(s, n, EOC) ELSE PutFat(PutFat(s, n, EOC), c, n)
Took(s, n) == [s |-> [s EXCEPT !.last = n, !.free = s.free - 1, !.fsi = TRUE], n |-> n]
Extend(r, c) == IF r.n = 0 THEN r ELSE Took(Link(r.s, c, r.n), r.n)
SearchFrom(s, start) == Search(LookUp(s, After(start)), After(start), NFatEnt - 3)
StartAt(s, c) == IF s.last \in Clusters THEN s.last ELSE IF c # 0 THEN c ELSE 1
FindFree(s, c) == IF s.free = 0 THEN [s |-> s, n |-> 0]
                  ELSE IF c # 0 /\ LookUp(s, After(c)).win[After(c)] = 0
                  THEN [s |-> LookUp(s, After(c)), n |-> After(c)]
                  ELSE SearchFrom(s, StartAt(s, c))
Chained(s, c) == IF s.win[c] < 2 THEN [s |-> s, n |-> 1]
                 ELSE IF s.win[c] \in Clusters THEN [s |-> s, n |-> s.win[c]]
                 ELSE Extend(FindFree(s, c), c)
CreateChain(s, c) == IF c = 0 THEN Extend(FindFree(s, 0), 0) ELSE Chained(LookUp(s, c), c)

(* remove_chain                                                            *)
Freed(s) == IF s.free < NFatEnt - 2 THEN [s EXCEPT !.free = s.free + 1, !.fsi = TRUE] ELSE s
RECURSIVE RemoveChain(_, _)
Unchain(s, c) ==
    IF s.win[c] = 0 THEN s
    ELSE RemoveChain(Freed(PutFat(s, c, 0)), s.win[c])
RemoveChain(s, c) == IF c \in Clusters THEN Unchain(LookUp(s, c), c) ELSE s

-----------------------------------------------------------------------------
(* Files.  A FIL is what f_open returns.                                   *)
RECURSIVE Walk(_, _, _)
Walk(s, c, bytes) == IF bytes <= CSize * SectorLen THEN [s |-> s, c |-> c]
                     ELSE Walk(LookUp(s, c), LookUp(s, c).win[c], bytes - CSize * SectorLen)
CreateName(n) == Sfn[n]
DirFind(s) == MoveWindow(s, DirSec)
FollowPath(s) == DirFind(s)           \* one segment: the root directory
DirRegister(s, f) == [s EXCEPT !.win[f] = [used |-> TRUE, cl |-> 0, size |-> 0], !.dirty = TRUE]
Fil(f, e, c, new) == [f |-> f, cl |-> e.cl, size |-> e.size, ptr |-> e.size, clust |-> c,
                      sect |-> NoSec, mod |-> new]
SectorAt(c, p) == DataSec(c, ((p - 1) \div SectorLen) % CSize)
Opened(f, e, w) ==
    [s |-> w.s, fp |-> [Fil(f, e, w.c, FALSE) EXCEPT
        !.sect = IF e.size % SectorLen = 0 THEN NoSec ELSE SectorAt(w.c, e.size)]]
OpenExisting(s, f, e, append) ==      \* FA_OPEN_APPEND seeks to the end
    Opened(f, e, IF append THEN Walk(s, e.cl, e.size) ELSE [s |-> s, c |-> e.cl])
OpenEntry(s, f, append) ==
    IF s.win[f].used THEN OpenExisting(s, f, s.win[f], append)
    ELSE [s |-> DirRegister(s, f), fp |-> Fil(f, Absent, 0, TRUE)]
FOpen(s, n, append) == OpenEntry(FollowPath(s), CreateName(n), append)

(* f_write of one unit: at a sector boundary, the next sector of the       *)
(* cluster or of the chain; a new sector is not read, its old content      *)
(* stays behind the data.                                                  *)
EnterSector(s, fp, x) ==
    IF fp.ptr >= fp.size
    THEN [s |-> [SyncWindow(s) EXCEPT !.sect = x, !.win = Garbage], fp |-> [fp EXCEPT !.sect = x]]
    ELSE [s |-> s, fp |-> [fp EXCEPT !.sect = x]]
InCluster(s, fp, n) == EnterSector(s, [fp EXCEPT !.clust = n, !.cl = IF fp.cl = 0 THEN n ELSE fp.cl],
                                   DataSec(n, (fp.ptr \div SectorLen) % CSize))
Placed(r, fp) == IF r.n < 2 THEN [s |-> r.s, fp |-> fp, full |-> TRUE]
                 ELSE InCluster(r.s, fp, r.n) @@ [full |-> FALSE]
Place(s, fp) ==
    IF fp.ptr % SectorLen # 0 THEN [s |-> s, fp |-> fp, full |-> FALSE]
    ELSE IF (fp.ptr \div SectorLen) % CSize # 0 THEN InCluster(s, fp, fp.clust) @@ [full |-> FALSE]
    ELSE IF fp.ptr = 0 /\ fp.cl # 0 THEN InCluster(s, fp, fp.cl) @@ [full |-> FALSE]
    ELSE Placed(CreateChain(s, IF fp.ptr = 0 THEN 0 ELSE fp.clust), fp)
Store(s, fp, u) ==
    [s |-> [MoveWindow(s, fp.sect) EXCEPT !.win[(fp.ptr % SectorLen) + 1] = u, !.dirty = TRUE],
     fp |-> [fp EXCEPT !.ptr = fp.ptr + 1, !.mod = TRUE,
                       !.size = IF fp.ptr + 1 > fp.size THEN fp.ptr + 1 ELSE fp.size]]
RECURSIVE FWrite(_, _, _, _)
Written(p, u, n) == IF p.full THEN [s |-> p.s, fp |-> [p.fp EXCEPT !.mod = TRUE], left |-> n]
                    ELSE FWrite(Store(p.s, p.fp, u).s, Store(p.s, p.fp, u).fp, u, n - 1)
FWrite(s, fp, u, n) == IF n = 0 THEN [s |-> s, fp |-> fp, left |-> 0]
                       ELSE Written(Place(s, fp), u, n)

(* f_close is f_sync: the data first, then the directory entry, FSINFO.    *)
Entry(fp) == [used |-> TRUE, cl |-> fp.cl, size |-> fp.size]
FSync(s, fp) == IF ~fp.mod THEN s
                ELSE SyncFs([MoveWindow(s, DirSec) EXCEPT !.win[fp.f] = Entry(fp), !.dirty = TRUE])
FClose(s, fp) == FSync(s, fp)

ChainFirst(s, f) == SyncFs([MoveWindow(RemoveChain(s, s.win[f].cl), DirSec) EXCEPT   \* faulty
                        !.win[f] = Absent, !.dirty = TRUE])
DirRemove(s, f) == [s EXCEPT !.win[f] = Absent, !.dirty = TRUE]
EntryFirst(s, f) == SyncFs(RemoveChain(DirRemove(s, f), s.win[f].cl))
UnlinkEntry(s, f) == IF s.win[f].used THEN EntryFirst(s, f) ELSE s
FUnlink(s, n) == UnlinkEntry(FollowPath(s), CreateName(n))

(* f_open, f_lseek and f_read of the unit at offset p: what the window     *)
(* ends up on, and the unit (-1 past the end).                             *)
SeekTo(w, p) == MoveWindow(w.s, SectorAt(w.c, p + 1))
FLseek(s, e, p) == IF ~e.used \/ p >= e.size THEN s ELSE SeekTo(Walk(s, e.cl, p + 1), p)
FRead(s, f, p) == FLseek(FollowPath(s), FollowPath(s).win[f], p)
ReadUnit(s, f, p) == IF FRead(s, f, p).sect = DirSec THEN -1
                     ELSE FRead(s, f, p).win[(p % SectorLen) + 1]

-----------------------------------------------------------------------------
(* The commands.                                                           *)
Idle == [kind |-> "idle", file |-> NoName, at |-> 0, line |-> 0, ok |-> TRUE]
FlInit ==
    /\ flCard = EmptyCard
    /\ flFs = FMount(EmptyCard)
    /\ flPend = << >> /\ flOp = Idle /\ flName = NoName /\ flAcked = {}
    /\ flBudget = [lines |-> MaxLines, deletes |-> MaxDeletes, cuts |-> MaxCuts]

Ready == flOp = Idle
Perform(s, op) == /\ flFs' = Volume(s)
                  /\ flPend' = s.log
                  /\ flOp' = op
                  /\ UNCHANGED flCard
Now == Session(flFs, flCard)

(* cmd_log_open: open or create, close, and remember the name.             *)
LogOpened(o) == FClose(o.s, o.fp)
CmdLogOpen(n) ==
    /\ Ready
    /\ Perform(LogOpened(FOpen(Now, n, FALSE)), [Idle EXCEPT !.kind = "open"])
    /\ flName' = n
    /\ UNCHANGED <<flAcked, flBudget>>

CmdLogClose ==
    /\ Ready /\ flName # NoName
    /\ flName' = NoName
    /\ UNCHANGED <<flCard, flFs, flPend, flOp, flAcked, flBudget>>

(* cmd_log_write: open at the end, write the stamped line, close; the      *)
(* answer is OK only when all of the line was written.                     *)
LogWritten(w, at, line) ==
    Perform(FClose(w.s, w.fp), [kind |-> "write", file |-> CreateName(flName), at |-> at, line |-> line,
                               ok |-> w.left = 0])
AppendLine(o, line) == LogWritten(FWrite(o.s, o.fp, line, LineLen), o.fp.ptr, line)
CmdLogWrite ==
    /\ Ready /\ flName # NoName /\ flBudget.lines > 0
    /\ AppendLine(FOpen(Now, flName, TRUE), MaxLines - flBudget.lines + 1)
    /\ flBudget' = [flBudget EXCEPT !.lines = @ - 1]
    /\ UNCHANGED <<flName, flAcked>>

(* cmd_log_delete forgets the active name whatever it deletes.             *)
CmdLogDelete(n) ==
    /\ Ready /\ flBudget.deletes > 0
    /\ Perform(FUnlink(Now, n), [Idle EXCEPT !.kind = "delete"])
    /\ flName' = NoName
    /\ flAcked' = {a \in flAcked : a.file # CreateName(n)}
    /\ flBudget' = [flBudget EXCEPT !.deletes = @ - 1]

(* cmd_log_read: from an offset the host gives.                            *)
CmdLogRead ==
    /\ Ready /\ flName # NoName
    /\ \E p \in {0, LineLen} : Perform(FRead(Now, CreateName(flName), p), [Idle EXCEPT !.kind = "read"])
    /\ UNCHANGED <<flName, flAcked, flBudget>>

(* sd_write_block                                                          *)
CardWrite ==
    /\ flPend # << >>
    /\ flCard' = [flCard EXCEPT ![Head(flPend).sec] = Head(flPend).val]
    /\ flPend' = Tail(flPend)
    /\ UNCHANGED <<flFs, flOp, flName, flAcked, flBudget>>

(* The answer of the command.                                              *)
Answer ==
    /\ flOp # Idle /\ flPend = << >>
    /\ flAcked' = IF flOp.kind = "write" /\ flOp.ok
                  THEN flAcked \cup {[file |-> flOp.file, at |-> flOp.at, line |-> flOp.line]}
                  ELSE flAcked
    /\ flOp' = Idle
    /\ UNCHANGED <<flCard, flFs, flPend, flName, flBudget>>

(* Power is lost and comes back: sd_log_init mounts what is on the card.   *)
PowerCut ==
    /\ flOp # Idle /\ flBudget.cuts > 0
    /\ flBudget' = [flBudget EXCEPT !.cuts = @ - 1]
    /\ flFs' = FMount(flCard)
    /\ flPend' = << >> /\ flOp' = Idle /\ flName' = NoName
    /\ UNCHANGED <<flCard, flAcked>>

FlNext == \/ \E n \in Names : CmdLogOpen(n) \/ CmdLogDelete(n)
          \/ CmdLogClose \/ CmdLogRead \/ CmdLogWrite \/ CardWrite \/ Answer \/ PowerCut
FlSpec == FlInit /\ [][FlNext]_flVars

-----------------------------------------------------------------------------
FlTypeOK ==
    /\ DOMAIN flCard = DOMAIN EmptyCard
    /\ \A c \in Clusters : flCard[FatSec(c)][c] \in {0, EOC} \cup Clusters
    /\ \A f \in Files : flCard[DirSec][f].cl \in {0} \cup Clusters /\ flCard[DirSec][f].size \in Nat
    /\ flFs.free \in 0..(NFatEnt - 2) /\ flFs.dirty \in BOOLEAN /\ flName \in Names \cup {NoName}
    /\ Ready => ~flFs.dirty /\ flPend = << >>

(* The clusters the directory entry of f reaches on the card.              *)
RECURSIVE ChainFrom(_, _, _)
ChainFrom(card, c, left) ==
    IF left = 0 THEN << >>
    ELSE <<c>> \o (IF c \in Clusters THEN ChainFrom(card, card[FatSec(c)][c], left - 1) ELSE << >>)
ClustersFor(size) == (size + CSize * SectorLen - 1) \div (CSize * SectorLen)
OnCard(f) == ChainFrom(flCard, flCard[DirSec][f].cl, ClustersFor(flCard[DirSec][f].size))

(* Whenever the power may fail, the card is sound: the chain of every file *)
(* is allocated over the whole length of the file, and no cluster is part  *)
(* of two files or twice of one.  Clusters may be lost, never shared.      *)
NoCrossLink ==
    LET all == {<<f, i>> : f \in Files, i \in 1..NFatEnt} IN
    \A x \in all : x[2] \in DOMAIN OnCard(x[1]) =>
        LET c == OnCard(x[1])[x[2]] IN
        /\ c \in Clusters /\ flCard[FatSec(c)][c] # 0
        /\ \A y \in all : (y # x /\ y[2] \in DOMAIN OnCard(y[1])) => OnCard(y[1])[y[2]] # c

(* A line that was answered with OK is on the card, whole and in its       *)
(* place, at every later moment until its file is deleted: `close = flush  *)
(* (durable)'.                                                             *)
UnitOnCard(f, p) == flCard[DataSec(OnCard(f)[(p \div (CSize * SectorLen)) + 1],
                                   (p \div SectorLen) % CSize)][(p % SectorLen) + 1]
AckedDurable ==
    \A a \in flAcked : /\ a.at + LineLen <= flCard[DirSec][a.file].size
                       /\ \A p \in a.at..(a.at + LineLen - 1) : UnitOnCard(a.file, p) = a.line

(* Between commands CMD_LOG_READ finds it there through the mounted volume. *)
ReadsBack ==
    Ready => \A a \in flAcked : \A p \in a.at..(a.at + LineLen - 1) :
                ReadUnit(Now, a.file, p) = a.line
=============================================================================
