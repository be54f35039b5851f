-------------------------------- MODULE Boot --------------------------------
(***************************************************************************)
(* The life of one unit: main() of src/app/bus_controller/main.c reads the *)
(* commissioned files through src/node/cfg_file.c (boot_identity.c,        *)
(* boot_hwio.c, boot_roster.c, boot_netcfg.c), chooses its role or         *)
(* quarantines itself, and runs under the watchdog task until it stalls,   *)
(* panics or loses power; the crash slot survives warm resets.             *)
(*                                                                         *)
(* A file is a list of rows, a later row being a newer version; a row whose *)
(* CRC fails is not seen.  A document is the list of its fields: key, one  *)
(* number n, a list xs, and bad when the bytes are not what the parser     *)
(* expects there.                                                          *)
(***************************************************************************)
EXTENDS Integers, Sequences

CONSTANTS
  BootDocs,       \* name -> documents that may be on a unit's flash
  BoardChip, BoardUid,            \* what this board is
  Masters, SlaveVariants,         \* variants the image implements
  BootTasks,      \* monitored threads: HB_BUS, HB_UPLINK, HB_APP
  HilPins, ModeCount, ApMax, RosterMax,
  StaleTicks,     \* watchdog periods after which a heartbeat is stale (HB_STALE_US)
  BiteTicks,      \* periods without a feed after which the chip resets (WD_HW_TIMEOUT_MS)
  MaxRows,        \* bound: rows written, and rows that rot
  MaxResets       \* bound: resets in a behaviour

FileNames == {"idnt", "hwio", "slvr", "neti"}
Fields == [key : STRING, bad : BOOLEAN, n : Nat, xs : Seq(Int)]

ASSUME BootAssumption ==
  /\ \A name \in FileNames : BootDocs[name] \subseteq Seq(Fields)
  /\ {HilPins, ModeCount, ApMax, RosterMax, StaleTicks, BiteTicks, MaxRows, MaxResets} \subseteq Nat

VARIABLES
  rows,     \* name -> sequence of [doc, ok]
  run,      \* "off", "master", "slave"
  unit,     \* what main() settled: [id, refused, addr, hwio, net]
  roster,   \* [slaves, poll]
  crash,    \* g_crash: [valid, cause]
  beat,     \* age of each heartbeat, in watchdog periods
  stalled,  \* threads that have stopped
  unfed,    \* periods since the watchdog was fed
  reason,   \* history: the last reset the unit should know the reason of
  wdt,      \* the reset that ended the last run was the watchdog's own
  resets, writes   \* bounded counts

bootVars == <<rows, run, unit, roster, crash, beat, stalled, unfed, reason, wdt, resets, writes>>

-----------------------------------------------------------------------------
(* cfg_load: the newest row of the name that is valid; <<>> stands for none *)

cfg_load(name) ==
  LET good == {k \in 1..Len(rows[name]) : rows[name][k].ok}
  IN  IF good = {} THEN <<>> ELSE <<rows[name][CHOOSE k \in good : \A j \in good : j <= k].doc>>

\* Every parser walks the fields and leaves at the first that is malformed
ReadField(s, f, taken) ==
  IF s.rc # "ok" THEN s ELSE IF f.bad THEN [s EXCEPT !.rc = "format"] ELSE taken

(* boot_read_identity *)

IdField(s, f) == IF f.key \in DOMAIN s.got THEN [s EXCEPT !.got[f.key] = f.n] ELSE s

IdStart == [rc |-> "ok", got |-> [k \in {"v", "ch", "vr", "ad", "id"} |-> -1]]

\* The variant is cut to a byte before it is looked at
Variant(n) == n % 256

AddrFits(got) == IF Variant(got["vr"]) \in Masters THEN got["ad"] = 0 ELSE got["ad"] \in 1..126

\* The board's own number is not compared
IdChecksAnyBoard(got) ==
  IF \E k \in DOMAIN got : got[k] = -1 THEN "format"
  ELSE IF got["v"] # 1 THEN "schema"
  ELSE IF ~AddrFits(got) THEN "addr"
  ELSE "ok"

IdChecks(got) ==
  IF \E k \in DOMAIN got : got[k] = -1 THEN "format"
  ELSE IF got["v"] # 1 THEN "schema"
  ELSE IF got["ch"] # BoardChip THEN "chip"
  ELSE IF Variant(got["vr"]) \notin Masters \cup SlaveVariants THEN "variant"
  ELSE IF got["id"] # BoardUid THEN "uuid"
  ELSE IF ~AddrFits(got) THEN "addr"
  ELSE "ok"

IdOf(s) == [rc |-> IF s.rc # "ok" THEN s.rc ELSE IdChecks(s.got), got |-> s.got]

IdParsed(d) ==
  LET s[n \in 0..Len(d)] == IF n = 0 THEN IdStart ELSE ReadField(s[n - 1], d[n], IdField(s[n - 1], d[n]))
  IN  s[Len(d)]

boot_read_identity ==
  IF cfg_load("idnt") = <<>> THEN [rc |-> "missing", got |-> IdStart.got]
  ELSE IdOf(IdParsed(cfg_load("idnt")[1]))

(* boot_read_hwio: parsed aside, committed only when the whole file is good *)

HwDefault == [mode |-> 1, pins |-> [p \in 1..HilPins |-> 0]]
HwStart == [rc |-> "ok", v |-> -1, out |-> HwDefault]

HwField(s, f) ==
  CASE f.key = "v" -> [s EXCEPT !.v = f.n]
    [] f.key = "m" -> IF f.n >= ModeCount THEN [s EXCEPT !.rc = "role"] ELSE [s EXCEPT !.out.mode = f.n]
    [] f.key = "io" ->
         IF Len(f.xs) > HilPins \/ \E j \in 1..Len(f.xs) : f.xs[j] > 255 THEN [s EXCEPT !.rc = "role"]
         ELSE [s EXCEPT !.out.pins = [p \in 1..HilPins |-> IF p <= Len(f.xs) THEN f.xs[p] ELSE @[p]]]
    [] OTHER -> s

HwChecks(s) == IF s.rc # "ok" THEN s.rc ELSE IF s.v = -1 THEN "format" ELSE IF s.v # 2 THEN "schema" ELSE "ok"

\* What was parsed before the fault is kept
HwOutPart(s) == s.out

HwOut(s) == IF HwChecks(s) = "ok" THEN s.out ELSE HwDefault

HwParsed(d) ==
  LET s[n \in 0..Len(d)] == IF n = 0 THEN HwStart ELSE ReadField(s[n - 1], d[n], HwField(s[n - 1], d[n]))
  IN  s[Len(d)]

boot_read_hwio == IF cfg_load("hwio") = <<>> THEN HwDefault ELSE HwOut(HwParsed(cfg_load("hwio")[1]))

(* boot_read_roster and bc_load_cfg_roster *)

RosterField(s, f) ==
  CASE f.key = "v" -> [s EXCEPT !.v = f.n]
    [] f.key = "s" -> [s EXCEPT !.out = SubSeq(@ \o f.xs, 1, IF Len(@ \o f.xs) > RosterMax THEN RosterMax ELSE Len(@ \o f.xs))]
    [] OTHER -> s

RosterOf(s) == IF s.rc = "ok" /\ s.v = 1 THEN s.out ELSE <<>>

RosterParsed(d) ==
  LET s[n \in 0..Len(d)] == IF n = 0 THEN [rc |-> "ok", v |-> -1, out |-> <<>>]
                            ELSE ReadField(s[n - 1], d[n], RosterField(s[n - 1], d[n]))
  IN  s[Len(d)]

boot_read_roster == IF cfg_load("slvr") = <<>> THEN <<>> ELSE RosterOf(RosterParsed(cfg_load("slvr")[1]))

bc_load_cfg_roster(refused) ==
  IF refused THEN [slaves |-> <<>>, poll |-> FALSE]
  ELSE [slaves |-> boot_read_roster, poll |-> boot_read_roster # <<>>]

(* boot_read_netcfg: the names ap of the access points, 0 for an empty one,  *)
(* and their number; an entry of "aps" that has no name (-1) leaves ap alone. *)

NetField(s, f) ==
  CASE f.key = "v" -> [s EXCEPT !.v = f.n]
    [] f.key = "ip" -> IF Len(f.xs) # 4 THEN [s EXCEPT !.rc = "format"] ELSE s
    [] f.key = "ss" -> [s EXCEPT !.ap[1] = f.n, !.n = IF @ < 1 THEN 1 ELSE @]
    [] f.key = "pw" -> [s EXCEPT !.n = IF @ < 1 THEN 1 ELSE @]
    [] f.key = "aps" -> [s EXCEPT !.ap = [j \in 1..ApMax |-> IF j <= Len(f.xs) /\ f.xs[j] # -1 THEN f.xs[j] ELSE @[j]],
                                  !.n = IF Len(f.xs) > ApMax THEN ApMax ELSE Len(f.xs)]
    [] OTHER -> s

NetAps(s) == [j \in 1..s.n |-> s.ap[j]]

\* The list is used without a look at its first entry
NetOfAny(s) == IF s.rc # "ok" \/ s.v \notin {1, 2} THEN <<>> ELSE NetAps(s)

NetOf(s) == IF s.rc # "ok" \/ s.v \notin {1, 2} \/ s.n \notin 1..ApMax \/ s.ap[1] = 0 THEN <<>> ELSE NetAps(s)

NetParsed(d) ==
  LET s[n \in 0..Len(d)] == IF n = 0 THEN [rc |-> "ok", v |-> -1, ap |-> [j \in 1..ApMax |-> 0], n |-> 0]
                            ELSE ReadField(s[n - 1], d[n], NetField(s[n - 1], d[n]))
  IN  s[Len(d)]

boot_read_netcfg == IF cfg_load("neti") = <<>> THEN <<>> ELSE NetOf(NetParsed(cfg_load("neti")[1]))

-----------------------------------------------------------------------------
NoUnit == [id |-> "none", refused |-> FALSE, addr |-> 0, hwio |-> HwDefault, net |-> <<>>]

BootInit ==
  /\ rows = [name \in FileNames |-> <<>>]
  /\ run = "off" /\ unit = NoUnit /\ roster = [slaves |-> <<>>, poll |-> FALSE]
  /\ crash = [valid |-> FALSE, cause |-> "power"]
  /\ beat = [t \in BootTasks |-> 0] /\ stalled = {} /\ unfed = 0
  /\ reason = "power" /\ wdt = FALSE /\ resets = 0 /\ writes = 0

\* The commissioning tool writes a newer row of a file while the unit is held
Commission(name, d) ==
  /\ run = "off" /\ writes < MaxRows /\ writes' = writes + 1
  /\ rows' = [rows EXCEPT ![name] = Append(@, [doc |-> d, ok |-> TRUE])]
  /\ UNCHANGED <<run, unit, roster, crash, beat, stalled, unfed, reason, wdt, resets>>

\* A row no longer passes its CRC
RowRots(name, k) ==
  /\ run = "off" /\ rows[name][k].ok /\ writes < MaxRows /\ writes' = writes + 1
  /\ rows' = [rows EXCEPT ![name][k].ok = FALSE]
  /\ UNCHANGED <<run, unit, roster, crash, beat, stalled, unfed, reason, wdt, resets>>

\* The slot is not asked whether it survived
AwakeTrusting == [valid |-> TRUE, cause |-> IF wdt THEN "wdt" ELSE crash.cause]

\* The crash slot as main() leaves it
Awake == [valid |-> TRUE, cause |-> IF ~crash.valid THEN "power" ELSE IF wdt THEN "wdt" ELSE crash.cause]

\* A bad identity stops the unit; a missing one is tolerated
Refuses(rc) == rc \notin {"ok", "missing"}

main ==
  /\ run = "off"
  /\ crash' = Awake /\ wdt' = FALSE
  /\ LET id == boot_read_identity
         slave == id.rc = "ok" /\ Variant(id.got["vr"]) \notin Masters
     IN  /\ unit' = [id |-> id.rc, refused |-> Refuses(id.rc), addr |-> IF id.rc = "ok" THEN id.got["ad"] ELSE 0,
                     hwio |-> boot_read_hwio, net |-> boot_read_netcfg]
         /\ run' = IF slave THEN "slave" ELSE "master"
         /\ roster' = IF slave THEN [slaves |-> <<>>, poll |-> FALSE] ELSE bc_load_cfg_roster(Refuses(id.rc))
  /\ beat' = [t \in BootTasks |-> 0] /\ stalled' = {} /\ unfed' = 0
  /\ UNCHANGED <<rows, reason, resets, writes>>

\* uplink_enter: a host session ends and the commissioned roster is reloaded
Reload ==
  /\ run = "master" /\ roster' = bc_load_cfg_roster(unit.refused)
  /\ UNCHANGED <<rows, run, unit, crash, beat, stalled, unfed, reason, wdt, resets, writes>>

\* A session registers slaves of its own
HostRegisters(a) ==
  /\ run = "master" /\ roster.slaves = <<>>
  /\ roster' = [slaves |-> <<a>>, poll |-> TRUE]
  /\ UNCHANGED <<rows, run, unit, crash, beat, stalled, unfed, reason, wdt, resets, writes>>

\* bus_control_task passes its quarantine test and may send
Sends == run = "master" /\ roster.poll /\ ~unit.refused

ThreadStalls(t) ==
  /\ run = "master" /\ t \notin stalled
  /\ stalled' = stalled \cup {t}
  /\ UNCHANGED <<rows, run, unit, roster, crash, beat, unfed, reason, wdt, resets, writes>>

\* One live thread is enough for a feed
SomeAlive == \E t \in BootTasks : beat'[t] <= StaleTicks

AllAlive == \A t \in BootTasks : beat'[t] <= StaleTicks

\* A watchdog period: live threads beat, the watchdog task feeds if all did
watchdog_task ==
  /\ run = "master" /\ unfed < BiteTicks
  /\ beat' = [t \in BootTasks |-> IF t \notin stalled THEN 0 ELSE IF beat[t] <= StaleTicks + BiteTicks + 1 THEN beat[t] + 1 ELSE beat[t]]
  /\ unfed' = IF AllAlive THEN 0 ELSE unfed + 1
  /\ UNCHANGED <<rows, run, unit, roster, crash, stalled, reason, wdt, resets, writes>>

\* The run ends and what it kept in memory is gone, the crash slot apart
Stops ==
  /\ run # "off" /\ resets < MaxResets
  /\ run' = "off" /\ resets' = resets + 1
  /\ unit' = NoUnit /\ roster' = [slaves |-> <<>>, poll |-> FALSE]
  /\ beat' = [t \in BootTasks |-> 0] /\ stalled' = {} /\ unfed' = 0
  /\ UNCHANGED <<rows, writes>>

\* The hardware watchdog resets the chip
Bites ==
  /\ Stops /\ run = "master" /\ unfed = BiteTicks
  /\ wdt' = TRUE /\ reason' = "wdt"
  /\ UNCHANGED crash

\* chassis_panic, from an assertion, a stack overflow or an exhausted heap
chassis_panic(cause) ==
  /\ Stops
  /\ crash' = [crash EXCEPT !.cause = cause] /\ wdt' = FALSE /\ reason' = cause

\* Power goes: the slot's memory is lost
PowerLoss ==
  /\ Stops
  /\ crash' = [valid |-> FALSE, cause |-> "garbage"] /\ wdt' = FALSE /\ reason' = "power"

BootNext ==
  \/ \E name \in FileNames : \E d \in BootDocs[name] : Commission(name, d)
  \/ \E name \in FileNames : \E k \in 1..Len(rows[name]) : RowRots(name, k)
  \/ main \/ Reload \/ HostRegisters(1)
  \/ \E t \in BootTasks : ThreadStalls(t)
  \/ watchdog_task \/ Bites
  \/ \E c \in {"panic", "stack", "malloc"} : chassis_panic(c)
  \/ PowerLoss

BootSpec == BootInit /\ [][BootNext]_bootVars

-----------------------------------------------------------------------------
\* The newest valid version of a file, as the properties see it
NewestOf(name, doc) ==
  \E k \in 1..Len(rows[name]) :
    /\ rows[name][k].ok /\ rows[name][k].doc = doc
    /\ \A j \in (k + 1)..Len(rows[name]) : ~rows[name][j].ok

\* The k-th field of a document is the one its key is read from: the parsers
\* let a later field of the same key overwrite an earlier one
LastOfKey(d, k) == \A j \in (k + 1)..Len(d) : d[j].key # d[k].key
Says(d, key, S) == \E k \in 1..Len(d) : d[k].key = key /\ LastOfKey(d, k) /\ d[k].n \in S

\* A unit that may send on the bus as its arbiter, by a commissioned roster or
\* one a host registered, has no identity file at all or one whose newest valid
\* version was made for this very board and chip and gives it a variant whose low
\* byte is a master's: a unit that wears a wrong identity never drives the wire,
\* through reloads and registrations.  (boot_identity.c:58 casts the variant to
\* uint8_t before it looks it up, so that 266 is served as 10.)
ArbiterIsCommissioned ==
  Sends =>
    \/ \A k \in 1..Len(rows["idnt"]) : ~rows["idnt"][k].ok
    \/ \E d \in BootDocs["idnt"] :
         /\ NewestOf("idnt", d) /\ \A k \in 1..Len(d) : ~d[k].bad
         /\ Says(d, "id", {BoardUid}) /\ Says(d, "ch", {BoardChip}) /\ Says(d, "vr", {n \in Nat : Variant(n) \in Masters})

\* The pins and the mode a unit runs with come whole from the newest valid hwio
\* file or are the fail-safe default: a file refused half way leaves none of its
\* fields.
HwioWhole ==
  run # "off" =>
    \/ unit.hwio = HwDefault
    \/ \E d \in BootDocs["hwio"] :
         /\ NewestOf("hwio", d) /\ \A k \in 1..Len(d) : ~d[k].bad
         /\ Says(d, "v", {2})
         /\ \A k \in 1..Len(d) : LastOfKey(d, k) =>
              /\ d[k].key = "io" => \A p \in 1..Len(d[k].xs) : unit.hwio.pins[p] = d[k].xs[p]
              /\ d[k].key = "m" => unit.hwio.mode = d[k].n

\* Credentials are only used when there is one to start with, whatever the
\* order in which the file lists the single form and the list.
FirstApNamed == unit.net # <<>> => unit.net[1] # 0

\* A running unit reports the reason of the last reset that leaves one (power,
\* watchdog, panic), and never one of an earlier life.
CauseIsLast == run # "off" => crash.cause = reason

\* No thread of the master stays silent beyond the stale limit plus the
\* watchdog's own timeout: one stalled thread is enough to bring the chip down.
StallBounded == run = "master" => \A t \in BootTasks : beat[t] <= StaleTicks + BiteTicks

\* Boot with rows that rot and files refused half way: only a unit commissioned
\* for it drives the bus, its pins come from one whole file, and WiFi starts
\* with a name or not at all.  A silent thread brings the chip down in bounded
\* time, and the next run reports the reason of the last reset, never of an
\* earlier one.
BootSound == ArbiterIsCommissioned /\ HwioWhole /\ FirstApNamed /\ StallBounded /\ CauseIsLast
=============================================================================
