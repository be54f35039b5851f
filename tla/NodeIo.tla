------------------------------- MODULE NodeIo -------------------------------
(***************************************************************************)
(* The I/O services of src/app/bus_controller/main.c: the analog windows   *)
(* and the 1 kHz sampler in the ADC interrupt (debounced GPIO, edge        *)
(* counters), the servo bank with its feeder task, the asynchronous I2C    *)
(* service, and the commands of node_cmd_dispatch that act on them.        *)
(*                                                                         *)
(* The interrupt runs on core 1.  A command runs in the engine (core 1),   *)
(* which the interrupt preempts, or in the USB shell of the master or the  *)
(* bus task of a slave (core 0), which runs beside it.                     *)
(***************************************************************************)
EXTENDS Integers, Sequences, FiniteSets

CONSTANTS
  IoPins,       \* the HIL pins, 0 .. n-1
  IoDepths,     \* debounce depths a configuration may give
  AdcNch,       \* ADC channels (ADC_NCH)
  AdcWinLen,    \* samples of a channel in a window
  AdcRaws,      \* values a conversion may return
  ServoWidths,  \* pulse widths a command may ask for
  I2cDepth,     \* entries of g_i2c_req_q
  UpDepth,      \* entries of g_up_q
  MaxWindows,   \* bound: windows closed
  MaxResyncs,   \* bound: overruns of the ADC FIFO
  MaxEdges,     \* bound: counted edges
  MaxI2c        \* bound: I2C requests

ASSUME NodeIoAssumption ==
  /\ IsFiniteSet(IoPins) /\ IoPins = 0..(Cardinality(IoPins) - 1)
  /\ IoDepths \subseteq Nat /\ AdcRaws \subseteq 0..4095 /\ ServoWidths \subseteq Nat
  /\ AdcNch \in Nat \ {0} /\ AdcWinLen \in Nat \ {0}
  /\ I2cDepth \in Nat /\ UpDepth \in Nat
  /\ {MaxWindows, MaxResyncs, MaxEdges, MaxI2c} \subseteq Nat

SERVO_FRAME_US == 20000
SERVO_MIN_US == 500
SERVO_MAX_US == 2500
Chans == 0..(AdcNch - 1)

VARIABLES
  work,    \* the service the host uses in this behaviour
  io,      \* frozen configuration: debounce depth, counted edge, servos; the
           \* core that dispatches the commands
  pinIn,   \* pin levels, set from outside
  cnt,     \* [n, last]: g_pulse_count, g_pulse_last; the interrupt's loads [due, load]
  rc,      \* CMD_PULSE_READCLR in progress: pins read and not yet cleared
  gp,      \* [raw, deb, sr, ipol]
  adc,     \* [phase, acc, closing, seq, stat]
  rd,      \* CMD_ADC_STATS in progress: [seq, got, tries]; the last answer
  sv,      \* [n, us, frame, len, building, ready]
  feeder,  \* its queue: [len, at, played]
  i2,      \* [reqq, upq]
  hist     \* history the properties compare with

ioVars == <<work, io, pinIn, cnt, rc, gp, adc, rd, sv, feeder, i2, hist>>

-----------------------------------------------------------------------------
(* Analog windows: adc_win_close and isqrt32 *)

NoAcc == [min |-> 0, max |-> 0, sum |-> 0, sumsq |-> 0, n |-> 0]

\* The extremes are not restarted with the window
TakeStale(a, raw) ==
  [min |-> IF raw < a.min THEN raw ELSE a.min, max |-> IF raw > a.max THEN raw ELSE a.max,
   sum |-> a.sum + raw, sumsq |-> a.sumsq + raw * raw, n |-> a.n + 1]

IoTake(a, raw) ==
  [min |-> IF a.n = 0 \/ raw < a.min THEN raw ELSE a.min,
   max |-> IF a.n = 0 \/ raw > a.max THEN raw ELSE a.max,
   sum |-> a.sum + raw, sumsq |-> a.sumsq + raw * raw, n |-> a.n + 1]

\* One round of the bitwise square root; s = <<op, res, one>>
RootBit(s) ==
  LET fits == s[1] >= s[2] + s[3]
  IN  <<IF fits THEN s[1] - (s[2] + s[3]) ELSE s[1],
        (IF fits THEN s[2] + 2 * s[3] ELSE s[2]) \div 2,
        s[3] \div 4>>

ROOT_TOP == 1073741824   \* one = 1u << 30

isqrt32(v) ==
  LET s[k \in 0..16] == IF k = 0 THEN <<v, 0, ROOT_TOP>> ELSE RootBit(s[k - 1])
  IN  s[16][2]

Stat(a, k) ==
  [min |-> a.min, max |-> a.max,
   avg |-> IF a.n = 0 THEN 0 ELSE a.sum \div a.n,
   rms |-> IF a.n = 0 THEN 0 ELSE isqrt32((a.n * a.sumsq - a.sum * a.sum) \div (a.n * a.n)),
   of |-> k]      \* the window's number, history

(* The 1 kHz sampler *)

\* pulse_sample_1khz: the configured edges since the last sample
Edge(p) ==
  CASE io.edge[p] = 0 -> ~cnt.last[p] /\ pinIn[p]
    [] io.edge[p] = 1 -> cnt.last[p] /\ ~pinIn[p]
    [] io.edge[p] = 2 -> cnt.last[p] # pinIn[p]
    [] OTHER -> FALSE

Edges == {p \in IoPins : Edge(p)}

\* g_pulse_count[i]++ loads the count here and stores it in SampleStore
pulse_sample_1khz ==
  cnt' = [cnt EXCEPT !.last = pinIn, !.due = Edges, !.load = [p \in IoPins |-> IF p \in Edges THEN cnt.n[p] ELSE 0]]

\* gpio_sample_1khz: a debounced bit follows once the register holds one level
Shifted(p, b) == Append(IF Len(gp.sr[p]) < io.depth[p] THEN gp.sr[p] ELSE Tail(gp.sr[p]), b)

\* The bit follows when the newest two samples agree, whatever the depth
SettleEarly(p, sr, b) ==
  IF io.depth[p] < 2 \/ sr[Len(sr)] = sr[Len(sr) - 1] THEN b ELSE gp.deb[p]

Settle(p, sr, b) ==
  IF io.depth[p] < 2 THEN b
  ELSE IF \A k \in 1..Len(sr) : sr[k] THEN TRUE
  ELSE IF \A k \in 1..Len(sr) : ~sr[k] THEN FALSE
  ELSE gp.deb[p]

IoSeen(p) == pinIn[p] # gp.ipol[p]

gpio_sample_1khz ==
  gp' = [gp EXCEPT
           !.raw = [p \in IoPins |-> IoSeen(p)],
           !.sr = [p \in IoPins |-> IF io.depth[p] < 2 THEN gp.sr[p] ELSE Shifted(p, IoSeen(p))],
           !.deb = [p \in IoPins |-> Settle(p, Shifted(p, IoSeen(p)), IoSeen(p))]]

-----------------------------------------------------------------------------
(* The servo bank: servo_build *)

\* The insertion sort by width: servo i goes behind those that are not wider
Insert(q, i, us) ==
  LET k == Cardinality({j \in 1..Len(q) : us[q[j]] <= us[i]})
  IN  SubSeq(q, 1, k) \o <<i>> \o SubSeq(q, k + 1, Len(q))

ByWidth(n, us) ==
  LET q[k \in 0..n] == IF k = 0 THEN <<>> ELSE Insert(q[k - 1], k - 1, us)
  IN  q[n]

\* A servo goes low before the word that holds it high
AddServoLow(s, i, us) ==
  [words |-> IF us[i] > s.prev THEN Append(s.words, [high |-> s.mask \ {i}, for |-> us[i] - s.prev]) ELSE s.words,
   mask |-> s.mask \ {i}, prev |-> us[i]]

\* One servo of the sorted list: a word when its width is new, then it goes low
AddServo(s, i, us) ==
  [words |-> IF us[i] > s.prev THEN Append(s.words, [high |-> s.mask, for |-> us[i] - s.prev]) ELSE s.words,
   mask |-> s.mask \ {i}, prev |-> us[i]]

Bank(n, us) ==
  LET b[k \in 0..n] == IF k = 0 THEN [words |-> <<>>, mask |-> 0..(n - 1), prev |-> 0]
                       ELSE AddServo(b[k - 1], ByWidth(n, us)[k], us)
  IN  b[n]

ServoWords(n, us) ==
  IF n = 0 THEN <<>>
  ELSE Append(Bank(n, us).words, [high |-> {}, for |-> SERVO_FRAME_US - Bank(n, us).prev])

\* The array keeps the words beyond the new length
Laid(new, old) == new \o SubSeq(old, Len(new) + 1, Len(old))

-----------------------------------------------------------------------------
(* hwio_apply: the configuration is applied once, at boot *)

AllPins(x) == [p \in IoPins |-> x]

\* hwio_apply, SERVO: the leading pins that have the role
ServoCount == 1..Cardinality(IoPins)

\* apply_pin_counter starts from the level the pin has
CounterStart == pinIn

IoInit ==
  /\ work \in {"adc", "gpio", "counter", "servo", "i2c"}
  /\ io \in [core : IF work \in {"adc", "counter"} THEN {"core0", "core1"} ELSE {"core1"},
             depth : IF work = "gpio" THEN [IoPins -> IoDepths] ELSE {AllPins(0)},
             edge : IF work = "counter" THEN [IoPins -> 0..3] ELSE {AllPins(3)},
             servos : IF work = "servo" THEN ServoCount ELSE {0}]
  /\ pinIn \in IF work = "counter" THEN [IoPins -> BOOLEAN] ELSE {AllPins(FALSE)}
  /\ cnt = [n |-> AllPins(0), last |-> CounterStart, due |-> {}, load |-> AllPins(0)]
  /\ rc = {}
  /\ gp = [raw |-> AllPins(FALSE), deb |-> AllPins(FALSE),
           sr |-> [p \in IoPins |-> [k \in 1..io.depth[p] |-> FALSE]], ipol |-> AllPins(FALSE)]
  /\ adc = [phase |-> 0, acc |-> [c \in Chans |-> NoAcc], closing |-> -1, seq |-> 0,
            stat |-> [c \in Chans |-> Stat(NoAcc, 0)]]
  /\ rd = [seq |-> -1, got |-> <<>>, tries |-> 0]
  /\ sv = [n |-> io.servos, us |-> AllPins(1500), frame |-> ServoWords(io.servos, AllPins(1500)),
           len |-> Len(ServoWords(io.servos, AllPins(1500))), building |-> FALSE, ready |-> io.servos > 0]
  /\ feeder = [len |-> 0, at |-> 0, played |-> <<>>]
  /\ i2 = [reqq |-> <<>>, upq |-> <<>>]
  /\ hist = [was |-> pinIn, edges |-> AllPins(0), told |-> AllPins(0), torn |-> {},
             streak |-> [p \in IoPins |-> [v |-> FALSE, n |-> 0]], settled |-> AllPins(FALSE),
             fed |-> [c \in Chans |-> <<>>], last |-> [c \in Chans |-> <<>>],
             resyncs |-> 0, clean |-> FALSE, asked |-> 0, answers |-> <<>>]

-----------------------------------------------------------------------------
(* The ADC interrupt *)

\* A command on core 1 waits for the interrupt; one on core 0 does not
TaskRuns == io.core = "core0" \/ (adc.closing = -1 /\ cnt.due = {})

\* Nothing holds the interrupt off
IsrAlways == TRUE

\* save_and_disable_interrupts holds the interrupt off on the caller's core
IsrRuns == io.core = "core0" \/ rc = {}

\* A window is finalized only at the wrap of the round robin, on channel 0's count
Closes(acc, phase) == phase = AdcNch - 1 /\ acc[0].n >= AdcWinLen

adc_fifo_isr(raw) ==
  /\ work = "adc" /\ IsrRuns /\ adc.closing = -1 /\ adc.seq < MaxWindows
  /\ LET c == adc.phase
         acc == [adc.acc EXCEPT ![c] = IoTake(@, raw)]
     IN  /\ adc' = [adc EXCEPT !.acc = acc, !.phase = (c + 1) % AdcNch,
                               !.closing = IF Closes(acc, c) THEN 0 ELSE -1]
         /\ hist' = [hist EXCEPT !.fed[c] = Append(@, raw)]
  /\ UNCHANGED <<work, io, pinIn, cnt, rc, gp, rd, sv, feeder, i2>>

\* adc_win_close, one channel; after the last one the sequence moves on
adc_win_close ==
  /\ work = "adc" /\ adc.closing >= 0
  /\ LET c == adc.closing
         done == c = AdcNch - 1
     IN  /\ adc' = [adc EXCEPT !.stat[c] = Stat(adc.acc[c], adc.seq + 1), !.acc[c] = NoAcc,
                               !.closing = IF done THEN -1 ELSE c + 1,
                               !.seq = IF done THEN @ + 1 ELSE @]
         /\ hist' = [hist EXCEPT !.last[c] = hist.fed[c], !.fed[c] = <<>>]
  /\ UNCHANGED <<work, io, pinIn, cnt, rc, gp, rd, sv, feeder, i2>>

\* The FIFO overran: realign to channel 0; the windows keep what they have
AdcResync ==
  /\ work = "adc" /\ adc.closing = -1 /\ adc.phase # 0 /\ hist.resyncs < MaxResyncs
  /\ adc' = [adc EXCEPT !.phase = 0]
  /\ hist' = [hist EXCEPT !.resyncs = @ + 1]
  /\ UNCHANGED <<work, io, pinIn, cnt, rc, gp, rd, sv, feeder, i2>>

\* The anchor of a decimated round: the samplers run.  The conversions between
\* two anchors are left out where nothing reads them.
Anchor ==
  /\ work \in {"gpio", "counter"} /\ IsrRuns /\ cnt.due = {}
  /\ pulse_sample_1khz
  /\ IF work = "gpio" THEN gpio_sample_1khz ELSE UNCHANGED gp
  /\ hist' = [hist EXCEPT
       !.was = pinIn, !.torn = @ \cup (Edges \cap rc),
       !.edges = [p \in IoPins |->
           IF (io.edge[p] \in {0, 2} /\ pinIn[p] /\ ~hist.was[p]) \/ (io.edge[p] \in {1, 2} /\ hist.was[p] /\ ~pinIn[p])
           THEN hist.edges[p] + 1 ELSE hist.edges[p]],
       !.streak = [p \in IoPins |->
           [v |-> IoSeen(p), n |-> IF IoSeen(p) # hist.streak[p].v THEN 1
                                 ELSE IF hist.streak[p].n < io.depth[p] THEN hist.streak[p].n + 1 ELSE hist.streak[p].n]],
       !.settled = [p \in IoPins |->
           IF io.depth[p] < 2 \/ (IoSeen(p) = hist.streak[p].v /\ hist.streak[p].n + 1 >= io.depth[p])
           THEN IoSeen(p) ELSE hist.settled[p]]]
  /\ \A p \in IoPins : hist'.edges[p] <= MaxEdges
  /\ UNCHANGED <<work, io, pinIn, rc, adc, rd, sv, feeder, i2>>

\* The counts it loaded are stored, one more each; a pin's load and store are
\* next to one another in the code, which overlaps with less
SampleStore ==
  /\ cnt.due # {}
  /\ cnt' = [cnt EXCEPT !.n = [p \in IoPins |-> IF p \in cnt.due THEN cnt.load[p] + 1 ELSE cnt.n[p]], !.due = {}, !.load = AllPins(0)]
  /\ UNCHANGED <<work, io, pinIn, rc, gp, adc, rd, sv, feeder, i2, hist>>

\* A pin moves
PinMoves(p) ==
  /\ work \in {"gpio", "counter"}
  /\ pinIn' = [pinIn EXCEPT ![p] = ~@]
  /\ UNCHANGED <<work, io, cnt, rc, gp, adc, rd, sv, feeder, i2, hist>>

-----------------------------------------------------------------------------
(* Commands: node_cmd_dispatch *)

\* CMD_GPIO_IPOL
GpioIpol(m) ==
  /\ work = "gpio" /\ gp.ipol # m
  /\ gp' = [gp EXCEPT !.ipol = m]
  /\ UNCHANGED <<work, io, pinIn, cnt, rc, adc, rd, sv, feeder, i2, hist>>

Credit(ps) == [p \in IoPins |-> IF p \in ps THEN hist.told[p] + cnt.n[p] ELSE hist.told[p]]

\* CMD_PULSE_CLEAR: what was there is given up
PulseClear(ps) ==
  /\ work = "counter" /\ TaskRuns /\ rc = {} /\ \E p \in ps : cnt.n[p] > 0
  /\ cnt' = [cnt EXCEPT !.n = [p \in IoPins |-> IF p \in ps THEN 0 ELSE cnt.n[p]]]
  /\ hist' = [hist EXCEPT !.told = Credit(ps), !.torn = @ \cup (ps \cap cnt.due)]
  /\ UNCHANGED <<work, io, pinIn, rc, gp, adc, rd, sv, feeder, i2>>

\* CMD_PULSE_READCLR: a count is copied ...
ReadClrRead ==
  /\ work = "counter" /\ TaskRuns /\ rc = {}
  /\ \E p \in IoPins :
       /\ cnt.n[p] > 0
       /\ rc' = {p} /\ hist' = [hist EXCEPT !.told = Credit({p}), !.torn = @ \cup ({p} \cap cnt.due)]
  /\ UNCHANGED <<work, io, pinIn, cnt, gp, adc, rd, sv, feeder, i2>>

\* ... and the counter set to zero
ReadClrClear ==
  /\ rc # {}
  /\ cnt' = [cnt EXCEPT !.n = [p \in IoPins |-> IF p \in rc THEN 0 ELSE cnt.n[p]]]
  /\ rc' = {}
  /\ UNCHANGED <<work, io, pinIn, gp, adc, rd, sv, feeder, i2, hist>>

\* CMD_ADC_STATS: sequence, the channels one by one, sequence again; four tries
StatsBegin ==
  /\ work = "adc" /\ TaskRuns /\ Len(rd.got) \in {0, AdcNch + 1}
  /\ rd' = [seq |-> adc.seq, got |-> <<adc.stat[0].of>>, tries |-> 0]
  /\ UNCHANGED <<work, io, pinIn, cnt, rc, gp, adc, sv, feeder, i2, hist>>

StatsCopy ==
  /\ work = "adc" /\ TaskRuns /\ Len(rd.got) \in 1..(AdcNch - 1)
  /\ rd' = [rd EXCEPT !.got = Append(@, adc.stat[Len(@)].of)]
  /\ UNCHANGED <<work, io, pinIn, cnt, rc, gp, adc, sv, feeder, i2, hist>>

\* The snapshot is taken without a second look
StatsOnce == TRUE

StatsAgree == adc.seq = rd.seq \/ rd.tries >= 3

\* An answer is marked by one more element
StatsCheck ==
  /\ work = "adc" /\ TaskRuns /\ Len(rd.got) = AdcNch
  /\ rd' = IF StatsAgree THEN [rd EXCEPT !.got = Append(@, 0)]
           ELSE [seq |-> adc.seq, got |-> <<adc.stat[0].of>>, tries |-> rd.tries + 1]
  /\ UNCHANGED <<work, io, pinIn, cnt, rc, gp, adc, sv, feeder, i2, hist>>

Clamped(w) == IF w < SERVO_MIN_US THEN SERVO_MIN_US ELSE IF w > SERVO_MAX_US THEN SERVO_MAX_US ELSE w

\* CMD_SERVO_SET_ALL: widths for the first servos, then servo_build lays out the words ...
ServoSet(ws) ==
  /\ work = "servo" /\ ~sv.building
  /\ LET us == [p \in IoPins |-> IF p < Len(ws) /\ p < sv.n THEN Clamped(ws[p + 1]) ELSE sv.us[p]]
     IN  sv' = [sv EXCEPT !.us = us, !.frame = Laid(ServoWords(sv.n, us), sv.frame), !.building = TRUE]
  /\ hist' = [hist EXCEPT !.clean = FALSE]
  /\ UNCHANGED <<work, io, pinIn, cnt, rc, gp, adc, rd, feeder, i2>>

\* ... and publishes their number last
ServoPublish ==
  /\ sv.building
  /\ sv' = [sv EXCEPT !.building = FALSE, !.len = Len(ServoWords(sv.n, sv.us))]
  /\ hist' = [hist EXCEPT !.clean = FALSE]
  /\ UNCHANGED <<work, io, pinIn, cnt, rc, gp, adc, rd, feeder, i2>>

\* CMD_SERVO_STOP: servo_stop_all
ServoStop ==
  /\ work = "servo" /\ ~sv.building /\ sv.n > 0
  /\ sv' = [sv EXCEPT !.n = 0, !.len = 0, !.ready = FALSE]
  /\ hist' = [hist EXCEPT !.clean = FALSE]
  /\ UNCHANGED <<work, io, pinIn, cnt, rc, gp, adc, rd, feeder, i2>>

\* servo_feeder_task: every 20 ms, the length once, then word after word
FeedStart ==
  /\ work = "servo" /\ feeder.at = feeder.len /\ sv.ready /\ sv.len > 0
  /\ feeder' = [len |-> sv.len, at |-> 0, played |-> <<>>]
  /\ hist' = [hist EXCEPT !.clean = ~sv.building]
  /\ UNCHANGED <<work, io, pinIn, cnt, rc, gp, adc, rd, sv, i2>>

FeedWord ==
  /\ feeder.at < feeder.len
  /\ feeder' = [feeder EXCEPT !.at = @ + 1, !.played = Append(@, sv.frame[feeder.at + 1])]
  /\ UNCHANGED <<work, io, pinIn, cnt, rc, gp, adc, rd, sv, i2, hist>>

\* CMD_I2C_*: queued with the asker's sink; a full queue drops it (the result
\* of xQueueSend is ignored and the caller still gets SHELL_ASYNC)
I2cAsk(sink) ==
  /\ work = "i2c" /\ hist.asked < MaxI2c
  /\ i2' = [i2 EXCEPT !.reqq = IF Len(@) < I2cDepth THEN Append(@, [id |-> hist.asked + 1, sink |-> sink]) ELSE @]
  /\ hist' = [hist EXCEPT !.asked = @ + 1]
  /\ UNCHANGED <<work, io, pinIn, cnt, rc, gp, adc, rd, sv, feeder>>

\* The room in the queue is not looked at
SinkForce(q, status) ==
  IF q.sink = "engine" THEN i2.upq ELSE Append(i2.upq, [id |-> q.id, dest |-> q.sink, status |-> status])

\* xQueueSend without waiting: a full g_up_q drops the reply
reply_sink_send(q, status) ==
  IF q.sink = "engine" \/ Len(i2.upq) >= UpDepth THEN i2.upq
  ELSE Append(i2.upq, [id |-> q.id, dest |-> q.sink, status |-> status])

\* The request is served from the queue and left there
ServeKept(st) ==
  /\ i2.reqq # <<>>
  /\ i2' = [i2 EXCEPT !.upq = reply_sink_send(Head(i2.reqq), st)]

\* i2c_service_task: i2c_exec of the oldest request; the bus may fail or time out
Serve(st) ==
  /\ i2.reqq # <<>>
  /\ i2' = [reqq |-> Tail(i2.reqq), upq |-> reply_sink_send(Head(i2.reqq), st)]

I2cServe(st) ==
  /\ Serve(st)
  /\ UNCHANGED <<work, io, pinIn, cnt, rc, gp, adc, rd, sv, feeder, hist>>

\* The role's reply pump ships the oldest reply
UpPump ==
  /\ i2.upq # <<>>
  /\ i2' = [i2 EXCEPT !.upq = Tail(@)]
  /\ hist' = [hist EXCEPT !.answers = Append(@, Head(i2.upq))]
  /\ UNCHANGED <<work, io, pinIn, cnt, rc, gp, adc, rd, sv, feeder>>

IoNext ==
  \/ \E r \in AdcRaws : adc_fifo_isr(r)
  \/ adc_win_close \/ AdcResync \/ StatsBegin \/ StatsCopy \/ StatsCheck
  \/ Anchor \/ SampleStore \/ \E p \in IoPins : PinMoves(p)
  \/ \E m \in {AllPins(FALSE), AllPins(TRUE)} : GpioIpol(m)
  \/ \E ps \in SUBSET IoPins : PulseClear(ps)
  \/ ReadClrRead \/ ReadClrClear
  \/ \E n \in ServoCount : \E ws \in [1..n -> ServoWidths] : ServoSet(ws)
  \/ ServoPublish \/ ServoStop \/ FeedStart \/ FeedWord
  \/ \E k \in {"usb", "bus", "engine"} : I2cAsk(k)
  \/ \E st \in {"ok", "io_error"} : I2cServe(st)
  \/ UpPump

IoSpec == IoInit /\ [][IoNext]_ioVars

-----------------------------------------------------------------------------
Total(xs) ==
  LET t[k \in 0..Len(xs)] == IF k = 0 THEN 0 ELSE t[k - 1] + xs[k]
  IN  t[Len(xs)]
Squares(xs) == [k \in 1..Len(xs) |-> xs[k] * xs[k]]

\* How long a list of servo words lasts, and how long it holds servo i high
Lasts(ws) == Total([k \in 1..Len(ws) |-> ws[k].for])
HoldsUp(ws, i) == Total([k \in 1..Len(ws) |-> IF i \in ws[k].high THEN ws[k].for ELSE 0])

IoTypeOK ==
  /\ cnt.n \in [IoPins -> Nat] /\ rc \subseteq IoPins
  /\ gp.deb \in [IoPins -> BOOLEAN]
  /\ adc.phase \in Chans /\ adc.closing \in -1..(AdcNch - 1)
  /\ sv.len <= Cardinality(IoPins) + 1 /\ feeder.at <= feeder.len
  /\ Len(i2.reqq) <= I2cDepth /\ Len(i2.upq) <= UpDepth

\* A channel's published figures are those of the samples xs
Figures(xs, s) ==
  LET n == Len(xs)
      sum == Total(xs)
      var == (n * Total(Squares(xs)) - sum * sum) \div (n * n)
  IN  /\ \E k \in 1..n : xs[k] = s.min
      /\ \E k \in 1..n : xs[k] = s.max
      /\ \A k \in 1..n : s.min <= xs[k] /\ xs[k] <= s.max
      /\ n * s.avg <= sum /\ sum < n * (s.avg + 1)
      /\ s.rms * s.rms <= var /\ var < (s.rms + 1) * (s.rms + 1)

\* The last window's figures of a channel are those of exactly the samples the
\* interrupt attributed to it since the window before: extremes, mean, and the
\* root of the variance rounded down, through resyncs that leave the channels
\* with different counts.
WindowFigures ==
  \A c \in Chans : hist.last[c] # <<>> => Figures(hist.last[c], adc.stat[c])

StatsAnswered == Len(rd.got) = AdcNch + 1 /\ rd.tries < 3

\* A CMD_ADC_STATS answer given before the last try shows in every channel the
\* window whose number it carries, whenever the interrupt closed one during the
\* copy.  That is so on core 1.  On core 0 a channel, and each figure of it, may
\* also be of the next window: the interrupt bumps the sequence only after it
\* has written all channels (main.c:1745-1749), so the check cannot see a close
\* that is under way.
StatsOneWindow ==
  StatsAnswered => \A k \in 1..AdcNch : rd.got[k] = rd.seq \/ (io.core = "core0" /\ rd.got[k] = rd.seq + 1)

\* Every counted edge of a pin is in its counter or was handed out, once: none
\* is lost or counted twice between the copy and the clear of
\* CMD_PULSE_READCLR, none invented at boot.  On core 0, where disabling
\* interrupts does not stop the sampler, a pin is excepted for good once an
\* edge of it was counted while a command cleared it; on core 1 none ever is.
PulsesKept ==
  /\ io.core = "core1" => hist.torn = {}
  /\ \A p \in IoPins \ (hist.torn \cup rc \cup cnt.due) : hist.told[p] + cnt.n[p] = hist.edges[p]

\* What main.c:1629 ("a seqlock for lock-free cross-core reads") and main.c:2824
\* ("atomic read-and-clear of all 8 counts") say of every core.  False on core 0.
SeqlockHolds == StatsAnswered => \A k \in 1..AdcNch : rd.got[k] = rd.seq
ReadClrAtomic == \A p \in IoPins \ (rc \cup cnt.due) : hist.told[p] + cnt.n[p] = hist.edges[p]

\* The debounced bit is the last level (after polarity) that held for the
\* configured number of samples in a row.
DebouncedHeld == work = "gpio" => gp.deb = hist.settled

\* A servo frame played with no command in between gives every servo exactly
\* its width and lasts 20 ms, whatever widths coincide.
ServoFrame ==
  (hist.clean /\ feeder.len > 0 /\ feeder.at = feeder.len) =>
     /\ Lasts(feeder.played) = SERVO_FRAME_US
     /\ \A i \in 0..(sv.n - 1) : HoldsUp(feeder.played, i) = sv.us[i]

\* I2C answers come in the order of the requests and none comes twice,
\* requests and replies dropped at a full queue left out.
I2cInOrder ==
  \A j, k \in 1..Len(hist.answers) : j < k => hist.answers[j].id < hist.answers[k].id

\* The sampler on core 1 against the commands that read it, on either core:
\* window figures and debounced levels are those of the samples; edge counts
\* are, and an answer is of one window, on core 1, and on core 0 up to the
\* exceptions named above; a servo frame gives every servo its width, and I2C answers come
\* in the order of the requests.
IoExact ==
  /\ IoTypeOK /\ WindowFigures /\ StatsOneWindow /\ PulsesKept /\ DebouncedHeld
  /\ ServoFrame /\ I2cInOrder
=============================================================================
