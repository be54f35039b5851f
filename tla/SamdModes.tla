----------------------------- MODULE SamdModes -----------------------------
(***************************************************************************)
(* The modes of the SAMD21 client: the interlocks of PIO, ADC and MIXED,   *)
(* the servo frame, the edge counters, the bench tools and the DAC tone.   *)
(* The superloop runs the ticks; the I2C master writes registers from an   *)
(* interrupt, the timers TC3, TC4 and TC5 run in interrupts of their own,  *)
(* and the lines on the pads change by themselves.  A tick is cut where an *)
(* interrupt matters to it.                                                *)
(*                                                                         *)
(* One interlock watch on one line stands for il_parse and il_dnf_result.  *)
(* Registers that only report (ILSTAT, ILSTATE, CH_SEL, RAW, ...) are left *)
(* out, and what a mode leaves behind that the next entry overwrites       *)
(* unread is set back when the mode is left.                               *)
(***************************************************************************)
EXTENDS SamdPads, FiniteSetsExt

CONSTANTS
    Widths,          \* servo pulse widths, in timer ticks after the clamp
    FRAME,           \* timer ticks in a servo frame
    Sensed,          \* pads whose line changes from outside
    UsbPads,         \* pads the workbench uses over USB
    Unruly,          \* what the master does that it should not: it writes the
                     \* mode or clears a trip during a tick ("intick"), rebuilds
                     \* the servo schedule during a pulse ("midpulse"), writes
                     \* the mode while offline ("offline"), or uses the USB
                     \* workbench outside IDLE or leaves it on ("usb")
    BootModes,       \* the modes the idnt file may ask for
    MaxEdges,        \* bound: edges on a counter pad
    MaxSwitches      \* bound: writes of the mode register

ASSUME ModesAssumption ==
    /\ Widths # {} /\ Widths \subseteq 1..(FRAME - 2)
    /\ FRAME \in Nat /\ Sensed \cup UsbPads \subseteq Pads /\ BootModes \subseteq Modes
    /\ MaxEdges \in Nat /\ MaxSwitches \in Nat
    /\ Unruly \subseteq {"intick", "midpulse", "offline", "usb"}

VARIABLES
    g_mode, g_offline,
    pad, line,       \* the pads' registers, and the levels outside
    dac,             \* EOEN; a tone is active, and ends by itself; TC3 runs;
                     \* the DAC follows an ADC pin
    regs,            \* the expander's registers, outputs instead of IODIR
    il,              \* per guarded mode: valid, tripped
    g_int_flags, g_il_snap,
    sr,              \* MIXED debounce: shift register and level
    adc,             \* the stream value that the ADC interlock watches
    servo,           \* run, estop_latched, enable, us
    tc4,             \* count, CC1, MC1 enabled and pending, event index
    cnt,             \* per pad: last level and count; edges is a history: those
                     \* on the line that this count has seen or is still to see
    bench,           \* sel, adc_pending
    switches,        \* writes of the mode register so far
    pc               \* the tick that is running

vars == <<g_mode, g_offline, pad, line, dac, regs, il, g_int_flags, g_il_snap,
          sr, adc, servo, tc4, cnt, bench, switches, pc>>

shared == <<g_mode, g_offline, dac, regs, switches>>
timers == <<adc, servo, tc4, cnt, bench>>

Level(c) == IF Driven(pad[c]) THEN pad[c].out ELSE line[c]

Loop == [at |-> "loop", m |-> "IDLE", pass |-> TRUE, old |-> {}]

Disarmed == [valid |-> FALSE, tripped |-> FALSE]
NoSnap   == [valid |-> FALSE, pass |-> TRUE]
NoShift  == [bits |-> <<FALSE, FALSE>>, deb |-> FALSE]
Idle4    == [on |-> FALSE, t |-> 0, cc1 |-> 0, mc1 |-> FALSE, flag |-> FALSE, idx |-> 0]
NoBench  == [sel |-> NoFile, pending |-> FALSE]
Uncounted == [c \in Pads |-> [last |-> FALSE, n |-> 0, edges |-> 0]]

(* The schedule servo_build makes: every change of enable or us rebuilds   *)
(* it, so it is a function of them.  Equal widths share an event.          *)
Times == {servo.us[c] : c \in servo.enable}
EventTime(i) == CHOOSE t \in Times : Cardinality({u \in Times : u < t}) = i
Event(i) == {c \in servo.enable : servo.us[c] = EventTime(i)}

-----------------------------------------------------------------------------
Armed(m) == [valid |-> ilcf # NoFile, tripped |-> FALSE]

(* mode_leave(g_mode) followed by mode_enter(m).                           *)
EnterRegs(m, r) == IF m = "PIO" THEN gpmp_apply(r) ELSE r
LeaveRegs == IF g_mode = "PIO" THEN SafeRegs ELSE regs

(* ADC is left without disarming, but adc_il_arm starts over and nobody    *)
(* asks for its trip in between; the same holds for the freeze-frame.      *)
LeaveIl == [m \in Guarded |-> Disarmed]

LeaveDac == [eoen |-> IF g_mode \in {"PIO", "SERVO", "COUNTER"} THEN TRUE ELSE dac.eoen,
             tone |-> dac.tone /\ g_mode \notin {"ADC", "MIXED", "COUNTER"},
             tc3  |-> dac.tc3 /\ g_mode \notin {"ADC", "MIXED", "COUNTER"},
             timed |-> dac.timed, follow |-> dac.follow]

EnterDac(m, d) ==
    CASE m \in {"PIO", "SERVO"} -> [d EXCEPT !.eoen = FALSE]
      [] m = "ADC" -> [d EXCEPT !.eoen = TRUE, !.tone = TRUE, !.tc3 = TRUE, !.timed = FALSE]
      [] m = "MIXED" -> IF mixed_dac_en THEN [d EXCEPT !.eoen = TRUE, !.tone = FALSE]
                        ELSE [d EXCEPT !.eoen = FALSE]
      [] m = "COUNTER" -> IF bench_role(m, A0) = "dac" THEN [d EXCEPT !.eoen = TRUE, !.tone = FALSE]
                          ELSE [d EXCEPT !.eoen = FALSE]
      [] OTHER -> d

(* The widths survive a mode switch; here they start over, since with no   *)
(* channel enabled the master can write any widths before the first pulse. *)
ServoAtRest == [run |-> FALSE, latched |-> FALSE, enable |-> {},
                us |-> [c \in Chans |-> Max(Widths)]]

servo_tc_start == [Idle4 EXCEPT !.on = TRUE]

CounterUnseeded(pads) ==
    [c \in Pads |-> [last |-> FALSE, n |-> 0, edges |-> 0]]

(* The last level is taken after the pads have become inputs.              *)
counter_enter(pads) ==
    [c \in Pads |-> [last |-> IF Driven(pads[c]) THEN pads[c].out ELSE line[c],
                     n |-> 0, edges |-> 0]]

Switch(m, r, pads) ==
    /\ g_mode' = m
    /\ regs' = r /\ pad' = pads
    /\ dac' = EnterDac(m, LeaveDac)
    /\ il' = IF m \in Guarded THEN [LeaveIl EXCEPT ![m] = Armed(m)] ELSE LeaveIl
    /\ g_il_snap' = NoSnap
    /\ sr' = NoShift
    /\ adc' = FALSE
    /\ servo' = ServoAtRest
    /\ tc4' = IF m = "SERVO" THEN servo_tc_start ELSE Idle4
    /\ cnt' = IF m = "COUNTER" THEN counter_enter(pads) ELSE Uncounted
    /\ bench' = NoBench
    /\ UNCHANGED <<g_offline, line, g_int_flags, pc>>

Boot(m, r) ==
    /\ g_mode = m /\ g_offline = FALSE /\ switches = 0
    /\ line \in [Pads -> BOOLEAN] /\ line[D6] /\ \A c \in Pads \ Sensed : line[c]
    /\ regs = r /\ pad = EnterPads(m, r, [c \in Pads |-> IF c = A0 THEN Analog(PowerOn) ELSE PowerOn])
    /\ dac = EnterDac(m, [eoen |-> TRUE, tone |-> FALSE, tc3 |-> FALSE, timed |-> FALSE, follow |-> FALSE])
    /\ il = [k \in Guarded |-> IF k = m THEN Armed(k) ELSE Disarmed]
    /\ g_int_flags = {} /\ g_il_snap = NoSnap /\ sr = NoShift /\ adc = FALSE
    /\ servo = ServoAtRest
    /\ tc4 = IF m = "SERVO" THEN servo_tc_start ELSE Idle4
    /\ cnt = IF m = "COUNTER" THEN counter_enter(pad) ELSE Uncounted
    /\ bench = NoBench /\ pc = Loop

Init == \E m \in BootModes : Boot(m, EnterRegs(m, SafeRegs))

-----------------------------------------------------------------------------
(* The interlock tick of mode m, gated by the mode at its first step.      *)
Bad(v) == v = ilcf.bad

ShiftSticks(raw) ==
    LET bits == IF ilcf.depth = 1 THEN <<raw, raw>> ELSE <<sr.bits[2], raw>> IN
    [bits |-> bits, deb |-> bits = <<TRUE, TRUE>> \/ sr.deb]

Shift(raw) ==
    LET bits == IF ilcf.depth = 1 THEN <<raw, raw>> ELSE <<sr.bits[2], raw>> IN
    [bits |-> bits,
     deb |-> IF bits[1] = bits[2] THEN raw ELSE sr.deb]

Frame == UNCHANGED <<line, shared, timers>>

IlSample(m) ==
    /\ pc.at = "loop" /\ g_mode = m /\ il[m].valid
    /\ sr' = IF m = "MIXED" THEN Shift(Level(ilcf.in)) ELSE sr
    /\ pc' = [Loop EXCEPT !.at = "judge", !.m = m,
                 !.pass = ~Bad(CASE m = "PIO" -> Level(ilcf.in)
                                 [] m = "ADC" -> adc
                                 [] OTHER -> Shift(Level(ilcf.in)).deb)]
    /\ Frame /\ UNCHANGED <<pad, il, g_int_flags, g_il_snap>>

(* A trip is latched before the flag is raised; `old' is what the          *)
(* read-modify-write of the flags has loaded.                              *)
IlJudge ==
    /\ pc.at = "judge"
    /\ LET trips == ~il[pc.m].tripped /\ ~pc.pass IN
       /\ il' = IF trips THEN [il EXCEPT ![pc.m].tripped = TRUE] ELSE il
       /\ pc' = CASE trips -> [pc EXCEPT !.at = "flag", !.old = g_int_flags]
                  [] ~trips /\ pc.m = "ADC" -> [pc EXCEPT !.at = "drive"]
                  [] ~trips /\ pc.m # "ADC" /\ il[pc.m].tripped -> [pc EXCEPT !.at = "resafe"]
                  [] ~trips /\ pc.m = "MIXED" /\ ~il[pc.m].tripped -> [pc EXCEPT !.at = "ok"]
                  [] OTHER -> Loop
    /\ Frame /\ UNCHANGED <<pad, sr, g_int_flags, g_il_snap>>

IlFlag == /\ pc.at = "flag" /\ g_int_flags' = pc.old \cup {pc.m}
          /\ pc' = [pc EXCEPT !.at = "snap"]
          /\ Frame /\ UNCHANGED <<pad, il, sr, g_il_snap>>

(* PIO and ADC read their inputs again for the freeze-frame.               *)
il_snap_capture ==
    /\ pc.at = "snap"
    /\ g_il_snap' = IF g_il_snap.valid THEN g_il_snap
                    ELSE [valid |-> TRUE,
                          pass |-> CASE pc.m = "PIO" -> ~Bad(Level(ilcf.in))
                                     [] pc.m = "ADC" -> ~Bad(adc)
                                     [] OTHER -> pc.pass]
    /\ pc' = [pc EXCEPT !.at = IF pc.m = "ADC" THEN "drive" ELSE "safe"]
    /\ Frame /\ UNCHANGED <<pad, il, sr, g_int_flags>>

DriveOut(m, v) ==
    pad' = [pad EXCEPT ![ilcf.out] =
              IF m = "PIO" THEN pio_phys_drive(regs, ilcf.out, v, pad[ilcf.out])
              ELSE il_drive_output(v, ilcf.od, pad[ilcf.out])]

IlDriveOk ==
    /\ pc.at \in {"safe", "resafe", "ok", "drive"}
    /\ DriveOut(pc.m, ilcf.ok)
    /\ pc' = IF pc.at = "safe" THEN [pc EXCEPT !.at = "int"] ELSE Loop
    /\ Frame /\ UNCHANGED <<il, sr, g_int_flags, g_il_snap>>

IlDrive ==
    /\ pc.at \in {"safe", "resafe", "ok", "drive"}
    /\ DriveOut(pc.m, CASE pc.at = "ok" -> ilcf.ok
                        [] pc.at = "drive" /\ ~il["ADC"].tripped -> ilcf.ok
                        [] OTHER -> ilcf.err)
    /\ pc' = IF pc.at = "safe" THEN [pc EXCEPT !.at = "int"] ELSE Loop
    /\ Frame /\ UNCHANGED <<il, sr, g_int_flags, g_il_snap>>

IlInt == /\ pc.at = "int" /\ pc' = Loop
         /\ pad' = [pad EXCEPT ![D6] = pio_int_assert(TRUE, @)]
         /\ Frame /\ UNCHANGED <<il, sr, g_int_flags, g_il_snap>>

-----------------------------------------------------------------------------
servo_all_low == pad' = [c \in Pads |-> IF c = D6 THEN pad[c] ELSE [pad[c] EXCEPT !.out = FALSE]]

ServoFrame == UNCHANGED <<line, shared, il, sr, g_int_flags, g_il_snap, adc, cnt, bench>>

(* Two steps: the line is read and the stop latched; then run is tested.   *)
servo_tick ==
    /\ pc.at = "loop" /\ g_mode = "SERVO" /\ ~Level(D6)
    /\ servo' = [servo EXCEPT !.latched = TRUE]
    /\ pc' = [Loop EXCEPT !.at = "estop"]
    /\ ServoFrame /\ UNCHANGED <<pad, tc4>>

EstopLatchOnly ==
    /\ pc.at = "estop" /\ pc' = Loop
    /\ UNCHANGED <<servo, pad>>
    /\ ServoFrame /\ UNCHANGED tc4

EstopLow ==
    /\ pc.at = "estop" /\ pc' = Loop
    /\ IF servo.run THEN servo' = [servo EXCEPT !.run = FALSE] /\ servo_all_low
       ELSE UNCHANGED <<servo, pad>>
    /\ ServoFrame /\ UNCHANGED tc4

(* A conversion takes about a millisecond, with the pad in a local.        *)
bench_tick ==
    /\ pc.at = "loop" /\ g_mode \in {"SERVO", "COUNTER"} /\ bench.pending
    /\ pc' = [Loop EXCEPT !.at = "bench"]
    /\ UNCHANGED <<pad, line, shared, il, sr, g_int_flags, g_il_snap, timers>>

BenchDone ==
    /\ pc.at = "bench" /\ pc' = Loop
    /\ bench' = [bench EXCEPT !.pending = FALSE]
    /\ UNCHANGED <<pad, line, shared, il, sr, g_int_flags, g_il_snap, adc, servo, tc4, cnt>>

(* The OFFLINE command leaves the mode, then makes every pad an input.     *)
GoOffline ==
    /\ pc.at = "loop" /\ ~g_offline
    /\ pad' = LeavePads(g_mode, pad) /\ regs' = LeaveRegs /\ il' = LeaveIl /\ dac' = LeaveDac
    /\ servo' = ServoAtRest /\ tc4' = Idle4 /\ cnt' = Uncounted /\ bench' = NoBench
    /\ pc' = [Loop EXCEPT !.at = "offline"]
    /\ UNCHANGED <<g_mode, g_offline, switches, line, sr, adc, g_int_flags, g_il_snap>>

OfflineByLeaving ==
    /\ pc.at = "offline" /\ pc' = Loop
    /\ pad' = [pad EXCEPT ![D6] = PullUp] /\ dac' = [dac EXCEPT !.eoen = FALSE]
    /\ tc4' = Idle4 /\ g_mode' = "IDLE" /\ g_offline' = TRUE
    /\ UNCHANGED <<switches, line, regs, il, sr, adc, servo, cnt, bench, g_int_flags, g_il_snap>>

mode_go_offline ==
    /\ pc.at = "offline" /\ pc' = Loop
    /\ pad' = TriState(pad) /\ dac' = [dac EXCEPT !.eoen = FALSE]
    /\ tc4' = Idle4 /\ g_mode' = "IDLE" /\ g_offline' = TRUE
    /\ UNCHANGED <<switches, line, regs, il, sr, adc, servo, cnt, bench, g_int_flags, g_il_snap>>

Superloop == \/ \E m \in Guarded : IlSample(m)
             \/ IlJudge \/ IlFlag \/ il_snap_capture \/ IlDrive \/ IlInt
             \/ servo_tick \/ EstopLow \/ bench_tick \/ BenchDone
             \/ mode_go_offline

-----------------------------------------------------------------------------
(* The workbench commands of the USB host, which ask for no mode.          *)
Workbench == pc.at = "loop" /\ ~g_offline /\ (g_mode = "IDLE" \/ "usb" \in Unruly)

UsbDac(d) ==
    /\ Workbench /\ dac' = d
    /\ UNCHANGED <<g_mode, g_offline, switches, regs, line, pad, timers, il, sr, g_int_flags, g_il_snap, pc>>

Silent == [dac EXCEPT !.tone = FALSE, !.follow = FALSE, !.tc3 = FALSE]

cmd_dac_waveform_write ==
    \E timed \in BOOLEAN : UsbDac([dac EXCEPT !.tone = TRUE, !.timed = timed, !.tc3 = TRUE])
cmd_dac_stop == UsbDac(Silent)
cmd_dac_write == UsbDac(IF dac.tone \/ dac.follow THEN Silent ELSE dac)
cmd_dac_follow_start == UsbDac([dac EXCEPT !.tone = FALSE, !.follow = TRUE, !.tc3 = TRUE])
cmd_dac_follow_stop == UsbDac([dac EXCEPT !.follow = FALSE, !.tc3 = FALSE])

UsbPad(c, p) ==
    /\ Workbench /\ c \in UsbPads /\ pad' = [pad EXCEPT ![c] = p]
    /\ UNCHANGED <<shared, line, timers, il, sr, g_int_flags, g_il_snap, pc>>

cmd_gpio_config(c) ==
    \/ UsbPad(c, [pad[c] EXCEPT !.dir = TRUE, !.cfg = "off"])
    \/ UsbPad(c, Input(pad[c]))
    \/ UsbPad(c, PullUp)
    \/ UsbPad(c, PullDown)

cmd_gpio_write(c) == \E v \in BOOLEAN : UsbPad(c, [pad[c] EXCEPT !.out = v])

UsbHost == \/ cmd_dac_waveform_write \/ cmd_dac_stop \/ cmd_dac_write
           \/ cmd_dac_follow_start \/ cmd_dac_follow_stop
           \/ \E c \in Pads : cmd_gpio_config(c) \/ cmd_gpio_write(c)

-----------------------------------------------------------------------------
(* The I2C interrupt.                                                      *)
Polite == /\ pc.at # "loop" => "intick" \in Unruly
          /\ g_offline => "offline" \in Unruly
          /\ dac.follow \/ (g_mode = "IDLE" /\ dac.tone) => "usb" \in Unruly

WriteMode(m) ==
    /\ Polite /\ m # g_mode /\ switches < MaxSwitches /\ switches' = switches + 1
    /\ LET r == EnterRegs(m, LeaveRegs) IN
       Switch(m, r, EnterPads(m, r, LeavePads(g_mode, pad)))

(* The write that clears a trip.  Only the PIO reset does not ask for the  *)
(* mode.                                                                   *)
ResetKeepsInt ==
    IF il["PIO"].tripped THEN pad' = pio_update_outputs(regs, pad) ELSE UNCHANGED pad

pio_il_manual_reset ==
    IF il["PIO"].tripped
    THEN pad' = [pio_update_outputs(regs, pad) EXCEPT ![D6] = pio_int_assert(FALSE, @)]
    ELSE UNCHANGED pad

ResetPads(m) ==
    CASE m = "PIO" -> pio_il_manual_reset
      [] m = "ADC" -> DriveOut(m, ilcf.ok)
      [] OTHER -> pad' = [pad EXCEPT ![D6] = pio_int_assert(FALSE, @),
                                     ![ilcf.out] = il_drive_output(ilcf.ok, ilcf.od, @)]

ClearTripOnly(m) ==
    /\ Polite /\ m \in g_int_flags
    /\ g_int_flags' = g_int_flags \ {m}
    /\ IF il[m].tripped /\ (m = "PIO" \/ g_mode = m)
       THEN il' = [il EXCEPT ![m].tripped = FALSE] /\ ResetPads(m)
       ELSE UNCHANGED <<il, pad>>
    /\ UNCHANGED <<line, shared, timers, g_il_snap, sr, pc>>

ClearTrip(m) ==
    /\ Polite /\ m \in g_int_flags
    /\ g_int_flags' = g_int_flags \ {m}
    /\ IF il[m].tripped /\ (m = "PIO" \/ g_mode = m)
       THEN /\ il' = [il EXCEPT ![m].tripped = FALSE]
            /\ g_il_snap' = NoSnap
            /\ ResetPads(m)
       ELSE UNCHANGED <<il, g_il_snap, pad>>
    /\ UNCHANGED <<line, shared, timers, sr, pc>>

(* The outputs follow OLAT even while tripped, until the next tick.        *)
pio_reg_write(v) ==
    /\ g_mode = "PIO" /\ regs' = [regs EXCEPT !.olat = v]
    /\ pad' = pio_update_outputs([regs EXCEPT !.olat = v], pad)
    /\ UNCHANGED <<g_mode, g_offline, switches, dac, line, timers, il, g_int_flags, g_il_snap, sr, pc>>

InPulse == servo.run /\ tc4.t <= Max(Widths)
Rebuild == InPulse => "midpulse" \in Unruly

(* servo_build starts the event list over and leaves CC1 as it was.        *)
servo_build(s) ==
    /\ servo' = s /\ tc4' = [tc4 EXCEPT !.idx = 0]
    /\ ServoFrame /\ UNCHANGED <<pad, pc>>

ServoEnableAny(cs) == g_mode = "SERVO" /\ Rebuild /\ servo_build([servo EXCEPT !.enable = cs])

ServoEnable(cs) == g_mode = "SERVO" /\ Rebuild /\ servo_build([servo EXCEPT !.enable = cs \cap declared])
ServoWidth(c, w) == g_mode = "SERVO" /\ Rebuild /\ servo_build([servo EXCEPT !.us[c] = w])

ServoStartBlind ==
    /\ g_mode = "SERVO"
    /\ servo' = [servo EXCEPT !.run = TRUE, !.latched = IF Level(D6) THEN FALSE ELSE @]
    /\ ServoFrame /\ UNCHANGED <<pad, tc4, pc>>

ServoStart ==
    /\ g_mode = "SERVO" /\ Level(D6)
    /\ servo' = [servo EXCEPT !.run = TRUE, !.latched = FALSE]
    /\ ServoFrame /\ UNCHANGED <<pad, tc4, pc>>

ServoStop ==
    /\ g_mode = "SERVO" /\ servo' = [servo EXCEPT !.run = FALSE] /\ servo_all_low
    /\ ServoFrame /\ UNCHANGED <<tc4, pc>>

counter_snapshot ==
    /\ g_mode = "COUNTER" /\ cnt' = [c \in Pads |->
          [cnt[c] EXCEPT !.n = 0, !.edges = IF Level(c) # cnt[c].last THEN 1 ELSE 0]]
    /\ UNCHANGED <<line, shared, pad, adc, servo, tc4, bench, il, sr, g_int_flags, g_il_snap, pc>>

(* Selecting a pad without a role is like selecting none.                  *)
bench_select(c) ==
    /\ g_mode \in {"SERVO", "COUNTER"} /\ bench.sel # c
    /\ bench' = [bench EXCEPT !.sel = IF bench_role(g_mode, c) = "none" THEN NoFile ELSE c]
    /\ UNCHANGED <<line, shared, pad, adc, servo, tc4, cnt, il, sr, g_int_flags, g_il_snap, pc>>

bench_sel_role ==
    IF g_mode \in {"SERVO", "COUNTER"} /\ bench.sel # NoFile THEN bench_role(g_mode, bench.sel) ELSE "none"

bench_gpio_out(v) ==
    /\ bench_sel_role \in {"gpo", "oc", "oc_pu"}
    /\ pad' = [pad EXCEPT ![bench.sel] =
                  CASE bench_sel_role = "gpo" -> [@ EXCEPT !.out = v]
                    [] bench_sel_role = "oc" /\ v -> Input(@)
                    [] bench_sel_role = "oc_pu" /\ v -> PullUp
                    [] OTHER -> Drive(FALSE)]
    /\ UNCHANGED <<line, shared, timers, il, sr, g_int_flags, g_il_snap, pc>>

bench_adc_request ==
    /\ bench_sel_role = "adc"
    /\ bench' = [bench EXCEPT !.pending = TRUE]
    /\ UNCHANGED <<line, shared, pad, adc, servo, tc4, cnt, il, sr, g_int_flags, g_il_snap, pc>>

(* The DAC registers are there in ADC mode, in MIXED with a dac pad, and   *)
(* on the bench when A0 has that role.  In ADC mode TC3 keeps running.     *)
DacOpen == \/ g_mode = "ADC"
           \/ g_mode = "MIXED" /\ mixed_dac_en
           \/ g_mode \in {"SERVO", "COUNTER"} /\ bench_role(g_mode, A0) = "dac"

DacOwnsTc3(any) ==
    /\ DacOpen
    /\ dac' = [dac EXCEPT !.tone = any, !.tc3 = any]
    /\ UNCHANGED <<g_mode, g_offline, switches, regs, line, pad, timers, il, sr, g_int_flags, g_il_snap, pc>>

dac_apply(any) ==
    /\ DacOpen
    /\ dac' = IF g_mode = "ADC" THEN [dac EXCEPT !.tone = TRUE]
              ELSE [dac EXCEPT !.tone = any, !.tc3 = any]
    /\ UNCHANGED <<g_mode, g_offline, switches, regs, line, pad, timers, il, sr, g_int_flags, g_il_snap, pc>>

Master == \/ \E m \in Modes : WriteMode(m)
          \/ \E m \in Guarded : ClearTrip(m)
          \/ \E v \in SUBSET regs.out : pio_reg_write(v)
          \/ \E cs \in SUBSET Chans : ServoEnable(cs)
          \/ \E c \in declared, w \in Widths : ServoWidth(c, w)
          \/ ServoStart \/ ServoStop \/ counter_snapshot
          \/ \E c \in Pads : bench_select(c)
          \/ \E v \in BOOLEAN : (bench_gpio_out(v) \/ dac_apply(v))
          \/ bench_adc_request

-----------------------------------------------------------------------------
(* TC3: the ADC stream takes the level of its pad.                         *)
adc_isr_service ==
    /\ g_mode = "ADC" /\ dac.tc3 /\ ~dac.follow /\ adc' = line[A1]
    /\ UNCHANGED <<line, shared, pad, servo, tc4, cnt, bench, il, sr, g_int_flags, g_il_snap, pc>>

(* A tone of a given length stops the timer when it ends.                  *)
ToneEnds ==
    /\ dac.tc3 /\ ~dac.follow /\ dac.tone /\ dac.timed
    /\ dac' = [dac EXCEPT !.tone = FALSE, !.timed = FALSE, !.tc3 = FALSE]
    /\ UNCHANGED <<g_mode, g_offline, switches, regs, line, pad, timers, il, sr, g_int_flags, g_il_snap, pc>>

(* TC4 counts to the end of the frame.  A match with CC1 is pending until  *)
(* the interrupt is enabled; the frame boundary is served first.           *)
Dropped(i, pads) ==
    IF i < Cardinality(Times)
    THEN [c \in Pads |-> IF c \in Event(i) THEN [pads[c] EXCEPT !.out = FALSE] ELSE pads[c]]
    ELSE pads        \* an entry of an older schedule, whose pads are low
Raised == [c \in Pads |-> IF c \in servo.enable THEN [pad[c] EXCEPT !.out = TRUE] ELSE pad[c]]

AfterDropShort(i, tc) ==
    IF i + 2 < Cardinality(Times)
    THEN [tc EXCEPT !.idx = i + 1, !.cc1 = EventTime(i + 1), !.flag = FALSE]
    ELSE [tc EXCEPT !.idx = i + 1, !.mc1 = FALSE, !.flag = FALSE]

AfterDrop(i, tc) ==
    IF i + 1 < Cardinality(Times)
    THEN [tc EXCEPT !.idx = i + 1, !.cc1 = EventTime(i + 1), !.flag = FALSE]
    ELSE [tc EXCEPT !.idx = i + 1, !.mc1 = FALSE, !.flag = FALSE]

FrameStart(tc) ==
    IF ~servo.run
    THEN tc4' = [tc EXCEPT !.mc1 = FALSE] /\ UNCHANGED pad
    ELSE IF Times = {} THEN tc4' = [tc EXCEPT !.idx = 0, !.mc1 = FALSE] /\ pad' = Raised
    ELSE IF tc.flag
    THEN tc4' = AfterDrop(0, [tc EXCEPT !.idx = 0, !.mc1 = TRUE]) /\ pad' = Dropped(0, Raised)
    ELSE tc4' = [tc EXCEPT !.idx = 0, !.cc1 = EventTime(0), !.mc1 = TRUE] /\ pad' = Raised

TC4_Handler ==
    /\ tc4.on
    /\ LET tc == [tc4 EXCEPT !.t = (@ + 1) % FRAME,
                             !.flag = @ \/ (tc4.t + 1) % FRAME = tc4.cc1] IN
       IF tc.t = 0 THEN FrameStart(tc)
       ELSE IF tc.flag /\ tc.mc1
       THEN tc4' = AfterDrop(tc.idx, tc) /\ pad' = Dropped(tc.idx, pad)
       ELSE tc4' = tc /\ UNCHANGED pad
    /\ ServoFrame /\ UNCHANGED <<servo, pc>>

TC5_Handler ==
    /\ g_mode = "COUNTER" /\ pc.at # "offline"
    /\ cnt' = [c \in Pads |->
          LET now == Level(c)
              hit == /\ c \in counting /\ now # cnt[c].last
                     /\ EdgeOf(c) \in {IF now THEN 0 ELSE 1, 2}
          IN [cnt[c] EXCEPT !.last = now, !.n = IF hit THEN @ + 1 ELSE @]]
    /\ UNCHANGED <<line, shared, pad, adc, servo, tc4, bench, il, sr, g_int_flags, g_il_snap, pc>>

(* Only the lines that the mode reads: the others can change later.        *)
Heard == CASE g_mode \in Guarded -> {ilcf.in} [] g_mode = "SERVO" -> {D6}
           [] g_mode = "COUNTER" -> {c \in counting : cnt[c].edges < MaxEdges}
           [] OTHER -> {}

LineChanges(c) ==
    /\ c \in Sensed \cap Heard
    /\ line' = [line EXCEPT ![c] = ~@]
    /\ cnt' = IF g_mode = "COUNTER" THEN [cnt EXCEPT ![c].edges = @ + 1] ELSE cnt
    /\ UNCHANGED <<shared, pad, adc, servo, tc4, bench, il, sr, g_int_flags, g_il_snap, pc>>

Timers == adc_isr_service \/ ToneEnds \/ TC4_Handler \/ TC5_Handler

Next == Superloop \/ GoOffline \/ UsbHost \/ Master \/ Timers \/ \E c \in Pads : LineChanges(c)

Spec == Init /\ [][Next]_vars

(* The superloop never stops and calls every tick in each pass, and TC3    *)
(* interrupts it.                                                          *)
FairSpec == /\ Spec
            /\ WF_vars(Superloop) /\ SF_vars(servo_tick)
            /\ WF_vars(adc_isr_service)

-----------------------------------------------------------------------------
(* Every variable stays in its range.                                      *)
TypeOK ==
    /\ g_mode \in Modes /\ g_offline \in BOOLEAN
    /\ pad \in [Pads -> Pad] /\ line \in [Pads -> BOOLEAN]
    /\ dac \in [eoen : BOOLEAN, tone : BOOLEAN, tc3 : BOOLEAN, timed : BOOLEAN, follow : BOOLEAN]
    /\ \A f \in DOMAIN SafeRegs : regs[f] \subseteq Chans
    /\ il \in [Guarded -> [valid : BOOLEAN, tripped : BOOLEAN]]
    /\ g_int_flags \subseteq Guarded
    /\ g_il_snap \in [valid : BOOLEAN, pass : BOOLEAN]
    /\ servo.enable \subseteq declared /\ servo.us \in [Chans -> Widths]
    /\ tc4.t \in 0..(FRAME - 1) /\ tc4.idx \in 0..Cardinality(Widths)
    /\ \A c \in Pads : cnt[c].n \in 0..MaxEdges /\ bench.sel \in Pads \cup {NoFile}

(* Between ticks the INT line is held low by this client exactly while the *)
(* interlock of its mode is tripped: a host that sees INT finds a cause,   *)
(* and a trip is never silent (pio_tick, mixed_tick, the two resets and    *)
(* the two disarms).                                                       *)
IntIsTrip ==
    pc.at = "loop" /\ g_mode \in {"PIO", "MIXED"} =>
        (Driven(pad[D6]) <=> il[g_mode].tripped)

(* While the interlock is tripped there is a freeze-frame to read, and a   *)
(* new trip never finds the frame of an old one (il_snap_capture keeps the *)
(* first, the reset and the arming drop it).                               *)
SnapHeld ==
    pc.at = "loop" /\ g_mode \in Guarded => g_il_snap.valid = il[g_mode].tripped

(* A latched emergency stop keeps the servos off: not running, and no      *)
(* declared pad high, whatever frame or pulse TC4 was in (servo_tick).     *)
EstopHolds ==
    g_mode = "SERVO" /\ servo.latched /\ pc.at # "estop" =>
        ~servo.run /\ \A c \in declared : ~pad[c].out

(* Every pulse ends within its frame: no servo pad is still high when the  *)
(* frame is (servo_build's events and the two interrupts of TC4).          *)
PulseEnds ==
    g_mode = "SERVO" /\ tc4.t = FRAME - 1 => \A c \in declared : ~pad[c].out

(* Offline the mode is halted and no pad is driven, by the port or by the  *)
(* DAC (mode_go_offline), whichever mode it left.                          *)
OfflineSafe ==
    g_offline => /\ g_mode = "IDLE" /\ ~dac.eoen
                 /\ \A c \in Pads : ~pad[c].dir

(* A counter never counts an edge that was not on its line: entering the   *)
(* mode, switching pads to inputs and snapshots add none (counter_enter    *)
(* seeds the last level, TC5_Handler).                                     *)
NoPhantomEdge ==
    g_mode = "COUNTER" => \A c \in counting : cnt[c].n <= cnt[c].edges

(* The timer that samples the ADC runs as long as the mode does, whatever  *)
(* is written to the tone registers that share it (dac_apply).             *)
SamplerRuns == g_mode = "ADC" /\ pc.at # "offline" => dac.tc3 /\ ~dac.follow

(* What the host can see is what happened: the INT line and the freeze frame *)
(* follow the trip, a counter never counts an edge that was not there, and   *)
(* the sampler behind them runs.                                             *)
ReadsTrue == TypeOK /\ IntIsTrip /\ SnapHeld /\ NoPhantomEdge /\ SamplerRuns

(* Outputs are off when they must be: under a latched e-stop, between the    *)
(* pulses of a frame, and offline.                                           *)
OutputsSafe == EstopHolds /\ PulseEnds /\ OfflineSafe

Tripped == g_mode \in Guarded /\ il[g_mode].tripped
Faulty  == g_mode \in Guarded /\ Bad(line[IF g_mode = "ADC" THEN A1 ELSE ilcf.in])

(* An interlock whose line stays bad trips, in any mode: nothing the DAC,  *)
(* the debounce or the host does blinds it (the ticks, adc_isr_service).   *)
FaultTrips == Faulty ~> (Tripped \/ ~Faulty)

(* A trip drives its output to the error level, or is cleared, or the mode *)
(* is left (pio_il_drive_safe, adc_il_drive, the drive of mixed_tick).     *)
TripDrivesSafe == Tripped ~> (~Tripped \/ Level(ilcf.out) = ilcf.err)

(* An emergency stop that stays pulled ends the pulses (servo_tick).       *)
EstopStops ==
    (g_mode = "SERVO" /\ ~line[D6]) ~> (g_mode # "SERVO" \/ line[D6] \/ ~servo.run)

(* Faults are answered, in whatever order mode changes, clears and commands  *)
(* come: a fault trips, a trip drives its output, an e-stop stops the frame. *)
ReactsToFaults == FaultTrips /\ TripDrivesSafe /\ EstopStops
=============================================================================
