------------------------------- MODULE Uplink -------------------------------
(***************************************************************************)
(* The controller's way to its host: uplink_supervisor_task with its pumps *)
(* (app/bus_controller/main.c), the registration handshake of              *)
(* core/host_link.c, the WiFi radio and the host at the other end.         *)
(*                                                                         *)
(* One iteration of the supervisor's loop is three steps, Join, Decide and *)
(* a pump, because USB and the radio change between the places where the   *)
(* loop looks at them.  Deadlines are abstracted to choices: a join        *)
(* attempt may time out while it has not succeeded, a forced mode expires  *)
(* some time, and REGISTER is due when nothing is in flight.               *)
(*                                                                         *)
(* A definition marked faulty is a mutant of the one below it.             *)
(***************************************************************************)
EXTENDS Integers, Sequences, FiniteSets

CONSTANTS
    NAp,         \* g_netcfg.n_ap: commissioned access points
    Rounds,      \* 5 in the code: rounds of failed joins before the radio is reset
    Debounce,    \* UPLINK_DEBOUNCE
    RingLen,     \* frames the transmit ring holds
    MaxEnv,      \* bound: USB, access points, link and radio changing
    MaxNoise     \* bound: forced modes, bus events, engine replies, lost datagrams

ASSUME UplinkAssumption ==
    /\ {NAp, Rounds, Debounce, RingLen} \subseteq Nat \ {0}
    /\ {MaxEnv, MaxNoise} \subseteq Nat

VARIABLES
    usb,          \* stdio_usb_connected()
    reach,        \* the access points in range
    link,         \* the radio: "off", "idle", "joining" or "up"
    pc,           \* "join", "decide", "pump"
    fd, sockets,  \* the socket the supervisor holds; the sockets lwIP has open
    joinPending, apIdx, joinFails,
    want, wantN,  \* the debounce of the mode
    mode,         \* g_uplink_mode
    active,       \* g_uplink_active and g_host_connected
    force,        \* g_uplink_force, or "none"
    expired,      \* g_uplink_force_until has passed
    hl,           \* state of the host link
    ring,         \* its transmit ring: frames, and whether a session ended since
    upQ,          \* g_up_q: replies of the engine for the host
    toDev,        \* what the host has answered and the controller has not read
    leaked,       \* a frame of an earlier session was handed to the host
    budget

radioVars == <<usb, reach, link>>
joinVars  == <<fd, sockets, joinPending, apIdx, joinFails>>
modeVars  == <<want, wantN, mode, active, force, expired>>
hlVars    == <<hl, ring, upQ, toDev, leaked>>
vars == <<radioVars, joinVars, modeVars, hlVars, pc, budget>>

Modes == {"STANDALONE", "USB", "WIFI"}
Spend(what) == budget[what] > 0 /\ budget' = [budget EXCEPT ![what] = @ - 1]

Init ==
    /\ usb \in BOOLEAN /\ reach \in SUBSET (1..NAp)
    /\ link = "idle"
    /\ pc = "join"
    /\ fd = FALSE /\ sockets = 0
    /\ joinPending = FALSE /\ apIdx = 1 /\ joinFails = 0
    /\ want = "STANDALONE" /\ wantN = 0
    /\ mode = "STANDALONE" /\ active = FALSE
    /\ force = "none" /\ expired = FALSE
    /\ hl = "BOOT" /\ ring = << >> /\ upQ = << >>
    /\ toDev = << >> /\ leaked = FALSE
    /\ budget = [env |-> MaxEnv, noise |-> MaxNoise]

-----------------------------------------------------------------------------
(* Around the supervisor.                                                  *)

Environment ==
    /\ Spend("env")
    /\ \/ usb' = ~usb /\ UNCHANGED <<reach, link>>
       \/ \E a \in 1..NAp : /\ reach' = (reach \ {a}) \cup ({a} \ reach)
                            /\ UNCHANGED <<usb, link>>
       \/ link = "up" /\ link' = "idle" /\ UNCHANGED <<usb, reach>>
    /\ UNCHANGED <<joinVars, modeVars, hlVars, pc>>

(* The network the radio was told to join is in range and takes it in.     *)
Associate ==
    /\ link = "joining" /\ apIdx \in reach
    /\ link' = "up"
    /\ UNCHANGED <<usb, reach, joinVars, modeVars, hlVars, pc, budget>>

ForceExpires ==
    /\ force # "none" /\ ~expired
    /\ expired' = TRUE
    /\ UNCHANGED <<radioVars, joinVars, want, wantN, mode, active, force, hlVars, pc, budget>>

(* emit_s2m: refused when the ring has no room.                            *)
Emit(r, k) == IF Len(r) < RingLen THEN Append(r, [k |-> k, old |-> FALSE]) ELSE r

(* The bus task tells the host of an event, or a heartbeat is due.         *)
BusEvent ==
    /\ Spend("noise")
    /\ ring' = Emit(ring, "EVENT")
    /\ UNCHANGED <<radioVars, joinVars, modeVars, hl, upQ, toDev, leaked, pc>>

EngineReply ==
    /\ Spend("noise")
    /\ upQ' = Append(upQ, [k |-> "REPLY", old |-> FALSE])
    /\ UNCHANGED <<radioVars, joinVars, modeVars, hl, ring, toDev, leaked, pc>>

(* The host answers a registration with REGISTER_ACK and GET_MANIFEST, and *)
(* the manifest with OPERATIONAL_BEGIN.                                    *)
HostAnswer(k) == CASE k = "REGISTER" -> <<"REGISTER_ACK", "GET_MANIFEST">>
                   [] k = "MANIFEST" -> <<"OPERATIONAL_BEGIN">>
                   [] OTHER -> << >>
DatagramLost ==
    /\ mode = "WIFI" /\ Spend("noise")
    /\ toDev # << >> /\ toDev' = Tail(toDev)
    /\ UNCHANGED <<radioVars, joinVars, modeVars, hl, ring, upQ, leaked, pc>>

-----------------------------------------------------------------------------
(* The WiFi part of the loop: keep the network joined and the socket open. *)
LinkUp == link = "up"
CloseFd == fd' = FALSE /\ sockets' = sockets - (IF fd THEN 1 ELSE 0)
DropFd == fd' = FALSE /\ UNCHANGED sockets                                   \* faulty
CloseDead == CloseFd
PastLast(i) == i + 1                                                         \* faulty
StayOn(i) == i                                                               \* faulty
NextAp(i) == IF i < NAp THEN i + 1 ELSE 1

StartJoin ==
    /\ pc = "join" /\ ~usb /\ ~LinkUp /\ ~joinPending
    /\ CloseDead
    /\ link' = IF link = "off" THEN "off" ELSE "joining"
    /\ joinPending' = TRUE
    /\ pc' = "decide"
    /\ UNCHANGED <<usb, reach, apIdx, joinFails, modeVars, hlVars, budget>>

(* The attempt failed or its ten seconds are over: the next network, and   *)
(* after enough failures a reset of the radio, which may not come back.    *)
JoinFailed ==
    /\ pc = "join" /\ ~usb /\ ~LinkUp /\ joinPending
    /\ CloseDead
    /\ joinPending' = FALSE
    /\ apIdx' = NextAp(apIdx)
    /\ IF joinFails + 1 >= Rounds * NAp
       THEN /\ joinFails' = 0
            /\ \/ link' = "idle" /\ UNCHANGED budget
               \/ Spend("env") /\ link' = "off"
       ELSE /\ joinFails' = joinFails + 1
            /\ link' = IF link = "off" THEN "off" ELSE "idle"
            /\ UNCHANGED budget
    /\ pc' = "decide"
    /\ UNCHANGED <<usb, reach, modeVars, hlVars>>

JoinWaits ==
    /\ pc = "join" /\ ~usb /\ ~LinkUp /\ joinPending
    /\ CloseDead
    /\ pc' = "decide"
    /\ UNCHANGED <<radioVars, joinPending, apIdx, joinFails, modeVars, hlVars, budget>>

Joined ==
    /\ pc = "join" /\ ~usb /\ LinkUp
    /\ joinPending' = FALSE /\ joinFails' = 0
    /\ fd' = TRUE /\ sockets' = sockets + (IF fd THEN 0 ELSE 1)
    /\ pc' = "decide"
    /\ UNCHANGED <<radioVars, apIdx, modeVars, hlVars, budget>>

SkipJoin ==
    /\ pc = "join" /\ usb
    /\ pc' = "decide"
    /\ UNCHANGED <<radioVars, joinVars, modeVars, hlVars, budget>>

-----------------------------------------------------------------------------
(* The mode the loop wants, the hand-over with its debounce.               *)
Available == IF usb THEN "USB" ELSE IF LinkUp /\ fd THEN "WIFI" ELSE "STANDALONE"
StickyForce == force                                                         \* faulty
ForceNow == IF expired THEN "none" ELSE force
Desired == IF ForceNow # "none" THEN ForceNow ELSE Available

(* uplink_enter: a fresh handshake, empty ring and decoder.  Replies in    *)
(* g_up_q stay.                                                            *)
AgedQueue(q) == [i \in DOMAIN q |-> [q[i] EXCEPT !.old = TRUE]]
KeptRing == AgedQueue(ring)                                                  \* faulty
FreshRing == << >>
UplinkEnter(m) ==
    /\ hl' = "BOOT"
    /\ active' = (m # "STANDALONE")
    /\ ring' = IF m # "STANDALONE" THEN Emit(FreshRing, "EVENT") ELSE FreshRing  \* boot banner
    /\ upQ' = AgedQueue(upQ)
    /\ toDev' = << >>
    /\ UNCHANGED leaked

Decide ==
    /\ pc = "decide"
    /\ force' = ForceNow /\ expired' = (expired /\ ForceNow # "none")
    /\ LET n == IF Desired = want THEN wantN + 1 ELSE 1 IN
       IF Desired = mode
       THEN want' = Desired /\ wantN' = 0 /\ UNCHANGED <<mode, active, fd, sockets, hlVars>>
       ELSE IF n < Debounce
       THEN want' = Desired /\ wantN' = n /\ UNCHANGED <<mode, active, fd, sockets, hlVars>>
       ELSE /\ want' = Desired /\ wantN' = 0
            /\ IF mode = "WIFI" THEN CloseFd ELSE UNCHANGED <<fd, sockets>>
            /\ mode' = Desired
            /\ UplinkEnter(Desired)
    /\ pc' = "pump"
    /\ UNCHANGED <<radioVars, joinPending, apIdx, joinFails, budget>>

-----------------------------------------------------------------------------
(* The pumps.  host_link_feed of one frame, the tick, the engine's replies *)
(* and one frame out of the ring.                                          *)
Received(k, r) == IF k = "GET_MANIFEST" THEN Emit(r, "MANIFEST") ELSE r
NextState(k) ==
    CASE k = "REGISTER_ACK" /\ hl = "BOOT" -> "L1_ACKED"
      [] k = "GET_MANIFEST" /\ hl \in {"BOOT", "L1_ACKED"} -> "MANIFEST"
      [] k = "OPERATIONAL_BEGIN" -> "OPERATIONAL"
      [] OTHER -> hl
RegisterOnce == hl = "BOOT"                                                  \* faulty
MustRegister == hl # "OPERATIONAL"
Tick(r) == IF MustRegister /\ r = << >> /\ toDev = << >>
           THEN Emit(r, "REGISTER") ELSE r
Room(r) == IF RingLen - Len(r) < Len(upQ) THEN RingLen - Len(r) ELSE Len(upQ)
WithReplies(r) == r \o SubSeq(upQ, 1, Room(r))

Answered(r, q) == q \o (IF r = << >> THEN << >> ELSE HostAnswer(Head(r).k))
Exchange(r, q, carried) ==
    /\ upQ' = << >>                                   \* what finds no room is lost
    /\ ring' = IF r = << >> THEN r ELSE Tail(r)
    /\ leaked' = (leaked \/ (r # << >> /\ Head(r).old /\ Head(r).k # "REPLY"))
    /\ toDev' = IF carried THEN Answered(r, q) ELSE q

Feed(carried) ==
    IF toDev = << >>
    THEN /\ Exchange(WithReplies(Tick(ring)), toDev, carried)
         /\ UNCHANGED hl
    ELSE /\ hl' = NextState(Head(toDev))
         /\ Exchange(WithReplies(Received(Head(toDev), ring)), Tail(toDev), carried)

UsbPump ==
    /\ pc = "pump" /\ mode = "USB"
    /\ Feed(usb)               \* forced onto USB without a cable, nobody reads
    /\ pc' = "join"
    /\ UNCHANGED <<radioVars, joinVars, modeVars, budget>>

WifiPump ==
    /\ pc = "pump" /\ mode = "WIFI" /\ LinkUp /\ fd
    /\ \/ Feed(TRUE) /\ UNCHANGED budget
       \/ Feed(FALSE) /\ Spend("noise")
    /\ pc' = "join"
    /\ UNCHANGED <<radioVars, joinVars, modeVars>>

(* wifi_pump sees the link gone (or no socket): standalone at once, and    *)
(* the host link keeps its state until the next uplink_enter.              *)
StayActive == UNCHANGED active                                               \* faulty
Inactive == active' = FALSE
WifiDead ==
    /\ pc = "pump" /\ mode = "WIFI" /\ ~(LinkUp /\ fd)
    /\ CloseFd
    /\ mode' = "STANDALONE" /\ Inactive
    /\ want' = "STANDALONE" /\ wantN' = 0
    /\ pc' = "join"
    /\ UNCHANGED <<radioVars, joinPending, apIdx, joinFails, force, expired, hlVars, budget>>

StandalonePump ==
    /\ pc = "pump" /\ mode = "STANDALONE"
    /\ upQ' = << >>
    /\ ring' = IF ring = << >> THEN ring ELSE Tail(ring)
    /\ pc' = "join"
    /\ UNCHANGED <<radioVars, joinVars, modeVars, hl, toDev, leaked, budget>>

(* CMD_BUS_UPLINK_FORCE, handled inside a pump.                            *)
HostForce(m) ==
    /\ pc = "join" /\ mode # "STANDALONE"
    /\ Spend("noise")
    /\ force' = m /\ expired' = FALSE
    /\ UNCHANGED <<radioVars, joinVars, want, wantN, mode, active, hlVars, pc>>

-----------------------------------------------------------------------------
Supervisor == StartJoin \/ JoinFailed \/ JoinWaits \/ Joined \/ SkipJoin \/ Decide
              \/ UsbPump \/ WifiPump \/ WifiDead \/ StandalonePump

Next == Supervisor \/ Environment \/ Associate \/ ForceExpires \/ BusEvent \/ EngineReply
        \/ DatagramLost \/ \E m \in Modes : HostForce(m)

Spec == Init /\ [][Next]_vars

(* The supervisor's task is scheduled, its join attempts end, time passes, *)
(* and a network in range that is tried again and again takes the radio in. *)
FairSpec ==
    /\ Spec
    /\ WF_vars(Supervisor) /\ SF_vars(JoinFailed) /\ WF_vars(ForceExpires)
    /\ SF_vars(Associate)

-----------------------------------------------------------------------------
Kinds == {"EVENT", "REPLY", "REGISTER", "MANIFEST"}
Frame == [k : Kinds, old : BOOLEAN]
TypeOK ==
    /\ usb \in BOOLEAN /\ reach \subseteq 1..NAp /\ link \in {"off", "idle", "joining", "up"}
    /\ pc \in {"join", "decide", "pump"} /\ fd \in BOOLEAN /\ sockets \in Nat
    /\ joinPending \in BOOLEAN /\ apIdx \in 1..NAp /\ joinFails \in 0..(Rounds * NAp - 1)
    /\ want \in Modes /\ wantN \in 0..(Debounce - 1) /\ mode \in Modes /\ active \in BOOLEAN
    /\ force \in Modes \cup {"none"} /\ expired \in BOOLEAN
    /\ hl \in {"BOOT", "L1_ACKED", "MANIFEST", "OPERATIONAL"}
    /\ ring \in Seq(Frame) /\ Len(ring) <= RingLen /\ upQ \in Seq(Frame)
    /\ leaked \in BOOLEAN

(* A session starts clean: after uplink_enter the host is sent nothing     *)
(* that the controller put into its ring for an earlier host (replies of   *)
(* the engine aside, which wait in g_up_q across the hand-over).           *)
SessionClean == ~leaked

(* lwIP has exactly the sockets the supervisor knows of, through every     *)
(* order of lost links, hand-overs and re-joins.                           *)
NoSocketLeak == sockets = (IF fd THEN 1 ELSE 0)

(* The flags that let tasks talk to a host agree with the mode whenever    *)
(* the loop starts over.                                                   *)
ActiveIsAttached == pc = "join" => active = (mode # "STANDALONE")

(* A session starts with nothing of the one before, one socket at most is    *)
(* open, and the bus engine is told of an uplink exactly when there is one.  *)
SessionSound == TypeOK /\ SessionClean /\ NoSocketLeak /\ ActiveIsAttached

(* Once USB stays out and a network stays in range, the controller gets    *)
(* onto WiFi: the attempts rotate over all networks, and a radio that does *)
(* not come back from a reset is reset again.                              *)
JoinsEventually ==
    [](<>(usb \/ reach = {} \/ force # "none" \/ mode = "WIFI"))

(* An uplink that stays up reaches OPERATIONAL although frames of the      *)
(* handshake are lost: REGISTER is repeated until then.                    *)
HandshakeCompletes ==
    [](<>(mode = "STANDALONE" \/ force # "none" \/ hl = "OPERATIONAL"))

(* A forced mode ends.                                                     *)
ForceEnds == force # "none" ~> force = "none"

(* The link settles: the handshake completes while the host is there, and a  *)
(* forced mode ends.                                                         *)
LinkSettles == HandshakeCompletes /\ ForceEnds
=============================================================================
