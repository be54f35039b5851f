-------------------------------- MODULE Wire --------------------------------
(***************************************************************************)
(* The bus below the messages: the frame codec and the reassembler of      *)
(* src/core/bus_frame.c with its CRC-8, and the receive side of the PIO    *)
(* PHY (src/port/rp2040/phy_pio_rs485.c), an interrupt that moves words    *)
(* from the line into a ring which a task drains with bus_recv.            *)
(*                                                                         *)
(* A word has nine bits: the mark (bit 8, set on the address word alone)   *)
(* and a byte.  The line may damage or lose a word, the ring may be full,  *)
(* and a sender flushes the ring while the reassembler keeps what it has.  *)
(***************************************************************************)
EXTENDS Integers, Sequences, SequencesExt, Bitwise

CONSTANTS
  WireFrames,     \* the frames a peer may send: records dest, src, type, seq, payload
  WireMe,         \* this node's address
  WireMasks,      \* the bit patterns a disturbance flips in a word
  WireRing,       \* words the receive ring holds (RX_RING_SIZE)
  MaxWireFrames,  \* bound: frames sent
  MaxWireFaults   \* bound: disturbances (a word damaged or lost, a flush that drops words)

BUS_ADDR_BROADCAST == 127
BUS_PREAMBLE == 255
BUS_PAYLOAD_MAX == 240

VARIABLES
  promiscuous,  \* a bus monitor (the master's own reassembler) takes every frame
  line,         \* words on the way
  ring,         \* words the interrupt put aside
  acc,          \* bytes of the frame being assembled, <<>> when idle
  outs,         \* frames handed to the caller
  wireSent,     \* history: frames sent
  whole,        \* history: <<n, k>> when words 2..k of frame n were fed undamaged
  wireFaults    \* history: disturbances so far

wireVars == <<promiscuous, line, ring, acc, outs, wireSent, whole, wireFaults>>

-----------------------------------------------------------------------------
(* The CRC (poly 0x2F) and the frame *)

CrcShift(c) == IF c >= 128 THEN (2 * c - 256) ^^ 47 ELSE 2 * c

CrcTable == [x \in 0..255 |-> FoldLeft(LAMBDA c, i : CrcShift(c), x, [i \in 1..8 |-> i])]

bus_crc8_update(c, b) == CrcTable[c ^^ b]

bus_frame_crc(bytes) == FoldLeft(bus_crc8_update, 255, bytes) ^^ 255

\* The bytes of a frame from the destination to the payload, its length clamped
FrameBytes(f) ==
  LET n == IF Len(f.payload) > BUS_PAYLOAD_MAX THEN BUS_PAYLOAD_MAX ELSE Len(f.payload)
  IN  <<f.dest, f.src, f.type, f.seq, n>> \o SubSeq(f.payload, 1, n)

\* The words of frame number n; from and at (frame number, position) are history
bus_frame_encode(f, n) ==
  LET bytes == <<BUS_PREAMBLE>> \o FrameBytes(f) \o <<bus_frame_crc(FrameBytes(f))>>
  IN  [k \in 1..Len(bytes) |-> [mark |-> k = 2, byte |-> bytes[k], from |-> n, at |-> k]]

-----------------------------------------------------------------------------
(* The reassembler *)

addr_is_for_us(d) == promiscuous \/ d = WireMe \/ d = BUS_ADDR_BROADCAST

\* Past the length byte: how many bytes the frame has before its CRC
Expected(a) == 5 + a[5]

\* An address word in the middle of a frame is taken for data
KeepsOn(w) ==
  IF acc = <<>>
  THEN IF w.mark /\ addr_is_for_us(w.byte) THEN <<w.byte>> ELSE <<>>
  ELSE IF Len(acc) = 4 /\ w.byte > BUS_PAYLOAD_MAX THEN <<>>
  ELSE IF Len(acc) >= 5 /\ Len(acc) = Expected(acc) THEN <<>>
  ELSE Append(acc, w.byte)

\* What the reassembler holds after a word, and the frame it completes if any
Keeps(w) ==
  IF w.mark THEN IF addr_is_for_us(w.byte) THEN <<w.byte>> ELSE <<>>
  ELSE IF acc = <<>> \/ (Len(acc) = 4 /\ w.byte > BUS_PAYLOAD_MAX) THEN <<>>
  ELSE IF Len(acc) >= 5 /\ Len(acc) = Expected(acc) THEN <<>>
  ELSE Append(acc, w.byte)

\* The frame is handed up without a look at its CRC
CompletesAny(w) == ~w.mark /\ Len(acc) >= 5 /\ Len(acc) = Expected(acc)

Completes(w) ==
  /\ ~w.mark /\ Len(acc) >= 5 /\ Len(acc) = Expected(acc)
  /\ w.byte = bus_frame_crc(acc)

FrameOf(a) == [dest |-> a[1], src |-> a[2], type |-> a[3], seq |-> a[4], payload |-> SubSeq(a, 6, Len(a))]

bus_asm_feed(w) ==
  /\ acc' = Keeps(w)
  /\ outs' = IF Completes(w) THEN Append(outs, FrameOf(acc)) ELSE outs

\* History: which frame's words were fed whole so far
Follow(w) ==
  whole' = IF w.at = 2 \/ whole = <<w.from, w.at - 1>> THEN <<w.from, w.at>> ELSE <<0, 0>>

-----------------------------------------------------------------------------
(* bus_asm_init and bus_phy_init *)

WireInit ==
  /\ promiscuous \in BOOLEAN
  /\ line = <<>> /\ ring = <<>> /\ acc = <<>>
  /\ outs = <<>> /\ wireSent = <<>> /\ whole = <<0, 0>> /\ wireFaults = 0

\* bus_phy_send_words at the peer that holds the bus: the words go out in order
WireSend(f) ==
  /\ Len(wireSent) < MaxWireFrames /\ line = <<>>
  /\ wireSent' = Append(wireSent, f)
  /\ line' = line \o bus_frame_encode(f, Len(wireSent) + 1)
  /\ UNCHANGED <<promiscuous, ring, acc, outs, whole, wireFaults>>

\* phy_rx_isr: a full ring drops the word (which counts as a disturbance)
phy_rx_isr(w) == ring' = IF Len(ring) < WireRing THEN Append(ring, w) ELSE ring

WordArrives ==
  /\ line # <<>>
  /\ wireFaults' = IF Len(ring) < WireRing THEN wireFaults ELSE wireFaults + 1
  /\ wireFaults' <= MaxWireFaults
  /\ phy_rx_isr(Head(line)) /\ line' = Tail(line)
  /\ UNCHANGED <<promiscuous, acc, outs, wireSent, whole>>

Flip(w, m) ==
  [mark |-> (m >= 256) # w.mark, byte |-> w.byte ^^ (m % 256), from |-> 0, at |-> 0]

\* The line flips bits of a word, or swallows it
WordDisturbed ==
  /\ line # <<>> /\ wireFaults < MaxWireFaults
  /\ wireFaults' = wireFaults + 1 /\ line' = Tail(line)
  /\ Len(ring) < WireRing
  /\ \/ \E m \in WireMasks : phy_rx_isr(Flip(Head(line), m))
     \/ ring' = ring
  /\ UNCHANGED <<promiscuous, acc, outs, wireSent, whole>>

\* bus_recv: pop a word (bus_phy_rx_pop) and feed it
WordPopped ==
  /\ ring # <<>>
  /\ ring' = Tail(ring)
  /\ bus_asm_feed(Head(ring)) /\ Follow(Head(ring))
  /\ UNCHANGED <<promiscuous, line, wireSent, wireFaults>>

\* bus_send of our own frame: bus_phy_rx_flush empties the ring first
WireFlush ==
  /\ ring # <<>> /\ wireFaults < MaxWireFaults
  /\ ring' = <<>> /\ wireFaults' = wireFaults + 1
  /\ UNCHANGED <<promiscuous, line, acc, outs, wireSent, whole>>

WireNext ==
  \/ \E f \in WireFrames : WireSend(f)
  \/ WordArrives \/ WordDisturbed \/ WordPopped \/ WireFlush

-----------------------------------------------------------------------------
\* Every frame the reassembler hands up is one a peer sent, unchanged, and
\* addressed to this node (or taken as a monitor): no single disturbance - a
\* word damaged or missing on the line or lost to a full ring, or a flush in
\* the middle of a frame, which makes the next preamble stand for the CRC -
\* adds up to a frame nobody sent.  (Two disturbances can.)
NoPhantom ==
  \A i \in 1..Len(outs) :
    /\ outs[i] \in {wireSent[n] : n \in 1..Len(wireSent)}
    /\ addr_is_for_us(outs[i].dest)

\* A frame for this node whose words all reached the reassembler undamaged is
\* handed up, whatever stood in the accumulator before its address word: a
\* truncated, damaged or flushed frame never costs the one after it.
IntactDelivered ==
  \A n \in 1..Len(wireSent) :
    (whole = <<n, Len(wireSent[n].payload) + 7>> /\ addr_is_for_us(wireSent[n].dest))
      => outs # <<>> /\ Last(outs) = wireSent[n] /\ acc = <<>>
=============================================================================
