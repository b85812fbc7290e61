------------------------------- MODULE Codec --------------------------------
(***************************************************************************)
(* One part of a telegram, from the data that is to be sent to the bytes   *)
(* that are read from the buffer of another node: escaping, lengths and    *)
(* the CRC itself, in ebus and in its predecessor zebus, which decodes     *)
(* escape sequences in pushBuffer.  Both nodes run the same component.     *)
(* On the way one byte may be corrupted.                                   *)
(*                                                                         *)
(* The state machines around the buffers are in Ebus and ZebusEngine.      *)
(***************************************************************************)
EXTENDS Telegram, Escaping

CONSTANTS
  Payloads,    \* the data of requests
  Replies,     \* the data of replies
  Primary,     \* the node that sends requests
  Noise        \* the bits that may be inverted in one byte

\* A length never looks like ESC or SYN: in the code it is 16 at most.
ASSUME CodecAssumption ==
  /\ MAX_DATA_LENGTH < ESC
  /\ Payloads \cup Replies \subseteq Seq(Byte) /\ <<>> \notin Replies
  /\ \A data \in Payloads \cup Replies : Len(data) <= MAX_DATA_LENGTH
  /\ Primary \in Primaries
  /\ Noise \subseteq 1 .. 255

VARIABLES
  component,   \* "ebus" or "zebus"
  part,        \* "request" or "reply"
  node,        \* the primary address of the node the request is for
  data,        \* what is to be sent
  wire,        \* bytes on their way
  buffer,      \* of the receiver: its bytes, its rolling CRC, waitForEscaped
  in_esc,      \* of the receiver, in ebus
  corrupted    \* has a byte been corrupted?

codecVars == <<component, part, node, data, wire, buffer, in_esc, corrupted>>

-----------------------------------------------------------------------------
(* Bits.                                                                   *)

Weight == <<1, 2, 4, 8, 16, 32, 64, 128>>

\* Bit 0 is the last one.
Bit(byte, i) == (byte \div Weight[i + 1]) % 2

xor(a, b) ==
  LET bit(i) == (Bit(a, i) + Bit(b, i)) % 2
  IN  bit(0) + 2 * bit(1) + 4 * bit(2) + 8 * bit(3)
        + 16 * bit(4) + 32 * bit(5) + 64 * bit(6) + 128 * bit(7)

-----------------------------------------------------------------------------
(* The CRC.                                                                *)

\* Mutants: the polynomial is not applied; the bit shifted out stays.
ShiftIn_NoPolynomial(crc, bit) == (crc % 128) * 2 + bit

ShiftIn_Wide(crc, bit) ==
  IF crc >= 128 THEN 256 + xor((crc % 128) * 2 + bit, 155) ELSE crc * 2 + bit

\* One bit of the data; 0x9B where a bit was shifted out.
ShiftIn(crc, bit) ==
  LET shifted == (crc % 128) * 2 + bit
  IN  IF crc >= 128 THEN xor(shifted, 155) ELSE shifted

\* The first bit first.
crc8_calc(byte, crc_init) ==
  LET crc[i \in 0 .. 8] ==
        IF i = 0 THEN crc_init ELSE ShiftIn(crc[i - 1], Bit(byte, 8 - i))
  IN  crc[8]

\* The CRC over bytes, from crc_init on.
crc8_from(crc_init, bytes) ==
  LET crc[n \in 0 .. Len(bytes)] ==
        IF n = 0 THEN crc_init ELSE crc8_calc(bytes[n], crc[n - 1])
  IN  crc[Len(bytes)]

-----------------------------------------------------------------------------
(* The buffers.                                                            *)

EmptyBuffer == [bytes |-> <<>>, crc |-> 0, waitForEscaped |-> FALSE]

\* Where NN is; the data follow it.
NNPosition(p) == IF p = "request" THEN OFFSET_NN ELSE 0

length(b, p) ==
  IF Len(b.bytes) > NNPosition(p) THEN get_nn(b.bytes[NNPosition(p) + 1]) ELSE 0

\* Bytes before this position are part of the CRC.
max_pos(b, p) == NNPosition(p) + 1 + length(b, p)

\* Mutant: the last byte of the data is left out.
Roll_BeforeLast(b, p, cr) ==
  IF Len(b.bytes) + 1 < max_pos(b, p) THEN crc8_calc(cr, b.crc) ELSE b.crc

Roll(b, p, cr) ==
  IF Len(b.bytes) < max_pos(b, p) THEN crc8_calc(cr, b.crc) ELSE b.crc

push_buffer_(b, p, cr) ==
  [b EXCEPT !.bytes = Append(@, cr), !.crc = Roll(b, p, cr)]

\* zebus: ESC is stored, and what follows it is decoded into the place after
\* it, which the next byte overwrites.
pushBuffer(b, p, cr) ==
  IF b.waitForEscaped THEN [b EXCEPT !.crc = Roll(b, p, cr), !.waitForEscaped = FALSE]
  ELSE [push_buffer_(b, p, cr) EXCEPT !.waitForEscaped = (cr = ESC)]

Push(b, cr) ==
  IF component = "ebus" THEN push_buffer_(b, part, cr) ELSE pushBuffer(b, part, cr)

is_complete(b, p) ==
  /\ Len(b.bytes) > NNPosition(p) + 1
  /\ Len(b.bytes) = max_pos(b, p) + 1
  /\ ~b.waitForEscaped

is_valid(b, p) == is_complete(b, p) /\ b.bytes[max_pos(b, p) + 1] = b.crc

DataIn(b, p) == SubSeq(b.bytes, NNPosition(p) + 2, max_pos(b, p))

-----------------------------------------------------------------------------
(* The sender.                                                             *)

\* Mutant: the length that get_nn() admits is put in already here.
RequestSymbols_Clamped(zz, payload) == <<Primary, zz, 7, 4, get_nn(Len(payload))>> \o payload

\* What the constructor pushes before the CRC.
RequestSymbols(zz, payload) == <<Primary, zz, 7, 4, Len(payload)>> \o payload

\* SendCommand(qq, zz, command, data): every byte goes through the buffer, and
\* what is sent is read from it again.
SendCommand(zz, payload) ==
  LET symbols == RequestSymbols(zz, payload)
      body[n \in 0 .. Len(symbols)] ==
        IF n = 0 THEN EmptyBuffer ELSE Push(body[n - 1], symbols[n])
      all == body[Len(symbols)]
  IN  Push(all, all.crc)

\* send_remaining_request_part_: what the buffer holds, but for the CRC.
RequestPart(b) ==
  SubSeq(b.bytes, 1, 4) \o <<length(b, "request")>> \o DataIn(b, "request")

\* Mutant: the length of the reply is left out of the CRC.
ReplyCrc_LengthLeftOut(reply) == crc8_from(0, Escaped(reply))

\* The CRC is that of the length and of the escaped data.
ReplyCrc(reply) == crc8_from(crc8_calc(Len(reply), 0), Escaped(reply))

SentPart == IF part = "request" THEN RequestPart(SendCommand(SecondaryOf(node), data))
                                ELSE <<Len(data)>> \o data

SentCrc == IF part = "request" THEN SendCommand(SecondaryOf(node), data).crc
                               ELSE ReplyCrc(data)

\* Payloads with an escaped symbol would be decoded by zebus's constructor; its
\* own two requests have none.
HasEscaped(bytes) == \E i \in DOMAIN bytes : bytes[i] \in {ESC, SYN}

Init ==
  /\ component \in {"ebus", "zebus"}
  /\ buffer = EmptyBuffer /\ in_esc = FALSE /\ corrupted = FALSE
  /\ \/ /\ part = "request"
        /\ data \in Payloads /\ (component = "zebus" => ~HasEscaped(data))
        /\ node \in IF data = <<>> THEN Primaries \ {Primary} ELSE {3}
     \/ /\ part = "reply"
        /\ data \in Replies
        /\ node = 3
  /\ wire = Escaped(SentPart \o <<SentCrc>>)

-----------------------------------------------------------------------------
(* The receiver.                                                           *)

EscapeBegins ==
  /\ component = "ebus" /\ ~in_esc /\ Head(wire) = ESC
  /\ in_esc' = TRUE
  /\ UNCHANGED buffer

\* Mutant: 0x00 is taken for the escaped SYN, 0x01 for the escaped ESC.
real_byte_Swapped(received_byte) ==
  CASE ~in_esc                              -> received_byte
    [] in_esc /\ received_byte = ESCAPED_ESC -> SYN
    [] in_esc /\ received_byte # ESCAPED_ESC -> ESC

real_byte(received_byte) ==
  CASE ~in_esc                              -> received_byte
    [] in_esc /\ received_byte = ESCAPED_ESC -> ESC
    [] in_esc /\ received_byte # ESCAPED_ESC -> SYN

ReceiveByte ==
  /\ ~(component = "ebus" /\ ~in_esc /\ Head(wire) = ESC)
  /\ in_esc' = FALSE
  /\ buffer' = Push(buffer, real_byte(Head(wire)))

Deliver ==
  /\ wire # <<>> /\ wire' = Tail(wire)
  /\ EscapeBegins \/ ReceiveByte
  /\ UNCHANGED <<component, part, node, data, corrupted>>

\* One byte of the data, or the CRC.  A corrupted length or escape sequence
\* moves the CRC to another place, where it may happen to agree.
Corrupt(bits) ==
  LET byte == xor(Head(wire), bits)
  IN  /\ wire # <<>> /\ ~corrupted /\ ~in_esc /\ ~buffer.waitForEscaped
      /\ Len(buffer.bytes) > NNPosition(part)
      /\ {Head(wire), byte} \cap {ESC, SYN} = {}
      /\ wire' = [wire EXCEPT ![1] = byte] /\ corrupted' = TRUE
      /\ UNCHANGED <<component, part, node, data, buffer, in_esc>>

Next == Deliver \/ \E bits \in Noise : Corrupt(bits)

Spec == Init /\ [][Next]_codecVars

-----------------------------------------------------------------------------
(* Properties.                                                             *)

\* A buffer holds bytes, as many as there is room for.
CodecTypeOK ==
  /\ buffer.bytes \in Seq(Byte) /\ Len(buffer.bytes) <= NNPosition(part) + 2 + MAX_DATA_LENGTH
  /\ buffer.crc \in Byte /\ buffer.waitForEscaped \in BOOLEAN
  /\ wire \in Seq(Byte) /\ in_esc \in BOOLEAN

\* Polynomials over GF(2), as sets of exponents.  The divisor is that of the
\* eBUS: x^8 + x^7 + x^4 + x^3 + x + 1.
Divisor == {8, 7, 4, 3, 1, 0}

\* x^e is taken away, where it is there, with the multiple of the divisor that
\* begins with it.
Eliminate(p, e) ==
  LET multiple == {e - 8 + d : d \in Divisor}
  IN  IF e \in p THEN (p \ multiple) \cup (multiple \ p) ELSE p

\* Long division of a polynomial of a degree less than n + 8.
Remainder(p, n) ==
  LET left[k \in 0 .. n] ==
        IF k = 0 THEN p ELSE Eliminate(left[k - 1], n + 8 - k)
  IN  left[n]

\* The first bit of the first byte has the highest exponent.
Polynomial(bytes) ==
  {e \in 0 .. 8 * Len(bytes) - 1 : Bit(bytes[Len(bytes) - (e \div 8)], e % 8) = 1}

\* The bytes before the CRC that have arrived.
Covered(b, p) ==
  SubSeq(b.bytes, 1, IF Len(b.bytes) < max_pos(b, p) THEN Len(b.bytes) ELSE max_pos(b, p))

\* The CRC that is rolled along, bit by bit, over the bytes before the CRC is
\* the remainder of their polynomial: the whole message counts, in this order.
CrcIsRemainder ==
  component = "ebus" =>
    LET covered == Covered(buffer, part)
    IN  Polynomial(<<buffer.crc>>) = Remainder(Polynomial(covered), 8 * Len(covered))

Arrived == wire = <<>> /\ ~corrupted

\* zebus leaves ESC in the place of an escaped symbol: it reads every SYN as
\* ESC, and takes no part for valid whose CRC is SYN.
Read(symbol) == IF component = "zebus" /\ symbol = SYN THEN ESC ELSE symbol

CrcReadable == Read(SentCrc) = SentCrc

\* A request is complete with its last byte, has the data that were to be sent,
\* escaped symbols included, and is valid where its CRC can be read.
RequestsArrive ==
  Arrived /\ part = "request" /\ Len(data) < MAX_DATA_LENGTH =>
    /\ is_complete(buffer, part)
    /\ is_valid(buffer, part) <=> CrcReadable
    /\ DataIn(buffer, part) = data

\* A request is taken by the node whose secondary address it has, and by no
\* other.  Primary 0xFF is left out: see to_secondary.
RequestsReachTheirNode ==
  Arrived /\ part = "request" /\ node # 255 =>
    \A primary \in Primaries \ {255} :
      buffer.bytes[2] = to_secondary(primary) <=> primary = node

\* A request whose data fill the buffer, a length that get_nn() reads as 0, goes
\* out without them.  Its CRC is still that of the length it was made with, so
\* that no node takes it for a valid request with no data.
TooLongIsRefused ==
  Arrived /\ part = "request" /\ component = "ebus" /\ Len(data) = MAX_DATA_LENGTH =>
    ~is_valid(buffer, part)

\* The CRC of a reply is rolled over the escaped data.  In ebus the receiver's is
\* not, in zebus it leaves out how an escaped symbol at the end goes on.
CrcAgrees ==
  \/ part = "request"
  \/ component = "ebus" /\ ~HasEscaped(data)
  \/ component = "zebus" /\ ~HasEscaped(<<Last(data)>>)

\* A reply arrives complete, with the data that were sent as far as they can be
\* read, and valid where the two ways of rolling the CRC agree.
RepliesArrive ==
  Arrived /\ part = "reply" /\ Len(data) < MAX_DATA_LENGTH =>
    /\ is_complete(buffer, part)
    /\ CrcAgrees => (is_valid(buffer, part) <=> CrcReadable)
    /\ DataIn(buffer, part) = [i \in DOMAIN data |-> Read(data[i])]

\* Whatever bits of one byte are inverted, the receiver does not take a part for
\* valid which was so before.
CorruptionDetected ==
  corrupted /\ CrcAgrees /\ CrcReadable /\ Len(data) < MAX_DATA_LENGTH =>
    ~is_valid(buffer, part)

=============================================================================
