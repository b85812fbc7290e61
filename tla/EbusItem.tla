------------------------------ MODULE EbusItem ------------------------------
(***************************************************************************)
(* The items of the component, EbusSensor and EbusBinarySensor: which      *)
(* received telegrams are theirs, what value they read from them, and what *)
(* they ask for.                                                           *)
(*                                                                         *)
(* A telegram is a record: state, qq, zz, command; data and response, the  *)
(* data bytes of its two parts, and crc and response_crc, the bytes that   *)
(* follow them in the buffers (0 where nothing was received).              *)
(* An item is a record: kind, address, send_poll, command, payload,        *)
(* position; bytes for a sensor, bits, those set in mask_, for a binary    *)
(* sensor.                                                                 *)
(***************************************************************************)
EXTENDS Elf, Sequences, FiniteSetsExt

CONSTANT MAX_DATA_LENGTH

INVALID_REQUEST_BYTE  == -1
INVALID_RESPONSE_BYTE == 255   \* -1 as an uint8_t

\* The byte after the data is the CRC: pos > nn, not >=, is out of range.
ByteAt(data, crc, pos, invalid) ==
  CASE pos > Len(data) \/ pos >= MAX_DATA_LENGTH  -> invalid
    [] pos = Len(data) /\ pos < MAX_DATA_LENGTH   -> crc
    [] pos < Len(data) /\ pos < MAX_DATA_LENGTH   -> data[pos + 1]

get_request_byte(telegram, pos) ==
  ByteAt(telegram.data, telegram.crc, pos, INVALID_REQUEST_BYTE)

get_response_byte(telegram, pos) ==
  ByteAt(telegram.response, telegram.response_crc, pos, INVALID_RESPONSE_BYTE)

\* Up to four bytes, the first one the lowest.
get_response_bytes(telegram, start, length) ==
  MapThenSumSet(LAMBDA i : get_response_byte(telegram, start + i) * 256 ^ i,
                {i \in 0 .. 3 : i < length})

\* Without an address, an item hears every device.
is_mine(item, telegram) ==
  /\ item.address \in {SYN, telegram.zz}
  /\ item.command = telegram.command
  /\ \A i \in DOMAIN item.payload :
       item.payload[i] = get_request_byte(telegram, i - 1)

IsBitSet(byte, bit) == (byte \div 2 ^ bit) % 2 = 1

\* What process_received publishes; the divider of a sensor is left out.
Reading(item, telegram) ==
  CASE item.kind = "sensor" ->
         get_response_bytes(telegram, item.position, item.bytes)
    [] item.kind = "binary_sensor" ->
         \E bit \in item.bits :
           IsBitSet(get_response_bytes(telegram, item.position, 1), bit)

\* Without an address, to SYN.
prepare_command(item) ==
  [zz |-> item.address, command |-> item.command, payload |-> item.payload]

=============================================================================
