------------------------------ MODULE Telegram ------------------------------
(***************************************************************************)
(* The two telegram buffers of the engine as records, and the methods of   *)
(* TelegramBase, Telegram and SendCommand as operators on them.            *)
(*                                                                         *)
(* Of the bytes in a buffer the record keeps the ones the engine reads     *)
(* again: QQ, ZZ and the length NN.  The others (PB, SB, data) are         *)
(* abstracted to the fill level of the buffer, and a CRC to whether the    *)
(* last byte agrees with the CRC rolled over the bytes before it.          *)
(***************************************************************************)
EXTENDS Elf

CONSTANT MAX_DATA_LENGTH   \* 16 in the code

ASSUME MaxDataLengthAssumption == MAX_DATA_LENGTH \in 1 .. 200

OFFSET_QQ   == 0
OFFSET_ZZ   == 1
OFFSET_NN   == 4
OFFSET_DATA == 5
RESPONSE_OFFSET == 1
REQUEST_BUFFER_SIZE  == OFFSET_DATA + MAX_DATA_LENGTH + 1
RESPONSE_BUFFER_SIZE == MAX_DATA_LENGTH + 2

\* TELEGRAM_STATE_TABLE: the states with a positive and with a negative code.
PendingStates ==
  {"waitForSyn", "waitForSend", "waitForRequestData", "waitForRequestAck",
   "waitForResponseData", "waitForResponseAck", "waitForArbitration",
   "waitForArbitration2nd", "waitForCommandAck"}

EndStates ==
  {"endErrorUnexpectedSyn", "endErrorRequestNackReceived",
   "endErrorResponseNackReceived", "endErrorResponseNoAck",
   "endErrorRequestNoAck", "endArbitration", "endCompleted", "endSendFailed"}

is_finished(t) == t.state \in EndStates

-----------------------------------------------------------------------------
(* The header: length and type.                                            *)

\* Mutant: every length is taken as it comes.
get_nn_Unchecked(nn) == nn

\* A length the buffers are not made for is read as zero.
get_nn(nn) == IF nn >= MAX_DATA_LENGTH THEN 0 ELSE nn

get_type(zz) ==
  CASE zz = ESC               -> "UNKNOWN"
    [] zz = BROADCAST_ADDRESS -> "BROADCAST"
    [] is_primary(zz)         -> "PRIMARY_PRIMARY"
    [] OTHER                  -> "PRIMARY_SECONDARY"

\* Mutant: broadcasts are not exempt.
is_ack_expected_Always(zz) == get_type(zz) # "UNKNOWN"

is_ack_expected(zz) == get_type(zz) # "BROADCAST"

is_response_expected(zz) == get_type(zz) = "PRIMARY_SECONDARY"

-----------------------------------------------------------------------------
(* Telegram: what is received from the bus.                                *)

TelegramType ==
  [state : PendingStates \cup EndStates,
   qq : Byte, zz : Byte,
   nn : 0 .. MAX_DATA_LENGTH - 1,       \* what get_nn() returns
   req : Nat,                           \* request_buffer_pos_
   res_nn : 0 .. MAX_DATA_LENGTH - 1,   \* what get_response_nn() returns
   res : Nat]                           \* response_buffer_pos_

\* QQ and ZZ start as ESC "to distinguish from valid primary 0".
NewTelegram ==
  [state |-> "waitForSyn", qq |-> ESC, zz |-> ESC,
   nn |-> 0, req |-> 0, res_nn |-> 0, res |-> 0]

set_state(t, new_state) == [t EXCEPT !.state = new_state]

push_req_data(t, cr) ==
  [t EXCEPT !.qq  = IF t.req = OFFSET_QQ THEN cr ELSE @,
            !.zz  = IF t.req = OFFSET_ZZ THEN cr ELSE @,
            !.nn  = IF t.req = OFFSET_NN THEN get_nn(cr) ELSE @,
            !.req = t.req + 1]

push_response_data(t, cr) ==
  [t EXCEPT !.res_nn = IF t.res = 0 THEN get_nn(cr) ELSE @,
            !.res    = t.res + 1]

\* state_ > waitForSyn || state_ == endCompleted
IsPastSyn(t) ==
  t.state \in (PendingStates \ {"waitForSyn"}) \cup {"endCompleted"}

is_request_complete(t) ==
  /\ IsPastSyn(t)
  /\ t.req > OFFSET_DATA
  /\ t.req = OFFSET_DATA + t.nn + 1

is_response_complete(t) ==
  /\ IsPastSyn(t)
  /\ t.res > RESPONSE_OFFSET
  /\ t.res = RESPONSE_OFFSET + t.res_nn + 1

\* crcMatches: the byte at get_nn() equals the rolling CRC.
is_request_valid(t, crcMatches) == is_request_complete(t) /\ crcMatches

\* Mutant: the CRC of a response is not looked at.
is_response_valid_AnyCrc(t, crcMatches) == is_response_complete(t)

is_response_valid(t, crcMatches) == is_response_complete(t) /\ crcMatches

-----------------------------------------------------------------------------
(* SendCommand: what the node wants to send.                               *)

\* uint8_t read as int8_t, as can_retry(int8_t max_tries) does with max_tries_.
AsInt8(x) == IF x > 127 THEN x - 256 ELSE x

\* SendCommand(qq, zz, command, data) as it leaves prepare_command.
NewCommand(request) ==
  [state |-> "waitForSend", request |-> request, tries_count |-> 0]

can_retry(c, maxTries) == c.tries_count < AsInt8(maxTries)

\* Mutant: the tries are compared but not counted.
CountTry_Forgotten(c) == c.tries_count

\* Every call of can_retry counts a try, whatever it answers.
CountTry(c) == (c.tries_count + 1) % 256

=============================================================================
