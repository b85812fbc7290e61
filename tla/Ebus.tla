------------------------------- MODULE Ebus --------------------------------
(***************************************************************************)
(* The protocol engine of the component, class Ebus: one call of           *)
(* process_received_char per byte read from the UART.  The bus is open     *)
(* here: any byte may come at any time, in particular bytes that have      *)
(* nothing to do with what this node has sent.  EbusBus closes it.         *)
(*                                                                         *)
(* A call reads and writes two state machines, the telegram being received *)
(* and the command being sent, which see the same byte but do not know of  *)
(* each other.  It may transmit; what it transmitted is the value of       *)
(* cmd_tx and resp_tx in the state it leaves behind.                       *)
(***************************************************************************)
EXTENDS Telegram

CONSTANTS
  PrimaryAddress,     \* primary_address_
  MaxTries,           \* max_tries_, an uint8_t
  MaxLockCounter,     \* max_lock_counter_, an uint8_t
  Commands,           \* the requests other tasks may queue, with their zz
  ReplySizes,         \* the sizes of the replies the handlers may return
  Alphabet,           \* the bytes the UART may deliver
  CharCountModulus    \* 256: char_count_since_last_syn_ is an uint8_t

ASSUME EbusAssumption ==
  /\ PrimaryAddress \in Byte
  /\ MaxTries \in Byte
  /\ MaxLockCounter \in Byte
  /\ \A request \in Commands : request.zz \in Byte
  /\ ReplySizes \subseteq Nat
  /\ Alphabet \subseteq Byte
  /\ CharCountModulus \in Nat \ {0, 1}

VARIABLES
  lock_counter_,
  char_count_since_last_syn_,
  in_esc,
  state_,               \* EbusState
  receiving_telegram_,
  active_command_,
  cmd_tx,     \* what the last call sent for active_command_
  resp_tx,    \* what it sent in answer to receiving_telegram_
  queued      \* whether it called queue_received_telegram_

machine == <<lock_counter_, char_count_since_last_syn_, in_esc, state_,
             receiving_telegram_, active_command_>>
vars == <<machine, cmd_tx, resp_tx, queued>>

\* The request of the default SendCommand; also: dequeue_command_ found none.
NoRequest == [zz |-> ESC]

CommandStates ==
  {"waitForSend", "waitForArbitration", "waitForArbitration2nd",
   "waitForCommandAck", "endCompleted", "endSendFailed"}

CommandType ==
  [state : CommandStates, request : Commands \cup {NoRequest},
   tries_count : Byte]

Init ==
  /\ lock_counter_ = 0
  /\ char_count_since_last_syn_ = 0
  /\ in_esc = FALSE
  /\ state_ = "ARBITRATION"
  /\ receiving_telegram_ = NewTelegram
  /\ active_command_ =
       [state |-> "endCompleted", request |-> NoRequest, tries_count |-> 0]
  /\ cmd_tx = "none" /\ resp_tx = "none" /\ queued = FALSE

-----------------------------------------------------------------------------
(* Bytes that end the call early: the first byte of an escape sequence,    *)
(* and a second byte that makes no sense.                                  *)

Silent == cmd_tx' = "none" /\ resp_tx' = "none" /\ queued' = FALSE

EscapeBegins(received_byte) ==
  /\ received_byte = ESC /\ ~in_esc
  /\ in_esc' = TRUE
  /\ Silent
  /\ UNCHANGED <<lock_counter_, char_count_since_last_syn_, state_,
                 receiving_telegram_, active_command_>>

InvalidEscape(received_byte) ==
  /\ in_esc /\ received_byte \notin {ESCAPED_ESC, ESCAPED_SYN}
  /\ in_esc' = FALSE
  /\ receiving_telegram_' = NewTelegram
  /\ Silent
  /\ UNCHANGED <<lock_counter_, char_count_since_last_syn_, state_,
                 active_command_>>

\* All other bytes are processed to the end of the call.
IsSymbol(received_byte) ==
  IF in_esc THEN received_byte \in {ESCAPED_ESC, ESCAPED_SYN}
            ELSE received_byte # ESC

\* The symbol the byte stands for.  The state machines compare received_byte
\* with SYN, ACK, NACK and QQ, and store real_byte.
real_byte(received_byte) ==
  CASE ~in_esc                                -> received_byte
    [] in_esc /\ received_byte = ESCAPED_ESC  -> ESC
    [] in_esc /\ received_byte # ESCAPED_ESC  -> SYN

-----------------------------------------------------------------------------
(* Counting SYNs, handing over the finished telegram, taking a command.    *)

StateAfter(received_byte) ==
  IF received_byte # SYN THEN state_
  ELSE IF char_count_since_last_syn_ = 1 THEN "ARBITRATION" ELSE "NORMAL"

\* Mutants: the lock runs down on every SYN; it runs down below zero.
LockAfter_AnySyn(received_byte) ==
  IF received_byte = SYN /\ lock_counter_ > 0 THEN lock_counter_ - 1 ELSE lock_counter_

LockAfter_Unguarded(received_byte) ==
  IF received_byte = SYN /\ StateAfter(received_byte) = "NORMAL"
  THEN lock_counter_ - 1 ELSE lock_counter_

LockAfter(received_byte) ==
  IF received_byte = SYN /\ lock_counter_ > 0 /\ StateAfter(received_byte) = "NORMAL"
  THEN lock_counter_ - 1
  ELSE lock_counter_

CountCharacter(received_byte) ==
  /\ in_esc' = FALSE
  /\ state_' = StateAfter(received_byte)
  /\ char_count_since_last_syn_' =
       IF received_byte = SYN THEN 0
       ELSE (char_count_since_last_syn_ + 1) % CharCountModulus

\* Mutant: only telegrams with a response are handed over.
QueueReceivedTelegram_Responses ==
  queued' = (is_finished(receiving_telegram_) /\ is_response_expected(receiving_telegram_.zz))

QueueReceivedTelegram == queued' = is_finished(receiving_telegram_)

CurrentTelegram ==
  IF is_finished(receiving_telegram_) THEN NewTelegram ELSE receiving_telegram_

\* Mutant: a failed command is not seen as finished.
MayDequeue_Completed == active_command_.state = "endCompleted"

\* dequeue_command_ is called only when the last command is finished.
MayDequeue == is_finished(active_command_)

\* dequeued: what dequeue_command_ yields, if it is called.
CurrentCommand(dequeued) ==
  IF MayDequeue /\ dequeued # NoRequest THEN NewCommand(dequeued)
                                        ELSE active_command_

-----------------------------------------------------------------------------
(* The receiving state machine.                                            *)

\* The telegram in the given state, if that is where the machine is.
InState(t, state) == t.state = state

ReceiveSyn(t, received_byte) ==
  /\ InState(t, "waitForSyn")
  /\ receiving_telegram_' =
       IF received_byte = SYN THEN set_state(t, "waitForArbitration") ELSE t

ReceivePrimary(t, received_byte) ==
  /\ InState(t, "waitForArbitration")
  /\ receiving_telegram_' =
       IF received_byte = SYN THEN t
       ELSE set_state(push_req_data(t, real_byte(received_byte)), "waitForRequestData")

RequestInterrupted(t, received_byte) ==
  /\ InState(t, "waitForRequestData") /\ received_byte = SYN
  /\ receiving_telegram_' =
       set_state(t, IF t.zz = ESC THEN "endArbitration" ELSE "endErrorUnexpectedSyn")

ReceiveRequestData(t, received_byte) ==
  /\ InState(t, "waitForRequestData") /\ received_byte # SYN
  /\ LET pushed == push_req_data(t, real_byte(received_byte)) IN
     receiving_telegram_' =
       IF ~is_request_complete(pushed) THEN pushed
       ELSE set_state(pushed, IF is_ack_expected(pushed.zz) THEN "waitForRequestAck"
                                                            ELSE "endCompleted")

ReceiveRequestAck(t, received_byte) ==
  /\ InState(t, "waitForRequestAck")
  /\ receiving_telegram_' = set_state(t,
       CASE received_byte = ACK /\ is_response_expected(t.zz)  -> "waitForResponseData"
         [] received_byte = ACK /\ ~is_response_expected(t.zz) -> "endCompleted"
         [] received_byte = NACK -> "endErrorRequestNackReceived"
         [] OTHER                -> "endErrorRequestNoAck")

ResponseInterrupted(t, received_byte) ==
  /\ InState(t, "waitForResponseData") /\ received_byte = SYN
  /\ receiving_telegram_' = set_state(t, "endErrorUnexpectedSyn")

ReceiveResponseData(t, received_byte) ==
  /\ InState(t, "waitForResponseData") /\ received_byte # SYN
  /\ LET pushed == push_response_data(t, real_byte(received_byte)) IN
     receiving_telegram_' =
       IF is_response_complete(pushed) THEN set_state(pushed, "waitForResponseAck")
                                       ELSE pushed

\* Mutant: whatever follows the response completes the telegram.
ReceiveResponseAck_AnyByte(t, received_byte) ==
  /\ InState(t, "waitForResponseAck")
  /\ receiving_telegram_' = set_state(t, "endCompleted")

ReceiveResponseAck(t, received_byte) ==
  /\ InState(t, "waitForResponseAck")
  /\ receiving_telegram_' = set_state(t,
       CASE received_byte = ACK  -> "endCompleted"
         [] received_byte = NACK -> "endErrorResponseNackReceived"
         [] OTHER                -> "endErrorResponseNoAck")

Receive(t, received_byte) ==
  \/ ReceiveSyn(t, received_byte)
  \/ ReceivePrimary(t, received_byte)
  \/ RequestInterrupted(t, received_byte)
  \/ ReceiveRequestData(t, received_byte)
  \/ ReceiveRequestAck(t, received_byte)
  \/ ResponseInterrupted(t, received_byte)
  \/ ReceiveResponseData(t, received_byte)
  \/ ReceiveResponseAck(t, received_byte)

-----------------------------------------------------------------------------
(* The sending state machine.  Its QQ is always PrimaryAddress.            *)

\* The command stays where it is, and so does the lock but for this byte.
CommandWaits(c, received_byte) ==
  /\ active_command_' = c
  /\ lock_counter_' = LockAfter(received_byte)
  /\ cmd_tx' = "none"

\* Mutant: the command starts on any byte, not on SYN only.
MaySend_AnyByte(received_byte) ==
  StateAfter(received_byte) = "NORMAL" /\ LockAfter(received_byte) = 0

MaySend(received_byte) ==
  /\ received_byte = SYN
  /\ StateAfter(received_byte) = "NORMAL"
  /\ LockAfter(received_byte) = 0

StartArbitration(c, received_byte) ==
  /\ c.state = "waitForSend" /\ MaySend(received_byte)
  /\ active_command_' = set_state(c, "waitForArbitration")
  /\ lock_counter_' = LockAfter(received_byte)
  /\ cmd_tx' = "qq"

RepeatArbitration(c, received_byte) ==
  /\ c.state = "waitForArbitration2nd" /\ received_byte = SYN
  /\ active_command_' = c
  /\ lock_counter_' = LockAfter(received_byte)
  /\ cmd_tx' = "qq"

IsEcho(received_byte) == received_byte = PrimaryAddress

Contends(c, received_byte) ==
  \/ c.state = "waitForArbitration"
  \/ c.state = "waitForArbitration2nd" /\ received_byte # SYN

\* Mutant: a broadcast waits for an ACK like any other request.
WinArbitration_AlwaysAcked(c, received_byte) ==
  /\ Contends(c, received_byte) /\ IsEcho(received_byte)
  /\ cmd_tx' = "request"
  /\ active_command_' = set_state(c, "waitForCommandAck")
  /\ lock_counter_' = LockAfter(received_byte)

WinArbitration(c, received_byte) ==
  /\ Contends(c, received_byte) /\ IsEcho(received_byte)
  /\ cmd_tx' = "request"
  /\ IF is_ack_expected(c.request.zz)
     THEN /\ active_command_' = set_state(c, "waitForCommandAck")
          /\ lock_counter_' = LockAfter(received_byte)
     ELSE /\ active_command_' = set_state(c, "endCompleted")
          /\ lock_counter_' = MaxLockCounter

\* Lost to an address of the same priority class: there is a second round.
Eligible(c, received_byte) ==
  /\ c.state = "waitForArbitration" /\ ~IsEcho(received_byte)
  /\ get_priority_class(received_byte) = get_priority_class(PrimaryAddress)

EnterSecondRound(c, received_byte) ==
  /\ Eligible(c, received_byte)
  /\ active_command_' = set_state(c, "waitForArbitration2nd")
  /\ lock_counter_' = LockAfter(received_byte)
  /\ cmd_tx' = "none"

\* Try again later if retries are left.
RetryOrFail(c, received_byte) ==
  /\ active_command_' =
       [c EXCEPT !.state = IF can_retry(c, MaxTries) THEN "waitForSend"
                                                     ELSE "endSendFailed",
                 !.tries_count = CountTry(c)]
  /\ lock_counter_' = LockAfter(received_byte)
  /\ cmd_tx' = "none"

LoseArbitration(c, received_byte) ==
  /\ Contends(c, received_byte) /\ ~IsEcho(received_byte)
  /\ ~Eligible(c, received_byte)
  /\ RetryOrFail(c, received_byte)

\* Mutant: every byte but SYN is taken for the ACK.
CommandAcknowledged_AnyByte(c, received_byte) ==
  /\ c.state = "waitForCommandAck" /\ received_byte # SYN
  /\ active_command_' = set_state(c, "endCompleted")
  /\ lock_counter_' = MaxLockCounter
  /\ cmd_tx' = "none"

CommandAcknowledged(c, received_byte) ==
  /\ c.state = "waitForCommandAck" /\ received_byte = ACK
  /\ active_command_' = set_state(c, "endCompleted")
  /\ lock_counter_' = MaxLockCounter
  /\ cmd_tx' = "none"

\* "timeout waiting for ACK signaled by AUTO-SYN"
CommandTimedOut(c, received_byte) ==
  /\ c.state = "waitForCommandAck" /\ received_byte = SYN
  /\ RetryOrFail(c, received_byte)

IgnoresByte(c, received_byte) ==
  \/ is_finished(c)
  \/ c.state = "waitForSend" /\ ~MaySend(received_byte)
  \/ c.state = "waitForCommandAck" /\ received_byte \notin {ACK, SYN}

Send(c, received_byte) ==
  \/ IgnoresByte(c, received_byte) /\ CommandWaits(c, received_byte)
  \/ StartArbitration(c, received_byte)
  \/ RepeatArbitration(c, received_byte)
  \/ WinArbitration(c, received_byte)
  \/ EnterSecondRound(c, received_byte)
  \/ LoseArbitration(c, received_byte)
  \/ CommandAcknowledged(c, received_byte)
  \/ CommandTimedOut(c, received_byte)

-----------------------------------------------------------------------------
(* Answers: to the response to our own request, and to requests to us.     *)
(* t is the telegram after the byte was received.                          *)

\* Mutants: responses to everybody are answered; requests to us as a primary
\* are, instead of those to us as a secondary.
IsResponseToUs_Anybody(t) == t.state = "waitForResponseAck"

IsRequestToUs_AsPrimary(t) ==
  t.state = "waitForRequestAck" /\ t.zz = PrimaryAddress

IsResponseToUs(t) ==
  t.state = "waitForResponseAck" /\ t.qq = PrimaryAddress

IsRequestToUs(t) ==
  t.state = "waitForRequestAck" /\ t.zz = to_secondary(PrimaryAddress)

\* reply_size: the size of the first reply that is not empty, or zero.
HandleResponse(t, crcMatches, reply_size) ==
  IF is_request_valid(t, crcMatches) /\ reply_size \in 1 .. RESPONSE_BUFFER_SIZE
  THEN "reply" ELSE "nack"

Respond(t, crcMatches, reply_size) ==
  resp_tx' = CASE IsResponseToUs(t) ->
                    IF is_response_valid(t, crcMatches) THEN "ack_syn" ELSE "nack"
               [] IsRequestToUs(t) -> HandleResponse(t, crcMatches, reply_size)
               [] OTHER -> "none"

-----------------------------------------------------------------------------
ProcessSymbol(received_byte, crcMatches, dequeued, reply_size) ==
  /\ IsSymbol(received_byte)
  /\ CountCharacter(received_byte)
  /\ QueueReceivedTelegram
  /\ Receive(CurrentTelegram, received_byte)
  /\ Send(CurrentCommand(dequeued), received_byte)
  /\ Respond(receiving_telegram_', crcMatches, reply_size)

process_received_char(received_byte, crcMatches, dequeued, reply_size) ==
  \/ EscapeBegins(received_byte)
  \/ InvalidEscape(received_byte)
  \/ ProcessSymbol(received_byte, crcMatches, dequeued, reply_size)

Dequeuable == IF MayDequeue THEN Commands \cup {NoRequest} ELSE {NoRequest}

Next ==
  \E received_byte \in Alphabet, crcMatches \in BOOLEAN,
     dequeued \in Dequeuable, reply_size \in ReplySizes :
    process_received_char(received_byte, crcMatches, dequeued, reply_size)

Spec == Init /\ [][Next]_vars

-----------------------------------------------------------------------------
(* Properties.                                                             *)

\* Every field holds a value of its C++ type, and the receiving telegram
\* never takes a state that only a command has.
TypeOK ==
  /\ lock_counter_ \in 0 .. MaxLockCounter
  /\ char_count_since_last_syn_ \in 0 .. CharCountModulus - 1
  /\ in_esc \in BOOLEAN
  /\ state_ \in {"NORMAL", "ARBITRATION"}
  /\ receiving_telegram_ \in TelegramType
  /\ receiving_telegram_.state \notin
       {"waitForSend", "waitForArbitration2nd", "waitForCommandAck", "endSendFailed"}
  /\ active_command_ \in CommandType
  /\ cmd_tx \in {"none", "qq", "request"}
  /\ resp_tx \in {"none", "ack_syn", "nack", "reply"}
  /\ queued \in BOOLEAN

\* push_buffer_ writes at its position before it compares anything with the
\* size of the buffer: whatever bytes the bus delivers, the state machine
\* must have left the data states before a buffer is full.
BuffersInBounds ==
  /\ receiving_telegram_.req <= REQUEST_BUFFER_SIZE
  /\ receiving_telegram_.res <= RESPONSE_BUFFER_SIZE

\* The two state machines never both transmit on the same byte: a node that
\* answers as a secondary, or acknowledges a response, is not at the same
\* time contending for the bus or sending a request of its own.
SingleSpeaker == cmd_tx = "none" \/ resp_tx = "none"

=============================================================================
