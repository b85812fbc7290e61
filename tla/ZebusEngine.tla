---------------------------- MODULE ZebusEngine -----------------------------
(***************************************************************************)
(* The engine of the predecessor zebus, whose class Ebus became that of    *)
(* ebus.  What differs is where escape sequences are decoded: not at the   *)
(* beginning of a call but in pushBuffer, so that every byte, ESC and what *)
(* follows it included, goes through both state machines.  What is the     *)
(* same is taken from EbusHistory, with the variables renamed and an       *)
(* in_esc that is never set.                                               *)
(***************************************************************************)
EXTENDS Telegram

CONSTANTS PrimaryAddress, MaxTries, MaxLockCounter, Commands, ReplySizes,
          Alphabet, CharCountModulus

\* As in Ebus.
ASSUME ZebusAssumption ==
  /\ PrimaryAddress \in Byte /\ MaxTries \in Byte /\ MaxLockCounter \in Byte
  /\ \A request \in Commands : request.zz \in Byte
  /\ ReplySizes \subseteq Nat
  /\ Alphabet \subseteq Byte
  /\ CharCountModulus \in Nat \ {0, 1}

VARIABLES
  lockCounter, charCountSinceLastSyn, state,
  receivingTelegram,
  waitForEscaped,   \* of receivingTelegram, for its two buffers
  activeCommand,
  cmd_tx, resp_tx, queued,   \* as in Ebus
  requests_sent, quiet       \* as in EbusHistory

zebusVars ==
  <<lockCounter, charCountSinceLastSyn, state, receivingTelegram, waitForEscaped,
    activeCommand, cmd_tx, resp_tx, queued, requests_sent, quiet>>

Common == INSTANCE EbusHistory WITH
  lock_counter_ <- lockCounter, char_count_since_last_syn_ <- charCountSinceLastSyn,
  in_esc <- FALSE, state_ <- state, receiving_telegram_ <- receivingTelegram,
  active_command_ <- activeCommand

ZebusInit == Common!HistoryInit /\ waitForEscaped = FALSE

-----------------------------------------------------------------------------
(* The buffers.  t is the receiving telegram, escaped its waitForEscaped.  *)

\* Decoded, an escape sequence is ESC or SYN, at the place after the stored ESC:
\* the next byte overwrites it.
Decode(cr) == IF cr = ESCAPED_ESC THEN ESC ELSE SYN

\* Mutant: the decoded byte takes a place of its own.
pushReqData_Advances(t, escaped, cr) ==
  IF escaped THEN push_req_data(t, Decode(cr)) ELSE push_req_data(t, cr)

pushReqData(t, escaped, cr) ==
  IF escaped THEN [push_req_data(t, Decode(cr)) EXCEPT !.req = t.req]
             ELSE push_req_data(t, cr)

pushRespData(t, escaped, cr) ==
  IF escaped THEN [push_response_data(t, Decode(cr)) EXCEPT !.res = t.res]
             ELSE push_response_data(t, cr)

Push(escaped, cr) == waitForEscaped' = (~escaped /\ cr = ESC)

\* Mutant: a part that ends with an escape sequence is complete at its ESC.
isComplete_AtEsc(isComplete) == isComplete

isComplete(isCompleteButEscaped) == isCompleteButEscaped /\ ~waitForEscaped'

-----------------------------------------------------------------------------
(* The receiving state machine.                                            *)

\* A new Telegram, with its waitForEscaped, replaces a finished one.
CurrentEscaped == waitForEscaped /\ ~is_finished(receivingTelegram)

ReceivePrimary(t, escaped, receivedByte) ==
  /\ t.state = "waitForArbitration" /\ receivedByte # SYN
  /\ Push(escaped, receivedByte)
  /\ receivingTelegram' =
       set_state(pushReqData(t, escaped, receivedByte), "waitForRequestData")

ReceiveRequestData(t, escaped, receivedByte) ==
  /\ t.state = "waitForRequestData" /\ receivedByte # SYN
  /\ Push(escaped, receivedByte)
  /\ LET pushed == pushReqData(t, escaped, receivedByte) IN
     receivingTelegram' =
       IF ~isComplete(is_request_complete(pushed)) THEN pushed
       ELSE set_state(pushed, IF is_ack_expected(pushed.zz) THEN "waitForRequestAck"
                                                            ELSE "endCompleted")

ReceiveResponseData(t, escaped, receivedByte) ==
  /\ t.state = "waitForResponseData" /\ receivedByte # SYN
  /\ Push(escaped, receivedByte)
  /\ LET pushed == pushRespData(t, escaped, receivedByte) IN
     receivingTelegram' =
       IF isComplete(is_response_complete(pushed)) THEN set_state(pushed, "waitForResponseAck")
                                                   ELSE pushed

ReceiveControl(t, escaped, receivedByte) ==
  /\ \/ Common!ReceiveSyn(t, receivedByte)
     \/ t.state = "waitForArbitration" /\ receivedByte = SYN /\ receivingTelegram' = t
     \/ Common!RequestInterrupted(t, receivedByte)
     \/ Common!ReceiveRequestAck(t, receivedByte)
     \/ Common!ResponseInterrupted(t, receivedByte)
     \/ Common!ReceiveResponseAck(t, receivedByte)
  /\ waitForEscaped' = escaped

Receive(t, escaped, receivedByte) ==
  \/ ReceivePrimary(t, escaped, receivedByte)
  \/ ReceiveRequestData(t, escaped, receivedByte)
  \/ ReceiveResponseData(t, escaped, receivedByte)
  \/ ReceiveControl(t, escaped, receivedByte)

-----------------------------------------------------------------------------
CountCharacter(receivedByte) == Common!CountCharacter(receivedByte)

QueueReceivedTelegram == Common!QueueReceivedTelegram

\* A finished command makes room for the one that is dequeued.
Send(dequeued, receivedByte) == Common!Send(Common!CurrentCommand(dequeued), receivedByte)

\* The reply has no upper bound here.
HandleResponse(t, crcMatches, replySize) ==
  IF is_request_valid(t, crcMatches) /\ replySize # 0 THEN "reply" ELSE "nack"

\* Whether the CRC matches, and what the handler returns, is free.
Respond(t) ==
  resp_tx' \in
    CASE Common!IsResponseToUs(t) ->
           {IF is_response_valid(t, crcMatches) THEN "ack_syn" ELSE "nack" : crcMatches \in BOOLEAN}
      [] Common!IsRequestToUs(t) ->
           {HandleResponse(t, crcMatches, size) : crcMatches \in BOOLEAN, size \in ReplySizes}
      [] OTHER -> {"none"}

process_received_char(receivedByte, dequeued) ==
  /\ CountCharacter(receivedByte)
  /\ QueueReceivedTelegram
  /\ Receive(Common!CurrentTelegram, CurrentEscaped, receivedByte)
  /\ Send(dequeued, receivedByte)
  /\ Respond(receivingTelegram')

ZebusNext ==
  \E receivedByte \in Alphabet, dequeued \in Common!Dequeuable :
    /\ process_received_char(receivedByte, dequeued)
    /\ Common!RecordRequests
    /\ Common!RecordQuiet(receivedByte)

ZebusSpec == ZebusInit /\ [][ZebusNext]_zebusVars

-----------------------------------------------------------------------------
(* Properties.                                                             *)

ZebusTypeOK == Common!TypeOK /\ waitForEscaped \in BOOLEAN

\* pushBuffer writes at its position before it compares anything, and writes
\* once more there when it decodes an escape sequence: whatever the bus
\* delivers, that place is within the buffer.
WritesInBounds ==
  /\ receivingTelegram.req <= REQUEST_BUFFER_SIZE
  /\ receivingTelegram.res <= RESPONSE_BUFFER_SIZE
  /\ waitForEscaped => /\ receivingTelegram.req < REQUEST_BUFFER_SIZE
                       /\ receivingTelegram.res < RESPONSE_BUFFER_SIZE

\* The two buffers share one waitForEscaped: an escape sequence that the request
\* has begun is over before an ACK or the first byte of the response comes.
EscapesStayInTheirPart ==
  waitForEscaped =>
    \/ receivingTelegram.state = "waitForRequestData" /\ receivingTelegram.req > 0
    \/ receivingTelegram.state = "waitForResponseData" /\ receivingTelegram.res > 0
    \/ receivingTelegram.state = "endErrorUnexpectedSyn"
    \/ receivingTelegram.state = "endArbitration"

\* What Ebus, EbusHistory and CommandService say of ebus holds here too, although
\* the sending half sees the two bytes of an escape sequence as bytes.
SpeaksOnce == Common!SingleSpeaker

LockIsHonoured == Common!LockHonoured

ImplementsService == Common!ImplementsService

=============================================================================
