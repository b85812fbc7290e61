----------------------------- MODULE EbusProofs -----------------------------
(***************************************************************************)
(* What holds of the engine for every primary address, buffer size, number *)
(* of retries, lock and set of commands, and whatever bytes the bus        *)
(* delivers: types, buffer bounds, and one transmission per byte; and with *)
(* its history, the tries it accounts for, the lock it honours, and that   *)
(* its sending half implements CommandService.                             *)
(***************************************************************************)
EXTENDS EbusHistory, TelegramProofs

\* While a command contends for the bus the receiving half is at the beginning
\* of a telegram, so it has nothing to answer.
ContendsAtStart(c, t) ==
  /\ c.state = "waitForArbitration" => t.state \in BeforeRequest
  /\ c.state = "waitForArbitration2nd" =>
       \/ t.state \in BeforeRequest
       \/ t.state = "waitForRequestData" /\ t.req = 1

IInv ==
  /\ TypeOK
  /\ Fits(receiving_telegram_)
  /\ ContendsAtStart(active_command_, receiving_telegram_)
  /\ SingleSpeaker

-----------------------------------------------------------------------------
(* One byte: the receiving half.                                           *)

\* The symbol a byte stands for is a byte.
LEMMA RealByteTyped ==
  ASSUME NEW received_byte \in Byte
  PROVE  real_byte(received_byte) \in Byte
BY DEF real_byte, Byte, ESC, SYN

\* What every byte starts from: a telegram that is not finished.
LEMMA CurrentTelegramTyped ==
  ASSUME receiving_telegram_ \in TelegramType,
         receiving_telegram_.state \in ReceiverStates,
         Fits(receiving_telegram_)
  PROVE  /\ CurrentTelegram \in TelegramType
         /\ CurrentTelegram.state \in ReceiverStates \ EndStates
         /\ Fits(CurrentTelegram)
BY NewTelegramTyped
   DEF CurrentTelegram, is_finished, ReceiverStates, EndStates

\* Whatever the byte, the receiving half stays typed and within its buffers.
LEMMA ReceiveFits ==
  ASSUME NEW t \in TelegramType, t.state \in ReceiverStates \ EndStates, Fits(t),
         NEW b \in Byte, Receive(t, b)
  PROVE  /\ receiving_telegram_' \in TelegramType
         /\ receiving_telegram_'.state \in ReceiverStates
         /\ Fits(receiving_telegram_')
<1> USE DEF ReceiverStates, InState
<1>0. /\ t.req \in Nat /\ t.res \in Nat /\ t.nn \in Nat /\ t.res_nn \in Nat
      /\ ReceiverStates \subseteq PendingStates \cup EndStates
      /\ real_byte(b) \in Byte
  BY RealByteTyped, MaxDataLengthAssumption DEF TelegramType, PendingStates, EndStates
<1>1. CASE ReceiveSyn(t, b)
  BY <1>0, <1>1, SetStateTyped DEF ReceiveSyn, Fits, OFFSET_DATA, RESPONSE_OFFSET
<1>2. CASE ReceivePrimary(t, b)
  <2> DEFINE p == push_req_data(t, real_byte(b))
  <2>1. CASE b = SYN
    BY <1>2, <2>1 DEF ReceivePrimary
  <2>2. CASE b # SYN
    <3>1. p \in TelegramType /\ p.req = t.req + 1 /\ p.res = t.res
          /\ p.nn \in Nat /\ p.res_nn = t.res_nn
      BY <1>0, PushRequestTyped, MaxDataLengthAssumption DEF TelegramType
    <3>2. receiving_telegram_' = set_state(p, "waitForRequestData")
      BY <1>2, <2>2 DEF ReceivePrimary
    <3> HIDE DEF p
    <3> QED
      BY <1>0, <1>2, <3>1, <3>2, SetStateTyped
         DEF ReceivePrimary, Fits, OFFSET_DATA, RESPONSE_OFFSET, PendingStates, EndStates
  <2> QED
    BY <2>1, <2>2
<1>3. CASE RequestInterrupted(t, b)
  BY <1>0, <1>3, SetStateTyped
     DEF RequestInterrupted, Fits, OFFSET_DATA, RESPONSE_OFFSET, PendingStates, EndStates
<1>4. CASE ReceiveRequestData(t, b)
  <2> DEFINE p == push_req_data(t, real_byte(b))
  <2>1. /\ p \in TelegramType /\ p.state = "waitForRequestData"
        /\ p.req = t.req + 1 /\ p.res = 0
        /\ p.nn \in Nat /\ p.res_nn = t.res_nn
        /\ t.req # OFFSET_NN => p.nn = t.nn
    BY <1>0, <1>4, PushRequestTyped, MaxDataLengthAssumption
       DEF TelegramType, ReceiveRequestData, Fits
  <2>2. p.req >= 1 /\ p.req <= OFFSET_DATA + p.nn + 1
    BY <1>0, <1>4, <2>1 DEF ReceiveRequestData, Fits, OFFSET_DATA, OFFSET_NN
  <2>3. CASE ~is_request_complete(p)
    <3>1. p.req # OFFSET_DATA + p.nn + 1
      BY <2>1, <2>3 DEF is_request_complete, IsPastSyn, PendingStates, OFFSET_DATA
    <3>2. receiving_telegram_' = p
      BY <1>4, <2>3 DEF ReceiveRequestData
    <3> QED
      BY <1>0, <2>1, <2>2, <3>1, <3>2 DEF Fits, OFFSET_DATA, RESPONSE_OFFSET
  <2>4. CASE is_request_complete(p)
    <3>1. PICK s \in {"waitForRequestAck", "endCompleted"} :
            receiving_telegram_' = set_state(p, s)
      BY <1>4, <2>4 DEF ReceiveRequestData
    <3> HIDE DEF p
    <3> QED
      BY <1>0, <2>1, <2>2, <3>1, SetStateTyped
         DEF Fits, OFFSET_DATA, RESPONSE_OFFSET, PendingStates, EndStates
  <2> QED
    BY <2>3, <2>4
<1>5. CASE ReceiveRequestAck(t, b)
  <2>1. PICK s \in {"waitForResponseData", "endCompleted",
                    "endErrorRequestNackReceived", "endErrorRequestNoAck"} :
          receiving_telegram_' = set_state(t, s)
    BY <1>5 DEF ReceiveRequestAck
  <2> QED
    BY <1>0, <1>5, <2>1, SetStateTyped
       DEF ReceiveRequestAck, Fits, OFFSET_DATA, RESPONSE_OFFSET, PendingStates, EndStates
<1>6. CASE ResponseInterrupted(t, b)
  BY <1>0, <1>6, SetStateTyped
     DEF ResponseInterrupted, Fits, OFFSET_DATA, RESPONSE_OFFSET, PendingStates, EndStates
<1>7. CASE ReceiveResponseData(t, b)
  <2> DEFINE p == push_response_data(t, real_byte(b))
  <2>1. /\ p \in TelegramType /\ p.state = "waitForResponseData"
        /\ p.res = t.res + 1 /\ p.req = t.req
        /\ p.nn = t.nn /\ p.res_nn \in Nat
        /\ t.res # 0 => p.res_nn = t.res_nn
    BY <1>0, <1>7, PushResponseTyped, MaxDataLengthAssumption
       DEF TelegramType, ReceiveResponseData
  <2>2. p.res <= RESPONSE_OFFSET + p.res_nn + 1
    BY <1>0, <1>7, <2>1 DEF ReceiveResponseData, Fits, RESPONSE_OFFSET
  <2>3. CASE ~is_response_complete(p)
    <3>1. p.res > RESPONSE_OFFSET => p.res # RESPONSE_OFFSET + p.res_nn + 1
      BY <2>1, <2>3 DEF is_response_complete, IsPastSyn, PendingStates
    <3>2. receiving_telegram_' = p
      BY <1>7, <2>3 DEF ReceiveResponseData
    <3> QED
      BY <1>0, <1>7, <2>1, <2>2, <3>1, <3>2
         DEF Fits, OFFSET_DATA, RESPONSE_OFFSET, ReceiveResponseData
  <2>4. CASE is_response_complete(p)
    <3>1. receiving_telegram_' = set_state(p, "waitForResponseAck")
      BY <1>7, <2>4 DEF ReceiveResponseData
    <3> HIDE DEF p
    <3> QED
      BY <1>0, <1>7, <2>1, <2>2, <3>1, SetStateTyped
         DEF ReceiveResponseData, Fits, OFFSET_DATA, RESPONSE_OFFSET, PendingStates, EndStates
  <2> QED
    BY <2>3, <2>4
<1>8. CASE ReceiveResponseAck(t, b)
  <2>1. PICK s \in {"endCompleted", "endErrorResponseNackReceived",
                    "endErrorResponseNoAck"} :
          receiving_telegram_' = set_state(t, s)
    BY <1>8 DEF ReceiveResponseAck
  <2> QED
    BY <1>0, <1>8, <2>1, SetStateTyped
       DEF ReceiveResponseAck, Fits, OFFSET_DATA, RESPONSE_OFFSET, PendingStates, EndStates
<1> QED
  BY <1>1, <1>2, <1>3, <1>4, <1>5, <1>6, <1>7, <1>8 DEF Receive

-----------------------------------------------------------------------------
(* One byte: the sending half.                                             *)

\* The command and the lock keep their types.
LEMMA SendTyped ==
  ASSUME NEW c \in CommandType, lock_counter_ \in 0 .. MaxLockCounter,
         NEW b \in Byte, Send(c, b)
  PROVE  /\ active_command_' \in CommandType
         /\ lock_counter_' \in 0 .. MaxLockCounter
         /\ cmd_tx' \in {"none", "qq", "request"}
<1>1. LockAfter(b) \in 0 .. MaxLockCounter /\ MaxLockCounter \in 0 .. MaxLockCounter
  BY EbusAssumption DEF LockAfter, Byte
<1>2. \A s \in CommandStates : set_state(c, s) \in CommandType
  BY DEF set_state, CommandType
<1>3. CountTry(c) \in Byte
  BY DEF CountTry, CommandType, Byte
<1>4. ASSUME RetryOrFail(c, b)
      PROVE  active_command_' \in CommandType /\ lock_counter_' \in 0 .. MaxLockCounter
  BY <1>1, <1>3, <1>4 DEF RetryOrFail, CommandType, CommandStates
<1>5. CASE CommandWaits(c, b)
  BY <1>1, <1>5 DEF CommandWaits
<1>6. CASE StartArbitration(c, b) \/ RepeatArbitration(c, b) \/ WinArbitration(c, b)
           \/ EnterSecondRound(c, b) \/ CommandAcknowledged(c, b)
  BY <1>1, <1>2, <1>6
     DEF StartArbitration, RepeatArbitration, WinArbitration, EnterSecondRound,
         CommandAcknowledged, CommandStates
<1>7. CASE LoseArbitration(c, b) \/ CommandTimedOut(c, b)
  BY <1>4, <1>7 DEF LoseArbitration, CommandTimedOut, RetryOrFail
<1> QED
  BY <1>5, <1>6, <1>7 DEF Send

\* The command a byte is processed with has the type of one.
LEMMA CurrentCommandTyped ==
  ASSUME active_command_ \in CommandType, NEW dequeued \in Commands \cup {NoRequest}
  PROVE  CurrentCommand(dequeued) \in CommandType
BY DEF CurrentCommand, NewCommand, CommandType, CommandStates, Byte

-----------------------------------------------------------------------------
(* One byte: both halves.                                                  *)

\* A SYN leaves nothing to answer.
LEMMA NoAnswerToSyn ==
  ASSUME NEW t \in TelegramType, t.state \in ReceiverStates \ EndStates,
         Receive(t, SYN)
  PROVE  receiving_telegram_'.state \in BeforeRequest
<1> USE DEF InState, ReceiverStates, BeforeRequest, EndStates, set_state, TelegramType
<1>1. SYN # ACK /\ SYN # NACK
  BY DEF SYN, ACK, NACK
<1>2. CASE ReceiveSyn(t, SYN) \/ ReceivePrimary(t, SYN)
  BY <1>2 DEF ReceiveSyn, ReceivePrimary
<1>3. CASE RequestInterrupted(t, SYN) \/ ResponseInterrupted(t, SYN)
  BY <1>3 DEF RequestInterrupted, ResponseInterrupted
<1>4. CASE ReceiveRequestAck(t, SYN) \/ ReceiveResponseAck(t, SYN)
  BY <1>1, <1>4 DEF ReceiveRequestAck, ReceiveResponseAck
<1> QED
  BY <1>2, <1>3, <1>4 DEF Receive, ReceiveRequestData, ReceiveResponseData

\* Nor does the first byte after it, QQ.
LEMMA NoAnswerToPrimary ==
  ASSUME NEW t \in TelegramType, t.state \in {"waitForSyn", "waitForArbitration"},
         Fits(t), NEW b \in Byte, Receive(t, b)
  PROVE  \/ receiving_telegram_'.state \in {"waitForSyn", "waitForArbitration"}
         \/ /\ receiving_telegram_'.state = "waitForRequestData"
            /\ receiving_telegram_'.req = 1
<1> DEFINE p == push_req_data(t, real_byte(b))
<1>1. CASE ReceiveSyn(t, b)
  BY <1>1, SetStateTyped DEF ReceiveSyn, PendingStates
<1>2. CASE ReceivePrimary(t, b)
  <2>1. CASE b = SYN
    BY <1>2, <2>1 DEF ReceivePrimary, InState
  <2>2. CASE b # SYN
    <3>1. p \in TelegramType /\ p.req = 1
      BY RealByteTyped, PushRequestTyped DEF Fits, TelegramType
    <3>2. receiving_telegram_' = set_state(p, "waitForRequestData")
      BY <1>2, <2>2 DEF ReceivePrimary
    <3> HIDE DEF p
    <3> QED
      BY <3>1, <3>2, SetStateTyped DEF PendingStates
  <2> QED
    BY <2>1, <2>2
<1> QED
  BY <1>1, <1>2
     DEF Receive, InState, RequestInterrupted, ReceiveRequestData, ReceiveRequestAck,
         ResponseInterrupted, ReceiveResponseData, ReceiveResponseAck

\* Nor does the byte after that: a request has more than two bytes.
LEMMA NoAnswerToSecondByte ==
  ASSUME NEW t \in TelegramType, t.state = "waitForRequestData", t.req = 1,
         NEW b \in Byte, Receive(t, b)
  PROVE  receiving_telegram_'.state \in {"waitForRequestData"} \cup EndStates
<1> DEFINE p == push_req_data(t, real_byte(b))
<1>1. CASE RequestInterrupted(t, b)
  BY <1>1, SetStateTyped DEF RequestInterrupted, EndStates
<1>2. CASE ReceiveRequestData(t, b)
  <2>1. p \in TelegramType /\ p.req = 2 /\ p.state = "waitForRequestData"
    BY RealByteTyped, PushRequestTyped DEF TelegramType
  <2>2. ~is_request_complete(p)
    BY <2>1 DEF is_request_complete, OFFSET_DATA
  <2> QED
    BY <1>2, <2>1, <2>2 DEF ReceiveRequestData
<1> QED
  BY <1>1, <1>2
     DEF Receive, InState, ReceiveSyn, ReceivePrimary, ReceiveRequestAck,
         ResponseInterrupted, ReceiveResponseData, ReceiveResponseAck

AwaitsAck(t) == t.state \in {"waitForRequestAck", "waitForResponseAck"}

\* A command contends only at the beginning of a telegram, and when it sends
\* the received telegram is not one that has to be answered.
LEMMA SendsAtStart ==
  ASSUME NEW c \in CommandType, NEW t \in TelegramType, NEW b \in Byte,
         t.state \in ReceiverStates \ EndStates, Fits(t), ContendsAtStart(c, t),
         Receive(t, b), Send(c, b)
  PROVE  /\ ContendsAtStart(active_command_', receiving_telegram_')
         /\ cmd_tx' # "none" => ~AwaitsAck(receiving_telegram_')
<1> USE DEF ContendsAtStart, AwaitsAck
<1> DEFINE r == receiving_telegram_'
<1>0. \A s \in CommandStates : set_state(c, s).state = s
  BY DEF set_state, CommandType
<1>1. CASE CommandWaits(c, b) /\ IgnoresByte(c, b)
  BY <1>1 DEF CommandWaits, IgnoresByte, is_finished, EndStates
<1>2. CASE StartArbitration(c, b) \/ RepeatArbitration(c, b)
  <2>1. b = SYN
    BY <1>2 DEF StartArbitration, RepeatArbitration, MaySend
  <2>2. r.state \in BeforeRequest
    BY <2>1, NoAnswerToSyn
  <2> QED
    BY <1>0, <1>2, <2>2 DEF BeforeRequest, EndStates, CommandStates
<1>3. CASE WinArbitration(c, b)
  <2>1. active_command_'.state \in {"waitForCommandAck", "endCompleted"}
    BY <1>0, <1>3 DEF WinArbitration, CommandStates
  <2>2. CASE t.state \in {"waitForSyn", "waitForArbitration"}
    BY <2>1, <2>2, NoAnswerToPrimary
  <2>3. CASE t.state = "waitForRequestData" /\ t.req = 1
    BY <2>1, <2>3, NoAnswerToSecondByte DEF EndStates
  <2> QED
    BY <1>3, <2>2, <2>3 DEF WinArbitration, Contends, BeforeRequest
<1>4. CASE EnterSecondRound(c, b)
  <2>1. t.state \in {"waitForSyn", "waitForArbitration"}
    BY <1>4 DEF EnterSecondRound, Eligible, BeforeRequest
  <2>2. active_command_'.state = "waitForArbitration2nd" /\ cmd_tx' = "none"
    BY <1>0, <1>4 DEF EnterSecondRound, CommandStates
  <2> QED
    BY <2>1, <2>2, NoAnswerToPrimary DEF BeforeRequest
<1>5. CASE LoseArbitration(c, b) \/ CommandTimedOut(c, b)
  <2>1. RetryOrFail(c, b)
    BY <1>5 DEF LoseArbitration, CommandTimedOut
  <2>2. active_command_'.state \in {"waitForSend", "endSendFailed"} /\ cmd_tx' = "none"
    BY <2>1 DEF RetryOrFail, CommandType
  <2> QED
    BY <2>2
<1>6. CASE CommandAcknowledged(c, b)
  BY <1>0, <1>6 DEF CommandAcknowledged, CommandStates
<1> QED
  BY <1>1, <1>2, <1>3, <1>4, <1>5, <1>6 DEF Send

-----------------------------------------------------------------------------
(* The inductive invariant and its theorems.                               *)

\* The receiving telegram of TypeOK is in a state of the receiver.
LEMMA TypeOKStates == TypeOK => receiving_telegram_.state \in ReceiverStates
BY DEF TypeOK, TelegramType, ReceiverStates, PendingStates, EndStates

LEMMA InitInv == Init => IInv
<1> SUFFICES ASSUME Init PROVE IInv
  OBVIOUS
<1>1. TypeOK
  <2>1. active_command_ \in CommandType
    BY DEF Init, CommandType, CommandStates, Byte
  <2>2. 0 \in 0 .. MaxLockCounter /\ 0 \in 0 .. CharCountModulus - 1
    BY EbusAssumption DEF Byte
  <2> QED
    BY <2>1, <2>2, NewTelegramTyped DEF Init, TypeOK
<1> QED
  BY <1>1, NewTelegramTyped DEF Init, IInv, ContendsAtStart, SingleSpeaker

\* A byte that ends the call early transmits nothing.
LEMMA EarlyReturnInv ==
  ASSUME IInv, NEW b \in Byte, EscapeBegins(b) \/ InvalidEscape(b)
  PROVE  IInv'
<1>1. CASE EscapeBegins(b)
  BY <1>1 DEF IInv, EscapeBegins, Silent, TypeOK, Fits, ContendsAtStart, SingleSpeaker
<1>2. CASE InvalidEscape(b)
  <2>1. TypeOK'
    BY <1>2, NewTelegramTyped DEF IInv, InvalidEscape, Silent, TypeOK
  <2>2. Fits(receiving_telegram_)'
    BY <1>2, NewTelegramTyped DEF InvalidEscape, Fits
  <2>3. ContendsAtStart(active_command_, receiving_telegram_)'
    BY <1>2, NewTelegramTyped DEF InvalidEscape, ContendsAtStart, BeforeRequest
  <2> QED
    BY <1>2, <2>1, <2>2, <2>3 DEF IInv, InvalidEscape, Silent, SingleSpeaker
<1> QED
  BY <1>1, <1>2

LEMMA ProcessSymbolInv ==
  ASSUME IInv, NEW b \in Byte, NEW crcMatches \in BOOLEAN,
         NEW dequeued \in Commands \cup {NoRequest}, NEW reply_size \in Nat,
         ProcessSymbol(b, crcMatches, dequeued, reply_size)
  PROVE  IInv'
<1> DEFINE t == CurrentTelegram
           c == CurrentCommand(dequeued)
<1>1. /\ t \in TelegramType /\ t.state \in ReceiverStates \ EndStates /\ Fits(t)
      /\ c \in CommandType
  BY CurrentTelegramTyped, CurrentCommandTyped, TypeOKStates DEF IInv, TypeOK
<1>2. Receive(t, b) /\ Send(c, b)
  BY DEF ProcessSymbol
<1>3. ContendsAtStart(c, t)
  BY NewTelegramTyped
     DEF IInv, ContendsAtStart, CurrentCommand, CurrentTelegram, is_finished, NewCommand,
         BeforeRequest
<1> HIDE DEF t, c
<1>4. /\ receiving_telegram_' \in TelegramType
      /\ receiving_telegram_'.state \in ReceiverStates
      /\ Fits(receiving_telegram_')
  BY <1>1, <1>2, ReceiveFits
<1>5. /\ active_command_' \in CommandType
      /\ lock_counter_' \in 0 .. MaxLockCounter
      /\ cmd_tx' \in {"none", "qq", "request"}
  BY <1>1, <1>2, SendTyped DEF IInv, TypeOK
<1>6. /\ ContendsAtStart(active_command_', receiving_telegram_')
      /\ cmd_tx' # "none" => ~AwaitsAck(receiving_telegram_')
  BY <1>1, <1>2, <1>3, SendsAtStart
<1>7. /\ resp_tx' \in {"none", "ack_syn", "nack", "reply"}
      /\ resp_tx' # "none" => AwaitsAck(receiving_telegram_')
  <2> DEFINE r == receiving_telegram_'
  <2>1. Respond(r, crcMatches, reply_size)
    BY DEF ProcessSymbol
  <2>2. CASE IsResponseToUs(r)
    BY <2>1, <2>2 DEF Respond, IsResponseToUs, IsRequestToUs, AwaitsAck
  <2>3. CASE IsRequestToUs(r)
    <3>1. resp_tx' = HandleResponse(r, crcMatches, reply_size)
      BY <2>1, <2>3 DEF Respond, IsResponseToUs, IsRequestToUs
    <3>2. HandleResponse(r, crcMatches, reply_size) \in {"reply", "nack"}
      BY DEF HandleResponse
    <3> QED
      BY <2>3, <3>1, <3>2 DEF IsRequestToUs, AwaitsAck
  <2>4. CASE ~IsResponseToUs(r) /\ ~IsRequestToUs(r)
    BY <2>1, <2>4 DEF Respond
  <2> QED
    BY <2>2, <2>3, <2>4
<1>8. /\ char_count_since_last_syn_' \in 0 .. CharCountModulus - 1
      /\ in_esc' \in BOOLEAN /\ state_' \in {"NORMAL", "ARBITRATION"}
      /\ queued' \in BOOLEAN
  <2>1. char_count_since_last_syn_ \in Nat /\ CharCountModulus \in Nat \ {0}
    BY EbusAssumption DEF IInv, TypeOK
  <2>2. char_count_since_last_syn_' \in 0 .. CharCountModulus - 1
    BY <2>1 DEF ProcessSymbol, CountCharacter
  <2>3. in_esc' \in BOOLEAN /\ state_' \in {"NORMAL", "ARBITRATION"}
    BY DEF ProcessSymbol, CountCharacter, StateAfter, IInv, TypeOK
  <2>4. queued' \in BOOLEAN
    BY DEF ProcessSymbol, QueueReceivedTelegram, is_finished
  <2> QED
    BY <2>2, <2>3, <2>4
<1>9. TypeOK'
  BY <1>4, <1>5, <1>7, <1>8 DEF TypeOK, ReceiverStates, EndStates
<1>10. SingleSpeaker'
  BY <1>6, <1>7 DEF SingleSpeaker
<1> QED
  BY <1>4, <1>6, <1>9, <1>10 DEF IInv, Fits, ContendsAtStart

LEMMA NextInv == IInv /\ [Next]_vars => IInv'
<1> SUFFICES ASSUME IInv, [Next]_vars PROVE IInv'
  OBVIOUS
<1>1. CASE UNCHANGED vars
  BY <1>1 DEF vars, machine, IInv, TypeOK, Fits, ContendsAtStart, SingleSpeaker
<1>2. CASE Next
  <2>1. PICK b \in Alphabet, crcMatches \in BOOLEAN, dequeued \in Dequeuable,
             reply_size \in ReplySizes :
          process_received_char(b, crcMatches, dequeued, reply_size)
    BY <1>2 DEF Next
  <2>2. b \in Byte /\ reply_size \in Nat /\ dequeued \in Commands \cup {NoRequest}
    BY EbusAssumption DEF Dequeuable
  <2> QED
    BY <2>1, <2>2, EarlyReturnInv, ProcessSymbolInv DEF process_received_char
<1> QED
  BY <1>1, <1>2

\* The filling of the buffers follows the state of the machine.
LEMMA FitsInBounds == IInv => BuffersInBounds
BY MaxDataLengthAssumption
   DEF IInv, TypeOK, TelegramType, Fits, BuffersInBounds, OFFSET_DATA, RESPONSE_OFFSET,
       REQUEST_BUFFER_SIZE, RESPONSE_BUFFER_SIZE

THEOREM Invariant == Spec => []IInv
BY InitInv, NextInv, PTL DEF Spec

\* Every field of the engine keeps its type, whatever bytes are received.
THEOREM TypeCorrect == Spec => []TypeOK
<1>1. IInv => TypeOK
  BY DEF IInv
<1> QED
  BY <1>1, Invariant, PTL

\* push_buffer_ never writes behind the end of a buffer.
THEOREM NoBufferOverrun == Spec => []BuffersInBounds
BY FitsInBounds, Invariant, PTL

\* No byte makes both halves of the engine transmit.
THEOREM OneTransmissionPerByte == Spec => []SingleSpeaker
<1>1. IInv => SingleSpeaker
  BY DEF IInv
<1> QED
  BY <1>1, Invariant, PTL

-----------------------------------------------------------------------------
(* The engine with its history.                                            *)

\* What the service mapping needs of a command: only the default command, which
\* is never tried, has the default request, and no tries wrap around.
Taken(c) ==
  /\ c.request = NoRequest => c.state = "endCompleted" /\ c.tries_count = 0
  /\ c.tries_count <= Attempts

\* The lock and the SYNs already counted make up the whole waiting time, and a
\* command that contends has waited.
Waited ==
  /\ lock_counter_ + quiet >= MaxLockCounter
  /\ active_command_.state \in {"waitForArbitration", "waitForArbitration2nd"}
       => quiet = MaxLockCounter

\* What the sending half keeps by itself, whatever the receiving half does.
SendInv ==
  /\ requests_sent \in Nat /\ quiet \in 0 .. MaxLockCounter
  /\ Taken(active_command_)
  /\ TriesAccounted
  /\ Waited
  /\ LockHonoured

HInv == IInv /\ SendInv

-----------------------------------------------------------------------------
(* Tries.                                                                  *)

\* There is at least one attempt, and so few that tries_count_ does not wrap.
LEMMA AttemptsBounded == Attempts \in 1 .. 128 /\ AsInt8(MaxTries) \in Int
BY EbusAssumption DEF Attempts, AsInt8, Byte

\* can_retry says whether an attempt is left after this one has failed.
LEMMA CanRetryMeansAttemptsLeft ==
  ASSUME NEW c \in CommandType, c.tries_count < Attempts
  PROVE  /\ CountTry(c) = c.tries_count + 1
         /\ can_retry(c, MaxTries) <=> c.tries_count + 1 < Attempts
<1>1. c.tries_count \in Nat
  BY DEF CommandType, Byte
<1>2. CountTry(c) = c.tries_count + 1
  BY <1>1, AttemptsBounded DEF CountTry
<1>3. can_retry(c, MaxTries) <=> c.tries_count + 1 < Attempts
  BY <1>1, AttemptsBounded DEF can_retry, Attempts
<1> QED
  BY <1>2, <1>3

-----------------------------------------------------------------------------
(* The service mapping.                                                    *)

Phase(c) == PhaseOf[c.state]

LEMMA PhaseOfStates ==
  ASSUME NEW c \in CommandType
  PROVE  /\ c.state = "waitForSend" => Phase(c) = "waiting"
         /\ c.state \in {"waitForArbitration", "waitForArbitration2nd"}
              <=> Phase(c) = "contending"
         /\ c.state = "waitForCommandAck" <=> Phase(c) = "sent"
         /\ is_finished(c) <=> Phase(c) = "idle"
         /\ c.state = "waitForSend" <=> Phase(c) = "waiting"
BY DEF Phase, PhaseOf, CommandType, CommandStates, is_finished, EndStates

-----------------------------------------------------------------------------
(* What one byte does to the command, told without the byte.               *)

Contending == {"waitForArbitration", "waitForArbitration2nd"}

Keeps == active_command_' = active_command_ /\ cmd_tx' \in {"none", "qq"}

TakesNew ==
  /\ is_finished(active_command_)
  /\ active_command_' \in CommandType
  /\ active_command_'.state \in {"waitForSend", "waitForArbitration"}
  /\ active_command_'.request # NoRequest
  /\ active_command_'.tries_count = 0
  /\ cmd_tx' \in {"none", "qq"}

Starts ==
  /\ active_command_.state = "waitForSend"
  /\ active_command_' = set_state(active_command_, "waitForArbitration")
  /\ cmd_tx' \in {"none", "qq"}

Enters ==
  /\ active_command_.state = "waitForArbitration"
  /\ active_command_' = set_state(active_command_, "waitForArbitration2nd")
  /\ cmd_tx' \in {"none", "qq"}

Puts ==
  /\ active_command_.state \in Contending
  /\ active_command_' = set_state(active_command_,
        IF is_ack_expected(active_command_.request.zz) THEN "waitForCommandAck"
                                                       ELSE "endCompleted")
  /\ cmd_tx' = "request"

Fails ==
  /\ active_command_.state \in Contending \cup {"waitForCommandAck"}
  /\ active_command_' =
       [active_command_ EXCEPT
          !.state = IF can_retry(active_command_, MaxTries) THEN "waitForSend"
                                                            ELSE "endSendFailed",
          !.tries_count = CountTry(active_command_)]
  /\ cmd_tx' \in {"none", "qq"}

Acked ==
  /\ active_command_.state = "waitForCommandAck"
  /\ active_command_' = set_state(active_command_, "endCompleted")
  /\ cmd_tx' \in {"none", "qq"}

\* A command that was just taken can only wait, or start at once.
LEMMA TakenCommandStep ==
  ASSUME NEW dequeued \in Commands, dequeued # NoRequest, NEW b \in Byte,
         is_finished(active_command_), Send(NewCommand(dequeued), b)
  PROVE  TakesNew
<1> DEFINE n == NewCommand(dequeued)
<1>1. /\ n \in CommandType /\ n.state = "waitForSend"
      /\ n.request = dequeued /\ n.tries_count = 0
  BY DEF NewCommand, CommandType, CommandStates, Byte
<1> HIDE DEF n
<1>2. Send(n, b)
  BY DEF n
<1>3. CommandWaits(n, b) \/ StartArbitration(n, b)
  BY <1>1, <1>2
     DEF Send, RepeatArbitration, WinArbitration, Contends, EnterSecondRound, Eligible,
         LoseArbitration, CommandAcknowledged, CommandTimedOut
<1>4. CASE CommandWaits(n, b)
  BY <1>1, <1>4 DEF CommandWaits, TakesNew
<1>5. CASE StartArbitration(n, b)
  BY <1>1, <1>5 DEF StartArbitration, set_state, TakesNew, CommandType, CommandStates
<1> QED
  BY <1>3, <1>4, <1>5

\* All that a byte can do to the command.
LEMMA CommandStep ==
  ASSUME active_command_ \in CommandType,
         NEW b \in Byte, NEW dequeued \in Commands \cup {NoRequest},
         Send(CurrentCommand(dequeued), b)
  PROVE  Keeps \/ TakesNew \/ Starts \/ Enters \/ Puts \/ Fails \/ Acked
<1>1. CASE is_finished(active_command_) /\ dequeued # NoRequest
  BY <1>1, TakenCommandStep DEF CurrentCommand, MayDequeue
<1>2. CASE ~(is_finished(active_command_) /\ dequeued # NoRequest)
  <2> DEFINE c == active_command_
  <2>1. Send(c, b)
    BY <1>2 DEF CurrentCommand, MayDequeue
  <2>2. CASE CommandWaits(c, b) \/ RepeatArbitration(c, b)
    BY <2>2 DEF CommandWaits, RepeatArbitration, Keeps
  <2>3. CASE StartArbitration(c, b)
    BY <2>3 DEF StartArbitration, Starts
  <2>4. CASE WinArbitration(c, b)
    BY <2>4 DEF WinArbitration, Contends, Puts, Contending
  <2>5. CASE EnterSecondRound(c, b)
    BY <2>5 DEF EnterSecondRound, Eligible, Enters
  <2>6. CASE LoseArbitration(c, b) \/ CommandTimedOut(c, b)
    BY <2>6 DEF LoseArbitration, CommandTimedOut, Contends, RetryOrFail, Fails, Contending
  <2>7. CASE CommandAcknowledged(c, b)
    BY <2>7 DEF CommandAcknowledged, Acked
  <2> QED
    BY <2>1, <2>2, <2>3, <2>4, <2>5, <2>6, <2>7 DEF Send
<1> QED
  BY <1>1, <1>2

-----------------------------------------------------------------------------
(* ... is a step of the service, or none.                                  *)

LEMMA ServiceStep ==
  ASSUME active_command_ \in CommandType, requests_sent \in Nat,
         Taken(active_command_), TriesAccounted, RecordRequests,
         Keeps \/ TakesNew \/ Starts \/ Enters \/ Puts \/ Fails \/ Acked
  PROVE  /\ [Service!Next]_Service!serviceVars
         /\ requests_sent' \in Nat
         /\ Taken(active_command_')
<1> DEFINE c == active_command_
           d == active_command_'
<1> USE DEF Contending
<1>0. /\ c.state \in CommandStates /\ c.request \in Commands \cup {NoRequest}
      /\ c.tries_count \in Nat
  BY DEF CommandType, Byte
<1>1. \A s \in CommandStates :
        /\ set_state(c, s) \in CommandType /\ set_state(c, s).state = s
        /\ set_state(c, s).request = c.request
        /\ set_state(c, s).tries_count = c.tries_count
  BY DEF set_state, CommandType
<1>2. CASE Keeps
  <2>1. d = c /\ requests_sent' = requests_sent
    BY <1>2 DEF Keeps, RecordRequests, TakesCommand
  <2> QED
    BY <2>1 DEF Service!serviceVars, OutcomeOf
<1>3. CASE TakesNew
  <2>1. requests_sent' = 0
    BY <1>3 DEF TakesNew, RecordRequests, TakesCommand, is_finished, EndStates
  <2>2. Service!Accept
    BY <1>0, <1>3, <2>1
       DEF Service!Accept, TakesNew, PhaseOf, OutcomeOf, is_finished, EndStates, CommandStates
  <2> QED
    BY <1>3, <2>1, <2>2, AttemptsBounded DEF Service!Next, Taken, TakesNew
<1>4. CASE Starts
  <2>1. requests_sent' = requests_sent
    BY <1>4 DEF Starts, RecordRequests, TakesCommand, is_finished, EndStates
  <2>2. Service!Contend
    BY <1>0, <1>1, <1>4, <2>1
       DEF Service!Contend, Starts, PhaseOf, OutcomeOf, is_finished, EndStates, CommandStates
  <2> QED
    BY <1>1, <1>4, <2>1, <2>2 DEF Service!Next, Taken, Starts, CommandStates
<1>5. CASE Enters
  <2>1. requests_sent' = requests_sent
    BY <1>5 DEF Enters, RecordRequests, TakesCommand, is_finished, EndStates
  <2>2. UNCHANGED Service!serviceVars
    BY <1>0, <1>1, <1>5, <2>1
       DEF Service!serviceVars, Enters, PhaseOf, OutcomeOf, is_finished, EndStates,
           CommandStates
  <2> QED
    BY <1>1, <1>5, <2>1, <2>2 DEF Taken, Enters, CommandStates
<1>6. CASE Puts
  <2>1. requests_sent' = requests_sent + 1
    BY <1>6 DEF Puts, RecordRequests, TakesCommand, is_finished, EndStates
  <2>2. c.request \in Commands /\ c.request # NoRequest
    BY <1>0, <1>6 DEF Puts, Taken
  <2>3. Service!Put
    <3>1. PhaseOf[c.state] = "contending"
      BY <1>6 DEF Puts, PhaseOf
    <3>2. CASE is_ack_expected(c.request.zz)
      <4>1. d = set_state(c, "waitForCommandAck")
        BY <1>6, <3>2 DEF Puts
      <4> QED
        BY <1>1, <1>6, <2>1, <2>2, <3>1, <3>2, <4>1
           DEF Service!Put, Puts, PhaseOf, OutcomeOf, is_finished, EndStates, CommandStates
    <3>3. CASE ~is_ack_expected(c.request.zz)
      <4>1. d = set_state(c, "endCompleted")
        BY <1>6, <3>3 DEF Puts
      <4> QED
        BY <1>1, <1>6, <2>1, <2>2, <3>1, <3>3, <4>1
           DEF Service!Put, Puts, PhaseOf, OutcomeOf, is_finished, EndStates, CommandStates
    <3> QED
      BY <3>2, <3>3
  <2>4. Taken(d)
    BY <1>1, <1>6, <2>2 DEF Taken, Puts, CommandStates
  <2> QED
    BY <2>1, <2>3, <2>4 DEF Service!Next
<1>7. CASE Fails
  <2>1. requests_sent' = requests_sent
    BY <1>7 DEF Fails, RecordRequests, TakesCommand, is_finished, EndStates
  <2>2. c.tries_count < Attempts
    BY <1>0, <1>7 DEF Fails, TriesAccounted, Service!Accounted, PhaseOf
  <2>3. /\ d.tries_count = c.tries_count + 1 /\ d.request = c.request
        /\ d.state = IF c.tries_count + 1 < Attempts THEN "waitForSend" ELSE "endSendFailed"
    BY <1>7, <2>2, CanRetryMeansAttemptsLeft DEF Fails, CommandType
  <2>4. Service!Fail
    BY <1>0, <1>7, <2>1, <2>3
       DEF Service!Fail, Fails, PhaseOf, OutcomeOf, is_finished, EndStates
  <2>5. Taken(d)
    BY <1>0, <1>7, <2>2, <2>3, AttemptsBounded DEF Taken, Fails
  <2> QED
    BY <2>1, <2>4, <2>5 DEF Service!Next
<1>8. CASE Acked
  <2>1. requests_sent' = requests_sent
    BY <1>8 DEF Acked, RecordRequests, TakesCommand, is_finished, EndStates
  <2>2. c.request # NoRequest
    BY <1>8 DEF Acked, Taken
  <2>3. Service!Acknowledge
    BY <1>0, <1>1, <1>8, <2>1, <2>2
       DEF Service!Acknowledge, Acked, PhaseOf, OutcomeOf, is_finished, EndStates,
           CommandStates
  <2> QED
    BY <1>1, <1>8, <2>1, <2>2, <2>3 DEF Service!Next, Taken, Acked, CommandStates
<1> QED
  BY <1>2, <1>3, <1>4, <1>5, <1>6, <1>7, <1>8

\* The bookkeeping of the service survives its steps.
LEMMA AccountedStep ==
  ASSUME active_command_ \in CommandType, requests_sent \in Nat,
         TriesAccounted, [Service!Next]_Service!serviceVars
  PROVE  TriesAccounted'
<1>0. active_command_.tries_count \in Nat /\ Attempts \in 1 .. 128
  BY AttemptsBounded DEF CommandType, Byte
<1> USE DEF TriesAccounted, Service!Accounted
<1>1. CASE UNCHANGED Service!serviceVars
  BY <1>1 DEF Service!serviceVars
<1>2. CASE Service!Accept
  BY <1>0, <1>2 DEF Service!Accept
<1>3. CASE Service!Contend
  BY <1>0, <1>3 DEF Service!Contend
<1>4. CASE Service!Put
  BY <1>0, <1>4 DEF Service!Put
<1>5. CASE Service!Fail
  BY <1>0, <1>5 DEF Service!Fail
<1>6. CASE Service!Acknowledge
  BY <1>0, <1>6 DEF Service!Acknowledge
<1> QED
  BY <1>1, <1>2, <1>3, <1>4, <1>5, <1>6 DEF Service!Next

-----------------------------------------------------------------------------
(* The lock.                                                               *)

\* A SYN that is taken from the lock is counted.
LEMMA QuietStep ==
  ASSUME SendInv, lock_counter_ \in 0 .. MaxLockCounter,
         NEW b \in Byte, RecordQuiet(b),
         b = SYN => IsSymbol(b), state_' = StateAfter(b)
  PROVE  /\ quiet' \in 0 .. MaxLockCounter
         /\ ~CompletesCommand => quiet' >= quiet /\ LockAfter(b) + quiet' >= MaxLockCounter
<1>1. /\ quiet \in 0 .. MaxLockCounter /\ lock_counter_ \in 0 .. MaxLockCounter
      /\ MaxLockCounter \in Nat /\ lock_counter_ + quiet >= MaxLockCounter
  BY EbusAssumption DEF SendInv, Waited, Byte
<1>2. CASE CompletesCommand
  BY <1>1, <1>2 DEF RecordQuiet
<1>3. CASE ~CompletesCommand /\ b = SYN /\ state_' = "NORMAL" /\ quiet < MaxLockCounter
  <2>1. quiet' = quiet + 1
    BY <1>3 DEF RecordQuiet
  <2>2. LockAfter(b) >= lock_counter_ - 1 /\ LockAfter(b) \in Nat
    BY <1>1 DEF LockAfter
  <2> QED
    BY <1>1, <1>3, <2>1, <2>2
<1>4. CASE ~CompletesCommand /\ ~(b = SYN /\ state_' = "NORMAL" /\ quiet < MaxLockCounter)
  <2>1. quiet' = quiet
    BY <1>4 DEF RecordQuiet
  <2>2. quiet = MaxLockCounter \/ LockAfter(b) = lock_counter_
    BY <1>1, <1>4 DEF LockAfter
  <2>3. LockAfter(b) \in Nat
    BY <1>1 DEF LockAfter
  <2> QED
    BY <1>1, <2>1, <2>2, <2>3
<1> QED
  BY <1>2, <1>3, <1>4

\* Once the lock is spent, the whole waiting time has been counted.
LEMMA LockSpent ==
  ASSUME NEW m \in Nat, NEW l \in 0 .. m, NEW q \in 0 .. m, l + q >= m, l = 0
  PROVE  q = m
OBVIOUS

\* While the lock is whole, nothing needs to have been counted.
LEMMA LockWhole ==
  ASSUME NEW m \in Nat, NEW q \in 0 .. m
  PROVE  m + q >= m
OBVIOUS

\* A byte that both halves see keeps the lock.
LEMMA LockStep ==
  ASSUME SendInv, active_command_ \in CommandType, lock_counter_ \in 0 .. MaxLockCounter,
         NEW b \in Byte, NEW dequeued \in Commands \cup {NoRequest},
         Send(CurrentCommand(dequeued), b), RecordQuiet(b),
         b = SYN => IsSymbol(b), state_' = StateAfter(b)
  PROVE  quiet' \in 0 .. MaxLockCounter /\ Waited' /\ LockHonoured'
<1>0. quiet \in 0 .. MaxLockCounter
  BY DEF SendInv
<1>a. MaxLockCounter \in Nat
  BY EbusAssumption DEF Byte
<1> DEFINE c == CurrentCommand(dequeued)
           d == active_command_'
<1>1. Send(c, b)
  OBVIOUS
<1>2. /\ quiet' \in 0 .. MaxLockCounter
      /\ ~CompletesCommand => quiet' >= quiet /\ LockAfter(b) + quiet' >= MaxLockCounter
  BY QuietStep
<1>3. LockAfter(b) \in 0 .. MaxLockCounter
  BY <1>0, <1>a DEF LockAfter
<1>4. c \in CommandType
  BY CurrentCommandTyped
<1>5. c.state \in Contending => quiet = MaxLockCounter
  BY DEF CurrentCommand, NewCommand, SendInv, Waited, Contending
<1>6. ~is_finished(active_command_) => c = active_command_
  BY DEF CurrentCommand, MayDequeue
<1> HIDE DEF c
<1>7. \A s \in CommandStates : set_state(c, s).state = s
  BY <1>4 DEF set_state, CommandType
<1>8. CASE IgnoresByte(c, b) /\ CommandWaits(c, b)
  <2>1. d = c /\ lock_counter_' = LockAfter(b) /\ cmd_tx' = "none"
    BY <1>8 DEF CommandWaits
  <2>2. c.state \notin Contending /\ ~CompletesCommand
    BY <1>6, <1>8, <2>1
       DEF IgnoresByte, is_finished, EndStates, Contending, CompletesCommand
  <2> QED
    BY <1>2, <2>1, <2>2 DEF Waited, LockHonoured, Contending
<1>9. CASE StartArbitration(c, b)
  <2>1. d.state = "waitForArbitration" /\ lock_counter_' = LockAfter(b) /\ LockAfter(b) = 0
    BY <1>7, <1>9 DEF StartArbitration, MaySend, CommandStates
  <2>2. ~CompletesCommand
    BY <2>1 DEF CompletesCommand
  <2>3. quiet' \in 0 .. MaxLockCounter /\ LockAfter(b) + quiet' >= MaxLockCounter
    BY <1>2, <2>2
  <2>4. quiet' = MaxLockCounter
    BY <1>a, <1>3, <2>1, <2>3, LockSpent, Zenon
  <2> QED
    BY <1>a, <1>2, <1>3, <2>1, <2>4 DEF Waited, LockHonoured
<1>10. CASE RepeatArbitration(c, b) \/ EnterSecondRound(c, b)
  <2>1. /\ c.state \in Contending /\ d.state = "waitForArbitration2nd"
        /\ lock_counter_' = LockAfter(b)
    BY <1>7, <1>10
       DEF RepeatArbitration, EnterSecondRound, Eligible, CommandStates, Contending
  <2>2. ~CompletesCommand
    BY <2>1 DEF CompletesCommand
  <2>3. quiet' = MaxLockCounter
    BY <1>0, <1>a, <1>2, <1>5, <2>1, <2>2
  <2> QED
    BY <1>0, <1>a, <1>2, <1>3, <2>1, <2>3 DEF Waited, LockHonoured
<1>11. CASE WinArbitration(c, b) \/ CommandAcknowledged(c, b)
  <2>1. cmd_tx' # "qq"
    BY <1>11 DEF WinArbitration, CommandAcknowledged
  <2>2. CASE d.state = "endCompleted"
    <3>1. lock_counter_' = MaxLockCounter
      BY <1>7, <1>11, <2>2 DEF WinArbitration, CommandAcknowledged, CommandStates
    <3>2. MaxLockCounter + quiet' >= MaxLockCounter
      BY <1>a, <1>2, LockWhole, Zenon
    <3> QED
      BY <1>2, <2>1, <2>2, <3>1, <3>2, Zenon DEF Waited, LockHonoured
  <2>3. CASE d.state # "endCompleted"
    <3>1. d.state = "waitForCommandAck" /\ lock_counter_' = LockAfter(b)
      BY <1>7, <1>11, <2>3 DEF WinArbitration, CommandAcknowledged, CommandStates
    <3> QED
      BY <1>2, <2>1, <2>3, <3>1 DEF Waited, LockHonoured, CompletesCommand
  <2> QED
    BY <2>2, <2>3
<1>12. CASE LoseArbitration(c, b) \/ CommandTimedOut(c, b)
  <2>1. RetryOrFail(c, b)
    BY <1>12 DEF LoseArbitration, CommandTimedOut
  <2>2. /\ d.state \in {"waitForSend", "endSendFailed"}
        /\ lock_counter_' = LockAfter(b) /\ cmd_tx' = "none"
    BY <1>4, <2>1 DEF RetryOrFail, CommandType
  <2> QED
    BY <1>2, <2>2 DEF Waited, LockHonoured, CompletesCommand
<1> QED
  BY <1>1, <1>8, <1>9, <1>10, <1>11, <1>12 DEF Send

\* So all that the sending half keeps by itself is kept, and what it does is a
\* step of the service.
LEMMA SendingStep ==
  ASSUME SendInv, active_command_ \in CommandType, lock_counter_ \in 0 .. MaxLockCounter,
         NEW b \in Byte, NEW dequeued \in Commands \cup {NoRequest},
         Send(CurrentCommand(dequeued), b), RecordRequests, RecordQuiet(b),
         b = SYN => IsSymbol(b), state_' = StateAfter(b)
  PROVE  SendInv' /\ [Service!Next]_Service!serviceVars
<1>1. Keeps \/ TakesNew \/ Starts \/ Enters \/ Puts \/ Fails \/ Acked
  BY CommandStep
<1>2. /\ [Service!Next]_Service!serviceVars
      /\ requests_sent' \in Nat /\ Taken(active_command_')
  BY <1>1, ServiceStep DEF SendInv
<1>3. TriesAccounted'
  BY <1>2, AccountedStep DEF SendInv
<1>4. quiet' \in 0 .. MaxLockCounter /\ Waited' /\ LockHonoured'
  BY LockStep
<1> QED
  BY <1>2, <1>3, <1>4 DEF SendInv, Taken

\* A byte that ends the call early changes nothing of it.
LEMMA SilentStep ==
  ASSUME SendInv, cmd_tx' = "none",
         UNCHANGED <<lock_counter_, active_command_, requests_sent, quiet>>
  PROVE  SendInv' /\ UNCHANGED Service!serviceVars
<1>1. UNCHANGED Service!serviceVars
  BY DEF Service!serviceVars, OutcomeOf
<1>2. TriesAccounted'
  BY <1>1 DEF SendInv, TriesAccounted, Service!Accounted, Service!serviceVars
<1> QED
  BY <1>1, <1>2 DEF SendInv, Taken, Waited, LockHonoured

-----------------------------------------------------------------------------
(* The inductive invariant and its theorems.                               *)

LEMMA HistoryInitInv == HistoryInit => HInv /\ Service!Init
<1> SUFFICES ASSUME HistoryInit PROVE HInv /\ Service!Init
  OBVIOUS
<1>1. IInv
  BY InitInv DEF HistoryInit
<1>2. /\ lock_counter_ = 0 /\ cmd_tx = "none" /\ requests_sent = 0
      /\ quiet = MaxLockCounter /\ MaxLockCounter \in Nat
      /\ active_command_ =
           [state |-> "endCompleted", request |-> NoRequest, tries_count |-> 0]
  BY EbusAssumption DEF HistoryInit, Init, Byte
<1>3. Taken(active_command_) /\ Waited /\ LockHonoured
  BY <1>2, AttemptsBounded DEF Taken, Waited, LockHonoured
<1>4. Service!Init /\ TriesAccounted
  BY <1>2
     DEF Service!Init, TriesAccounted, Service!Accounted, PhaseOf, OutcomeOf, is_finished,
         EndStates
<1> QED
  BY <1>1, <1>2, <1>3, <1>4 DEF HInv, SendInv

LEMMA HistoryNextInv ==
  HInv /\ [HistoryNext]_historyVars => HInv' /\ [Service!Next]_Service!serviceVars
<1> SUFFICES ASSUME HInv, [HistoryNext]_historyVars
             PROVE  HInv' /\ [Service!Next]_Service!serviceVars
  OBVIOUS
<1>0. /\ active_command_ \in CommandType /\ lock_counter_ \in 0 .. MaxLockCounter
      /\ IInv /\ SendInv
  BY DEF HInv, IInv, TypeOK
<1>1. CASE UNCHANGED historyVars
  <2>1. UNCHANGED <<vars, requests_sent, quiet>>
    BY <1>1 DEF historyVars
  <2>2. IInv'
    BY <1>0, <2>1, NextInv
  <2>3. UNCHANGED <<lock_counter_, active_command_, cmd_tx, requests_sent, quiet>>
    BY <2>1 DEF vars, machine
  <2>4. UNCHANGED Service!serviceVars
    BY <2>3 DEF Service!serviceVars, OutcomeOf
  <2> QED
    BY <2>2, <2>3, <2>4
       DEF HInv, SendInv, Taken, TriesAccounted, Service!Accounted, Service!serviceVars,
           Waited, LockHonoured
<1>2. CASE HistoryNext
  <2>1. PICK b \in Alphabet, crcMatches \in BOOLEAN, dequeued \in Dequeuable,
             reply_size \in ReplySizes :
          /\ process_received_char(b, crcMatches, dequeued, reply_size)
          /\ RecordRequests
          /\ RecordQuiet(b)
    BY <1>2 DEF HistoryNext
  <2>2. b \in Byte /\ dequeued \in Commands \cup {NoRequest}
    BY EbusAssumption DEF Dequeuable
  <2>3. IInv'
    <3>1. Next
      BY <2>1 DEF Next
    <3> QED
      BY <1>0, <3>1, NextInv
  <2>4. CASE EscapeBegins(b) \/ InvalidEscape(b)
    <3>1. /\ UNCHANGED <<lock_counter_, active_command_>>
          /\ cmd_tx' = "none" /\ ~IsSymbol(b)
      BY <2>4 DEF EscapeBegins, InvalidEscape, Silent, IsSymbol
    <3>2. UNCHANGED <<requests_sent, quiet>>
      BY <2>1, <3>1
         DEF RecordRequests, RecordQuiet, TakesCommand, CompletesCommand, is_finished, EndStates
    <3> QED
      BY <1>0, <2>3, <3>1, <3>2, SilentStep DEF HInv
  <2>5. CASE ProcessSymbol(b, crcMatches, dequeued, reply_size)
    <3>1. /\ IsSymbol(b) /\ state_' = StateAfter(b)
          /\ Send(CurrentCommand(dequeued), b)
      BY <2>5 DEF ProcessSymbol, CountCharacter
    <3> QED
      BY <1>0, <2>1, <2>2, <2>3, <3>1, SendingStep DEF HInv
  <2> QED
    BY <2>1, <2>4, <2>5 DEF process_received_char
<1> QED
  BY <1>1, <1>2

THEOREM HistoryInvariant == HistorySpec => []HInv
<1>1. HistoryInit => HInv
  BY HistoryInitInv
<1>2. HInv /\ [HistoryNext]_historyVars => HInv'
  BY HistoryNextInv
<1> QED
  BY <1>1, <1>2, PTL DEF HistorySpec

\* A command is put on the bus at most once per try and given up only when all
\* tries have failed, across both arbitration rounds and lost acknowledgements.
THEOREM TriesAreAccounted == HistorySpec => []TriesAccounted
<1>1. HInv => TriesAccounted
  BY DEF HInv, SendInv
<1> QED
  BY <1>1, HistoryInvariant, PTL

\* QQ is sent only when the node has let max_lock_counter_ SYNs pass.
THEOREM LockIsHonoured == HistorySpec => []LockHonoured
<1>1. HInv => LockHonoured
  BY DEF HInv, SendInv
<1> QED
  BY <1>1, HistoryInvariant, PTL

\* The sending half of the engine implements CommandService.
THEOREM EbusImplementsService == HistorySpec => ImplementsService
<1>1. HistoryInit => Service!Init
  BY HistoryInitInv
<1>2. HInv /\ [HistoryNext]_historyVars => [Service!Next]_Service!serviceVars
  BY HistoryNextInv
<1> QED
  BY <1>1, <1>2, HistoryInvariant, PTL DEF HistorySpec, ImplementsService, Service!Spec

=============================================================================
