-------------------------- MODULE ZebusEngineProofs --------------------------
(***************************************************************************)
(* The engine of zebus, which stores escape sequences before it decodes    *)
(* them: for every MAX_DATA_LENGTH and whatever bytes come it stays within *)
(* its buffers, and no escape sequence is carried into another part.       *)
(* Its sending half honours the lock and implements CommandService.        *)
(***************************************************************************)
EXTENDS ZebusEngine, TelegramProofs

\* How full the buffers are.  A part that ends with an ESC has one byte more
\* than its length asks for a part that still waits for data: the place of what
\* follows the ESC.
Slack(escaped) == IF escaped THEN 1 ELSE 0

EscapedFits(t, escaped) ==
  /\ t.req <= OFFSET_DATA + t.nn + 1
  /\ t.res <= RESPONSE_OFFSET + t.res_nn + 1
  /\ t.state \in {"waitForSyn", "waitForArbitration"} => t.req = 0
  /\ t.state = "waitForRequestData" =>
       t.req >= 1 /\ t.req <= OFFSET_DATA + t.nn + Slack(escaped)
  /\ t.state \in {"waitForSyn", "waitForArbitration", "waitForRequestData",
                  "waitForRequestAck"} => t.res = 0
  /\ t.state = "waitForResponseData" => t.res <= RESPONSE_OFFSET + t.res_nn + Slack(escaped)
  /\ escaped => \/ t.state = "waitForRequestData"
                \/ t.state = "waitForResponseData" /\ t.res > 0
                \/ t.state \in {"endErrorUnexpectedSyn", "endArbitration"}

ReceiverOK(t, escaped) ==
  /\ t \in TelegramType
  /\ t.state \in ReceiverStates
  /\ escaped \in BOOLEAN
  /\ EscapedFits(t, escaped)

\* As in EbusProofs: a command contends only at the beginning of a telegram.
ContendsAtStart(c, t) ==
  /\ c.state = "waitForArbitration" => t.state \in BeforeRequest
  /\ c.state = "waitForArbitration2nd" =>
       \/ t.state \in BeforeRequest
       \/ t.state = "waitForRequestData" /\ t.req = 1

ZInv ==
  /\ ReceiverOK(receivingTelegram, waitForEscaped)
  /\ activeCommand \in Common!CommandType
  /\ ContendsAtStart(activeCommand, receivingTelegram)
  /\ SpeaksOnce

\* zebus keeps to the bytes: they are what the UART delivers.
LEMMA AlphabetIsBytes == Alphabet \subseteq Byte
BY ZebusAssumption

-----------------------------------------------------------------------------
(* Storing a byte.                                                         *)

\* What an escape sequence stands for is a byte.
LEMMA DecodeTyped ==
  ASSUME NEW b \in Byte
  PROVE  Decode(b) \in Byte
BY DEF Decode, Byte, ESC, SYN

\* A decoded byte overwrites a place and takes none.
LEMMA PushReqTyped ==
  ASSUME NEW t \in TelegramType, NEW escaped \in BOOLEAN, NEW b \in Byte
  PROVE  /\ pushReqData(t, escaped, b) \in TelegramType
         /\ pushReqData(t, escaped, b).state = t.state
         /\ pushReqData(t, escaped, b).req = t.req + 1 - Slack(escaped)
         /\ pushReqData(t, escaped, b).res = t.res
         /\ pushReqData(t, escaped, b).res_nn = t.res_nn
         /\ t.req # OFFSET_NN => pushReqData(t, escaped, b).nn = t.nn
<1>1. CASE escaped
  <2> DEFINE p == push_req_data(t, Decode(b))
  <2>1. /\ p \in TelegramType /\ p.state = t.state /\ p.res = t.res
        /\ p.res_nn = t.res_nn /\ (t.req # OFFSET_NN => p.nn = t.nn)
    BY DecodeTyped, PushRequestTyped
  <2>2. t.req \in Nat
    BY DEF TelegramType
  <2>3. pushReqData(t, escaped, b) = [p EXCEPT !.req = t.req]
    BY <1>1 DEF pushReqData
  <2> HIDE DEF p
  <2>4. /\ [p EXCEPT !.req = t.req] \in TelegramType
        /\ [p EXCEPT !.req = t.req].state = p.state
        /\ [p EXCEPT !.req = t.req].req = t.req
        /\ [p EXCEPT !.req = t.req].nn = p.nn
        /\ [p EXCEPT !.req = t.req].res = p.res
        /\ [p EXCEPT !.req = t.req].res_nn = p.res_nn
    BY <2>1, <2>2 DEF TelegramType
  <2>5. t.req + 1 - Slack(escaped) = t.req
    BY <1>1, <2>2 DEF Slack
  <2> QED
    BY <2>1, <2>3, <2>4, <2>5
<1>2. CASE ~escaped
  <2>1. t.req \in Nat
    BY DEF TelegramType
  <2> QED
    BY <1>2, <2>1, PushRequestTyped DEF pushReqData, Slack
<1> QED
  BY <1>1, <1>2

\* The same for the response.
LEMMA PushRespTyped ==
  ASSUME NEW t \in TelegramType, NEW escaped \in BOOLEAN, NEW b \in Byte
  PROVE  /\ pushRespData(t, escaped, b) \in TelegramType
         /\ pushRespData(t, escaped, b).state = t.state
         /\ pushRespData(t, escaped, b).res = t.res + 1 - Slack(escaped)
         /\ pushRespData(t, escaped, b).req = t.req
         /\ pushRespData(t, escaped, b).nn = t.nn
         /\ t.res # 0 => pushRespData(t, escaped, b).res_nn = t.res_nn
<1>1. CASE escaped
  <2> DEFINE p == push_response_data(t, Decode(b))
  <2>1. /\ p \in TelegramType /\ p.state = t.state /\ p.req = t.req
        /\ p.nn = t.nn /\ (t.res # 0 => p.res_nn = t.res_nn)
    BY DecodeTyped, PushResponseTyped
  <2>2. t.res \in Nat
    BY DEF TelegramType
  <2>3. pushRespData(t, escaped, b) = [p EXCEPT !.res = t.res]
    BY <1>1 DEF pushRespData
  <2> HIDE DEF p
  <2>4. /\ [p EXCEPT !.res = t.res] \in TelegramType
        /\ [p EXCEPT !.res = t.res].state = p.state
        /\ [p EXCEPT !.res = t.res].req = p.req
        /\ [p EXCEPT !.res = t.res].nn = p.nn
        /\ [p EXCEPT !.res = t.res].res = t.res
        /\ [p EXCEPT !.res = t.res].res_nn = p.res_nn
    BY <2>1, <2>2 DEF TelegramType
  <2>5. t.res + 1 - Slack(escaped) = t.res
    BY <1>1, <2>2 DEF Slack
  <2> QED
    BY <2>1, <2>3, <2>4, <2>5
<1>2. CASE ~escaped
  <2>1. t.res \in Nat
    BY DEF TelegramType
  <2> QED
    BY <1>2, <2>1, PushResponseTyped DEF pushRespData, Slack
<1> QED
  BY <1>1, <1>2

-----------------------------------------------------------------------------
(* One byte.                                                               *)

\* The first byte of a telegram.
LEMMA PrimaryOK ==
  ASSUME NEW t, NEW escaped, ReceiverOK(t, escaped), NEW b \in Byte,
         ReceivePrimary(t, escaped, b)
  PROVE  ReceiverOK(receivingTelegram', waitForEscaped')
<1> DEFINE p == pushReqData(t, escaped, b)
<1>1. /\ t \in TelegramType /\ t.state = "waitForArbitration"
      /\ escaped = FALSE /\ t.req = 0 /\ t.res = 0
  BY DEF ReceivePrimary, ReceiverOK, EscapedFits
<1>2. /\ p \in TelegramType /\ p.req = 1 /\ p.res = 0 /\ p.nn \in Nat /\ p.res_nn \in Nat
  <2>1. /\ p \in TelegramType /\ p.req = t.req + 1 - Slack(escaped) /\ p.res = t.res
    BY <1>1, PushReqTyped
  <2>2. Slack(escaped) = 0
    BY <1>1 DEF Slack
  <2> HIDE DEF p
  <2> QED
    BY <1>1, <2>1, <2>2, MaxDataLengthAssumption DEF TelegramType
<1>3. waitForEscaped' \in BOOLEAN
  BY DEF ReceivePrimary, Push
<1>4. receivingTelegram' = set_state(p, "waitForRequestData")
  BY DEF ReceivePrimary
<1>5. Slack(waitForEscaped') \in Nat
  BY DEF Slack
<1> HIDE DEF p
<1> QED
  BY <1>2, <1>3, <1>4, <1>5, SetStateTyped
     DEF ReceiverOK, EscapedFits, OFFSET_DATA, RESPONSE_OFFSET, PendingStates,
         ReceiverStates, EndStates

\* A byte of the request: it is complete before the buffer is full, and not
\* before its last escape sequence is over.
LEMMA RequestDataOK ==
  ASSUME NEW t, NEW escaped, ReceiverOK(t, escaped), NEW b \in Byte,
         ReceiveRequestData(t, escaped, b)
  PROVE  ReceiverOK(receivingTelegram', waitForEscaped')
<1> DEFINE p == pushReqData(t, escaped, b)
           next == waitForEscaped'
<1>1. /\ t \in TelegramType /\ t.state = "waitForRequestData" /\ escaped \in BOOLEAN
      /\ t.req \in Nat /\ t.nn \in Nat /\ t.res = 0 /\ t.req >= 1
      /\ t.req <= OFFSET_DATA + t.nn + Slack(escaped)
  BY MaxDataLengthAssumption DEF ReceiveRequestData, ReceiverOK, EscapedFits, TelegramType
<1>2. /\ p \in TelegramType /\ p.state = "waitForRequestData"
      /\ p.req = t.req + 1 - Slack(escaped)
      /\ p.res = 0 /\ p.nn \in Nat /\ p.res_nn \in Nat
      /\ t.req # OFFSET_NN => p.nn = t.nn
  BY <1>1, PushReqTyped, MaxDataLengthAssumption DEF TelegramType
<1>3. next \in BOOLEAN /\ (escaped => ~next)
  BY DEF ReceiveRequestData, Push
<1>4. p.req >= 1 /\ p.req <= OFFSET_DATA + p.nn + 1
  BY <1>1, <1>2 DEF Slack, OFFSET_DATA, OFFSET_NN
<1>5. CASE ~isComplete(is_request_complete(p))
  <2>1. receivingTelegram' = p
    BY <1>5 DEF ReceiveRequestData
  <2>2. next \/ ~is_request_complete(p)
    BY <1>5 DEF isComplete
  <2> HIDE DEF p
  <2>3. ~is_request_complete(p) => p.req <= OFFSET_DATA + p.nn
    BY <1>2, <1>4
       DEF is_request_complete, IsPastSyn, PendingStates, OFFSET_DATA, TelegramType
  <2> QED
    BY <1>2, <1>3, <1>4, <2>1, <2>2, <2>3
       DEF ReceiverOK, EscapedFits, Slack, OFFSET_DATA, RESPONSE_OFFSET, ReceiverStates
<1>6. CASE isComplete(is_request_complete(p))
  <2>1. PICK s \in {"waitForRequestAck", "endCompleted"} :
          receivingTelegram' = set_state(p, s)
    BY <1>6 DEF ReceiveRequestData
  <2>2. ~next
    BY <1>6 DEF isComplete
  <2> HIDE DEF p
  <2> QED
    BY <1>2, <1>3, <1>4, <2>1, <2>2, SetStateTyped
       DEF ReceiverOK, EscapedFits, Slack, OFFSET_DATA, RESPONSE_OFFSET, ReceiverStates,
           PendingStates, EndStates
<1> QED
  BY <1>5, <1>6

\* A byte of the response, likewise.
LEMMA ResponseDataOK ==
  ASSUME NEW t, NEW escaped, ReceiverOK(t, escaped), NEW b \in Byte,
         ReceiveResponseData(t, escaped, b)
  PROVE  ReceiverOK(receivingTelegram', waitForEscaped')
<1> DEFINE p == pushRespData(t, escaped, b)
           next == waitForEscaped'
<1>1. /\ t \in TelegramType /\ t.state = "waitForResponseData" /\ escaped \in BOOLEAN
      /\ t.req \in Nat /\ t.nn \in Nat /\ t.res \in Nat /\ t.res_nn \in Nat
      /\ t.req <= OFFSET_DATA + t.nn + 1
      /\ t.res <= RESPONSE_OFFSET + t.res_nn + Slack(escaped)
      /\ escaped => t.res > 0
  BY MaxDataLengthAssumption DEF ReceiveResponseData, ReceiverOK, EscapedFits, TelegramType
<1>2. /\ p \in TelegramType /\ p.state = "waitForResponseData"
      /\ p.res = t.res + 1 - Slack(escaped)
      /\ p.req = t.req /\ p.nn = t.nn /\ p.res_nn \in Nat
      /\ t.res # 0 => p.res_nn = t.res_nn
  BY <1>1, PushRespTyped, MaxDataLengthAssumption DEF TelegramType
<1>3. next \in BOOLEAN /\ (escaped => ~next)
  BY DEF ReceiveResponseData, Push
<1>4. p.res <= RESPONSE_OFFSET + p.res_nn + 1 /\ p.res >= 1
  BY <1>1, <1>2 DEF Slack, RESPONSE_OFFSET
<1>5. CASE ~isComplete(is_response_complete(p))
  <2>1. receivingTelegram' = p
    BY <1>5 DEF ReceiveResponseData
  <2>2. next \/ ~is_response_complete(p)
    BY <1>5 DEF isComplete
  <2> HIDE DEF p
  <2>3. ~is_response_complete(p) => p.res <= RESPONSE_OFFSET + p.res_nn
    BY <1>2, <1>4
       DEF is_response_complete, IsPastSyn, PendingStates, RESPONSE_OFFSET, TelegramType
  <2> QED
    BY <1>1, <1>2, <1>3, <1>4, <2>1, <2>2, <2>3
       DEF ReceiverOK, EscapedFits, Slack, OFFSET_DATA, RESPONSE_OFFSET, ReceiverStates
<1>6. CASE isComplete(is_response_complete(p))
  <2>1. receivingTelegram' = set_state(p, "waitForResponseAck")
    BY <1>6 DEF ReceiveResponseData
  <2>2. ~next
    BY <1>6 DEF isComplete
  <2> HIDE DEF p
  <2> QED
    BY <1>1, <1>2, <1>3, <1>4, <2>1, <2>2, SetStateTyped
       DEF ReceiverOK, EscapedFits, Slack, OFFSET_DATA, RESPONSE_OFFSET, ReceiverStates,
           PendingStates, EndStates
<1> QED
  BY <1>5, <1>6

\* What the engines have in common: a byte that is not stored changes the state
\* only, and leaves the escape sequence as it is.
LEMMA ControlOK ==
  ASSUME NEW t, NEW escaped, ReceiverOK(t, escaped), t.state \notin EndStates,
         NEW b \in Byte, ReceiveControl(t, escaped, b)
  PROVE  ReceiverOK(receivingTelegram', waitForEscaped')
<1> DEFINE Changes(s) == receivingTelegram' = set_state(t, s)
<1>1. /\ t \in TelegramType /\ escaped \in BOOLEAN /\ waitForEscaped' = escaped
      /\ t.req \in Nat /\ t.res \in Nat /\ t.nn \in Nat /\ t.res_nn \in Nat
      /\ Slack(escaped) \in 0 .. 1
  BY MaxDataLengthAssumption DEF ReceiveControl, ReceiverOK, TelegramType, Slack
<1>2. EscapedFits(t, escaped)
  BY DEF ReceiverOK
<1>3. CASE receivingTelegram' = t
  BY <1>1, <1>3 DEF ReceiverOK
<1>4. CASE t.state = "waitForSyn" /\ Changes("waitForArbitration")
  BY <1>1, <1>2, <1>4, SetStateTyped
     DEF ReceiverOK, EscapedFits, ReceiverStates, PendingStates, EndStates
<1>5. CASE /\ t.state \in {"waitForRequestData", "waitForResponseData"}
           /\ \E s \in {"endArbitration", "endErrorUnexpectedSyn"} : Changes(s)
  BY <1>1, <1>2, <1>5, SetStateTyped
     DEF ReceiverOK, EscapedFits, ReceiverStates, PendingStates, EndStates
<1>6. CASE /\ t.state \in {"waitForRequestAck", "waitForResponseAck"}
           /\ \E s \in {"endCompleted", "endErrorRequestNackReceived",
                        "endErrorRequestNoAck", "endErrorResponseNackReceived",
                        "endErrorResponseNoAck"} : Changes(s)
  BY <1>1, <1>2, <1>6, SetStateTyped
     DEF ReceiverOK, EscapedFits, ReceiverStates, PendingStates, EndStates
<1>7. CASE t.state = "waitForRequestAck" /\ Changes("waitForResponseData")
  BY <1>1, <1>2, <1>7, SetStateTyped
     DEF ReceiverOK, EscapedFits, ReceiverStates, PendingStates, EndStates, RESPONSE_OFFSET
<1> USE DEF Common!InState, Common!set_state, set_state
<1>8. CASE Common!ReceiveSyn(t, b)
  BY <1>3, <1>4, <1>8 DEF Common!ReceiveSyn
<1>9. CASE t.state = "waitForArbitration" /\ b = SYN /\ receivingTelegram' = t
  BY <1>3, <1>9
<1>10. CASE Common!RequestInterrupted(t, b)
  BY <1>5, <1>10 DEF Common!RequestInterrupted
<1>11. CASE Common!ReceiveRequestAck(t, b)
  BY <1>6, <1>7, <1>11 DEF Common!ReceiveRequestAck
<1>12. CASE Common!ResponseInterrupted(t, b)
  BY <1>5, <1>12 DEF Common!ResponseInterrupted
<1>13. CASE Common!ReceiveResponseAck(t, b)
  BY <1>6, <1>13 DEF Common!ReceiveResponseAck
<1> QED
  BY <1>8, <1>9, <1>10, <1>11, <1>12, <1>13 DEF ReceiveControl

\* Whatever the byte.
LEMMA ReceiveOK ==
  ASSUME NEW t, NEW escaped, ReceiverOK(t, escaped), t.state \notin EndStates,
         NEW b \in Byte, Receive(t, escaped, b)
  PROVE  ReceiverOK(receivingTelegram', waitForEscaped')
BY PrimaryOK, RequestDataOK, ResponseDataOK, ControlOK DEF Receive

\* Every byte starts from a telegram that is not finished.
LEMMA CurrentOK ==
  ASSUME ZInv
  PROVE  /\ ReceiverOK(Common!CurrentTelegram, CurrentEscaped)
         /\ Common!CurrentTelegram.state \notin EndStates
<1>1. /\ Common!NewTelegram = NewTelegram
      /\ Common!is_finished(receivingTelegram) <=> is_finished(receivingTelegram)
  BY DEF Common!NewTelegram, NewTelegram, Common!is_finished, is_finished, Common!EndStates,
         EndStates, Common!ESC, ESC
<1>2. CASE is_finished(receivingTelegram)
  <2>1. Common!CurrentTelegram = NewTelegram /\ CurrentEscaped = FALSE
    BY <1>1, <1>2 DEF Common!CurrentTelegram, CurrentEscaped
  <2>2. NewTelegram.state \in ReceiverStates \ EndStates
    BY NewTelegramTyped DEF ReceiverStates, EndStates
  <2> QED
    BY <2>1, <2>2, NewTelegramTyped DEF ReceiverOK, EscapedFits, Fits, Slack
<1>3. CASE ~is_finished(receivingTelegram)
  <2>1. Common!CurrentTelegram = receivingTelegram
        /\ receivingTelegram.state \notin EndStates
    BY <1>1, <1>3 DEF Common!CurrentTelegram, is_finished
  <2>2. CurrentEscaped = waitForEscaped
    BY <1>3 DEF CurrentEscaped, ZInv, ReceiverOK
  <2> QED
    BY <2>1, <2>2 DEF ZInv
<1> QED
  BY <1>2, <1>3

-----------------------------------------------------------------------------
(* Both halves.                                                            *)

\* The two instances of Telegram mean the same by a state.
LEMMA CommonStates ==
  /\ Common!EndStates = EndStates
  /\ \A c : Common!is_finished(c) <=> c.state \in EndStates
  /\ \A c \in Common!CommandType, s \in Common!CommandStates :
       /\ Common!set_state(c, s) \in Common!CommandType
       /\ Common!set_state(c, s).state = s
BY DEF Common!EndStates, EndStates, Common!is_finished, Common!set_state, Common!CommandType

\* A SYN leaves nothing to answer.
LEMMA NoAnswerToSyn ==
  ASSUME NEW t, NEW escaped, ReceiverOK(t, escaped), t.state \notin EndStates,
         Receive(t, escaped, SYN)
  PROVE  receivingTelegram'.state \in BeforeRequest
<1> USE DEF Common!InState, Common!set_state, BeforeRequest, EndStates
<1>1. /\ SYN # Common!ACK /\ SYN # Common!NACK /\ Common!SYN = SYN
      /\ t \in TelegramType /\ t.state \in ReceiverStates
  BY DEF SYN, Common!SYN, Common!ACK, Common!NACK, ReceiverOK
<1>2. ReceiveControl(t, escaped, SYN)
  BY DEF Receive, ReceivePrimary, ReceiveRequestData, ReceiveResponseData
<1>3. CASE Common!ReceiveSyn(t, SYN)
  BY <1>1, <1>3 DEF Common!ReceiveSyn, TelegramType
<1>4. CASE t.state = "waitForArbitration" /\ receivingTelegram' = t
  BY <1>4
<1>5. CASE Common!RequestInterrupted(t, SYN) \/ Common!ResponseInterrupted(t, SYN)
  BY <1>1, <1>5 DEF Common!RequestInterrupted, Common!ResponseInterrupted, TelegramType
<1>6. CASE Common!ReceiveRequestAck(t, SYN) \/ Common!ReceiveResponseAck(t, SYN)
  BY <1>1, <1>6 DEF Common!ReceiveRequestAck, Common!ReceiveResponseAck, TelegramType
<1> QED
  BY <1>2, <1>3, <1>4, <1>5, <1>6 DEF ReceiveControl

\* Nor does the first byte after it, QQ.
LEMMA NoAnswerToPrimary ==
  ASSUME NEW t, NEW escaped, ReceiverOK(t, escaped),
         t.state \in {"waitForSyn", "waitForArbitration"},
         NEW b \in Byte, Receive(t, escaped, b)
  PROVE  \/ receivingTelegram'.state \in {"waitForSyn", "waitForArbitration"}
         \/ /\ receivingTelegram'.state = "waitForRequestData"
            /\ receivingTelegram'.req = 1
<1>1. t \in TelegramType /\ t.req = 0 /\ escaped = FALSE
  BY DEF ReceiverOK, EscapedFits
<1>2. CASE ReceivePrimary(t, escaped, b)
  <2> DEFINE p == pushReqData(t, escaped, b)
  <2>1. p \in TelegramType /\ p.req = 1
    <3>1. p \in TelegramType /\ p.req = t.req + 1 - Slack(escaped)
      BY <1>1, PushReqTyped
    <3>2. Slack(escaped) = 0
      BY <1>1 DEF Slack
    <3> HIDE DEF p
    <3> QED
      BY <1>1, <3>1, <3>2
  <2>2. receivingTelegram' = set_state(p, "waitForRequestData")
    BY <1>2 DEF ReceivePrimary
  <2> HIDE DEF p
  <2> QED
    BY <2>1, <2>2, SetStateTyped DEF PendingStates
<1>3. CASE ReceiveControl(t, escaped, b)
  BY <1>1, <1>3
     DEF ReceiveControl, Common!InState, Common!set_state, Common!ReceiveSyn,
         Common!RequestInterrupted, Common!ReceiveRequestAck, Common!ResponseInterrupted,
         Common!ReceiveResponseAck, TelegramType
<1> QED
  BY <1>2, <1>3 DEF Receive, ReceiveRequestData, ReceiveResponseData

\* Nor does the byte after that: a request has more than two bytes.
LEMMA NoAnswerToSecondByte ==
  ASSUME NEW t, NEW escaped, ReceiverOK(t, escaped),
         t.state = "waitForRequestData", t.req = 1,
         NEW b \in Byte, Receive(t, escaped, b)
  PROVE  receivingTelegram'.state \in {"waitForRequestData"} \cup EndStates
<1>1. t \in TelegramType /\ escaped \in BOOLEAN
  BY DEF ReceiverOK
<1>2. CASE ReceiveRequestData(t, escaped, b)
  <2> DEFINE p == pushReqData(t, escaped, b)
  <2>1. p.req = 1 + 1 - Slack(escaped) /\ p.state = "waitForRequestData"
    BY <1>1, PushReqTyped
  <2>2. Slack(escaped) \in 0 .. 1
    BY DEF Slack
  <2>3. ~isComplete(is_request_complete(p)) => receivingTelegram' = p
    BY <1>2 DEF ReceiveRequestData
  <2>4. is_request_complete(p) \/ ~isComplete(is_request_complete(p))
    BY DEF isComplete
  <2> HIDE DEF p
  <2>5. ~is_request_complete(p)
    BY <2>1, <2>2 DEF is_request_complete, OFFSET_DATA
  <2> QED
    BY <2>1, <2>3, <2>4, <2>5
<1>3. CASE ReceiveControl(t, escaped, b)
  BY <1>1, <1>3
     DEF ReceiveControl, Common!InState, Common!set_state, Common!ReceiveSyn,
         Common!RequestInterrupted, Common!ReceiveRequestAck, Common!ResponseInterrupted,
         Common!ReceiveResponseAck, TelegramType, EndStates
<1> QED
  BY <1>2, <1>3 DEF Receive, ReceivePrimary, ReceiveResponseData

AwaitsAck(t) == t.state \in {"waitForRequestAck", "waitForResponseAck"}

\* A failed try, as the other outcomes, leaves a command.
LEMMA RetryTyped ==
  ASSUME NEW c \in Common!CommandType, NEW b, Common!RetryOrFail(c, b)
  PROVE  /\ activeCommand' \in Common!CommandType
         /\ activeCommand'.state \in {"waitForSend", "endSendFailed"}
         /\ cmd_tx' = "none"
<1>1. Common!CountTry(c) \in Common!Byte
  BY DEF Common!CountTry, Common!CommandType, Common!Byte
<1> QED
  BY <1>1 DEF Common!RetryOrFail, Common!CommandType, Common!CommandStates

\* A command contends only at the beginning of a telegram, and when it sends
\* the received telegram is not one that has to be answered.
LEMMA SendsAtStart ==
  ASSUME NEW c \in Common!CommandType, NEW t, NEW escaped, NEW b \in Byte,
         ReceiverOK(t, escaped), t.state \notin EndStates, ContendsAtStart(c, t),
         Receive(t, escaped, b), Common!Send(c, b)
  PROVE  /\ activeCommand' \in Common!CommandType
         /\ ContendsAtStart(activeCommand', receivingTelegram')
         /\ cmd_tx' # "none" => ~AwaitsAck(receivingTelegram')
<1> USE CommonStates DEF ContendsAtStart, AwaitsAck
<1> DEFINE r == receivingTelegram'
<1>0. Common!SYN = SYN
  BY DEF SYN, Common!SYN
<1>1. CASE Common!CommandWaits(c, b) /\ Common!IgnoresByte(c, b)
  BY <1>1 DEF Common!CommandWaits, Common!IgnoresByte, EndStates
<1>2. CASE Common!StartArbitration(c, b) \/ Common!RepeatArbitration(c, b)
  <2>1. b = SYN
    BY <1>0, <1>2
       DEF Common!StartArbitration, Common!RepeatArbitration, Common!MaySend
  <2>2. r.state \in BeforeRequest
    BY <2>1, NoAnswerToSyn
  <2>3. activeCommand' \in Common!CommandType
    BY <1>2 DEF Common!StartArbitration, Common!RepeatArbitration, Common!CommandStates
  <2>4. activeCommand'.state \in {"waitForArbitration", "waitForArbitration2nd"}
    BY <1>2 DEF Common!StartArbitration, Common!RepeatArbitration, Common!CommandStates
  <2> QED
    BY <2>2, <2>3, <2>4 DEF BeforeRequest, EndStates
<1>3. CASE Common!WinArbitration(c, b)
  <2>1. /\ activeCommand' \in Common!CommandType
        /\ activeCommand'.state \in {"waitForCommandAck", "endCompleted"}
    BY <1>3 DEF Common!WinArbitration, Common!CommandStates
  <2>2. CASE t.state \in {"waitForSyn", "waitForArbitration"}
    BY <2>1, <2>2, NoAnswerToPrimary
  <2>3. CASE t.state = "waitForRequestData" /\ t.req = 1
    BY <2>1, <2>3, NoAnswerToSecondByte DEF EndStates
  <2> QED
    BY <1>3, <2>2, <2>3 DEF Common!WinArbitration, Common!Contends, BeforeRequest
<1>4. CASE Common!EnterSecondRound(c, b)
  <2>1. t.state \in {"waitForSyn", "waitForArbitration"}
    BY <1>4 DEF Common!EnterSecondRound, Common!Eligible, BeforeRequest
  <2>2. /\ activeCommand' \in Common!CommandType
        /\ activeCommand'.state = "waitForArbitration2nd" /\ cmd_tx' = "none"
    BY <1>4 DEF Common!EnterSecondRound, Common!CommandStates
  <2> QED
    BY <2>1, <2>2, NoAnswerToPrimary DEF BeforeRequest
<1>5. CASE Common!LoseArbitration(c, b) \/ Common!CommandTimedOut(c, b)
  BY <1>5, RetryTyped DEF Common!LoseArbitration, Common!CommandTimedOut
<1>6. CASE Common!CommandAcknowledged(c, b)
  BY <1>6 DEF Common!CommandAcknowledged, Common!CommandStates
<1> QED
  BY <1>1, <1>2, <1>3, <1>4, <1>5, <1>6 DEF Common!Send

\* The command a byte is processed with is one that may be sent.
LEMMA CurrentCommandOK ==
  ASSUME ZInv, NEW dequeued \in Commands \cup {Common!NoRequest}
  PROVE  /\ Common!CurrentCommand(dequeued) \in Common!CommandType
         /\ ContendsAtStart(Common!CurrentCommand(dequeued), Common!CurrentTelegram)
<1>1. Common!NewTelegram.state = "waitForSyn"
  BY DEF Common!NewTelegram
<1>2. \/ Common!CurrentTelegram = receivingTelegram
      \/ Common!CurrentTelegram = Common!NewTelegram
  BY DEF Common!CurrentTelegram
<1>3. \/ Common!CurrentCommand(dequeued) = activeCommand
      \/ Common!CurrentCommand(dequeued) = Common!NewCommand(dequeued)
  BY DEF Common!CurrentCommand
<1>4. /\ Common!NewCommand(dequeued) \in Common!CommandType
      /\ Common!NewCommand(dequeued).state = "waitForSend"
  BY DEF Common!NewCommand, Common!CommandType, Common!CommandStates, Common!Byte
<1> QED
  BY <1>1, <1>2, <1>3, <1>4 DEF ZInv, ContendsAtStart, BeforeRequest

-----------------------------------------------------------------------------
(* The inductive invariant and its theorems.                               *)

LEMMA ZInit == ZebusInit => ZInv
<1> SUFFICES ASSUME ZebusInit PROVE ZInv
  OBVIOUS
<1> USE DEF ZebusInit, Common!HistoryInit, Common!Init
<1>1. receivingTelegram = NewTelegram /\ waitForEscaped = FALSE
  BY DEF Common!NewTelegram, NewTelegram, Common!ESC, ESC
<1>2. ReceiverOK(receivingTelegram, waitForEscaped)
  BY <1>1, NewTelegramTyped DEF ReceiverOK, EscapedFits, Fits, Slack, ReceiverStates
<1>3. activeCommand \in Common!CommandType /\ activeCommand.state = "endCompleted"
  BY DEF Common!CommandType, Common!CommandStates, Common!Byte
<1>4. SpeaksOnce
  BY DEF SpeaksOnce, Common!SingleSpeaker
<1> QED
  BY <1>2, <1>3, <1>4 DEF ZInv, ContendsAtStart

LEMMA ZByte ==
  ASSUME ZInv, NEW b \in Byte, NEW dequeued \in Commands \cup {Common!NoRequest},
         process_received_char(b, dequeued)
  PROVE  ZInv'
<1> DEFINE t == Common!CurrentTelegram
           c == Common!CurrentCommand(dequeued)
<1>1. /\ ReceiverOK(t, CurrentEscaped) /\ t.state \notin EndStates
      /\ c \in Common!CommandType /\ ContendsAtStart(c, t)
  BY CurrentOK, CurrentCommandOK
<1>2. /\ Receive(t, CurrentEscaped, b) /\ Common!Send(c, b)
      /\ Respond(receivingTelegram')
  BY DEF process_received_char, Send
<1> HIDE DEF t, c
<1>3. ReceiverOK(receivingTelegram', waitForEscaped')
  BY <1>1, <1>2, ReceiveOK
<1>4. /\ activeCommand' \in Common!CommandType
      /\ ContendsAtStart(activeCommand', receivingTelegram')
      /\ cmd_tx' # "none" => ~AwaitsAck(receivingTelegram')
  BY <1>1, <1>2, SendsAtStart
<1>5. resp_tx' # "none" => AwaitsAck(receivingTelegram')
  BY <1>2 DEF Respond, Common!IsResponseToUs, Common!IsRequestToUs, AwaitsAck
<1>6. SpeaksOnce'
  BY <1>4, <1>5 DEF SpeaksOnce, Common!SingleSpeaker
<1> QED
  BY <1>3, <1>4, <1>6 DEF ZInv, ReceiverOK, ContendsAtStart

LEMMA ZNext == ZInv /\ [ZebusNext]_zebusVars => ZInv'
<1> SUFFICES ASSUME ZInv, [ZebusNext]_zebusVars PROVE ZInv'
  OBVIOUS
<1>1. CASE UNCHANGED zebusVars
  BY <1>1 DEF zebusVars, ZInv, ReceiverOK, ContendsAtStart, SpeaksOnce, Common!SingleSpeaker
<1>2. CASE ZebusNext
  <2>1. PICK b \in Alphabet, dequeued \in Common!Dequeuable :
          process_received_char(b, dequeued)
    BY <1>2 DEF ZebusNext
  <2>2. b \in Byte /\ dequeued \in Commands \cup {Common!NoRequest}
    BY AlphabetIsBytes DEF Common!Dequeuable
  <2> QED
    BY <2>1, <2>2, ZByte
<1> QED
  BY <1>1, <1>2

LEMMA ZInvariant == ZebusSpec => []ZInv
BY ZInit, ZNext, PTL DEF ZebusSpec

\* pushBuffer never writes behind the end of a buffer, neither the byte that
\* comes nor the one it decodes.
THEOREM ZebusWritesInBounds == ZebusSpec => []WritesInBounds
<1>1. ZInv => WritesInBounds
  BY MaxDataLengthAssumption
     DEF ZInv, ReceiverOK, TelegramType, EscapedFits, WritesInBounds, OFFSET_DATA,
         RESPONSE_OFFSET, REQUEST_BUFFER_SIZE, RESPONSE_BUFFER_SIZE
<1> QED
  BY <1>1, ZInvariant, PTL

\* An escape sequence that the request has begun is not continued in the
\* response, whose buffer shares the flag.
THEOREM ZebusEscapesStay == ZebusSpec => []EscapesStayInTheirPart
<1>1. ZInv => EscapesStayInTheirPart
  <2> SUFFICES ASSUME ZInv, waitForEscaped PROVE EscapesStayInTheirPart
    BY DEF EscapesStayInTheirPart
  <2>1. receivingTelegram.state = "waitForRequestData" => receivingTelegram.req > 0
    BY DEF ZInv, ReceiverOK, TelegramType, EscapedFits
  <2> QED
    BY <2>1 DEF ZInv, ReceiverOK, EscapedFits, EscapesStayInTheirPart
<1> QED
  BY <1>1, ZInvariant, PTL

\* No byte makes both halves of the engine of zebus transmit.
THEOREM ZebusSpeaksOnce == ZebusSpec => []SpeaksOnce
<1>1. ZInv => SpeaksOnce
  BY DEF ZInv
<1> QED
  BY <1>1, ZInvariant, PTL

-----------------------------------------------------------------------------
(* The sending half.  What EbusProofs shows of the sending half of ebus    *)
(* holds for zebus, which has the same one, by instantiation: once it is   *)
(* shown that both instances of EbusHistory mean the same.                 *)

Half == INSTANCE EbusProofs WITH
  lock_counter_ <- lockCounter, char_count_since_last_syn_ <- charCountSinceLastSyn,
  in_esc <- FALSE, state_ <- state, receiving_telegram_ <- receivingTelegram,
  active_command_ <- activeCommand

\* The assumptions of the instance.
LEMMA HalfAssumptions == Half!EbusAssumption /\ Half!MaxDataLengthAssumption
BY ZebusAssumption, MaxDataLengthAssumption
   DEF Half!EbusAssumption, Half!MaxDataLengthAssumption, Half!Byte, Byte

-----------------------------------------------------------------------------
(* Both instances mean the same.                                           *)

\* The symbols and the sets of states.
LEMMA SameSymbols ==
  /\ Common!SYN = Half!SYN /\ Common!ESC = Half!ESC /\ Common!ACK = Half!ACK
  /\ Common!NACK = Half!NACK /\ Common!BROADCAST_ADDRESS = Half!BROADCAST_ADDRESS
  /\ Common!Byte = Half!Byte /\ Common!NoRequest = Half!NoRequest
  /\ Common!EndStates = Half!EndStates /\ Common!CommandStates = Half!CommandStates
BY DEF Common!SYN, Half!SYN, Common!ESC, Half!ESC, Common!ACK, Half!ACK, Common!NACK,
       Half!NACK, Common!BROADCAST_ADDRESS, Half!BROADCAST_ADDRESS, Common!Byte, Half!Byte,
       Common!NoRequest, Half!NoRequest, Common!EndStates, Half!EndStates,
       Common!CommandStates, Half!CommandStates

\* The operators on commands.
LEMMA SameOfTelegram ==
  /\ \A c : Common!is_finished(c) <=> Half!is_finished(c)
  /\ \A c, s : Common!set_state(c, s) = Half!set_state(c, s)
  /\ \A c : Common!NewCommand(c) = Half!NewCommand(c)
  /\ \A c : Common!CountTry(c) = Half!CountTry(c)
  /\ \A c, m : Common!can_retry(c, m) <=> Half!can_retry(c, m)
  /\ \A a : Common!get_priority_class(a) = Half!get_priority_class(a)
  /\ \A zz : Common!is_ack_expected(zz) <=> Half!is_ack_expected(zz)
  /\ Common!CommandType = Half!CommandType
BY SameSymbols
   DEF Common!is_finished, Half!is_finished, Common!set_state, Half!set_state,
       Common!NewCommand, Half!NewCommand, Common!CountTry, Half!CountTry,
       Common!can_retry, Half!can_retry, Common!AsInt8, Half!AsInt8,
       Common!get_priority_class, Half!get_priority_class,
       Common!is_ack_expected, Half!is_ack_expected, Common!get_type, Half!get_type,
       Common!is_primary, Half!is_primary, Common!CommandType, Half!CommandType

\* The guards of Send, for every command and byte.
LEMMA SameGuards ==
  ASSUME NEW b
  PROVE  /\ Common!StateAfter(b) = Half!StateAfter(b)
         /\ Common!LockAfter(b) = Half!LockAfter(b)
         /\ Common!MaySend(b) <=> Half!MaySend(b)
         /\ Common!IsEcho(b) <=> Half!IsEcho(b)
         /\ \A c : Common!Contends(c, b) <=> Half!Contends(c, b)
         /\ \A c : Common!Eligible(c, b) <=> Half!Eligible(c, b)
         /\ \A c : Common!IgnoresByte(c, b) <=> Half!IgnoresByte(c, b)
<1>1. /\ Common!StateAfter(b) = Half!StateAfter(b)
      /\ Common!LockAfter(b) = Half!LockAfter(b)
      /\ Common!MaySend(b) <=> Half!MaySend(b)
  BY SameSymbols
     DEF Common!StateAfter, Half!StateAfter, Common!LockAfter, Half!LockAfter,
       Common!MaySend, Half!MaySend
<1>2. /\ Common!IsEcho(b) <=> Half!IsEcho(b)
      /\ \A c : Common!Contends(c, b) <=> Half!Contends(c, b)
      /\ \A c : Common!Eligible(c, b) <=> Half!Eligible(c, b)
  BY SameSymbols, SameOfTelegram
     DEF Common!IsEcho, Half!IsEcho, Common!Contends, Half!Contends, Common!Eligible,
       Half!Eligible
<1>3. \A c : Common!IgnoresByte(c, b) <=> Half!IgnoresByte(c, b)
  BY <1>1, SameSymbols, SameOfTelegram DEF Common!IgnoresByte, Half!IgnoresByte
<1> QED
  BY <1>1, <1>2, <1>3

\* The sending half as a whole.
LEMMA SameSend ==
  ASSUME NEW c, NEW b, Common!Send(c, b)
  PROVE  Half!Send(c, b)
<1>1. ASSUME Common!RetryOrFail(c, b)
      PROVE  Half!RetryOrFail(c, b)
  BY <1>1, SameGuards, SameOfTelegram DEF Common!RetryOrFail, Half!RetryOrFail
<1>2. CASE Common!IgnoresByte(c, b) /\ Common!CommandWaits(c, b)
  BY <1>2, SameGuards DEF Common!CommandWaits, Half!CommandWaits, Half!Send
<1>3. CASE Common!StartArbitration(c, b)
  BY <1>3, SameGuards, SameOfTelegram
     DEF Common!StartArbitration, Half!StartArbitration, Half!Send
<1>4. CASE Common!RepeatArbitration(c, b)
  BY <1>4, SameGuards, SameSymbols
     DEF Common!RepeatArbitration, Half!RepeatArbitration, Half!Send
<1>5. CASE Common!WinArbitration(c, b)
  BY <1>5, SameGuards, SameOfTelegram
     DEF Common!WinArbitration, Half!WinArbitration, Half!Send
<1>6. CASE Common!EnterSecondRound(c, b)
  BY <1>6, SameGuards, SameOfTelegram
     DEF Common!EnterSecondRound, Half!EnterSecondRound, Half!Send
<1>7. CASE Common!LoseArbitration(c, b)
  BY <1>1, <1>7, SameGuards DEF Common!LoseArbitration, Half!LoseArbitration, Half!Send
<1>8. CASE Common!CommandAcknowledged(c, b)
  BY <1>8, SameSymbols, SameOfTelegram
     DEF Common!CommandAcknowledged, Half!CommandAcknowledged, Half!Send
<1>9. CASE Common!CommandTimedOut(c, b)
  BY <1>1, <1>9, SameSymbols DEF Common!CommandTimedOut, Half!CommandTimedOut, Half!Send
<1> QED
  BY <1>2, <1>3, <1>4, <1>5, <1>6, <1>7, <1>8, <1>9 DEF Common!Send

\* The command a byte finds.
LEMMA SameCommand ==
  ASSUME NEW dequeued
  PROVE  Common!CurrentCommand(dequeued) = Half!CurrentCommand(dequeued)
BY SameSymbols, SameOfTelegram
   DEF Common!CurrentCommand, Half!CurrentCommand, Common!MayDequeue, Half!MayDequeue

\* The history variables.
LEMMA SameHistory ==
  /\ Common!RecordRequests <=> Half!RecordRequests
  /\ \A b : Common!RecordQuiet(b) <=> Half!RecordQuiet(b)
<1>1. /\ Common!TakesCommand <=> Half!TakesCommand
      /\ Common!CompletesCommand <=> Half!CompletesCommand
  BY SameOfTelegram
     DEF Common!TakesCommand, Half!TakesCommand, Common!CompletesCommand,
       Half!CompletesCommand
<1>2. \A b : Common!IsSymbol(b) <=> Half!IsSymbol(b)
  BY SameSymbols DEF Common!IsSymbol, Half!IsSymbol
<1> QED
  BY <1>1, <1>2, SameSymbols
     DEF Common!RecordRequests, Half!RecordRequests, Common!RecordQuiet,
       Half!RecordQuiet

\* The property.
LEMMA SameLock == Common!LockHonoured <=> Half!LockHonoured
BY DEF Common!LockHonoured, Half!LockHonoured

\* The mapping to the service, and its actions.
LEMMA SameMapping ==
  /\ Common!PhaseOf = Half!PhaseOf
  /\ \A c : Common!OutcomeOf(c) = Half!OutcomeOf(c)
  /\ Common!Attempts = Half!Attempts
  /\ \A zz : Common!is_ack_expected(zz) <=> Half!is_ack_expected(zz)
BY SameSymbols, SameOfTelegram
   DEF Common!PhaseOf, Half!PhaseOf, Common!OutcomeOf, Half!OutcomeOf,
       Common!Attempts, Half!Attempts, Common!AsInt8, Half!AsInt8

\* A step of the one service is a step of the other.
LEMMA SameService ==
  /\ Half!Service!Init => Common!Service!Init
  /\ [Half!Service!Next]_Half!Service!serviceVars
       => [Common!Service!Next]_Common!Service!serviceVars
<1>1. Half!Service!Init => Common!Service!Init
  BY SameMapping DEF Half!Service!Init, Common!Service!Init
<1>2. Half!Service!Accept => Common!Service!Accept
  BY SameMapping DEF Half!Service!Accept, Common!Service!Accept
<1>3. Half!Service!Contend => Common!Service!Contend
  BY SameMapping DEF Half!Service!Contend, Common!Service!Contend
<1>4. Half!Service!Put => Common!Service!Put
  BY SameMapping DEF Half!Service!Put, Common!Service!Put
<1>5. Half!Service!Fail => Common!Service!Fail
  BY SameMapping DEF Half!Service!Fail, Common!Service!Fail
<1>6. Half!Service!Acknowledge => Common!Service!Acknowledge
  BY SameMapping DEF Half!Service!Acknowledge, Common!Service!Acknowledge
<1>7. UNCHANGED Half!Service!serviceVars => UNCHANGED Common!Service!serviceVars
  BY SameMapping DEF Half!Service!serviceVars, Common!Service!serviceVars
<1> QED
  BY <1>1, <1>2, <1>3, <1>4, <1>5, <1>6, <1>7 DEF Half!Service!Next, Common!Service!Next

-----------------------------------------------------------------------------
(* The inductive invariant and its theorems.                               *)

SendingOK ==
  /\ lockCounter \in 0 .. MaxLockCounter
  /\ Half!SendInv

ZHInv == ZInv /\ SendingOK

\* What EbusProofs asks of the command, in its own words.
LEMMA CommandTyped == ZInv => activeCommand \in Half!CommandType
BY SameOfTelegram DEF ZInv

\* The initial state of zebus is one of EbusHistory and of the service.
LEMMA ZHInit == ZebusInit => ZHInv /\ Common!Service!Init
<1> SUFFICES ASSUME ZebusInit PROVE ZHInv /\ Common!Service!Init
  OBVIOUS
<1>1. ZInv
  BY ZInit
<1>2. Half!HistoryInit
  BY DEF ZebusInit, Common!HistoryInit, Half!HistoryInit, Common!Init, Half!Init,
         Common!NewTelegram, Half!NewTelegram, Common!ESC, Half!ESC, Common!NoRequest,
         Half!NoRequest
<1>3. Half!HInv /\ Half!Service!Init
  BY <1>2, HalfAssumptions, Half!HistoryInitInv
<1>4. lockCounter \in 0 .. MaxLockCounter /\ Half!SendInv
  BY <1>3 DEF Half!HInv, Half!IInv, Half!TypeOK
<1> QED
  BY <1>1, <1>3, <1>4, SameService DEF ZHInv, SendingOK

\* A byte: the sending half takes the step that SendingStep is about.
LEMMA ZHByte ==
  ASSUME ZHInv, NEW b \in Byte, NEW dequeued \in Commands \cup {Common!NoRequest},
         process_received_char(b, dequeued),
         Common!RecordRequests, Common!RecordQuiet(b)
  PROVE  SendingOK' /\ [Common!Service!Next]_Common!Service!serviceVars
<1>1. Half!Send(Half!CurrentCommand(dequeued), b)
  <2>1. Common!Send(Common!CurrentCommand(dequeued), b)
    BY DEF process_received_char, Send
  <2> QED
    BY <2>1, SameSend, SameCommand
<1>2. /\ Half!RecordRequests /\ Half!RecordQuiet(b)
      /\ (b = Half!SYN => Half!IsSymbol(b)) /\ state' = Half!StateAfter(b)
  BY SameHistory, SameGuards
     DEF process_received_char, CountCharacter, Common!CountCharacter, Half!IsSymbol,
         Half!SYN, Half!ESC
<1>3. /\ activeCommand \in Half!CommandType /\ Half!SendInv
      /\ lockCounter \in 0 .. MaxLockCounter
      /\ b \in Half!Byte /\ dequeued \in Commands \cup {Half!NoRequest}
  BY CommandTyped, SameSymbols DEF ZHInv, SendingOK, Half!Byte, Byte
<1>4. Half!SendInv' /\ [Half!Service!Next]_Half!Service!serviceVars
  BY <1>1, <1>2, <1>3, HalfAssumptions, Half!SendingStep
<1>5. lockCounter' \in 0 .. MaxLockCounter
  BY <1>1, <1>3, HalfAssumptions, Half!CurrentCommandTyped, Half!SendTyped
<1> QED
  BY <1>4, <1>5, SameService DEF SendingOK

\* Every step, and stuttering.
LEMMA ZHNext ==
  ZHInv /\ [ZebusNext]_zebusVars
    => ZHInv' /\ [Common!Service!Next]_Common!Service!serviceVars
<1> SUFFICES ASSUME ZHInv, [ZebusNext]_zebusVars
             PROVE  ZHInv' /\ [Common!Service!Next]_Common!Service!serviceVars
  OBVIOUS
<1>1. ZInv'
  BY ZNext DEF ZHInv
<1>2. CASE UNCHANGED zebusVars
  <2>1. UNCHANGED <<lockCounter, activeCommand, cmd_tx, requests_sent, quiet>>
    BY <1>2 DEF zebusVars
  <2>2. UNCHANGED Common!Service!serviceVars
    BY <2>1 DEF Common!Service!serviceVars, Common!OutcomeOf, Common!is_finished
  <2>3. Half!SendInv'
    BY <2>1
       DEF ZHInv, SendingOK, Half!SendInv, Half!Taken, Half!TriesAccounted,
           Half!Service!Accounted, Half!Waited, Half!LockHonoured, Half!OutcomeOf,
           Half!is_finished
  <2> QED
    BY <1>1, <2>1, <2>2, <2>3 DEF ZHInv, SendingOK
<1>3. CASE ZebusNext
  <2>1. PICK b \in Alphabet, dequeued \in Common!Dequeuable :
          /\ process_received_char(b, dequeued)
          /\ Common!RecordRequests
          /\ Common!RecordQuiet(b)
    BY <1>3 DEF ZebusNext
  <2>2. b \in Byte /\ dequeued \in Commands \cup {Common!NoRequest}
    BY AlphabetIsBytes DEF Common!Dequeuable
  <2> QED
    BY <1>1, <2>1, <2>2, ZHByte DEF ZHInv
<1> QED
  BY <1>2, <1>3

\* So the invariant always holds.
LEMMA ZHInvariant == ZebusSpec => []ZHInv
<1>1. ZebusInit => ZHInv
  BY ZHInit
<1>2. ZHInv /\ [ZebusNext]_zebusVars => ZHInv'
  BY ZHNext
<1> QED
  BY <1>1, <1>2, PTL DEF ZebusSpec

\* zebus, too, sends QQ only when it has let the SYNs of its lock pass.
THEOREM ZebusHonoursLock == ZebusSpec => []LockIsHonoured
<1>1. ZHInv => LockIsHonoured
  BY SameLock DEF ZHInv, SendingOK, Half!SendInv, LockIsHonoured
<1> QED
  BY <1>1, ZHInvariant, PTL

\* The sending half of zebus implements the same CommandService as that of ebus,
\* although it sees the bytes of an escape sequence as bytes.
THEOREM ZebusImplementsService == ZebusSpec => ImplementsService
<1>1. ZebusInit => Common!Service!Init
  BY ZHInit
<1>2. ZHInv /\ [ZebusNext]_zebusVars => [Common!Service!Next]_Common!Service!serviceVars
  BY ZHNext
<1> QED
  BY <1>1, <1>2, ZHInvariant, PTL
     DEF ZebusSpec, ImplementsService, Common!ImplementsService, Common!Service!Spec

-----------------------------------------------------------------------------
(* The types, with the fields that no other theorem is about.              *)

\* The fields that every byte assigns without regard to the rest.
Assigned ==
  /\ charCountSinceLastSyn \in 0 .. CharCountModulus - 1
  /\ state \in {"NORMAL", "ARBITRATION"}
  /\ cmd_tx \in {"none", "qq", "request"}
  /\ resp_tx \in {"none", "ack_syn", "nack", "reply"}
  /\ queued \in BOOLEAN

\* They start within their types ...
LEMMA AssignedInit == ZebusInit => Assigned
<1>1. 0 \in 0 .. CharCountModulus - 1
  BY ZebusAssumption
<1> QED
  BY <1>1 DEF Assigned, ZebusInit, Common!HistoryInit, Common!Init

\* ... are given values of their types by every byte ...
LEMMA AssignedByByte ==
  ASSUME ZHInv, Assigned, NEW b \in Byte, NEW dequeued \in Commands \cup {Common!NoRequest},
         process_received_char(b, dequeued)
  PROVE  Assigned'
<1>1. charCountSinceLastSyn' \in 0 .. CharCountModulus - 1
  <2>1. /\ charCountSinceLastSyn \in Nat /\ CharCountModulus \in Nat \ {0, 1}
        /\ charCountSinceLastSyn' = IF b = Common!SYN THEN 0
                                    ELSE (charCountSinceLastSyn + 1) % CharCountModulus
    BY ZebusAssumption
       DEF Assigned, process_received_char, CountCharacter, Common!CountCharacter
  <2> QED
    BY <2>1
<1>2. state' \in {"NORMAL", "ARBITRATION"}
  BY DEF Assigned, process_received_char, CountCharacter, Common!CountCharacter,
         Common!StateAfter
<1>3. cmd_tx' \in {"none", "qq", "request"}
  <2>1. Half!Send(Half!CurrentCommand(dequeued), b)
    BY SameSend, SameCommand DEF process_received_char, Send
  <2>2. /\ activeCommand \in Half!CommandType /\ lockCounter \in 0 .. MaxLockCounter
        /\ b \in Half!Byte /\ dequeued \in Commands \cup {Half!NoRequest}
    BY CommandTyped, SameSymbols DEF ZHInv, SendingOK, Half!Byte, Byte
  <2> QED
    BY <2>1, <2>2, HalfAssumptions, Half!CurrentCommandTyped, Half!SendTyped
<1>4. resp_tx' \in {"none", "ack_syn", "nack", "reply"}
  BY DEF process_received_char, Respond, HandleResponse
<1>5. queued' \in BOOLEAN
  BY DEF process_received_char, QueueReceivedTelegram, Common!QueueReceivedTelegram,
         Common!is_finished
<1> QED
  BY <1>1, <1>2, <1>3, <1>4, <1>5 DEF Assigned

\* ... and keep to them.
LEMMA AssignedNext == ZHInv /\ Assigned /\ [ZebusNext]_zebusVars => Assigned'
<1> SUFFICES ASSUME ZHInv, Assigned, [ZebusNext]_zebusVars PROVE Assigned'
  OBVIOUS
<1>1. CASE UNCHANGED zebusVars
  BY <1>1 DEF zebusVars, Assigned
<1>2. CASE ZebusNext
  <2>1. PICK b \in Alphabet, dequeued \in Common!Dequeuable :
          process_received_char(b, dequeued)
    BY <1>2 DEF ZebusNext
  <2>2. b \in Byte /\ dequeued \in Commands \cup {Common!NoRequest}
    BY AlphabetIsBytes DEF Common!Dequeuable
  <2> QED
    BY <2>1, <2>2, AssignedByByte
<1> QED
  BY <1>1, <1>2

\* Every field of zebus keeps to its type.
THEOREM ZebusTypeCorrect == ZebusSpec => []ZebusTypeOK
<1>1. ASSUME ZHInv, Assigned PROVE ZebusTypeOK
  <2>1. Common!TypeOK
    <3>1. /\ receivingTelegram \in TelegramType
          /\ receivingTelegram.state \in ReceiverStates
          /\ activeCommand \in Common!CommandType
          /\ lockCounter \in 0 .. MaxLockCounter
      BY <1>1 DEF ZHInv, SendingOK, ZInv, ReceiverOK
    <3>2. receivingTelegram.state \notin
            {"waitForSend", "waitForArbitration2nd", "waitForCommandAck", "endSendFailed"}
      BY <3>1 DEF ReceiverStates, EndStates
    <3>3. TelegramType = Common!TelegramType
      BY DEF TelegramType, Common!TelegramType, PendingStates, Common!PendingStates,
             EndStates, Common!EndStates, Byte, Common!Byte
    <3> QED
      BY <1>1, <3>1, <3>2, <3>3 DEF Assigned, Common!TypeOK
  <2> QED
    BY <1>1, <2>1 DEF ZebusTypeOK, ZHInv, ZInv, ReceiverOK
<1>2. ZebusInit => Assigned
  BY AssignedInit
<1>3. ZHInv /\ Assigned /\ [ZebusNext]_zebusVars => Assigned'
  BY AssignedNext
<1>4. ZHInv /\ Assigned => ZebusTypeOK
  BY <1>1
<1> QED
  BY <1>2, <1>3, <1>4, ZHInvariant, PTL DEF ZebusSpec

=============================================================================
