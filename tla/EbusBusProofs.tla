--------------------------- MODULE EbusBusProofs ----------------------------
(***************************************************************************)
(* The engine on the bus: for every set of other primaries, of requests,   *)
(* responses and commands, and whatever falls silent, is corrupted or      *)
(* restarted, the engine follows the telegrams on the wire and speaks only *)
(* when it is its turn.                                                    *)
(***************************************************************************)
EXTENDS EbusBus, EbusProofs

\* No other primary addresses this node as a primary.  If one does, the first
\* byte of its request may be taken for the echo of our QQ in the second round:
\* the run false_win.
NeverAddressedAsPrimary == \A symbols \in ForeignRequests : symbols[1] # PrimaryAddress

\* No byte of a request of ours looks like the ACK it waits for: see the run
\* premature_ack.
NoAckInRequests ==
  \A request \in Commands :
    is_ack_expected(request.zz) =>
      \A i \in DOMAIN RemainingRequestPart(request) : RemainingRequestPart(request)[i] # ACK

-----------------------------------------------------------------------------
(* The inductive invariant.                                                *)

\* What is still to come of the request or the response, from whoever sends it.
Remaining == IF uart_tx = <<>> THEN bus.script ELSE uart_tx

\* With these symbols the telegram will be complete, and not before the last.
RequestGoesOn(t, symbols) ==
  /\ symbols # <<>>
  /\ IF t.req <= OFFSET_NN
     THEN /\ Len(symbols) >= 6 - t.req
          /\ symbols[5 - t.req] < MAX_DATA_LENGTH
          /\ Len(symbols) = 6 - t.req + symbols[5 - t.req]
     ELSE Len(symbols) = OFFSET_DATA + t.nn + 1 - t.req

ResponseGoesOn(t, symbols) ==
  /\ symbols # <<>>
  /\ IF t.res = 0
     THEN /\ Len(symbols) >= 2
          /\ symbols[1] < MAX_DATA_LENGTH
          /\ Len(symbols) = 2 + symbols[1]
     ELSE Len(symbols) = RESPONSE_OFFSET + t.res_nn + 1 - t.res

SameParties ==
  receiving_telegram_.qq = bus.owner /\ receiving_telegram_.zz = bus.zz

\* The engine waits for the next SYN while a telegram is on the wire.
Skips == receiving_telegram_.state = "waitForSyn" /\ ~bus.clean

\* The engine is where the wire is.
Follows(symbols, half) ==
  LET t == receiving_telegram_ IN
  /\ in_esc = half
  /\ t.qq = bus.owner
  /\ bus.phase = "request" =>
       /\ t.state = "waitForRequestData" /\ RequestGoesOn(t, symbols)
       /\ IF t.req = 1 THEN bus.zz = Nobody ELSE bus.zz = t.zz /\ bus.zz # Nobody
  /\ bus.phase = "response" =>
       /\ t.state = "waitForResponseData" /\ ResponseGoesOn(t, symbols)
       /\ bus.zz = t.zz

TransmissionInv ==
  IF bus.phase \in {"request", "response"}
  THEN \E symbols \in Seq(Byte), half \in BOOLEAN :
         /\ Encodes(Remaining, symbols, half)
         /\ in_esc => half
         /\ bus.zz = Nobody /\ symbols # <<>> =>
              bus.phase = "request" /\ ~half /\ symbols[1] \notin {SYN, ESC}
         /\ Skips \/ Follows(symbols, half)
  ELSE bus.phase # "spoiled" => ~in_esc

\* Who acknowledges and who responds has been addressed.
AddressInv ==
  bus.phase \in {"ack", "response", "respack"} => bus.zz \notin {Nobody, BROADCAST_ADDRESS}

\* Before ZZ comes the telegram has none.
HeaderInv ==
  LET t == receiving_telegram_ IN
  /\ t.state \in {"waitForSyn", "waitForArbitration"} => t.qq = ESC /\ t.zz = ESC
  /\ t.state = "waitForRequestData" /\ t.req = 1 => t.zz = ESC

ReceiverInv ==
  LET t == receiving_telegram_ IN
  /\ bus.phase = "free" =>
       /\ bus.owner = Nobody /\ bus.zz = Nobody
       /\ \/ t.state = "waitForArbitration"
          \/ Skips
          \/ is_finished(t) /\ t.state # "endCompleted" /\ ~bus.clean
  /\ bus.phase = "undecided" =>
       \/ Skips
       \/ t.state = "waitForRequestData" /\ t.req = 1
  /\ bus.phase = "ack" =>
       \/ Skips
       \/ /\ t.state = "waitForRequestAck" /\ SameParties
          /\ bus.zz = OurSecondary => uart_tx # <<>>
  /\ bus.phase = "respack" =>
       \/ Skips
       \/ /\ t.state = "waitForResponseAck" /\ SameParties
          /\ IsOurs => uart_tx # <<>>
  /\ bus.phase \in {"end", "spoiled"} =>
       \/ t.state = "waitForSyn" /\ ~(bus.clean /\ bus.carried)
       \/ /\ is_finished(t) /\ (t.state = "endCompleted" <=> bus.carried)
          /\ t.state = "endCompleted" => SameParties
          /\ bus.phase = "spoiled" => in_esc

\* What waits in the UART, and when.
UartInv ==
  /\ SpeaksInTurn
  /\ bus.phase # "collision"
  /\ bus.script # <<>> => uart_tx = <<>> /\ bus.phase \in {"request", "response"}
  /\ bus.phase = "free" => uart_tx \in {<<>>, <<PrimaryAddress>>}
  /\ bus.phase = "ack" => uart_tx \in {<<>>, <<NACK>>, <<ACK>> \o Escaped(Reply)}
  /\ bus.phase = "respack" => uart_tx \in {<<>>, <<NACK>>, <<ACK, SYN>>}
  /\ bus.phase = "end" => uart_tx \in {<<>>, <<SYN>>}
  /\ bus.phase = "spoiled" => uart_tx = <<>>

\* A command has a request to send, unless it is finished.
HasRequest(c) == ~is_finished(c) => c.request \in Commands

IsContending(c) == c.state \in {"waitForArbitration", "waitForArbitration2nd"}

\* While a command contends, its QQ is all that waits, and nothing else is there
\* but for a command that contends.  Between the rounds comes the first byte of
\* the winner, or a SYN.
CommandInv ==
  LET state == active_command_.state IN
  /\ state = "waitForArbitration" => bus.phase = "free" /\ uart_tx # <<>>
  /\ state = "waitForArbitration2nd" =>
       \/ bus.phase = "free" /\ uart_tx # <<>>
       \/ bus.phase = "undecided"
       \/ /\ bus.phase = "request" /\ bus.script # <<>> /\ ~in_esc
          /\ Head(bus.script) \notin {SYN, ESC, PrimaryAddress}
  /\ bus.phase = "free" /\ uart_tx # <<>> => IsContending(active_command_)
  /\ HasRequest(active_command_)

\* When the CRC of a response to us may be wrong.
GoodInv ==
  LET t == receiving_telegram_ IN
  /\ IsOurs /\ bus.phase \in {"request", "ack"} => bus.good
  /\ IsOurs /\ bus.phase = "respack" /\ uart_tx = <<ACK, SYN>> => bus.good
  /\ ResponsesIntact

BusType ==
  [phase : Phases, owner : Rivals \cup {PrimaryAddress, Nobody},
   zz : Byte, script : Seq(Byte), good : BOOLEAN,
   eligible : SUBSET Rivals, clean : BOOLEAN, carried : BOOLEAN]

WireTyped ==
  /\ command_queue_ \in Seq(Commands) /\ Len(command_queue_) <= CommandQueueSize
  /\ uart_tx \in Seq(Byte)
  /\ bus \in BusType

BInv ==
  /\ IInv /\ WireTyped
  /\ TransmissionInv /\ AddressInv /\ HeaderInv /\ ReceiverInv
  /\ UartInv /\ CommandInv /\ GoodInv

\* Noise neither looks like the ACK nor swallows the SYN that ends the wait for
\* it.  A command that goes on waiting would take the QQ 0x00 of the next telegram
\* for its ACK.
QuietNoise == StrayBytes \cap {ACK, ESC} = {}

\* A command that waits for its ACK has a request of this node on the wire, which
\* goes to the device it is meant for and has no ACK in what is still to come.
AckInv ==
  LET request == active_command_.request IN
  active_command_.state = "waitForCommandAck" =>
    /\ IsOurs /\ is_ack_expected(request.zz)
    /\ bus.phase \in {"request", "ack", "end"}
    /\ bus.phase = "ack" => bus.zz = request.zz
    /\ bus.phase = "request" =>
         /\ uart_tx # <<>> /\ \A i \in DOMAIN uart_tx : uart_tx[i] # ACK
         /\ IF bus.zz = Nobody THEN Head(uart_tx) = request.zz ELSE bus.zz = request.zz

-----------------------------------------------------------------------------
(* Addresses.                                                              *)

\* The engine and the protocol agree on what a primary is.
LEMMA PrimariesAgree ==
  ASSUME NEW a \in Byte
  PROVE  is_primary(a) <=> a \in Primaries
BY DEF is_primary, is_primary_nibble, get_priority_class, get_sub_address, Primaries

\* The symbols of the protocol are not the address of a primary.
LEMMA PrimariesTyped ==
  ASSUME NEW a \in Primaries
  PROVE  a \in Byte \ {SYN, ESC, BROADCAST_ADDRESS}
BY DEF Primaries, Byte, SYN, ESC, BROADCAST_ADDRESS

\* Our secondary address is the address of a secondary.
LEMMA OurAddresses ==
  /\ PrimaryAddress \in Primaries
  /\ OurSecondary \in Byte \ {SYN, ESC, BROADCAST_ADDRESS}
  /\ OurSecondary \notin Primaries
<1>1. PrimaryAddress \in Primaries
  BY EbusBusAssumption
<1>2. PICK h \in {0, 1, 3, 7, 15}, l \in {0, 1, 3, 7, 15} : PrimaryAddress = 16 * h + l
  BY <1>1 DEF Primaries, Byte
<1>3. PICK m \in {4, 5, 6, 8, 12} : OurSecondary % 16 = m /\ OurSecondary \in Byte
  BY <1>2 DEF OurSecondary, SecondaryOf, Byte
<1> QED
  BY <1>1, <1>3 DEF Primaries, Byte, SYN, ESC, BROADCAST_ADDRESS

\* What is expected after a request, by its ZZ.
LEMMA Expectations ==
  ASSUME NEW zz \in Byte
  PROVE  /\ is_ack_expected(zz) <=> zz # BROADCAST_ADDRESS
         /\ is_response_expected(zz) <=>
              zz \notin {ESC, BROADCAST_ADDRESS} /\ zz \notin Primaries
<1>0. ESC # BROADCAST_ADDRESS /\ ~is_primary(ESC) /\ ~is_primary(BROADCAST_ADDRESS)
  BY DEF ESC, BROADCAST_ADDRESS, is_primary, is_primary_nibble, get_priority_class
<1>1. CASE zz = ESC
  <2>1. get_type(zz) = "UNKNOWN"
    BY <1>0, <1>1 DEF get_type
  <2> QED
    BY <1>0, <1>1, <2>1 DEF is_ack_expected, is_response_expected
<1>2. CASE zz = BROADCAST_ADDRESS
  <2>1. get_type(zz) = "BROADCAST"
    BY <1>0, <1>2 DEF get_type
  <2> QED
    BY <1>0, <1>2, <2>1 DEF is_ack_expected, is_response_expected
<1>3. CASE zz \notin {ESC, BROADCAST_ADDRESS} /\ is_primary(zz)
  <2>1. get_type(zz) = "PRIMARY_PRIMARY"
    BY <1>3 DEF get_type
  <2> QED
    BY <1>3, <2>1, PrimariesAgree DEF is_ack_expected, is_response_expected
<1>4. CASE zz \notin {ESC, BROADCAST_ADDRESS} /\ ~is_primary(zz)
  <2>1. get_type(zz) = "PRIMARY_SECONDARY"
    BY <1>4 DEF get_type
  <2> QED
    BY <1>4, <2>1, PrimariesAgree DEF is_ack_expected, is_response_expected
<1> QED
  BY <1>1, <1>2, <1>3, <1>4

\* What several primaries put on the wire looks like the address of one.
LEMMA WiredAndTyped ==
  ASSUME NEW contenders \in SUBSET Primaries, contenders # {}
  PROVE  WiredAnd(contenders) \in Primaries
<1> DEFINE Lowest(nibbles) == CHOOSE n \in nibbles : \A m \in nibbles : n <= m
           high == {SubAddress(a) : a \in contenders}
           low == {PriorityClass(a) : a \in contenders}
           N == {0, 1, 3, 7, 15}
<1>1. high \in SUBSET N /\ high # {} /\ low \in SUBSET N /\ low # {}
  BY DEF Primaries, SubAddress, PriorityClass
<1>2. \A nibbles \in SUBSET N : nibbles # {} => Lowest(nibbles) \in N
  <2> TAKE nibbles \in SUBSET N
  <2> HAVE nibbles # {}
  <2>1. \E n \in nibbles : \A m \in nibbles : n <= m
    <3>1. nibbles \in SUBSET Nat
      OBVIOUS
    <3> QED
      BY <3>1, LeastExists
  <2> QED
    BY <2>1
<1>3. WiredAnd(contenders) = 16 * Lowest(high) + Lowest(low)
  BY DEF WiredAnd
<1> HIDE DEF Lowest, high, low
<1>4. \A h \in N, l \in N : 16 * h + l \in Primaries
  BY DEF Primaries, Byte
<1> QED
  BY <1>1, <1>2, <1>3, <1>4

-----------------------------------------------------------------------------
(* One byte in the engine.                                                 *)

\* Each state of the receiving half has its own handler.
LEMMA ReceiveByState ==
  ASSUME NEW t, NEW b, Receive(t, b)
  PROVE  /\ t.state = "waitForSyn" => ReceiveSyn(t, b)
         /\ t.state = "waitForArbitration" => ReceivePrimary(t, b)
         /\ t.state = "waitForRequestData" =>
              RequestInterrupted(t, b) \/ ReceiveRequestData(t, b)
         /\ t.state = "waitForRequestAck" => ReceiveRequestAck(t, b)
         /\ t.state = "waitForResponseData" =>
              ResponseInterrupted(t, b) \/ ReceiveResponseData(t, b)
         /\ t.state = "waitForResponseAck" => ReceiveResponseAck(t, b)
BY DEF Receive, ReceiveSyn, ReceivePrimary, RequestInterrupted, ReceiveRequestData,
       ReceiveRequestAck, ResponseInterrupted, ReceiveResponseData, ReceiveResponseAck,
       InState

\* A request to our secondary address is answered, and a response to our own
\* request; with ACK only when the CRC is right.
LEMMA RespondByState ==
  ASSUME NEW t, NEW crcMatches \in BOOLEAN, NEW reply_size, Respond(t, crcMatches, reply_size)
  PROVE  /\ t.state \notin {"waitForRequestAck", "waitForResponseAck"} => resp_tx' = "none"
         /\ t.state = "waitForRequestAck" =>
              IF t.zz = OurSecondary THEN resp_tx' \in {"nack", "reply"} ELSE resp_tx' = "none"
         /\ t.state = "waitForResponseAck" =>
              IF t.qq = PrimaryAddress
              THEN /\ resp_tx' \in {"nack", "ack_syn"}
                   /\ resp_tx' = "ack_syn" => crcMatches
              ELSE resp_tx' = "none"
<1>0. to_secondary(PrimaryAddress) = OurSecondary
  BY EbusBusAssumption
<1>1. CASE IsResponseToUs(t)
  <2>1. resp_tx' = IF is_response_valid(t, crcMatches) THEN "ack_syn" ELSE "nack"
    BY <1>1 DEF Respond, IsResponseToUs, IsRequestToUs
  <2>2. is_response_valid(t, crcMatches) => crcMatches
    BY DEF is_response_valid
  <2> QED
    BY <1>1, <2>1, <2>2 DEF IsResponseToUs
<1>2. CASE IsRequestToUs(t)
  <2>1. resp_tx' = HandleResponse(t, crcMatches, reply_size)
    BY <1>2 DEF Respond, IsResponseToUs, IsRequestToUs
  <2>2. HandleResponse(t, crcMatches, reply_size) \in {"reply", "nack"}
    BY DEF HandleResponse
  <2> QED
    BY <1>0, <1>2, <2>1, <2>2 DEF IsRequestToUs
<1>3. CASE ~IsResponseToUs(t) /\ ~IsRequestToUs(t)
  BY <1>0, <1>3 DEF Respond, IsResponseToUs, IsRequestToUs
<1> QED
  BY <1>1, <1>2, <1>3

\* The command a byte is processed with has a request, unless it is finished,
\* and contends only if the last command does.
LEMMA CurrentCommandHasRequest ==
  ASSUME active_command_ \in CommandType, HasRequest(active_command_),
         NEW dequeued \in Commands \cup {NoRequest}
  PROVE  LET c == CurrentCommand(dequeued) IN
         /\ c \in CommandType /\ HasRequest(c)
         /\ IsContending(active_command_) => c = active_command_
         /\ ~IsContending(active_command_) => ~IsContending(c)
<1> DEFINE c == CurrentCommand(dequeued)
<1>1. c \in CommandType
  BY CurrentCommandTyped
<1>2. CASE MayDequeue /\ dequeued # NoRequest
  <2>1. c = NewCommand(dequeued) /\ dequeued \in Commands
    BY <1>2 DEF CurrentCommand
  <2>2. c.state = "waitForSend" /\ c.request \in Commands
    BY <2>1 DEF NewCommand
  <2> QED
    BY <1>1, <1>2, <2>2 DEF MayDequeue, IsContending, is_finished, EndStates, HasRequest
<1>3. CASE ~(MayDequeue /\ dequeued # NoRequest)
  BY <1>1, <1>3 DEF CurrentCommand
<1> QED
  BY <1>2, <1>3

\* A command that does not contend begins with a SYN and not with another byte.
LEMMA QuietCommand ==
  ASSUME NEW c \in CommandType, HasRequest(c), ~IsContending(c),
         NEW b, b # SYN, Send(c, b)
  PROVE  /\ cmd_tx' = "none" /\ ~IsContending(active_command_') /\ HasRequest(active_command_')
<1> USE DEF IsContending, HasRequest
<1>0. \A s \in CommandStates : set_state(c, s).state = s /\ set_state(c, s).request = c.request
  BY DEF set_state, CommandType
<1>1. CASE CommandWaits(c, b) /\ IgnoresByte(c, b)
  BY <1>1 DEF CommandWaits
<1>2. CASE CommandAcknowledged(c, b)
  BY <1>0, <1>2 DEF CommandAcknowledged, CommandStates, is_finished, EndStates
<1> QED
  BY <1>1, <1>2
     DEF Send, StartArbitration, RepeatArbitration, WinArbitration, EnterSecondRound,
         LoseArbitration, CommandTimedOut, Contends, Eligible, MaySend

\* A command that contends wins with its QQ on the wire, and loses otherwise;
\* there is a second round only after the first.
LEMMA ContendingCommand ==
  ASSUME NEW c \in CommandType, HasRequest(c), IsContending(c),
         NEW b, b # SYN, Send(c, b)
  PROVE  /\ HasRequest(active_command_')
         /\ b = PrimaryAddress =>
              /\ cmd_tx' = "request" /\ ~IsContending(active_command_')
              /\ active_command_'.request = c.request /\ c.request \in Commands
         /\ b # PrimaryAddress =>
              /\ cmd_tx' = "none"
              /\ IsContending(active_command_') =>
                   /\ c.state = "waitForArbitration"
                   /\ active_command_'.state = "waitForArbitration2nd"
<1> USE DEF IsContending, HasRequest
<1>0. /\ \A s \in CommandStates : set_state(c, s).state = s /\ set_state(c, s).request = c.request
      /\ ~is_finished(c) /\ c.request \in Commands
  BY DEF set_state, CommandType, is_finished, EndStates
<1>1. CASE WinArbitration(c, b)
  BY <1>0, <1>1 DEF WinArbitration, CommandStates, IsEcho
<1>2. CASE EnterSecondRound(c, b)
  BY <1>0, <1>2 DEF EnterSecondRound, Eligible, CommandStates, IsEcho
<1>3. CASE LoseArbitration(c, b)
  <2>1. /\ active_command_'.state \in {"waitForSend", "endSendFailed"}
        /\ active_command_'.request = c.request /\ cmd_tx' = "none"
    BY <1>3 DEF LoseArbitration, RetryOrFail, CommandType
  <2> QED
    BY <1>0, <1>3, <2>1 DEF LoseArbitration, IsEcho
<1> QED
  BY <1>1, <1>2, <1>3
     DEF Send, IgnoresByte, is_finished, EndStates, StartArbitration, RepeatArbitration,
         CommandAcknowledged, CommandTimedOut

\* No primary has the priority class of SYN.
LEMMA SynIsNoPrimary ==
  PrimaryAddress # SYN /\ get_priority_class(PrimaryAddress) # get_priority_class(SYN)
<1>1. PICK h \in {0, 1, 3, 7, 15}, l \in {0, 1, 3, 7, 15} : PrimaryAddress = 16 * h + l
  BY OurAddresses DEF Primaries, Byte
<1>2. PrimaryAddress % 16 = l /\ SYN % 16 = 10
  BY <1>1 DEF SYN
<1> QED
  BY <1>1, <1>2 DEF get_priority_class

\* A SYN makes a command contend, for the first time or again, or does not: a QQ
\* that nobody has heard is lost.
LEMMA SynCommand ==
  ASSUME NEW c \in CommandType, HasRequest(c), Send(c, SYN)
  PROVE  /\ HasRequest(active_command_')
         /\ \/ cmd_tx' = "qq" /\ IsContending(active_command_')
            \/ cmd_tx' = "none" /\ ~IsContending(active_command_')
<1> USE DEF IsContending, HasRequest
<1>0. /\ \A s \in CommandStates : set_state(c, s).state = s /\ set_state(c, s).request = c.request
      /\ SYN # ACK /\ ~IsEcho(SYN) /\ ~Eligible(c, SYN)
  BY SynIsNoPrimary DEF set_state, CommandType, SYN, ACK, IsEcho, Eligible
<1>1. CASE CommandWaits(c, SYN) /\ IgnoresByte(c, SYN)
  BY <1>1 DEF CommandWaits, IgnoresByte, is_finished, EndStates
<1>2. CASE StartArbitration(c, SYN)
  BY <1>0, <1>2 DEF StartArbitration, CommandStates, is_finished, EndStates
<1>3. CASE RepeatArbitration(c, SYN)
  BY <1>3 DEF RepeatArbitration
<1>4. CASE CommandTimedOut(c, SYN)
  BY <1>4 DEF CommandTimedOut, RetryOrFail, CommandType, is_finished, EndStates
<1>5. CASE LoseArbitration(c, SYN)
  BY <1>5 DEF LoseArbitration, Contends, RetryOrFail, CommandType, is_finished, EndStates
<1> QED
  BY <1>0, <1>1, <1>2, <1>3, <1>4, <1>5
     DEF Send, WinArbitration, EnterSecondRound, CommandAcknowledged


\* The header of the received telegram is filled from the front.
LEMMA ReceiveHeader ==
  ASSUME NEW t \in TelegramType, t.state \in ReceiverStates \ EndStates, Fits(t),
         t.state \in {"waitForSyn", "waitForArbitration"} => t.qq = ESC /\ t.zz = ESC,
         NEW b \in Byte, Receive(t, b)
  PROVE  HeaderInv'
<1> DEFINE p == push_req_data(t, real_byte(b))
           r == receiving_telegram_'
<1>0. /\ \A s \in PendingStates \cup EndStates, u \in TelegramType :
            set_state(u, s).state = s /\ set_state(u, s).qq = u.qq
            /\ set_state(u, s).zz = u.zz /\ set_state(u, s).req = u.req
      /\ p \in TelegramType /\ p.req = t.req + 1 /\ p.state = t.state
      /\ t.req \in Nat /\ (t.req = 0 => p.zz = t.zz)
  <2>1. \A s \in PendingStates \cup EndStates, u \in TelegramType :
          set_state(u, s).state = s /\ set_state(u, s).qq = u.qq
          /\ set_state(u, s).zz = u.zz /\ set_state(u, s).req = u.req
    BY DEF set_state, TelegramType
  <2>2. p \in TelegramType /\ p.req = t.req + 1 /\ p.state = t.state
    BY RealByteTyped, PushRequestTyped
  <2>3. t.req \in Nat /\ (t.req = 0 => p.zz = t.zz)
    BY DEF TelegramType, push_req_data, OFFSET_ZZ
  <2> QED
    BY <2>1, <2>2, <2>3
<1>1. CASE ReceiveSyn(t, b)
  BY <1>0, <1>1 DEF ReceiveSyn, HeaderInv, InState, PendingStates
<1>2. CASE ReceivePrimary(t, b)
  <2>1. CASE b = SYN
    BY <1>2, <2>1 DEF ReceivePrimary, HeaderInv, InState
  <2>2. CASE b # SYN
    <3>1. r = set_state(p, "waitForRequestData") /\ t.req = 0 /\ t.zz = ESC
      BY <1>2, <2>2 DEF ReceivePrimary, InState, Fits
    <3> HIDE DEF p
    <3> QED
      BY <1>0, <3>1 DEF HeaderInv, PendingStates
  <2> QED
    BY <2>1, <2>2
<1>3. CASE ReceiveRequestData(t, b)
  <2>1. t.req >= 1
    BY <1>3 DEF ReceiveRequestData, InState, Fits
  <2>2. CASE ~is_request_complete(p)
    <3>1. r = p
      BY <1>3, <2>2 DEF ReceiveRequestData
    <3> HIDE DEF p
    <3> QED
      BY <1>0, <1>3, <2>1, <3>1 DEF HeaderInv, ReceiveRequestData, InState
  <2>3. CASE is_request_complete(p)
    <3>1. PICK s \in {"waitForRequestAck", "endCompleted"} : r = set_state(p, s)
      BY <1>3, <2>3 DEF ReceiveRequestData
    <3> HIDE DEF p
    <3> QED
      BY <1>0, <3>1 DEF HeaderInv, PendingStates, EndStates
  <2> QED
    BY <2>2, <2>3
<1>4. CASE ReceiveResponseData(t, b)
  <2> DEFINE q == push_response_data(t, real_byte(b))
  <2>1. q \in TelegramType /\ q.state = "waitForResponseData"
    BY <1>4, RealByteTyped, PushResponseTyped DEF ReceiveResponseData, InState
  <2>2. r = q \/ r = set_state(q, "waitForResponseAck")
    BY <1>4 DEF ReceiveResponseData
  <2> HIDE DEF q
  <2> QED
    BY <1>0, <2>1, <2>2 DEF HeaderInv, PendingStates
<1>5. ASSUME NEW s \in {"waitForResponseData"} \cup EndStates, r = set_state(t, s)
      PROVE  HeaderInv'
  BY <1>0, <1>5 DEF HeaderInv, PendingStates, EndStates
<1>6. CASE \/ RequestInterrupted(t, b) \/ ReceiveRequestAck(t, b)
           \/ ResponseInterrupted(t, b) \/ ReceiveResponseAck(t, b)
  <2>1. \E s \in {"waitForResponseData"} \cup EndStates : r = set_state(t, s)
    BY <1>6 DEF RequestInterrupted, ReceiveRequestAck, ResponseInterrupted,
                ReceiveResponseAck, EndStates
  <2> QED
    BY <1>5, <2>1
<1> QED
  BY <1>1, <1>2, <1>3, <1>4, <1>6 DEF Receive

\* What the engine keeps, whatever byte it reads.
LEMMA WireInv ==
  ASSUME IInv, HeaderInv, WireTyped,
         NEW b \in Byte, NEW crcMatches \in BOOLEAN, NEW unsent, Wire(b, crcMatches, unsent)
  PROVE  /\ IInv' /\ HeaderInv'
         /\ command_queue_' \in Seq(Commands) /\ Len(command_queue_') <= CommandQueueSize
<1>1. PICK reply_size \in ReplySizes :
        process_received_char(b, crcMatches, DequeueCommand, reply_size)
  BY DEF Wire
<1>2. DequeueCommand \in Commands \cup {NoRequest} /\ reply_size \in Nat
  BY EbusAssumption DEF DequeueCommand, WireTyped
<1>3. IInv'
  BY <1>1, <1>2, EarlyReturnInv, ProcessSymbolInv DEF process_received_char
<1>4. HeaderInv'
  <2>1. CASE EscapeBegins(b)
    BY <2>1 DEF EscapeBegins, HeaderInv
  <2>2. CASE InvalidEscape(b)
    BY <2>2 DEF InvalidEscape, HeaderInv, NewTelegram
  <2>3. CASE ProcessSymbol(b, crcMatches, DequeueCommand, reply_size)
    <3>1. /\ CurrentTelegram \in TelegramType /\ Fits(CurrentTelegram)
          /\ CurrentTelegram.state \in ReceiverStates \ EndStates
      BY CurrentTelegramTyped, TypeOKStates DEF IInv, TypeOK
    <3>2. CurrentTelegram.state \in {"waitForSyn", "waitForArbitration"} =>
            CurrentTelegram.qq = ESC /\ CurrentTelegram.zz = ESC
      BY DEF CurrentTelegram, NewTelegram, HeaderInv
    <3>3. Receive(CurrentTelegram, b)
      BY <2>3 DEF ProcessSymbol
    <3> QED
      BY <3>1, <3>2, <3>3, ReceiveHeader
  <2> QED
    BY <1>1, <2>1, <2>2, <2>3 DEF process_received_char
<1>5. command_queue_' \in Seq(Commands) /\ Len(command_queue_') <= CommandQueueSize
  <2>1. CASE IsSymbol(b) /\ DequeueCommand # NoRequest
    <3>1. command_queue_ # <<>> /\ command_queue_' = Tail(command_queue_)
      BY <2>1 DEF Wire, DequeueCommand
    <3>2. command_queue_ \in Seq(Commands) /\ Len(command_queue_) <= CommandQueueSize
      BY DEF WireTyped
    <3>3. /\ Tail(command_queue_) \in Seq(Commands)
          /\ Len(Tail(command_queue_)) = Len(command_queue_) - 1 /\ Len(command_queue_) \in Nat
      BY <3>1, <3>2
    <3> QED
      BY <3>1, <3>2, <3>3, EbusBusAssumption
  <2>2. CASE ~(IsSymbol(b) /\ DequeueCommand # NoRequest)
    BY <2>2 DEF Wire, WireTyped
  <2> QED
    BY <2>1, <2>2
<1> QED
  BY <1>3, <1>4, <1>5

\* A byte that ends the call early writes nothing.
LEMMA WireEarly ==
  ASSUME NEW b, NEW crcMatches, NEW unsent \in Seq(Byte), Wire(b, crcMatches, unsent),
         ~IsSymbol(b), in_esc \in BOOLEAN
  PROVE  /\ active_command_' = active_command_ /\ uart_tx' = unsent
         /\ ~in_esc => /\ b = ESC /\ in_esc' /\ receiving_telegram_' = receiving_telegram_
         /\ in_esc => ~in_esc' /\ receiving_telegram_' = NewTelegram
<1>1. PICK reply_size :
        process_received_char(b, crcMatches, DequeueCommand, reply_size)
  BY DEF Wire
<1>2. EscapeBegins(b) \/ InvalidEscape(b)
  BY <1>1 DEF process_received_char, ProcessSymbol
<1>3. cmd_tx' = "none" /\ resp_tx' = "none" /\ active_command_' = active_command_
  BY <1>2 DEF EscapeBegins, InvalidEscape, Silent
<1>4. uart_tx' = unsent
  <2>1. uart_tx' = unsent \o <<>> \o <<>>
    BY <1>3 DEF Wire, CommandBytes, ResponseBytes
  <2> QED
    BY <2>1, ConcatEmptySeq
<1> QED
  BY <1>2, <1>3, <1>4 DEF EscapeBegins, InvalidEscape

\* What a symbol does to the two halves of the engine.
LEMMA WireSymbol ==
  ASSUME IInv, WireTyped, HasRequest(active_command_),
         NEW b, NEW crcMatches \in BOOLEAN, NEW unsent, Wire(b, crcMatches, unsent),
         IsSymbol(b)
  PROVE  /\ ~in_esc'
         /\ Receive(CurrentTelegram, b)
         /\ \E reply_size : Respond(receiving_telegram_', crcMatches, reply_size)
         /\ \E c \in CommandType :
              /\ HasRequest(c) /\ Send(c, b)
              /\ IsContending(active_command_) => c = active_command_
              /\ ~IsContending(active_command_) => ~IsContending(c)
         /\ uart_tx' = unsent \o CommandBytes(cmd_tx', active_command_'.request)
                              \o ResponseBytes(resp_tx')
<1>1. PICK reply_size \in ReplySizes :
        process_received_char(b, crcMatches, DequeueCommand, reply_size)
  BY DEF Wire
<1>2. ProcessSymbol(b, crcMatches, DequeueCommand, reply_size)
  BY <1>1, Zenon DEF process_received_char, EscapeBegins, InvalidEscape, IsSymbol
<1>3. DequeueCommand \in Commands \cup {NoRequest} /\ active_command_ \in CommandType
  BY DEF DequeueCommand, WireTyped, IInv, TypeOK
<1>4. Send(CurrentCommand(DequeueCommand), b)
  BY <1>2 DEF ProcessSymbol
<1>5. \E c \in CommandType :
        /\ HasRequest(c) /\ Send(c, b)
        /\ IsContending(active_command_) => c = active_command_
        /\ ~IsContending(active_command_) => ~IsContending(c)
  BY <1>3, <1>4, CurrentCommandHasRequest
<1> QED
  BY <1>2, <1>5 DEF ProcessSymbol, CountCharacter, Wire


\* A byte that is not a SYN, when a command does not contend or loses.
LEMMA WireQuiet ==
  ASSUME IInv, WireTyped, HasRequest(active_command_),
         NEW b \in Byte \ {SYN}, NEW crcMatches \in BOOLEAN, NEW unsent \in Seq(Byte),
         Wire(b, crcMatches, unsent), IsSymbol(b),
         IsContending(active_command_) =>
           b # PrimaryAddress /\ active_command_.state = "waitForArbitration2nd"
  PROVE  /\ ~in_esc'
         /\ Receive(CurrentTelegram, b)
         /\ \E reply_size : Respond(receiving_telegram_', crcMatches, reply_size)
         /\ HasRequest(active_command_') /\ ~IsContending(active_command_')
         /\ uart_tx' = unsent \o ResponseBytes(resp_tx')
<1>1. PICK c \in CommandType :
        /\ HasRequest(c) /\ Send(c, b)
        /\ IsContending(active_command_) => c = active_command_
        /\ ~IsContending(active_command_) => ~IsContending(c)
  BY WireSymbol
<1>2. HasRequest(active_command_') /\ ~IsContending(active_command_') /\ cmd_tx' = "none"
  <2>1. CASE IsContending(active_command_)
    BY <1>1, <2>1, ContendingCommand
  <2>2. CASE ~IsContending(active_command_)
    BY <1>1, <2>2, QuietCommand
  <2> QED
    BY <2>1, <2>2
<1>3. uart_tx' = unsent \o ResponseBytes(resp_tx')
  <2>1. uart_tx' = unsent \o <<>> \o ResponseBytes(resp_tx')
    BY <1>2, WireSymbol DEF CommandBytes
  <2>2. unsent \o <<>> = unsent
    BY ConcatEmptySeq
  <2> QED
    BY <2>1, <2>2
<1> QED
  BY <1>2, <1>3, WireSymbol

\* A telegram that is skipped is skipped on.
LEMMA SkipsOn ==
  ASSUME receiving_telegram_.state = "waitForSyn", NEW b, b # SYN, Receive(CurrentTelegram, b),
         NEW crcMatches \in BOOLEAN,
         \E reply_size : Respond(receiving_telegram_', crcMatches, reply_size)
  PROVE  receiving_telegram_' = receiving_telegram_ /\ resp_tx' = "none"
<1>1. CurrentTelegram = receiving_telegram_
  BY DEF CurrentTelegram, is_finished, EndStates
<1>2. receiving_telegram_' = receiving_telegram_
  BY <1>1, ReceiveByState DEF ReceiveSyn
<1> QED
  BY <1>2, RespondByState

\* What stays in the UART when the engine does not answer.
LEMMA NoResponseBytes ==
  ASSUME NEW unsent \in Seq(Byte)
  PROVE  unsent \o ResponseBytes("none") = unsent
BY ConcatEmptySeq DEF ResponseBytes

\* The answers as bytes.
LEMMA ResponseBytesTyped ==
  /\ ResponseBytes("nack") = <<NACK>>
  /\ ResponseBytes("ack_syn") = <<ACK, SYN>>
  /\ ResponseBytes("reply") = <<ACK>> \o Escaped(Reply)
  /\ Escaped(Reply) \in Seq(Byte) /\ Reply \in Seq(Byte)
  /\ \A tx \in {"nack", "ack_syn", "reply"} :
       ResponseBytes(tx) \in Seq(Byte) /\ ResponseBytes(tx) # <<>>
       /\ <<>> \o ResponseBytes(tx) = ResponseBytes(tx)
<1>1. Reply \in Seq(Byte)
  BY EbusBusAssumption DEF WellFormedResponse
<1>2. Escaped(Reply) \in Seq(Byte)
  BY <1>1, EscapedTyped
<1>3. ACK \in Byte /\ NACK \in Byte /\ SYN \in Byte
  BY DEF ACK, NACK, SYN, Byte
<1>4. <<ACK>> \o Escaped(Reply) \in Seq(Byte) /\ <<ACK>> \o Escaped(Reply) # <<>>
  BY <1>2, <1>3, TakeFirst
<1>5. /\ ResponseBytes("nack") = <<NACK>>
      /\ ResponseBytes("ack_syn") = <<ACK, SYN>>
      /\ ResponseBytes("reply") = <<ACK>> \o Escaped(Reply)
  BY DEF ResponseBytes
<1>6. \A tx \in {"nack", "ack_syn", "reply"} :
        ResponseBytes(tx) \in Seq(Byte) /\ ResponseBytes(tx) # <<>>
  <2>1. <<NACK>> \in Seq(Byte) /\ <<NACK>> # <<>>
    BY <1>3
  <2>2. <<ACK, SYN>> \in Seq(Byte) /\ <<ACK, SYN>> # <<>>
    BY <1>3
  <2> QED
    BY <1>4, <1>5, <2>1, <2>2
<1> QED
  BY <1>1, <1>2, <1>5, <1>6, ConcatEmptySeq

\* The first symbol, and the others.
LEMMA TailTyped ==
  ASSUME NEW symbols \in Seq(Byte), symbols # <<>>
  PROVE  /\ symbols[1] \in Byte /\ Head(symbols) = symbols[1]
         /\ Tail(symbols) \in Seq(Byte)
         /\ Len(symbols) \in Nat \ {0} /\ Len(Tail(symbols)) = Len(symbols) - 1
         /\ \A i \in 1 .. Len(symbols) : symbols[i] \in Byte
         /\ \A i \in 1 .. Len(symbols) - 1 : Tail(symbols)[i] = symbols[i + 1]
         /\ Tail(symbols) = <<>> <=> Len(symbols) = 1
<1>1. /\ Len(symbols) \in Nat \ {0} /\ Head(symbols) = symbols[1]
      /\ \A i \in 1 .. Len(symbols) : symbols[i] \in Byte
  OBVIOUS
<1>2. /\ Tail(symbols) \in Seq(Byte) /\ Len(Tail(symbols)) = Len(symbols) - 1
      /\ \A i \in 1 .. Len(Tail(symbols)) : Tail(symbols)[i] = symbols[i + 1]
  BY HeadTailProperties
<1>3. Tail(symbols) = <<>> <=> Len(Tail(symbols)) = 0
  BY <1>2, EmptySeq
<1>4. symbols[1] \in Byte
  BY <1>1
<1> QED
  BY <1>1, <1>2, <1>3, <1>4

\* A length the buffers are made for is taken as it comes.
LEMMA GetNNFits ==
  ASSUME NEW nn \in Byte, nn < MAX_DATA_LENGTH
  PROVE  get_nn(nn) = nn /\ nn \in Nat
BY MaxDataLengthAssumption DEF get_nn, Byte

\* Storing the next symbol of a request: it is complete with the last.
LEMMA RequestSymbol ==
  ASSUME NEW t \in TelegramType, t.state = "waitForRequestData", Fits(t),
         NEW symbols \in Seq(Byte), RequestGoesOn(t, symbols)
  PROVE  LET p == push_req_data(t, symbols[1]) IN
         /\ p \in TelegramType /\ p.state = "waitForRequestData" /\ p.req = t.req + 1
         /\ p.qq = t.qq
         /\ p.zz = IF t.req = 1 THEN symbols[1] ELSE t.zz
         /\ is_request_complete(p) <=> Tail(symbols) = <<>>
         /\ Tail(symbols) # <<>> => RequestGoesOn(p, Tail(symbols))
<1> DEFINE p == push_req_data(t, symbols[1])
           rest == Tail(symbols)
<1>1. /\ symbols # <<>> /\ symbols[1] \in Byte /\ rest \in Seq(Byte)
      /\ Len(symbols) \in Nat /\ Len(rest) = Len(symbols) - 1
      /\ \A i \in 1 .. Len(symbols) : symbols[i] \in Byte
      /\ \A i \in 1 .. Len(symbols) - 1 : rest[i] = symbols[i + 1]
      /\ (rest = <<>> <=> Len(symbols) = 1)
  <2>1. symbols # <<>>
    BY DEF RequestGoesOn
  <2> QED
    BY <2>1, TailTyped
<1>2. t.req \in Nat /\ t.req >= 1 /\ t.nn \in Nat
  BY MaxDataLengthAssumption DEF TelegramType, Fits
<1>3. p \in TelegramType /\ p.state = "waitForRequestData" /\ p.req = t.req + 1
  BY <1>1, PushRequestTyped
<1>4. p.qq = t.qq /\ p.zz = (IF t.req = 1 THEN symbols[1] ELSE t.zz)
  BY <1>2 DEF push_req_data, TelegramType, OFFSET_QQ, OFFSET_ZZ
<1>5. p.nn = IF t.req = OFFSET_NN THEN get_nn(symbols[1]) ELSE t.nn
  BY DEF push_req_data, TelegramType
<1> HIDE DEF p, rest
<1>6. is_request_complete(p) <=> p.req > OFFSET_DATA /\ p.req = OFFSET_DATA + p.nn + 1
  BY <1>3 DEF is_request_complete, IsPastSyn, PendingStates
<1>7. CASE t.req < OFFSET_NN
  <2>1. /\ 5 - t.req \in 2 .. Len(symbols) /\ Len(symbols) = 6 - t.req + symbols[5 - t.req]
        /\ symbols[5 - t.req] < MAX_DATA_LENGTH /\ Len(symbols) >= 6 - t.req
    BY <1>1, <1>2, <1>7 DEF RequestGoesOn, OFFSET_NN
  <2> DEFINE n == symbols[5 - t.req]
  <2>2. rest[5 - p.req] = n /\ n \in Nat
    <3> DEFINE i == 4 - t.req
    <3>1. /\ i \in 1 .. Len(symbols) - 1 /\ i + 1 \in 1 .. Len(symbols)
          /\ 5 - p.req = i /\ 5 - t.req = i + 1
      <4>1. Len(symbols) \in Nat /\ Len(symbols) >= 6 - t.req
        BY <1>1, <2>1
      <4> QED
        BY <1>2, <1>3, <1>7, <4>1 DEF OFFSET_NN
    <3> HIDE DEF i
    <3>2. rest[i] = symbols[i + 1] /\ symbols[i + 1] \in Byte
      BY <1>1, <3>1
    <3>3. n = symbols[i + 1] /\ rest[5 - p.req] = rest[i]
      BY <3>1
    <3> HIDE DEF n
    <3>4. rest[5 - p.req] = n
      BY <3>2, <3>3, Zenon
    <3>5. n \in Byte
      BY <3>2, <3>3, Zenon
    <3> QED
      BY <3>4, <3>5 DEF Byte
  <2> HIDE DEF n
  <2>3. RequestGoesOn(p, rest) /\ rest # <<>>
    <3>1. Len(symbols) = 6 - t.req + n /\ n < MAX_DATA_LENGTH
      BY <2>1 DEF n
    <3>2. Len(rest) >= 6 - p.req /\ Len(rest) = 6 - p.req + n
      <4>1. Len(rest) = Len(symbols) - 1
        BY <1>1
      <4> QED
        BY <1>2, <1>3, <2>2, <3>1, <4>1
    <3>3. p.req <= OFFSET_NN /\ rest # <<>>
      BY <1>1, <1>2, <1>3, <1>7, <2>2, <3>1 DEF OFFSET_NN
    <3> QED
      BY <2>2, <3>1, <3>2, <3>3 DEF RequestGoesOn
  <2> QED
    BY <1>2, <1>3, <1>4, <1>6, <1>7, <2>3 DEF p, rest, OFFSET_DATA, OFFSET_NN
<1>8. CASE t.req = OFFSET_NN
  <2>1. Len(symbols) = 2 + symbols[1] /\ symbols[1] < MAX_DATA_LENGTH
    BY <1>1, <1>8 DEF RequestGoesOn, OFFSET_NN
  <2>2. p.nn = symbols[1] /\ symbols[1] \in Nat
    BY <1>1, <1>5, <1>8, <2>1, GetNNFits
  <2>3. RequestGoesOn(p, rest) /\ rest # <<>>
    BY <1>1, <1>3, <1>8, <2>1, <2>2 DEF RequestGoesOn, OFFSET_NN, OFFSET_DATA
  <2> QED
    BY <1>3, <1>4, <1>6, <1>8, <2>3 DEF p, rest, OFFSET_DATA, OFFSET_NN
<1>9. CASE t.req > OFFSET_NN
  <2>1. p.nn = t.nn /\ Len(symbols) = OFFSET_DATA + t.nn + 1 - t.req
    BY <1>2, <1>5, <1>9 DEF RequestGoesOn, OFFSET_NN
  <2>2. is_request_complete(p) <=> rest = <<>>
    <3>1. is_request_complete(p) <=> t.req = OFFSET_DATA + t.nn
      BY <1>2, <1>3, <1>6, <1>9, <2>1 DEF OFFSET_DATA, OFFSET_NN
    <3>2. Len(symbols) = 1 <=> t.req = OFFSET_DATA + t.nn
      BY <1>2, <2>1 DEF OFFSET_DATA
    <3>3. rest = <<>> <=> Len(symbols) = 1
      BY <1>1
    <3> QED
      BY <3>1, <3>2, <3>3, Zenon
  <2>3. rest # <<>> => RequestGoesOn(p, rest)
    BY <1>1, <1>2, <1>3, <1>9, <2>1 DEF RequestGoesOn, OFFSET_DATA, OFFSET_NN
  <2> QED
    BY <1>3, <1>4, <2>2, <2>3 DEF p, rest
<1> QED
  BY <1>2, <1>7, <1>8, <1>9 DEF OFFSET_NN

\* Storing the next symbol of a response: the same.
LEMMA ResponseSymbol ==
  ASSUME NEW t \in TelegramType, t.state = "waitForResponseData", Fits(t),
         NEW symbols \in Seq(Byte), ResponseGoesOn(t, symbols)
  PROVE  LET p == push_response_data(t, symbols[1]) IN
         /\ p \in TelegramType /\ p.state = "waitForResponseData"
         /\ p.qq = t.qq /\ p.zz = t.zz
         /\ is_response_complete(p) <=> Tail(symbols) = <<>>
         /\ Tail(symbols) # <<>> => ResponseGoesOn(p, Tail(symbols))
<1> DEFINE p == push_response_data(t, symbols[1])
           rest == Tail(symbols)
<1>1. /\ symbols # <<>> /\ symbols[1] \in Byte /\ rest \in Seq(Byte)
      /\ Len(symbols) \in Nat /\ Len(rest) = Len(symbols) - 1
      /\ (rest = <<>> <=> Len(symbols) = 1)
  <2>1. symbols # <<>>
    BY DEF ResponseGoesOn
  <2> QED
    BY <2>1, TailTyped
<1>2. t.res \in Nat /\ t.res_nn \in Nat
  BY MaxDataLengthAssumption DEF TelegramType
<1>3. p \in TelegramType /\ p.state = "waitForResponseData" /\ p.res = t.res + 1
  BY <1>1, PushResponseTyped
<1>4. p.qq = t.qq /\ p.zz = t.zz
  BY DEF push_response_data, TelegramType
<1>5. p.res_nn = IF t.res = 0 THEN get_nn(symbols[1]) ELSE t.res_nn
  BY DEF push_response_data, TelegramType
<1> HIDE DEF p, rest
<1>6. is_response_complete(p) <=>
        p.res > RESPONSE_OFFSET /\ p.res = RESPONSE_OFFSET + p.res_nn + 1
  BY <1>3 DEF is_response_complete, IsPastSyn, PendingStates
<1>7. CASE t.res = 0
  <2>1. Len(symbols) = 2 + symbols[1] /\ symbols[1] < MAX_DATA_LENGTH
    BY <1>7 DEF ResponseGoesOn
  <2>2. p.res_nn = symbols[1] /\ symbols[1] \in Nat
    BY <1>1, <1>5, <1>7, <2>1, GetNNFits
  <2>3. ResponseGoesOn(p, rest) /\ rest # <<>>
    BY <1>1, <1>3, <1>7, <2>1, <2>2 DEF ResponseGoesOn, RESPONSE_OFFSET
  <2> QED
    BY <1>3, <1>4, <1>6, <1>7, <2>3 DEF p, rest, RESPONSE_OFFSET
<1>8. CASE t.res # 0
  <2>1. p.res_nn = t.res_nn /\ Len(symbols) = RESPONSE_OFFSET + t.res_nn + 1 - t.res
    BY <1>5, <1>8 DEF ResponseGoesOn
  <2>2. is_response_complete(p) <=> rest = <<>>
    <3>1. is_response_complete(p) <=> t.res = RESPONSE_OFFSET + t.res_nn
      <4>1. p.res = t.res + 1 /\ p.res_nn = t.res_nn
        BY <1>3, <2>1
      <4>2. t.res + 1 > RESPONSE_OFFSET
        BY <1>2, <1>8 DEF RESPONSE_OFFSET
      <4> QED
        BY <1>2, <1>6, <4>1, <4>2 DEF RESPONSE_OFFSET
    <3>2. Len(symbols) = 1 <=> t.res = RESPONSE_OFFSET + t.res_nn
      BY <1>2, <2>1 DEF RESPONSE_OFFSET
    <3>3. rest = <<>> <=> Len(symbols) = 1
      BY <1>1
    <3> QED
      BY <3>1, <3>2, <3>3, Zenon
  <2>3. rest # <<>> => ResponseGoesOn(p, rest)
    BY <1>1, <1>2, <1>3, <1>8, <2>1 DEF ResponseGoesOn, RESPONSE_OFFSET
  <2> QED
    BY <1>3, <1>4, <2>2, <2>3 DEF p, rest
<1> QED
  BY <1>7, <1>8

-----------------------------------------------------------------------------
(* A step on the bus: the next byte of a request or a response.            *)

\* The owner or the addressed secondary sends it.
Transmits(b, left, crcMatches, unsent) ==
  /\ bus.phase \in {"request", "response"} /\ Remaining # <<>>
  /\ b = Head(Remaining) /\ left = Tail(Remaining)
  /\ bus' = [Continue(b, left) EXCEPT !.script = IF uart_tx = <<>> THEN left ELSE <<>>]
  /\ unsent = IF uart_tx = <<>> THEN <<>> ELSE left
  /\ crcMatches = bus.good
  /\ Wire(b, crcMatches, unsent)

\* The byte is part of an encoding.
Reads(b, left, symbols, half) ==
  /\ symbols \in Seq(Byte) /\ symbols # <<>> /\ half \in BOOLEAN
  /\ in_esc => half
  /\ bus.zz = Nobody => bus.phase = "request" /\ ~half /\ symbols[1] \notin {SYN, ESC}
  /\ Skips \/ Follows(symbols, half)
  /\ b \in Byte \ {SYN} /\ left \in Seq(Byte)
  /\ half => /\ b = IF symbols[1] = ESC THEN ESCAPED_ESC ELSE ESCAPED_SYN
             /\ symbols[1] \in {SYN, ESC}
             /\ Encodes(left, Tail(symbols), FALSE)
  /\ ~half /\ symbols[1] \in {SYN, ESC} =>
       b = ESC /\ left # <<>> /\ Encodes(left, symbols, TRUE)
  /\ ~half /\ symbols[1] \notin {SYN, ESC} =>
       b = symbols[1] /\ Encodes(left, Tail(symbols), FALSE)

\* Every byte of a request or a response is one.
LEMMA TransmitsReads ==
  ASSUME BInv, NEW b, NEW left, NEW crcMatches, NEW unsent,
         Transmits(b, left, crcMatches, unsent)
  PROVE  \E symbols, half : Reads(b, left, symbols, half)
<1>1. PICK symbols \in Seq(Byte), half \in BOOLEAN :
        /\ Encodes(Remaining, symbols, half)
        /\ in_esc => half
        /\ bus.zz = Nobody /\ symbols # <<>> =>
             bus.phase = "request" /\ ~half /\ symbols[1] \notin {SYN, ESC}
        /\ Skips \/ Follows(symbols, half)
  BY DEF BInv, TransmissionInv, Transmits
<1>2. Remaining # <<>> /\ b = Head(Remaining) /\ left = Tail(Remaining)
  BY DEF Transmits
<1>3. /\ symbols # <<>> /\ Tail(symbols) \in Seq(Byte) /\ Remaining \in Seq(Byte)
      /\ b \in Byte \ {SYN}
      /\ half => /\ b = IF symbols[1] = ESC THEN ESCAPED_ESC ELSE ESCAPED_SYN
                 /\ symbols[1] \in {SYN, ESC}
                 /\ left = Escaped(Tail(symbols))
      /\ ~half /\ symbols[1] \in {SYN, ESC} =>
           b = ESC /\ left # <<>> /\ Encodes(left, symbols, TRUE)
      /\ ~half /\ symbols[1] \notin {SYN, ESC} =>
           b = symbols[1] /\ left = Escaped(Tail(symbols))
  <2> DEFINE bytes == Remaining
  <2>1. Encodes(bytes, symbols, half) /\ bytes # <<>>
    BY <1>1, <1>2
  <2>2. b = Head(bytes) /\ left = Tail(bytes) /\ Remaining = bytes
    BY <1>2
  <2> HIDE DEF bytes
  <2>3. /\ symbols # <<>> /\ symbols[1] \in Byte /\ Tail(symbols) \in Seq(Byte)
        /\ bytes \in Seq(Byte)
        /\ Head(bytes) \in Byte \ {SYN}
        /\ half => /\ Head(bytes) = IF symbols[1] = ESC THEN ESCAPED_ESC ELSE ESCAPED_SYN
                   /\ symbols[1] \in {SYN, ESC}
                   /\ Tail(bytes) = Escaped(Tail(symbols))
        /\ ~half /\ symbols[1] \in {SYN, ESC} =>
             /\ Head(bytes) = ESC
             /\ Tail(bytes) # <<>> /\ Encodes(Tail(bytes), symbols, TRUE)
        /\ ~half /\ symbols[1] \notin {SYN, ESC} =>
             /\ Head(bytes) = symbols[1]
             /\ Tail(bytes) = Escaped(Tail(symbols))
    <3>1. CASE half = TRUE
      BY <2>1, <3>1, EncodesStep
    <3>2. CASE half = FALSE
      BY <2>1, <3>2, EncodesStep
    <3> QED
      BY <3>1, <3>2
  <2> QED
    BY <2>2, <2>3
<1>4. left \in Seq(Byte)
  BY <1>2, <1>3, HeadTailProperties
<1>5. left = Escaped(Tail(symbols)) => Encodes(left, Tail(symbols), FALSE)
  BY <1>3 DEF Encodes
<1>6. Reads(b, left, symbols, half)
  BY <1>1, <1>3, <1>4, <1>5 DEF Reads
<1> QED
  BY <1>6

\* What the byte does to the bus, and that no command begins or wins with it.
LEMMA TransmitsWire ==
  ASSUME BInv, NEW b, NEW left, NEW crcMatches, NEW unsent,
         Transmits(b, left, crcMatches, unsent)
  PROVE  /\ bus \in BusType /\ bus' \in BusType
         /\ bus'.owner = bus.owner /\ bus'.good = bus.good /\ bus'.clean = bus.clean
         /\ bus'.zz = IF bus.zz = Nobody THEN b ELSE bus.zz
         /\ bus'.script = IF uart_tx = <<>> THEN left ELSE <<>>
         /\ bus'.phase = CASE left # <<>> -> bus.phase
                           [] left = <<>> /\ bus.phase = "response" -> "respack"
                           [] left = <<>> /\ bus.phase = "request" ->
                                IF bus'.zz # BROADCAST_ADDRESS THEN "ack" ELSE "end"
         /\ bus'.phase = "end" => bus'.carried
         /\ left \in Seq(Byte) /\ unsent \in Seq(Byte) /\ crcMatches \in BOOLEAN
         /\ b \in Byte \ {SYN} /\ Wire(b, crcMatches, unsent)
         /\ IsContending(active_command_) =>
              /\ active_command_.state = "waitForArbitration2nd"
              /\ b \notin {ESC, PrimaryAddress} /\ ~in_esc
         /\ IInv' /\ HeaderInv'
         /\ command_queue_' \in Seq(Commands) /\ Len(command_queue_') <= CommandQueueSize
<1>1. b \in Byte \ {SYN} /\ left \in Seq(Byte)
  BY TransmitsReads DEF Reads
<1>2. bus \in BusType
  BY DEF BInv, WireTyped
<1> DEFINE script == IF uart_tx = <<>> THEN left ELSE <<>>
           zz == IF bus.zz = Nobody THEN b ELSE bus.zz
           next == CASE bus.phase = "response" -> "respack"
                     [] bus.phase = "request" /\ zz # BROADCAST_ADDRESS -> "ack"
                     [] bus.phase = "request" /\ zz = BROADCAST_ADDRESS -> "end"
           phase == IF left = <<>> THEN next ELSE bus.phase
           carried == (left = <<>> /\ next = "end")
<1>3. bus' = [bus EXCEPT !.zz = zz, !.phase = phase, !.carried = carried, !.script = script]
  BY <1>2 DEF Transmits, Continue, BusType
<1>4. bus.phase \in {"request", "response"}
  BY DEF Transmits
<1>5. /\ bus.phase = "response" => next = "respack"
      /\ bus.phase = "request" => next = IF zz # BROADCAST_ADDRESS THEN "ack" ELSE "end"
  OBVIOUS
<1>6. script \in Seq(Byte) /\ zz \in Byte
  BY <1>1, <1>2 DEF BusType
<1> HIDE DEF script, next
<1>7. phase \in Phases /\ carried \in BOOLEAN /\ (phase = "end" => carried)
  BY <1>2, <1>4, <1>5 DEF Phases
<1> HIDE DEF zz, phase, carried
<1>8. /\ bus' \in BusType
      /\ bus'.owner = bus.owner /\ bus'.good = bus.good /\ bus'.clean = bus.clean
      /\ bus'.zz = zz /\ bus'.script = script /\ bus'.phase = phase
      /\ bus'.carried = carried
  BY <1>2, <1>3, <1>6, <1>7 DEF BusType
<1>9. phase = CASE left # <<>> -> bus.phase
                [] left = <<>> /\ bus.phase = "response" -> "respack"
                [] left = <<>> /\ bus.phase = "request" ->
                     IF bus'.zz # BROADCAST_ADDRESS THEN "ack" ELSE "end"
  BY <1>4, <1>5, <1>8 DEF phase
<1>10. unsent \in Seq(Byte) /\ crcMatches \in BOOLEAN /\ Wire(b, crcMatches, unsent)
  <2>2. crcMatches \in BOOLEAN
    BY <1>2 DEF Transmits, BusType
  <2>3. unsent \in Seq(Byte)
    BY <1>1 DEF Transmits
  <2> QED
    BY <2>2, <2>3, Zenon DEF Transmits
<1>11. IsContending(active_command_) =>
         /\ active_command_.state = "waitForArbitration2nd"
         /\ b \notin {ESC, PrimaryAddress} /\ ~in_esc
  <2> SUFFICES ASSUME IsContending(active_command_)
               PROVE  /\ active_command_.state = "waitForArbitration2nd"
                      /\ b \notin {ESC, PrimaryAddress} /\ ~in_esc
    OBVIOUS
  <2>1. /\ active_command_.state = "waitForArbitration2nd"
        /\ bus.script # <<>> /\ ~in_esc
        /\ Head(bus.script) \notin {SYN, ESC, PrimaryAddress}
    BY <1>4 DEF BInv, CommandInv, IsContending
  <2>2. uart_tx = <<>>
    BY <2>1 DEF BInv, UartInv
  <2> QED
    BY <2>1, <2>2 DEF Transmits, Remaining
<1>12. /\ IInv' /\ HeaderInv'
       /\ command_queue_' \in Seq(Commands) /\ Len(command_queue_') <= CommandQueueSize
  BY <1>1, <1>10, WireInv DEF BInv
<1> QED
  BY <1>1, <1>2, <1>7, <1>8, <1>9, <1>10, <1>11, <1>12 DEF zz, script

\* What the engine makes of a symbol of the telegram.
LEMMA ReadsSymbol ==
  ASSUME BInv, NEW b, NEW left, NEW crcMatches, NEW unsent,
         Transmits(b, left, crcMatches, unsent),
         NEW symbols, NEW half, Reads(b, left, symbols, half), IsSymbol(b)
  PROVE  /\ Encodes(left, Tail(symbols), FALSE) /\ Tail(symbols) \in Seq(Byte)
         /\ left = <<>> <=> Tail(symbols) = <<>>
         /\ in_esc = half => real_byte(b) = symbols[1]
         /\ bus'.zz # Nobody
         /\ bus.zz = Nobody => bus'.zz = symbols[1]
<1>1. ~(~half /\ symbols[1] \in {SYN, ESC})
  BY DEF Reads, IsSymbol
<1>2. Encodes(left, Tail(symbols), FALSE)
  BY <1>1 DEF Reads
<1>3. Tail(symbols) \in Seq(Byte)
  BY TailTyped DEF Reads
<1>4. left = <<>> <=> Tail(symbols) = <<>>
  <2> DEFINE rest == Tail(symbols)
  <2>1. Encodes(left, rest, FALSE)
    BY <1>2
  <2> HIDE DEF rest
  <2>2. left = <<>> <=> rest = <<>>
    BY <2>1, EscapedTyped DEF Encodes
  <2> QED
    BY <2>2 DEF rest
<1>5. in_esc = half => real_byte(b) = symbols[1]
  <2>1. CASE half = TRUE
    <3>1. symbols[1] \in {SYN, ESC} /\ b = IF symbols[1] = ESC THEN ESCAPED_ESC ELSE ESCAPED_SYN
      BY <2>1 DEF Reads
    <3>2. in_esc => real_byte(b) = IF b = ESCAPED_ESC THEN ESC ELSE SYN
      BY DEF real_byte
    <3> QED
      BY <2>1, <3>1, <3>2 DEF ESCAPED_ESC, ESCAPED_SYN
  <2>2. CASE half = FALSE
    <3>1. b = symbols[1]
      BY <1>1, <2>2 DEF Reads
    <3> QED
      BY <2>2, <3>1 DEF real_byte
  <2> QED
    BY <2>1, <2>2 DEF Reads
<1>6. bus'.zz = IF bus.zz = Nobody THEN b ELSE bus.zz
  BY TransmitsWire
<1>7. bus.zz = Nobody => b = symbols[1] /\ b # Nobody
  BY <1>1 DEF Reads, Nobody
<1> QED
  BY <1>2, <1>3, <1>4, <1>5, <1>6, <1>7

\* The received request grows by the symbol, or is complete with it.
LEMMA ReadsRequest ==
  ASSUME BInv, NEW b, NEW left, NEW crcMatches, NEW unsent,
         Transmits(b, left, crcMatches, unsent),
         NEW symbols, NEW half, Reads(b, left, symbols, half), IsSymbol(b),
         bus.phase = "request", Follows(symbols, half), Receive(CurrentTelegram, b)
  PROVE  LET r == receiving_telegram_' IN
         /\ r.qq = bus'.owner /\ r.zz = bus'.zz
         /\ left # <<>> => /\ r.state = "waitForRequestData" /\ r.req # 1
                           /\ RequestGoesOn(r, Tail(symbols))
         /\ left = <<>> => r.state = IF bus'.zz # BROADCAST_ADDRESS THEN "waitForRequestAck"
                                                                    ELSE "endCompleted"
<1> DEFINE t == receiving_telegram_
           r == receiving_telegram_'
           p == push_req_data(t, symbols[1])
<1>1. /\ in_esc = half /\ t.qq = bus.owner /\ t.state = "waitForRequestData"
      /\ RequestGoesOn(t, symbols)
      /\ IF t.req = 1 THEN bus.zz = Nobody ELSE bus.zz = t.zz /\ bus.zz # Nobody
  BY DEF Follows
<1>2. t \in TelegramType /\ Fits(t) /\ symbols \in Seq(Byte)
  BY DEF BInv, IInv, TypeOK, Reads
<1>3. /\ p \in TelegramType /\ p.state = "waitForRequestData" /\ p.req = t.req + 1
      /\ p.qq = t.qq
      /\ p.zz = IF t.req = 1 THEN symbols[1] ELSE t.zz
      /\ is_request_complete(p) <=> Tail(symbols) = <<>>
      /\ Tail(symbols) # <<>> => RequestGoesOn(p, Tail(symbols))
  BY <1>1, <1>2, RequestSymbol
<1>4. real_byte(b) = symbols[1] /\ (left = <<>> <=> Tail(symbols) = <<>>)
      /\ (bus.zz = Nobody => bus'.zz = symbols[1])
  BY <1>1, ReadsSymbol
<1>5. CurrentTelegram = t
  BY <1>1 DEF CurrentTelegram, is_finished, EndStates
<1>6. ReceiveRequestData(t, b)
  <2>1. b # SYN
    BY DEF Reads
  <2> QED
    BY <1>1, <1>5, <2>1, ReceiveByState DEF RequestInterrupted
<1>7. bus'.zz = (IF bus.zz = Nobody THEN b ELSE bus.zz) /\ bus'.owner = bus.owner
      /\ bus' \in BusType
  BY TransmitsWire
<1>8. p.zz = bus'.zz /\ p.qq = bus'.owner
  BY <1>1, <1>3, <1>4, <1>7
<1>9. r = IF ~is_request_complete(p) THEN p
          ELSE set_state(p, IF is_ack_expected(p.zz) THEN "waitForRequestAck" ELSE "endCompleted")
  BY <1>4, <1>6 DEF ReceiveRequestData
<1>10. CASE left # <<>>
  <2>1. r = p
    BY <1>3, <1>4, <1>9, <1>10
  <2>2. p.req # 1
    BY <1>1, <1>2, <1>3 DEF Fits, TelegramType
  <2> QED
    BY <1>3, <1>4, <1>8, <1>10, <2>1, <2>2
<1>11. CASE left = <<>>
  <2>1. is_ack_expected(p.zz) <=> bus'.zz # BROADCAST_ADDRESS
    BY <1>7, <1>8, Expectations DEF BusType
  <2>2. r = set_state(p, IF bus'.zz # BROADCAST_ADDRESS THEN "waitForRequestAck"
                                                        ELSE "endCompleted")
    BY <1>3, <1>4, <1>9, <1>11, <2>1
  <2> HIDE DEF p
  <2>3. \A s : set_state(p, s).qq = p.qq /\ set_state(p, s).zz = p.zz /\ set_state(p, s).state = s
    BY <1>3 DEF set_state, TelegramType
  <2> QED
    BY <1>8, <1>11, <2>2, <2>3
<1> QED
  BY <1>10, <1>11

\* The same for the response.
LEMMA ReadsResponse ==
  ASSUME BInv, NEW b, NEW left, NEW crcMatches, NEW unsent,
         Transmits(b, left, crcMatches, unsent),
         NEW symbols, NEW half, Reads(b, left, symbols, half), IsSymbol(b),
         bus.phase = "response", Follows(symbols, half), Receive(CurrentTelegram, b)
  PROVE  LET r == receiving_telegram_' IN
         /\ r.qq = bus'.owner /\ r.zz = bus'.zz
         /\ left # <<>> => r.state = "waitForResponseData" /\ ResponseGoesOn(r, Tail(symbols))
         /\ left = <<>> => r.state = "waitForResponseAck"
<1> DEFINE t == receiving_telegram_
           r == receiving_telegram_'
           p == push_response_data(t, symbols[1])
<1>1. /\ in_esc = half /\ t.qq = bus.owner /\ t.state = "waitForResponseData"
      /\ ResponseGoesOn(t, symbols) /\ bus.zz = t.zz
  BY DEF Follows
<1>2. t \in TelegramType /\ Fits(t) /\ symbols \in Seq(Byte)
  BY DEF BInv, IInv, TypeOK, Reads
<1>3. /\ p \in TelegramType /\ p.state = "waitForResponseData"
      /\ p.qq = t.qq /\ p.zz = t.zz
      /\ is_response_complete(p) <=> Tail(symbols) = <<>>
      /\ Tail(symbols) # <<>> => ResponseGoesOn(p, Tail(symbols))
  BY <1>1, <1>2, ResponseSymbol
<1>4. real_byte(b) = symbols[1] /\ (left = <<>> <=> Tail(symbols) = <<>>)
  BY <1>1, ReadsSymbol
<1>5. CurrentTelegram = t
  BY <1>1 DEF CurrentTelegram, is_finished, EndStates
<1>6. ReceiveResponseData(t, b)
  <2>1. b # SYN
    BY DEF Reads
  <2> QED
    BY <1>1, <1>5, <2>1, ReceiveByState DEF ResponseInterrupted
<1>7. bus.zz # Nobody
  BY DEF BInv, AddressInv
<1>8. bus'.zz = t.zz /\ bus'.owner = t.qq
  BY <1>1, <1>7, TransmitsWire
<1>9. r = IF is_response_complete(p) THEN set_state(p, "waitForResponseAck") ELSE p
  BY <1>4, <1>6 DEF ReceiveResponseData
<1>10. CASE left # <<>>
  <2>1. r = p
    BY <1>3, <1>4, <1>9, <1>10
  <2> QED
    BY <1>3, <1>4, <1>8, <1>10, <2>1
<1>11. CASE left = <<>>
  <2>1. r = set_state(p, "waitForResponseAck")
    BY <1>3, <1>4, <1>9, <1>11
  <2> HIDE DEF p
  <2>2. \A s : set_state(p, s).qq = p.qq /\ set_state(p, s).zz = p.zz /\ set_state(p, s).state = s
    BY <1>3 DEF set_state, TelegramType
  <2> QED
    BY <1>3, <1>8, <1>11, <2>1, <2>2
<1> QED
  BY <1>10, <1>11

\* More bytes are to come.
LEMMA TransmitsMore ==
  ASSUME BInv, NEW b, NEW left, NEW crcMatches, NEW unsent,
         Transmits(b, left, crcMatches, unsent), left # <<>>,
         NEW symbols \in Seq(Byte), NEW half \in BOOLEAN,
         Encodes(left, symbols, half), in_esc' => half, bus'.zz # Nobody,
         Skips' \/ Follows(symbols, half)',
         uart_tx' = unsent, ~IsContending(active_command_'), HasRequest(active_command_')
  PROVE  BInv'
<1>1. /\ bus'.owner = bus.owner /\ bus'.good = bus.good /\ bus'.clean = bus.clean
      /\ bus'.zz = IF bus.zz = Nobody THEN b ELSE bus.zz
      /\ bus'.script = IF uart_tx = <<>> THEN left ELSE <<>>
      /\ bus'.phase = bus.phase /\ bus.phase \in {"request", "response"}
      /\ unsent = IF uart_tx = <<>> THEN <<>> ELSE left
      /\ unsent \in Seq(Byte) /\ bus' \in BusType
      /\ IInv' /\ HeaderInv'
      /\ command_queue_' \in Seq(Commands) /\ Len(command_queue_') <= CommandQueueSize
  <2>1. bus.phase \in {"request", "response"} /\ unsent = IF uart_tx = <<>> THEN <<>> ELSE left
    BY DEF Transmits
  <2>2. bus'.phase = bus.phase
    BY <2>1, TransmitsWire
  <2> QED
    BY <2>1, <2>2, TransmitsWire
<1>2. WireTyped'
  BY <1>1 DEF WireTyped
<1>3. TransmissionInv'
  <2>1. Remaining' = left
    BY <1>1 DEF Remaining
  <2> QED
    BY <1>1, <2>1 DEF TransmissionInv
<1>4. AddressInv' /\ (bus.phase = "response" => bus'.zz = bus.zz)
  BY <1>1 DEF BInv, AddressInv
<1>5. ReceiverInv'
  BY <1>1 DEF ReceiverInv
<1>6. UartInv'
  <2>1. uart_tx' # <<>> => OurTurn'
    BY <1>1, <1>4 DEF BInv, UartInv, SpeaksInTurn, OurTurn, IsOurs
  <2> QED
    BY <1>1, <2>1 DEF UartInv, SpeaksInTurn
<1>7. CommandInv'
  BY <1>1 DEF CommandInv, IsContending
<1>8. GoodInv'
  <2>1. receiving_telegram_'.state # "endCompleted"
    BY <1>1 DEF Skips, Follows
  <2> QED
    BY <1>1, <1>4, <2>1 DEF BInv, GoodInv, IsOurs, ResponsesIntact
<1> QED
  BY <1>1, <1>2, <1>3, <1>4, <1>5, <1>6, <1>7, <1>8 DEF BInv

\* The first byte of an escape sequence.
LEMMA TransmitsEscape ==
  ASSUME BInv, NEW b, NEW left, NEW crcMatches, NEW unsent,
         Transmits(b, left, crcMatches, unsent), ~IsSymbol(b)
  PROVE  BInv'
<1>1. PICK symbols, half : Reads(b, left, symbols, half)
  BY TransmitsReads
<1>2. half => b \in {ESCAPED_ESC, ESCAPED_SYN}
  BY <1>1 DEF Reads
<1>3. ~in_esc
  BY <1>1, <1>2 DEF Reads, IsSymbol
<1>4. b = ESC /\ half = FALSE
  BY <1>1, <1>2, <1>3 DEF Reads, IsSymbol, ESC, ESCAPED_ESC, ESCAPED_SYN
<1>5. symbols[1] \in {SYN, ESC}
  BY <1>1, <1>4 DEF Reads
<1>6. left # <<>> /\ Encodes(left, symbols, TRUE) /\ bus.zz # Nobody /\ symbols \in Seq(Byte)
  BY <1>1, <1>4, <1>5 DEF Reads
<1>7. /\ active_command_' = active_command_ /\ uart_tx' = unsent
      /\ in_esc' /\ receiving_telegram_' = receiving_telegram_
  <2>1. Wire(b, crcMatches, unsent) /\ unsent \in Seq(Byte)
    BY TransmitsWire
  <2>2. in_esc \in BOOLEAN
    BY DEF BInv, IInv, TypeOK
  <2> QED
    BY <1>3, <2>1, <2>2, WireEarly
<1>8. ~IsContending(active_command_') /\ HasRequest(active_command_')
  BY <1>4, <1>7, TransmitsWire DEF BInv, CommandInv
<1>9. /\ bus'.owner = bus.owner /\ bus'.clean = bus.clean
      /\ bus'.zz = bus.zz /\ bus'.phase = bus.phase
  BY <1>6, TransmitsWire
<1>10. Skips' \/ Follows(symbols, TRUE)'
  <2>1. CASE Skips
    BY <1>7, <1>9, <2>1 DEF Skips
  <2>2. CASE Follows(symbols, half)
    <3>1. in_esc' = TRUE
      BY <1>7 DEF BInv, IInv, TypeOK, WireTyped
    <3> QED
      BY <1>7, <1>9, <2>2, <3>1 DEF Follows
  <2> QED
    BY <1>1, <2>1, <2>2 DEF Reads
<1> QED
  BY <1>6, <1>7, <1>8, <1>9, <1>10, TransmitsMore

\* A symbol of a request or a response that is read on the way.
LEMMA TransmitsQuiet ==
  ASSUME BInv, NEW b, NEW left, NEW crcMatches, NEW unsent,
         Transmits(b, left, crcMatches, unsent), IsSymbol(b)
  PROVE  /\ ~in_esc'
         /\ Receive(CurrentTelegram, b)
         /\ \E reply_size : Respond(receiving_telegram_', crcMatches, reply_size)
         /\ HasRequest(active_command_') /\ ~IsContending(active_command_')
         /\ uart_tx' = unsent \o ResponseBytes(resp_tx')
         /\ Skips => /\ receiving_telegram_' = receiving_telegram_ /\ resp_tx' = "none"
                     /\ Skips'
<1>1. /\ b \in Byte \ {SYN} /\ crcMatches \in BOOLEAN /\ unsent \in Seq(Byte)
      /\ Wire(b, crcMatches, unsent) /\ bus'.clean = bus.clean
      /\ IsContending(active_command_) =>
           b # PrimaryAddress /\ active_command_.state = "waitForArbitration2nd"
  BY TransmitsWire
<1>2. IInv /\ WireTyped /\ HasRequest(active_command_)
  BY DEF BInv, CommandInv
<1>3. /\ ~in_esc'
      /\ Receive(CurrentTelegram, b)
      /\ \E reply_size : Respond(receiving_telegram_', crcMatches, reply_size)
      /\ HasRequest(active_command_') /\ ~IsContending(active_command_')
      /\ uart_tx' = unsent \o ResponseBytes(resp_tx')
  BY <1>1, <1>2, WireQuiet
<1>4. Skips => /\ receiving_telegram_' = receiving_telegram_ /\ resp_tx' = "none"
               /\ Skips'
  BY <1>1, <1>3, SkipsOn DEF Skips
<1> QED
  BY <1>3, <1>4

\* A symbol after which the request or the response goes on.
LEMMA TransmitsSymbol ==
  ASSUME BInv, NEW b, NEW left, NEW crcMatches, NEW unsent,
         Transmits(b, left, crcMatches, unsent), IsSymbol(b), left # <<>>
  PROVE  BInv'
<1>1. PICK symbols, half : Reads(b, left, symbols, half)
  BY TransmitsReads
<1>2. Encodes(left, Tail(symbols), FALSE) /\ Tail(symbols) \in Seq(Byte) /\ bus'.zz # Nobody
  BY <1>1, ReadsSymbol
<1>3. /\ ~in_esc' /\ Receive(CurrentTelegram, b)
      /\ \E reply_size : Respond(receiving_telegram_', crcMatches, reply_size)
      /\ HasRequest(active_command_') /\ ~IsContending(active_command_')
      /\ uart_tx' = unsent \o ResponseBytes(resp_tx')
      /\ Skips => resp_tx' = "none" /\ Skips'
  BY TransmitsQuiet
<1>4. /\ bus'.phase = bus.phase /\ bus'.owner = bus.owner
      /\ unsent \in Seq(Byte) /\ crcMatches \in BOOLEAN
      /\ bus.phase \in {"request", "response"}
  BY TransmitsWire DEF Transmits
<1>5. CASE Follows(symbols, half) /\ bus.phase = "request"
  <2>1. /\ receiving_telegram_'.qq = bus'.owner /\ receiving_telegram_'.zz = bus'.zz
        /\ receiving_telegram_'.state = "waitForRequestData" /\ receiving_telegram_'.req # 1
        /\ RequestGoesOn(receiving_telegram_', Tail(symbols))
    BY <1>1, <1>3, <1>5, ReadsRequest
  <2>2. resp_tx' = "none"
    BY <1>3, <1>4, <2>1, RespondByState
  <2>3. in_esc' = FALSE
    BY <1>3, TransmitsWire DEF IInv, TypeOK
  <2>4. Follows(Tail(symbols), FALSE)'
    BY <1>2, <1>4, <1>5, <2>1, <2>3 DEF Follows
  <2> QED
    BY <1>1, <1>2, <1>3, <1>4, <2>2, <2>4, NoResponseBytes, TransmitsMore
<1>6. CASE Follows(symbols, half) /\ bus.phase = "response"
  <2>1. /\ receiving_telegram_'.qq = bus'.owner /\ receiving_telegram_'.zz = bus'.zz
        /\ receiving_telegram_'.state = "waitForResponseData"
        /\ ResponseGoesOn(receiving_telegram_', Tail(symbols))
    BY <1>1, <1>3, <1>6, ReadsResponse
  <2>2. resp_tx' = "none"
    BY <1>3, <1>4, <2>1, RespondByState
  <2>3. in_esc' = FALSE
    BY <1>3, TransmitsWire DEF IInv, TypeOK
  <2>4. Follows(Tail(symbols), FALSE)'
    BY <1>2, <1>4, <1>6, <2>1, <2>3 DEF Follows
  <2> QED
    BY <1>1, <1>2, <1>3, <1>4, <2>2, <2>4, NoResponseBytes, TransmitsMore
<1>7. CASE Skips
  <2> QED
    BY <1>2, <1>3, <1>4, <1>7, NoResponseBytes, TransmitsMore
<1> QED
  BY <1>1, <1>4, <1>5, <1>6, <1>7 DEF Reads

\* The last symbol: now somebody else has to answer, perhaps this node.
LEMMA TransmitsLast ==
  ASSUME BInv, NEW b, NEW left, NEW crcMatches, NEW unsent,
         Transmits(b, left, crcMatches, unsent), IsSymbol(b), left = <<>>
  PROVE  BInv'
<1> DEFINE r == receiving_telegram_'
<1>1. PICK symbols, half : Reads(b, left, symbols, half)
  BY TransmitsReads
<1>2. bus'.zz # Nobody
  BY <1>1, ReadsSymbol
<1>3. /\ ~in_esc' /\ Receive(CurrentTelegram, b)
      /\ \E reply_size : Respond(receiving_telegram_', crcMatches, reply_size)
      /\ HasRequest(active_command_') /\ ~IsContending(active_command_')
      /\ Skips => /\ receiving_telegram_' = receiving_telegram_ /\ resp_tx' = "none"
                  /\ Skips'
  BY TransmitsQuiet
<1>4. /\ bus'.phase = IF bus.phase = "response" THEN "respack"
                      ELSE IF bus'.zz # BROADCAST_ADDRESS THEN "ack" ELSE "end"
      /\ bus.phase \in {"request", "response"}
      /\ bus.phase = "response" => bus'.zz = bus.zz
      /\ bus'.owner = bus.owner /\ bus'.good = bus.good /\ bus'.clean = bus.clean
      /\ bus'.script = <<>> /\ bus' \in BusType /\ crcMatches \in BOOLEAN
      /\ crcMatches = bus'.good /\ (bus'.phase = "end" => bus'.carried)
      /\ IInv' /\ HeaderInv'
      /\ command_queue_' \in Seq(Commands) /\ Len(command_queue_') <= CommandQueueSize
  BY TransmitsWire DEF Transmits, BInv, AddressInv
<1>5. uart_tx' = ResponseBytes(resp_tx') /\ resp_tx' \in {"none", "nack", "ack_syn", "reply"}
  <2>1. uart_tx' = unsent \o ResponseBytes(resp_tx') /\ unsent = <<>>
    BY TransmitsQuiet DEF Transmits
  <2>2. resp_tx' \in {"none", "nack", "ack_syn", "reply"}
    BY <1>4 DEF IInv, TypeOK
  <2>3. CASE resp_tx' = "none"
    BY <2>1, <2>3, ConcatEmptySeq DEF ResponseBytes
  <2>4. CASE resp_tx' # "none"
    BY <2>1, <2>2, <2>4, ResponseBytesTyped
  <2> QED
    BY <2>2, <2>3, <2>4
<1>6. (resp_tx' = "none" <=> uart_tx' = <<>>) /\ uart_tx' \in Seq(Byte)
  <2>1. CASE resp_tx' = "none"
    BY <1>5, <2>1 DEF ResponseBytes
  <2>2. CASE resp_tx' # "none"
    BY <1>5, <2>2, ResponseBytesTyped
  <2> QED
    BY <2>1, <2>2
<1>7. /\ WireTyped' /\ TransmissionInv' /\ AddressInv' /\ CommandInv'
  <2>1. WireTyped'
    BY <1>4, <1>6 DEF WireTyped
  <2>2. TransmissionInv'
    BY <1>3, <1>4 DEF TransmissionInv
  <2>3. AddressInv'
    BY <1>2, <1>4 DEF BInv, AddressInv
  <2>4. CommandInv'
    BY <1>3, <1>4 DEF CommandInv, IsContending
  <2> QED
    BY <2>1, <2>2, <2>3, <2>4
<1> DEFINE Rest == ReceiverInv' /\ UartInv' /\ GoodInv'
<1>8. IsOurs' /\ bus.phase = "request" => bus'.good
  BY <1>4 DEF BInv, GoodInv, IsOurs
<1>9. ASSUME Skips PROVE Rest
  <2>1. uart_tx' = <<>> /\ Skips'
    BY <1>3, <1>6, <1>9
  <2>2. ReceiverInv'
    BY <1>4, <2>1 DEF ReceiverInv, Skips
  <2>3. UartInv'
    BY <1>4, <2>1 DEF UartInv, SpeaksInTurn
  <2>4. GoodInv'
    BY <1>4, <1>8, <2>1 DEF GoodInv, Skips, ResponsesIntact
  <2> QED
    BY <2>2, <2>3, <2>4
<1>10. ASSUME Follows(symbols, half) /\ bus.phase = "request" /\ bus'.zz # BROADCAST_ADDRESS PROVE Rest
  <2>1. r.state = "waitForRequestAck" /\ r.qq = bus'.owner /\ r.zz = bus'.zz
    BY <1>1, <1>3, <1>10, ReadsRequest
  <2>2. IF bus'.zz = OurSecondary THEN resp_tx' \in {"nack", "reply"} ELSE resp_tx' = "none"
    BY <1>3, <1>4, <2>1, RespondByState
  <2>3. uart_tx' \in {<<>>, <<NACK>>, <<ACK>> \o Escaped(Reply)}
    BY <1>5, <1>6, <2>2, ResponseBytesTyped
  <2>4. ReceiverInv'
    BY <1>4, <1>6, <1>10, <2>1, <2>2 DEF ReceiverInv, SameParties
  <2>5. UartInv'
    BY <1>4, <1>6, <1>10, <2>2, <2>3 DEF UartInv, SpeaksInTurn, OurTurn
  <2>6. GoodInv'
    BY <1>4, <1>8, <1>10, <2>1 DEF GoodInv, ResponsesIntact
  <2> QED
    BY <2>4, <2>5, <2>6
<1>11. ASSUME Follows(symbols, half) /\ bus.phase = "request" /\ bus'.zz = BROADCAST_ADDRESS PROVE Rest
  <2>1. r.state = "endCompleted" /\ r.qq = bus'.owner /\ r.zz = bus'.zz
    BY <1>1, <1>3, <1>11, ReadsRequest
  <2>2. uart_tx' = <<>>
    BY <1>3, <1>4, <1>6, <2>1, RespondByState
  <2>3. ~is_response_expected(r.zz)
    BY <1>4, <1>11, <2>1, Expectations DEF BusType
  <2>4. ReceiverInv'
    BY <1>4, <1>11, <2>1 DEF ReceiverInv, SameParties, is_finished, EndStates
  <2>5. UartInv'
    BY <1>4, <1>11, <2>2 DEF UartInv, SpeaksInTurn
  <2>6. GoodInv'
    BY <1>4, <1>11, <2>3 DEF GoodInv, ResponsesIntact
  <2> QED
    BY <2>4, <2>5, <2>6
<1>12. ASSUME Follows(symbols, half) /\ bus.phase = "response" PROVE Rest
  <2>1. r.state = "waitForResponseAck" /\ r.qq = bus'.owner /\ r.zz = bus'.zz
    BY <1>1, <1>3, <1>12, ReadsResponse
  <2>2. IF IsOurs' THEN resp_tx' \in {"nack", "ack_syn"} /\ (resp_tx' = "ack_syn" => crcMatches)
                   ELSE resp_tx' = "none"
    BY <1>3, <1>4, <2>1, RespondByState DEF IsOurs
  <2>3. uart_tx' \in {<<>>, <<NACK>>, <<ACK, SYN>>}
    BY <1>5, <1>6, <2>2, ResponseBytesTyped
  <2>4. IsOurs' /\ uart_tx' = <<ACK, SYN>> => bus'.good
    <3>1. <<NACK>> # <<ACK, SYN>>
      BY DEF NACK, ACK
    <3> QED
      BY <1>4, <1>5, <2>2, <3>1, ResponseBytesTyped
  <2>5. ReceiverInv'
    BY <1>4, <1>6, <1>12, <2>1, <2>2 DEF ReceiverInv, SameParties
  <2>6. UartInv'
    BY <1>4, <1>6, <1>12, <2>2, <2>3 DEF UartInv, SpeaksInTurn, OurTurn
  <2>7. GoodInv'
    BY <1>4, <1>12, <2>1, <2>4 DEF GoodInv, ResponsesIntact
  <2> QED
    BY <2>5, <2>6, <2>7
<1>13. Rest
  BY <1>1, <1>4, <1>9, <1>10, <1>11, <1>12 DEF Reads
<1> QED
  BY <1>4, <1>7, <1>13 DEF BInv

\* All of them together.
LEMMA TransmitsInv ==
  ASSUME BInv, NEW b, NEW left, NEW crcMatches, NEW unsent,
         Transmits(b, left, crcMatches, unsent)
  PROVE  BInv'
BY TransmitsEscape, TransmitsSymbol, TransmitsLast

-----------------------------------------------------------------------------
(* The actions.                                                            *)

\* Another device goes on with its request or its response.
LEMMA ForeignSpeaksInv == BInv /\ ForeignSpeaks => BInv'
<1> SUFFICES ASSUME BInv, ForeignSpeaks PROVE BInv'
  OBVIOUS
<1> DEFINE left == Tail(bus.script)
<1>1. uart_tx = <<>> /\ bus.script # <<>> /\ bus.phase \in {"request", "response"}
  BY DEF ForeignSpeaks, BInv, UartInv
<1>2. Transmits(Head(bus.script), left, bus.good, <<>>)
  BY <1>1 DEF ForeignSpeaks, Transmits, Remaining
<1> QED
  BY <1>2, TransmitsInv

\* This node goes on with its request or its response.
LEMMA NodeTransmits ==
  ASSUME BInv, NodeSpeaks, bus.phase \in {"request", "response"}
  PROVE  Transmits(Head(uart_tx), Tail(uart_tx), bus.good, Tail(uart_tx))
<1> DEFINE b == Head(uart_tx)
           left == Tail(uart_tx)
<1>1. uart_tx # <<>> /\ OurTurn /\ bus.script = <<>>
  BY DEF NodeSpeaks, BInv, UartInv, SpeaksInTurn
<1>2. bus' = Continue(b, left) /\ Wire(b, bus.good, left)
  BY <1>1 DEF NodeSpeaks
<1>3. bus' = [Continue(b, left) EXCEPT !.script = <<>>]
  <2>1. bus \in BusType
    BY DEF BInv, WireTyped
  <2> DEFINE c == Continue(b, left)
  <2>2. c.script = <<>> /\ c = [c EXCEPT !.script = c.script]
    BY <1>1, <2>1 DEF Continue, BusType
  <2> HIDE DEF c
  <2> QED
    BY <1>2, <2>2 DEF c
<1> QED
  BY <1>1, <1>2, <1>3 DEF Transmits, Remaining

\* What the engine makes of an ACK or a NACK, wherever a telegram is on the wire
\* and nothing is half read.
LEMMA AnswerQuiet ==
  ASSUME BInv, bus.phase \in {"ack", "respack"}, NEW b \in {ACK, NACK},
         NEW crcMatches \in BOOLEAN, NEW unsent \in Seq(Byte), Wire(b, crcMatches, unsent)
  PROVE  /\ ~in_esc' /\ Receive(CurrentTelegram, b)
         /\ \E reply_size : Respond(receiving_telegram_', crcMatches, reply_size)
         /\ HasRequest(active_command_') /\ ~IsContending(active_command_')
         /\ uart_tx' = unsent \o ResponseBytes(resp_tx')
         /\ Skips => /\ receiving_telegram_' = receiving_telegram_ /\ resp_tx' = "none"
         /\ IInv' /\ HeaderInv'
         /\ command_queue_' \in Seq(Commands) /\ Len(command_queue_') <= CommandQueueSize
<1>1. b \in Byte \ {SYN} /\ b # ESC
  BY DEF ACK, NACK, SYN, ESC, Byte
<1>2. IInv /\ HeaderInv /\ WireTyped /\ HasRequest(active_command_) /\ ~in_esc
      /\ ~IsContending(active_command_)
  BY DEF BInv, CommandInv, TransmissionInv, IsContending
<1>3. IsSymbol(b)
  BY <1>1, <1>2 DEF IsSymbol
<1>4. /\ ~in_esc'
      /\ Receive(CurrentTelegram, b)
      /\ \E reply_size : Respond(receiving_telegram_', crcMatches, reply_size)
      /\ HasRequest(active_command_') /\ ~IsContending(active_command_')
      /\ uart_tx' = unsent \o ResponseBytes(resp_tx')
  BY <1>1, <1>2, <1>3, WireQuiet
<1>5. Skips => receiving_telegram_' = receiving_telegram_ /\ resp_tx' = "none"
  BY <1>1, <1>4, SkipsOn DEF Skips
<1>6. /\ IInv' /\ HeaderInv'
      /\ command_queue_' \in Seq(Commands) /\ Len(command_queue_') <= CommandQueueSize
  BY <1>1, <1>2, WireInv
<1> QED
  BY <1>4, <1>5, <1>6

\* The answer to a request: a response follows, or nothing.
LEMMA AckRead ==
  ASSUME BInv, bus.phase = "ack", NEW b \in {ACK, NACK},
         NEW crcMatches \in BOOLEAN, NEW unsent \in Seq(Byte), Wire(b, crcMatches, unsent)
  PROVE  /\ uart_tx' = unsent
         /\ \/ receiving_telegram_'.state = "waitForSyn" /\ ~bus.clean
            \/ /\ receiving_telegram_'.qq = bus.owner /\ receiving_telegram_'.zz = bus.zz
               /\ receiving_telegram_'.res = 0
               /\ receiving_telegram_'.state =
                    IF b = NACK THEN "endErrorRequestNackReceived"
                    ELSE IF bus.zz \in Primaries THEN "endCompleted" ELSE "waitForResponseData"
<1> DEFINE t == receiving_telegram_
           r == receiving_telegram_'
<1>1. /\ Receive(CurrentTelegram, b)
      /\ \E reply_size : Respond(r, crcMatches, reply_size)
      /\ uart_tx' = unsent \o ResponseBytes(resp_tx')
      /\ Skips => r = t /\ resp_tx' = "none"
  BY AnswerQuiet
<1>2. CASE Skips
  BY <1>1, <1>2, NoResponseBytes DEF Skips
<1>3. CASE t.state = "waitForRequestAck" /\ SameParties
  <2>1. CurrentTelegram = t
    BY <1>3 DEF CurrentTelegram, is_finished, EndStates
  <2>2. ReceiveRequestAck(t, b)
    BY <1>1, <1>3, <2>1, ReceiveByState
  <2>3. t \in TelegramType /\ t.res = 0
    BY <1>3 DEF BInv, IInv, TypeOK, Fits
  <2>4. is_response_expected(t.zz) <=> bus.zz \notin Primaries
    <3>1. bus.zz \in Byte /\ bus.zz \notin {ESC, BROADCAST_ADDRESS} /\ t.zz = bus.zz
      BY <1>3 DEF BInv, WireTyped, BusType, AddressInv, Nobody, SameParties
    <3> QED
      BY <3>1, Expectations
  <2> DEFINE s == IF b = NACK THEN "endErrorRequestNackReceived"
                  ELSE IF bus.zz \in Primaries THEN "endCompleted" ELSE "waitForResponseData"
  <2>5. r = set_state(t, s)
    <3>1. ACK # NACK
      BY DEF ACK, NACK
    <3>2. CASE b = NACK
      BY <2>2, <3>1, <3>2 DEF ReceiveRequestAck
    <3>3. CASE b = ACK /\ bus.zz \in Primaries
      BY <2>2, <2>4, <3>1, <3>3 DEF ReceiveRequestAck
    <3>4. CASE b = ACK /\ bus.zz \notin Primaries
      BY <2>2, <2>4, <3>1, <3>4 DEF ReceiveRequestAck
    <3> QED
      BY <3>2, <3>3, <3>4
  <2>6. s \in {"endErrorRequestNackReceived", "endCompleted", "waitForResponseData"}
    OBVIOUS
  <2> HIDE DEF s
  <2>7. r.state = s /\ r.qq = t.qq /\ r.zz = t.zz /\ r.res = 0
    BY <2>3, <2>5 DEF set_state, TelegramType
  <2>8. resp_tx' = "none"
    BY <1>1, <2>6, <2>7, RespondByState
  <2> QED
    BY <1>1, <1>3, <2>7, <2>8, NoResponseBytes DEF s, SameParties
<1> QED
  BY <1>2, <1>3 DEF BInv, ReceiverInv

\* The answer to a response ends the telegram.
LEMMA ResponseAckRead ==
  ASSUME BInv, bus.phase = "respack", NEW b \in {ACK, NACK},
         NEW crcMatches \in BOOLEAN, NEW unsent \in Seq(Byte), Wire(b, crcMatches, unsent)
  PROVE  /\ uart_tx' = unsent
         /\ \/ receiving_telegram_'.state = "waitForSyn" /\ ~bus.clean
            \/ /\ receiving_telegram_'.qq = bus.owner /\ receiving_telegram_'.zz = bus.zz
               /\ receiving_telegram_'.state =
                    IF b = NACK THEN "endErrorResponseNackReceived" ELSE "endCompleted"
<1> DEFINE t == receiving_telegram_
           r == receiving_telegram_'
<1>1. /\ Receive(CurrentTelegram, b)
      /\ \E reply_size : Respond(r, crcMatches, reply_size)
      /\ uart_tx' = unsent \o ResponseBytes(resp_tx')
      /\ Skips => r = t /\ resp_tx' = "none"
  BY AnswerQuiet
<1>2. CASE Skips
  BY <1>1, <1>2, NoResponseBytes DEF Skips
<1>3. CASE t.state = "waitForResponseAck" /\ SameParties
  <2>1. CurrentTelegram = t
    BY <1>3 DEF CurrentTelegram, is_finished, EndStates
  <2>2. ReceiveResponseAck(t, b)
    BY <1>1, <1>3, <2>1, ReceiveByState
  <2>3. t \in TelegramType
    BY DEF BInv, IInv, TypeOK
  <2> DEFINE s == IF b = NACK THEN "endErrorResponseNackReceived" ELSE "endCompleted"
  <2>4. r = set_state(t, s)
    <3>1. ACK # NACK
      BY DEF ACK, NACK
    <3> QED
      BY <2>2, <3>1 DEF ReceiveResponseAck
  <2>5. s \in {"endErrorResponseNackReceived", "endCompleted"}
    OBVIOUS
  <2> HIDE DEF s
  <2>6. r.state = s /\ r.qq = t.qq /\ r.zz = t.zz
    BY <2>3, <2>4 DEF set_state, TelegramType
  <2>7. resp_tx' = "none"
    BY <1>1, <2>5, <2>6, RespondByState
  <2> QED
    BY <1>1, <1>3, <2>6, <2>7, NoResponseBytes DEF s, SameParties
<1> QED
  BY <1>2, <1>3 DEF BInv, ReceiverInv

\* The telegram is over, for the bus and for the engine.
LEMMA TelegramEnds ==
  ASSUME BInv, bus.phase \in {"ack", "respack"}, NEW carried \in BOOLEAN, bus' = Over(carried),
         IInv', HeaderInv', HasRequest(active_command_'), ~IsContending(active_command_'),
         command_queue_' \in Seq(Commands), Len(command_queue_') <= CommandQueueSize,
         ~in_esc', uart_tx' = <<>> \/ (uart_tx' = <<SYN>> /\ IsOurs),
         \/ receiving_telegram_'.state = "waitForSyn" /\ ~bus.clean
         \/ /\ receiving_telegram_'.qq = bus.owner /\ receiving_telegram_'.zz = bus.zz
            /\ receiving_telegram_'.state \in EndStates
            /\ receiving_telegram_'.state = "endCompleted" <=> carried,
         receiving_telegram_'.state = "endCompleted" /\ IsOurs
           /\ is_response_expected(receiving_telegram_'.zz) => bus.good
  PROVE  BInv'
<1>1. /\ bus' \in BusType /\ bus'.phase = "end" /\ bus'.owner = bus.owner /\ bus'.zz = bus.zz
      /\ bus'.script = <<>> /\ bus'.good = bus.good /\ bus'.clean = bus.clean
      /\ bus'.carried = carried
  BY DEF Over, BInv, WireTyped, BusType, UartInv, Phases
<1>2. uart_tx' \in Seq(Byte)
  <2>1. <<>> \in Seq(Byte) /\ <<SYN>> \in Seq(Byte)
    BY DEF SYN, Byte
  <2> QED
    BY <2>1, Zenon
<1>3. WireTyped' /\ TransmissionInv' /\ AddressInv' /\ CommandInv'
  BY <1>1, <1>2 DEF WireTyped, TransmissionInv, AddressInv, CommandInv, IsContending
<1>4. ReceiverInv'
  BY <1>1 DEF ReceiverInv, Skips, SameParties, is_finished
<1>5. UartInv'
  <2>1. uart_tx' # <<>> => OurTurn'
    BY <1>1 DEF OurTurn, IsOurs
  <2> QED
    BY <1>1, <2>1 DEF UartInv, SpeaksInTurn
<1>6. GoodInv'
  BY <1>1 DEF GoodInv, ResponsesIntact, IsOurs, EndStates
<1> QED
  BY <1>3, <1>4, <1>5, <1>6 DEF BInv

\* The acknowledged request is answered.
LEMMA ResponseBegins ==
  ASSUME BInv, bus.phase = "ack", bus.zz \notin Primaries,
         NEW symbols, WellFormedResponse(symbols), NEW script, NEW good \in BOOLEAN,
         bus' = [bus EXCEPT !.phase = "response", !.script = script, !.good = good],
         \/ script = Escaped(symbols) /\ uart_tx' = <<>> /\ bus.zz # OurSecondary
         \/ /\ script = <<>> /\ uart_tx' = Escaped(symbols)
            /\ bus.zz = OurSecondary,
         IInv', HeaderInv', HasRequest(active_command_'), ~IsContending(active_command_'),
         command_queue_' \in Seq(Commands), Len(command_queue_') <= CommandQueueSize,
         ~in_esc',
         \/ receiving_telegram_'.state = "waitForSyn" /\ ~bus.clean
         \/ /\ receiving_telegram_'.qq = bus.owner /\ receiving_telegram_'.zz = bus.zz
            /\ receiving_telegram_'.res = 0
            /\ receiving_telegram_'.state = "waitForResponseData"
  PROVE  BInv'
<1>1. /\ symbols \in Seq(Byte) /\ symbols # <<>> /\ Len(symbols) >= 2
      /\ symbols[1] < MAX_DATA_LENGTH /\ Len(symbols) = 2 + symbols[1]
  BY DEF WellFormedResponse
<1>2. Escaped(symbols) \in Seq(Byte) /\ Escaped(symbols) # <<>>
  BY <1>1, EscapedTyped
<1>3. script \in Seq(Byte) /\ uart_tx' \in Seq(Byte)
  <2>1. <<>> \in Seq(Byte)
    OBVIOUS
  <2> QED
    BY <1>2, <2>1, Zenon
<1>4. bus \in BusType /\ bus.zz \notin {Nobody, BROADCAST_ADDRESS}
  BY DEF BInv, WireTyped, AddressInv
<1>5. /\ bus' \in BusType /\ bus'.phase = "response" /\ bus'.owner = bus.owner
      /\ bus'.zz = bus.zz /\ bus'.script = script /\ bus'.good = good
      /\ bus'.clean = bus.clean
  BY <1>3, <1>4 DEF BusType, Phases
<1>6. WireTyped' /\ AddressInv' /\ CommandInv'
  BY <1>3, <1>4, <1>5 DEF WireTyped, AddressInv, CommandInv, IsContending
<1>7. TransmissionInv'
  <2>1. Encodes(Remaining', symbols, FALSE)
    BY <1>1, <1>2, <1>5 DEF Encodes, Remaining
  <2>2. in_esc' = FALSE
    BY DEF IInv, TypeOK
  <2>3. Skips' \/ Follows(symbols, FALSE)'
    BY <1>1, <1>5, <2>2 DEF Skips, Follows, ResponseGoesOn
  <2> QED
    BY <1>1, <1>4, <1>5, <2>1, <2>2, <2>3 DEF TransmissionInv
<1>8. ReceiverInv'
  BY <1>5 DEF ReceiverInv
<1>9. UartInv'
  <2>1. uart_tx' # <<>> => OurTurn'
    BY <1>5 DEF OurTurn
  <2> QED
    BY <1>2, <1>5, <2>1 DEF UartInv, SpeaksInTurn
<1>10. GoodInv'
  BY <1>5 DEF BInv, GoodInv, ResponsesIntact, IsOurs
<1> QED
  BY <1>6, <1>7, <1>8, <1>9, <1>10 DEF BInv

\* What is left when a byte has been the last.
LEMMA EmptyTyped == <<>> \in Seq(Byte)
OBVIOUS

\* Another device acknowledges a request that is not for this node.
LEMMA ForeignAcksRequestInv == BInv /\ ForeignAcksRequest => BInv'
<1> SUFFICES ASSUME BInv, ForeignAcksRequest PROVE BInv'
  OBVIOUS
<1>1. /\ bus.phase = "ack" /\ Wire(ACK, TRUE, <<>>) /\ <<>> \in Seq(Byte)
      /\ bus.zz # OurSecondary /\ ACK # NACK
  <2>1. ACK # NACK
    BY DEF ACK, NACK
  <2> QED
    BY <2>1, EmptyTyped, Zenon DEF ForeignAcksRequest, IsToUs
<1>2. /\ uart_tx' = <<>>
      /\ \/ receiving_telegram_'.state = "waitForSyn" /\ ~bus.clean
         \/ /\ receiving_telegram_'.qq = bus.owner /\ receiving_telegram_'.zz = bus.zz
            /\ receiving_telegram_'.res = 0
            /\ receiving_telegram_'.state =
                 IF bus.zz \in Primaries THEN "endCompleted" ELSE "waitForResponseData"
  BY <1>1, AckRead
<1>3. /\ ~in_esc' /\ HasRequest(active_command_') /\ ~IsContending(active_command_')
      /\ IInv' /\ HeaderInv'
      /\ command_queue_' \in Seq(Commands) /\ Len(command_queue_') <= CommandQueueSize
  BY <1>1, AnswerQuiet
<1>4. CASE bus.zz \in Primaries
  <2>1. bus' = Over(TRUE)
    BY <1>4 DEF ForeignAcksRequest
  <2>2. ~is_response_expected(bus.zz)
    BY <1>4, PrimariesTyped, Expectations
  <2>3. receiving_telegram_'.state = "endCompleted" => receiving_telegram_'.zz = bus.zz
    BY <1>2
  <2>4. \/ receiving_telegram_'.state = "waitForSyn" /\ ~bus.clean
        \/ /\ receiving_telegram_'.qq = bus.owner /\ receiving_telegram_'.zz = bus.zz
           /\ receiving_telegram_'.state \in EndStates
           /\ receiving_telegram_'.state = "endCompleted" <=> TRUE
    BY <1>1, <1>2, <1>4 DEF EndStates
  <2>5. receiving_telegram_'.state = "endCompleted" /\ IsOurs
          /\ is_response_expected(receiving_telegram_'.zz) => bus.good
    BY <2>2, <2>3, Zenon
  <2>6. uart_tx' = <<>> \/ (uart_tx' = <<SYN>> /\ IsOurs)
    BY <1>2, Zenon
  <2> QED
    BY <1>1, <1>3, <2>1, <2>4, <2>5, <2>6, TelegramEnds
<1>5. CASE bus.zz \notin Primaries
  <2>1. PICK symbols \in ForeignResponses, good \in BOOLEAN :
          bus' = [bus EXCEPT !.phase = "response", !.script = Escaped(symbols), !.good = good]
    BY <1>5 DEF ForeignAcksRequest
  <2>2. WellFormedResponse(symbols)
    BY EbusBusAssumption
  <2> QED
    BY <1>1, <1>2, <1>3, <1>5, <2>1, <2>2, ResponseBegins
<1> QED
  BY <1>4, <1>5

\* Another device refuses a request that is not for this node.
LEMMA ForeignRefusesRequestInv == BInv /\ ForeignRefusesRequest => BInv'
<1> SUFFICES ASSUME BInv, ForeignRefusesRequest PROVE BInv'
  OBVIOUS
<1>1. /\ bus.phase = "ack" /\ Wire(NACK, TRUE, <<>>) /\ <<>> \in Seq(Byte)
      /\ bus' = Over(FALSE)
  BY EmptyTyped, Zenon DEF ForeignRefusesRequest
<1>2. /\ uart_tx' = <<>>
      /\ \/ receiving_telegram_'.state = "waitForSyn" /\ ~bus.clean
         \/ /\ receiving_telegram_'.qq = bus.owner /\ receiving_telegram_'.zz = bus.zz
            /\ receiving_telegram_'.state = "endErrorRequestNackReceived"
  BY <1>1, AckRead
<1>3. /\ ~in_esc' /\ HasRequest(active_command_') /\ ~IsContending(active_command_')
      /\ IInv' /\ HeaderInv'
      /\ command_queue_' \in Seq(Commands) /\ Len(command_queue_') <= CommandQueueSize
  BY <1>1, AnswerQuiet
<1>4. /\ \/ receiving_telegram_'.state = "waitForSyn" /\ ~bus.clean
         \/ /\ receiving_telegram_'.qq = bus.owner /\ receiving_telegram_'.zz = bus.zz
            /\ receiving_telegram_'.state \in EndStates
            /\ receiving_telegram_'.state = "endCompleted" <=> FALSE
      /\ receiving_telegram_'.state # "endCompleted"
  BY <1>2 DEF EndStates
<1>5. uart_tx' = <<>> \/ (uart_tx' = <<SYN>> /\ IsOurs)
  BY <1>2, Zenon
<1> QED
  BY <1>1, <1>3, <1>4, <1>5, TelegramEnds

\* Another primary answers the response it has been waiting for.
LEMMA ForeignAnswersResponseInv ==
  ASSUME BInv, NEW answer \in {ACK, NACK}, ForeignAnswersResponse(answer)
  PROVE  BInv'
<1>1. /\ bus.phase = "respack" /\ Wire(answer, TRUE, <<>>) /\ <<>> \in Seq(Byte)
      /\ bus' = Over(answer = ACK) /\ ~IsOurs
  BY EmptyTyped, Zenon DEF ForeignAnswersResponse
<1>2. /\ uart_tx' = <<>>
      /\ \/ receiving_telegram_'.state = "waitForSyn" /\ ~bus.clean
         \/ /\ receiving_telegram_'.qq = bus.owner /\ receiving_telegram_'.zz = bus.zz
            /\ receiving_telegram_'.state =
                 IF answer = NACK THEN "endErrorResponseNackReceived" ELSE "endCompleted"
  BY <1>1, ResponseAckRead
<1>3. /\ ~in_esc' /\ HasRequest(active_command_') /\ ~IsContending(active_command_')
      /\ IInv' /\ HeaderInv'
      /\ command_queue_' \in Seq(Commands) /\ Len(command_queue_') <= CommandQueueSize
  BY <1>1, AnswerQuiet
<1>4. \/ receiving_telegram_'.state = "waitForSyn" /\ ~bus.clean
      \/ /\ receiving_telegram_'.qq = bus.owner /\ receiving_telegram_'.zz = bus.zz
         /\ receiving_telegram_'.state \in EndStates
         /\ receiving_telegram_'.state = "endCompleted" <=> answer = ACK
  BY <1>2 DEF EndStates, ACK, NACK
<1>5. uart_tx' = <<>> \/ (uart_tx' = <<SYN>> /\ IsOurs)
  BY <1>2, Zenon
<1> QED
  BY <1>1, <1>3, <1>4, <1>5, TelegramEnds

\* This node acknowledges or refuses a request, and then responds.
LEMMA NodeAcksRequest ==
  ASSUME BInv, NodeSpeaks, bus.phase = "ack"
  PROVE  BInv'
<1> DEFINE b == Head(uart_tx)
           left == Tail(uart_tx)
<1>1. /\ uart_tx # <<>> /\ OurTurn /\ bus.zz = OurSecondary
      /\ uart_tx \in {<<NACK>>, <<ACK>> \o Escaped(Reply)}
  BY DEF NodeSpeaks, BInv, UartInv, SpeaksInTurn, OurTurn
<1>2. /\ Wire(b, bus.good, left) /\ bus.good \in BOOLEAN
      /\ IF b = ACK
         THEN \E good \in ReplyCrcMatches :
                bus' = [bus EXCEPT !.phase = "response", !.good = good]
         ELSE bus' = Over(FALSE)
  BY <1>1 DEF NodeSpeaks, BInv, WireTyped, BusType
<1>3. ACK # NACK /\ ACK \in Byte /\ <<>> \in Seq(Byte)
  BY DEF ACK, NACK, Byte
<1>4. \/ b = NACK /\ left = <<>>
      \/ b = ACK /\ left = Escaped(Reply)
  <2>1. CASE uart_tx = <<NACK>>
    BY <2>1
  <2>2. CASE uart_tx = <<ACK>> \o Escaped(Reply)
    BY <1>3, <2>2, ResponseBytesTyped, TakeFirst
  <2> QED
    BY <1>1, <2>1, <2>2
<1>5. left \in Seq(Byte) /\ b \in {ACK, NACK}
  BY <1>3, <1>4, ResponseBytesTyped, Zenon
<1> HIDE DEF b, left
<1>6. /\ uart_tx' = left
      /\ \/ receiving_telegram_'.state = "waitForSyn" /\ ~bus.clean
         \/ /\ receiving_telegram_'.qq = bus.owner /\ receiving_telegram_'.zz = bus.zz
            /\ receiving_telegram_'.res = 0
            /\ receiving_telegram_'.state =
                 IF b = NACK THEN "endErrorRequestNackReceived"
                 ELSE IF bus.zz \in Primaries THEN "endCompleted" ELSE "waitForResponseData"
  BY <1>2, <1>5, AckRead
<1>7. /\ ~in_esc' /\ HasRequest(active_command_') /\ ~IsContending(active_command_')
      /\ IInv' /\ HeaderInv'
      /\ command_queue_' \in Seq(Commands) /\ Len(command_queue_') <= CommandQueueSize
  BY <1>2, <1>5, AnswerQuiet
<1>8. CASE b = NACK
  <2>1. /\ bus' = Over(FALSE) /\ uart_tx' = <<>>
        /\ \/ receiving_telegram_'.state = "waitForSyn" /\ ~bus.clean
           \/ /\ receiving_telegram_'.qq = bus.owner /\ receiving_telegram_'.zz = bus.zz
              /\ receiving_telegram_'.state = "endErrorRequestNackReceived"
    BY <1>2, <1>3, <1>4, <1>6, <1>8
  <2>2. /\ \/ receiving_telegram_'.state = "waitForSyn" /\ ~bus.clean
           \/ /\ receiving_telegram_'.qq = bus.owner /\ receiving_telegram_'.zz = bus.zz
              /\ receiving_telegram_'.state \in EndStates
              /\ receiving_telegram_'.state = "endCompleted" <=> FALSE
        /\ receiving_telegram_'.state # "endCompleted"
    BY <2>1 DEF EndStates
  <2>3. uart_tx' = <<>> \/ (uart_tx' = <<SYN>> /\ IsOurs)
    BY <2>1, Zenon
  <2> QED
    BY <1>7, <2>1, <2>2, <2>3, TelegramEnds
<1>9. CASE b = ACK
  <2>1. bus.zz \notin Primaries /\ WellFormedResponse(Reply)
    BY <1>1, OurAddresses, EbusBusAssumption
  <2>2. bus.script = <<>> /\ bus \in BusType
    BY DEF BInv, UartInv, WireTyped
  <2>3. PICK good \in BOOLEAN :
          bus' = [bus EXCEPT !.phase = "response", !.script = <<>>, !.good = good]
    <3>1. PICK good \in ReplyCrcMatches : bus' = [bus EXCEPT !.phase = "response", !.good = good]
      BY <1>2, <1>9
    <3>2. good \in BOOLEAN
      BY DEF ReplyCrcMatches
    <3> QED
      BY <2>2, <3>1, <3>2 DEF BusType
  <2>4. uart_tx' = Escaped(Reply)
    BY <1>3, <1>4, <1>6, <1>9
  <2>5. \/ receiving_telegram_'.state = "waitForSyn" /\ ~bus.clean
        \/ /\ receiving_telegram_'.qq = bus.owner /\ receiving_telegram_'.zz = bus.zz
           /\ receiving_telegram_'.res = 0
           /\ receiving_telegram_'.state = "waitForResponseData"
    BY <1>3, <1>6, <1>9, <2>1
  <2> QED
    BY <1>1, <1>7, <2>1, <2>2, <2>3, <2>4, <2>5, ResponseBegins
<1> QED
  BY <1>5, <1>8, <1>9

\* This node answers the response to its request.
LEMMA NodeAnswersResponse ==
  ASSUME BInv, NodeSpeaks, bus.phase = "respack"
  PROVE  BInv'
<1> DEFINE b == Head(uart_tx)
           left == Tail(uart_tx)
<1>1. /\ uart_tx # <<>> /\ OurTurn /\ IsOurs
      /\ uart_tx \in {<<NACK>>, <<ACK, SYN>>}
  BY DEF NodeSpeaks, BInv, UartInv, SpeaksInTurn, OurTurn
<1>2. Wire(b, bus.good, left) /\ bus.good \in BOOLEAN /\ bus' = Over(b = ACK)
  BY <1>1 DEF NodeSpeaks, BInv, WireTyped, BusType
<1>3. ACK # NACK /\ <<>> \in Seq(Byte) /\ <<SYN>> \in Seq(Byte)
  BY DEF ACK, NACK, SYN, Byte
<1>4. \/ b = NACK /\ left = <<>>
      \/ b = ACK /\ left = <<SYN>> /\ uart_tx = <<ACK, SYN>>
  <2>1. CASE uart_tx = <<NACK>>
    BY <2>1
  <2>2. CASE uart_tx = <<ACK, SYN>>
    <3>1. Head(<<ACK, SYN>>) = ACK /\ Tail(<<ACK, SYN>>) = <<SYN>>
      OBVIOUS
    <3> QED
      BY <2>2, <3>1, Zenon
  <2> QED
    BY <1>1, <2>1, <2>2, Zenon
<1>5. left \in Seq(Byte) /\ b \in {ACK, NACK}
  BY <1>3, <1>4, Zenon
<1> HIDE DEF b, left
<1>6. /\ uart_tx' = left
      /\ \/ receiving_telegram_'.state = "waitForSyn" /\ ~bus.clean
         \/ /\ receiving_telegram_'.qq = bus.owner /\ receiving_telegram_'.zz = bus.zz
            /\ receiving_telegram_'.state =
                 IF b = NACK THEN "endErrorResponseNackReceived" ELSE "endCompleted"
  BY <1>2, <1>5, ResponseAckRead
<1>7. /\ ~in_esc' /\ HasRequest(active_command_') /\ ~IsContending(active_command_')
      /\ IInv' /\ HeaderInv'
      /\ command_queue_' \in Seq(Commands) /\ Len(command_queue_') <= CommandQueueSize
  BY <1>2, <1>5, AnswerQuiet
<1>8. receiving_telegram_'.state = "endCompleted" => bus.good
  <2>1. receiving_telegram_'.state = "endCompleted" => b = ACK
    BY <1>5, <1>6
  <2> QED
    BY <1>1, <1>3, <1>4, <2>1 DEF BInv, GoodInv
<1>9. uart_tx' = <<>> \/ (uart_tx' = <<SYN>> /\ IsOurs)
  BY <1>1, <1>4, <1>6, Zenon
<1>10. \/ receiving_telegram_'.state = "waitForSyn" /\ ~bus.clean
       \/ /\ receiving_telegram_'.qq = bus.owner /\ receiving_telegram_'.zz = bus.zz
          /\ receiving_telegram_'.state \in EndStates
          /\ receiving_telegram_'.state = "endCompleted" <=> b = ACK
  BY <1>3, <1>5, <1>6 DEF EndStates
<1> QED
  BY <1>1, <1>2, <1>7, <1>8, <1>9, <1>10, TelegramEnds

\* A SYN ends what is on the wire for the receiving half: it waits for the next
\* QQ, or it has found an error.
LEMMA ReceiveSynByte ==
  ASSUME NEW t \in TelegramType, t.state \in ReceiverStates \ EndStates, Receive(t, SYN)
  PROVE  IF t.state \in {"waitForSyn", "waitForArbitration"}
         THEN receiving_telegram_'.state = "waitForArbitration"
         ELSE receiving_telegram_'.state \in EndStates \ {"endCompleted"}
<1>1. \A s : set_state(t, s).state = s
  BY DEF set_state, TelegramType
<1>2. CASE t.state \in {"waitForSyn", "waitForArbitration"}
  BY <1>1, <1>2, ReceiveByState DEF ReceiveSyn, ReceivePrimary
<1>3. CASE t.state \in {"waitForRequestData", "waitForResponseData"}
  <2>1. RequestInterrupted(t, SYN) \/ ResponseInterrupted(t, SYN)
    BY <1>3, ReceiveByState DEF ReceiveRequestData, ReceiveResponseData
  <2>2. receiving_telegram_'.state \in {"endArbitration", "endErrorUnexpectedSyn"}
    BY <1>1, <2>1 DEF RequestInterrupted, ResponseInterrupted
  <2> QED
    BY <1>3, <2>2 DEF EndStates
<1>4. CASE t.state = "waitForRequestAck"
  <2>1. SYN # ACK /\ SYN # NACK /\ ReceiveRequestAck(t, SYN)
    BY <1>4, ReceiveByState DEF SYN, ACK, NACK
  <2>2. receiving_telegram_' = set_state(t, "endErrorRequestNoAck")
    BY <2>1 DEF ReceiveRequestAck
  <2> QED
    BY <1>1, <1>4, <2>2 DEF EndStates
<1>5. CASE t.state = "waitForResponseAck"
  <2>1. SYN # ACK /\ SYN # NACK /\ ReceiveResponseAck(t, SYN)
    BY <1>5, ReceiveByState DEF SYN, ACK, NACK
  <2>2. receiving_telegram_' = set_state(t, "endErrorResponseNoAck")
    BY <2>1 DEF ReceiveResponseAck
  <2> QED
    BY <1>1, <1>5, <2>2 DEF EndStates
<1> QED
  BY <1>2, <1>3, <1>4, <1>5 DEF ReceiverStates

\* What a SYN lets the engine write: QQ, when a command begins.
LEMMA SynQuiet ==
  ASSUME BInv, NEW crcMatches \in BOOLEAN, Wire(SYN, crcMatches, <<>>),
         IsContending(active_command_) => ~in_esc
  PROVE  /\ ~in_esc' /\ HasRequest(active_command_')
         /\ \/ uart_tx' = <<PrimaryAddress>> /\ IsContending(active_command_')
            \/ uart_tx' = <<>> /\ ~IsContending(active_command_')
         /\ \/ in_esc /\ receiving_telegram_' = NewTelegram
            \/ ~in_esc /\ receiving_telegram_'.state =
                 IF CurrentTelegram.state \in {"waitForSyn", "waitForArbitration"}
                 THEN "waitForArbitration" ELSE receiving_telegram_'.state
         /\ receiving_telegram_'.state \in
              {"waitForSyn", "waitForArbitration"} \cup (EndStates \ {"endCompleted"})
<1>1. IInv /\ WireTyped /\ HasRequest(active_command_) /\ in_esc \in BOOLEAN
  BY DEF BInv, CommandInv, IInv, TypeOK
<1>2. CASE in_esc
  <2>1. ~IsSymbol(SYN)
    BY <1>2 DEF IsSymbol, SYN, ESCAPED_ESC, ESCAPED_SYN
  <2>2. /\ active_command_' = active_command_ /\ uart_tx' = <<>>
        /\ ~in_esc' /\ receiving_telegram_' = NewTelegram
    BY <1>1, <1>2, <2>1, EmptyTyped, WireEarly
  <2> QED
    BY <1>1, <1>2, <2>2 DEF NewTelegram
<1>3. CASE ~in_esc
  <2>1. IsSymbol(SYN)
    BY <1>3 DEF IsSymbol, SYN, ESC
  <2>2. /\ ~in_esc' /\ Receive(CurrentTelegram, SYN)
        /\ \E reply_size : Respond(receiving_telegram_', crcMatches, reply_size)
        /\ uart_tx' = <<>> \o CommandBytes(cmd_tx', active_command_'.request)
                           \o ResponseBytes(resp_tx')
    BY <1>1, <2>1, WireSymbol
  <2>3. PICK c \in CommandType :
          /\ HasRequest(c) /\ Send(c, SYN)
          /\ IsContending(active_command_) => c = active_command_
          /\ ~IsContending(active_command_) => ~IsContending(c)
    BY <1>1, <2>1, WireSymbol
  <2>5. /\ HasRequest(active_command_')
        /\ \/ cmd_tx' = "qq" /\ IsContending(active_command_')
           \/ cmd_tx' = "none" /\ ~IsContending(active_command_')
    BY <2>3, SynCommand
  <2>6. /\ CurrentTelegram \in TelegramType
        /\ CurrentTelegram.state \in ReceiverStates \ EndStates
    BY <1>1, CurrentTelegramTyped, TypeOKStates DEF IInv, TypeOK
  <2>7. IF CurrentTelegram.state \in {"waitForSyn", "waitForArbitration"}
        THEN receiving_telegram_'.state = "waitForArbitration"
        ELSE receiving_telegram_'.state \in EndStates \ {"endCompleted"}
    BY <2>2, <2>6, ReceiveSynByte
  <2>8. receiving_telegram_'.state \notin {"waitForRequestAck", "waitForResponseAck"}
    BY <2>7 DEF EndStates
  <2>9. resp_tx' = "none"
    BY <2>2, <2>8, RespondByState
  <2>10. CASE cmd_tx' = "qq"
    <3>1. PrimaryAddress \in Byte \ {SYN, ESC}
      BY OurAddresses, PrimariesTyped
    <3>2. Escape(PrimaryAddress) = <<PrimaryAddress>> /\ <<PrimaryAddress>> \in Seq(Byte)
      BY <3>1 DEF Escape
    <3>3. uart_tx' = <<>> \o <<PrimaryAddress>> \o <<>>
      BY <2>2, <2>9, <2>10, <3>2 DEF CommandBytes, ResponseBytes
    <3>4. uart_tx' = <<PrimaryAddress>>
      BY <3>2, <3>3, ConcatEmptySeq
    <3> QED
      BY <1>3, <2>2, <2>5, <2>7, <2>10, <3>4
  <2>11. CASE cmd_tx' = "none"
    <3>1. uart_tx' = <<>> \o <<>> \o <<>>
      BY <2>2, <2>9, <2>11 DEF CommandBytes, ResponseBytes
    <3>2. uart_tx' = <<>>
      BY <3>1, EmptyTyped, ConcatEmptySeq
    <3> QED
      BY <1>3, <2>2, <2>5, <2>7, <2>11, <3>2
  <2> QED
    BY <2>5, <2>10, <2>11
<1> QED
  BY <1>2, <1>3

\* A SYN, from the generator or from this node at the end of its telegram.
LEMMA SynInv ==
  ASSUME BInv, NEW crcMatches \in BOOLEAN, Wire(SYN, crcMatches, <<>>), bus' = AfterSyn
  PROVE  BInv'
<1> DEFINE t == receiving_telegram_
           r == receiving_telegram_'
           clean == bus.phase \in {"free", "end"}
<1>1. /\ IsContending(active_command_) => ~in_esc
      /\ clean => ~in_esc
  BY DEF BInv, CommandInv, TransmissionInv, IsContending
<1>2. /\ ~in_esc' /\ HasRequest(active_command_')
      /\ \/ uart_tx' = <<PrimaryAddress>> /\ IsContending(active_command_')
         \/ uart_tx' = <<>> /\ ~IsContending(active_command_')
      /\ \/ in_esc /\ r = NewTelegram
         \/ ~in_esc /\ r.state =
              IF CurrentTelegram.state \in {"waitForSyn", "waitForArbitration"}
              THEN "waitForArbitration" ELSE r.state
      /\ r.state \in {"waitForSyn", "waitForArbitration"} \cup (EndStates \ {"endCompleted"})
  BY <1>1, SynQuiet
<1>3. /\ bus'.phase = "free" /\ bus'.owner = Nobody /\ bus'.zz = Nobody /\ bus'.script = <<>>
      /\ bus'.clean = clean /\ bus' \in BusType
  <2>1. Nobody \in Byte /\ bus.eligible \in SUBSET Rivals
    BY DEF Nobody, ESC, Byte, BInv, WireTyped, BusType
  <2>2. \A eligible \in SUBSET Rivals :
          /\ Free(eligible, clean).phase = "free" /\ Free(eligible, clean).owner = Nobody
          /\ Free(eligible, clean).zz = Nobody /\ Free(eligible, clean).script = <<>>
          /\ Free(eligible, clean).clean = clean /\ Free(eligible, clean) \in BusType
    BY <2>1, EmptyTyped DEF Free, BusType, Phases
  <2>3. \E eligible \in SUBSET Rivals : bus' = Free(eligible, clean)
    BY <2>1 DEF AfterSyn
  <2> QED
    BY <2>2, <2>3, Zenon
<1>4. Nobody # PrimaryAddress /\ PrimaryAddress \in Byte
  BY OurAddresses, PrimariesTyped DEF Nobody
<1>5. SYN \in Byte
  BY DEF SYN, Byte
<1>6. /\ IInv' /\ HeaderInv'
      /\ command_queue_' \in Seq(Commands) /\ Len(command_queue_') <= CommandQueueSize
  BY <1>5, WireInv DEF BInv
<1>7. WireTyped'
  <2>1. <<PrimaryAddress>> \in Seq(Byte)
    BY <1>4
  <2>2. uart_tx' \in Seq(Byte)
    BY <1>2, <2>1, EmptyTyped, Zenon
  <2> QED
    BY <1>3, <1>6, <2>2 DEF WireTyped
<1>8. TransmissionInv' /\ AddressInv'
  BY <1>2, <1>3 DEF TransmissionInv, AddressInv
<1>9. ReceiverInv'
  <2>1. clean => r.state = "waitForArbitration"
    <3> SUFFICES ASSUME clean PROVE r.state = "waitForArbitration"
      OBVIOUS
    <3>1. t.state \in {"waitForSyn", "waitForArbitration"} \/ is_finished(t)
      BY DEF BInv, ReceiverInv, Skips
    <3>2. CurrentTelegram.state \in {"waitForSyn", "waitForArbitration"}
      BY <3>1 DEF CurrentTelegram, NewTelegram
    <3> QED
      BY <1>1, <1>2, <3>2
  <2> QED
    BY <1>2, <1>3, <2>1 DEF ReceiverInv, Skips, is_finished
<1>10. UartInv'
  <2>1. OurTurn'
    BY <1>3 DEF OurTurn
  <2> QED
    BY <1>2, <1>3, <2>1 DEF UartInv, SpeaksInTurn
<1>11. CommandInv'
  <2>1. <<PrimaryAddress>> # <<>>
    OBVIOUS
  <2>2. uart_tx' # <<>> <=> IsContending(active_command_')
    BY <1>2, <2>1, Zenon
  <2> QED
    BY <1>2, <1>3, <2>2 DEF CommandInv, IsContending
<1>12. GoodInv'
  <2>1. r.state # "endCompleted"
    BY <1>2
  <2> QED
    BY <1>3, <1>4, <2>1 DEF GoodInv, IsOurs, ResponsesIntact
<1> QED
  BY <1>6, <1>7, <1>8, <1>9, <1>10, <1>11, <1>12 DEF BInv

\* The generator goes on after a pause within a telegram.
LEMMA AutoSynInv == BInv /\ AutoSyn => BInv'
BY SynInv DEF AutoSyn

\* The bus is idle.
LEMMA IdleSynInv == BInv /\ IdleSyn => BInv'
BY SynInv DEF IdleSyn

\* A QQ of this node is not heard.
LEMMA UnheardInv == BInv /\ Unheard => BInv'
<1> SUFFICES ASSUME BInv, Unheard PROVE BInv'
  OBVIOUS
<1>1. uart_tx = <<PrimaryAddress>>
  BY DEF Unheard, BInv, UartInv
<1>2. Tail(<<PrimaryAddress>>) = <<>>
  OBVIOUS
<1>3. Wire(SYN, TRUE, <<>>) /\ bus' = AfterSyn
  BY <1>1, <1>2 DEF Unheard
<1> QED
  BY <1>3, SynInv

\* What the engine makes of noise after a telegram: it goes on to wait for SYN,
\* unless an escape sequence begins.
LEMMA StrayRead ==
  ASSUME BInv, NEW byte \in StrayBytes, Stray(byte)
  PROVE  /\ HasRequest(active_command_') /\ ~IsContending(active_command_') /\ uart_tx' = <<>>
         /\ IF bus.phase = "end" /\ byte = ESC
            THEN receiving_telegram_' = receiving_telegram_ /\ in_esc'
            ELSE receiving_telegram_'.state = "waitForSyn"
         /\ in_esc' => byte = ESC
<1> DEFINE t == receiving_telegram_
           r == receiving_telegram_'
<1>1. /\ byte \in Byte \ {SYN} /\ Wire(byte, TRUE, <<>>) /\ bus.phase \in {"end", "spoiled"}
  BY EbusBusAssumption DEF Stray
<1>2. /\ IInv /\ WireTyped /\ HasRequest(active_command_) /\ ~IsContending(active_command_)
      /\ in_esc \in BOOLEAN /\ (bus.phase = "end" => ~in_esc)
      /\ t.state = "waitForSyn" \/ (is_finished(t) /\ (bus.phase = "spoiled" => in_esc))
  BY <1>1 DEF BInv, CommandInv, IsContending, IInv, TypeOK, TransmissionInv, ReceiverInv
<1>3. CASE IsSymbol(byte)
  <2>1. /\ ~in_esc' /\ Receive(CurrentTelegram, byte)
        /\ \E reply_size : Respond(r, TRUE, reply_size)
        /\ HasRequest(active_command_') /\ ~IsContending(active_command_')
        /\ uart_tx' = <<>> \o ResponseBytes(resp_tx')
    BY <1>1, <1>2, <1>3, EmptyTyped, WireQuiet
  <2>2. CurrentTelegram.state = "waitForSyn"
    BY <1>2 DEF CurrentTelegram, NewTelegram, is_finished, EndStates
  <2>3. r = CurrentTelegram
    BY <1>1, <2>1, <2>2, ReceiveByState DEF ReceiveSyn
  <2>4. resp_tx' = "none"
    BY <2>1, <2>2, <2>3, RespondByState
  <2>5. uart_tx' = <<>>
    BY <2>1, <2>4, EmptyTyped, NoResponseBytes
  <2>6. bus.phase = "end" => byte # ESC
    BY <1>2, <1>3 DEF IsSymbol
  <2> QED
    BY <2>1, <2>2, <2>3, <2>5, <2>6
<1>4. CASE ~IsSymbol(byte)
  <2>1. /\ active_command_' = active_command_ /\ uart_tx' = <<>>
        /\ ~in_esc => byte = ESC /\ in_esc' /\ r = t
        /\ in_esc => ~in_esc' /\ r = NewTelegram
    BY <1>1, <1>2, <1>4, EmptyTyped, WireEarly
  <2> QED
    BY <1>1, <1>2, <2>1 DEF NewTelegram
<1> QED
  BY <1>3, <1>4

\* Noise after a telegram.
LEMMA StrayInv ==
  ASSUME BInv, NEW byte \in StrayBytes, Stray(byte)
  PROVE  BInv'
<1> DEFINE t == receiving_telegram_
           r == receiving_telegram_'
<1>1. /\ byte \in Byte \ {SYN} /\ Wire(byte, TRUE, <<>>) /\ bus.phase \in {"end", "spoiled"}
      /\ bus' = IF bus.phase = "end" /\ byte = ESC THEN [bus EXCEPT !.phase = "spoiled"]
                ELSE [bus EXCEPT !.carried = FALSE]
  BY EbusBusAssumption DEF Stray
<1>2. /\ HasRequest(active_command_') /\ ~IsContending(active_command_') /\ uart_tx' = <<>>
      /\ IF bus.phase = "end" /\ byte = ESC THEN r = t /\ in_esc' ELSE r.state = "waitForSyn"
      /\ in_esc' => byte = ESC
  BY StrayRead
<1>3. /\ bus \in BusType /\ bus' \in BusType /\ bus.script = <<>> /\ bus'.script = <<>>
      /\ bus'.owner = bus.owner /\ bus'.zz = bus.zz /\ bus'.good = bus.good
      /\ bus'.clean = bus.clean /\ bus'.phase \in {"end", "spoiled"}
      /\ IF bus.phase = "end" /\ byte = ESC
         THEN bus'.phase = "spoiled" /\ bus'.carried = bus.carried
         ELSE bus'.phase = bus.phase /\ ~bus'.carried
  BY <1>1 DEF BInv, UartInv, WireTyped, BusType, Phases
<1>4. /\ IInv' /\ HeaderInv'
      /\ command_queue_' \in Seq(Commands) /\ Len(command_queue_') <= CommandQueueSize
  BY <1>1, WireInv DEF BInv
<1>5. WireTyped' /\ AddressInv' /\ CommandInv' /\ UartInv'
  BY <1>2, <1>3, <1>4, EmptyTyped DEF WireTyped, AddressInv, CommandInv, IsContending, UartInv, SpeaksInTurn
<1>6. TransmissionInv'
  BY <1>2, <1>3 DEF TransmissionInv
<1>7. ReceiverInv'
  <2>1. CASE bus.phase = "end" /\ byte = ESC
    BY <1>2, <1>3, <2>1 DEF BInv, ReceiverInv, SameParties
  <2>2. CASE ~(bus.phase = "end" /\ byte = ESC)
    BY <1>2, <1>3, <2>2 DEF ReceiverInv
  <2> QED
    BY <2>1, <2>2
<1>8. GoodInv'
  BY <1>2, <1>3 DEF BInv, GoodInv, IsOurs, ResponsesIntact
<1> QED
  BY <1>4, <1>5, <1>6, <1>7, <1>8 DEF BInv

\* The owner, this node, ends its telegram.
LEMMA NodeEndsTelegram ==
  ASSUME BInv, NodeSpeaks, bus.phase = "end"
  PROVE  BInv'
<1>1. uart_tx = <<SYN>> /\ OurTurn
  BY DEF NodeSpeaks, BInv, UartInv, SpeaksInTurn
<1>2. Head(<<SYN>>) = SYN /\ Tail(<<SYN>>) = <<>>
  OBVIOUS
<1>3. Wire(SYN, bus.good, <<>>) /\ bus.good \in BOOLEAN /\ bus' = AfterSyn
  BY <1>1, <1>2 DEF NodeSpeaks, BInv, WireTyped, BusType
<1> QED
  BY <1>3, SynInv

\* Whatever this node transmits outside of the arbitration.
LEMMA NodeSpeaksInv == BInv /\ NodeSpeaks => BInv'
<1> SUFFICES ASSUME BInv, NodeSpeaks PROVE BInv'
  OBVIOUS
<1>1. bus.phase \in {"request", "response", "ack", "respack", "end"}
  BY DEF NodeSpeaks, BInv, UartInv, SpeaksInTurn, OurTurn
<1> QED
  BY <1>1, NodeTransmits, TransmitsInv, NodeAcksRequest, NodeAnswersResponse, NodeEndsTelegram

\* What the engine makes of the first byte after a SYN, whoever sends it.
LEMMA PrimaryRead ==
  ASSUME BInv, bus.phase = "free", NEW qq \in Primaries, Wire(qq, TRUE, <<>>)
  PROVE  /\ ~in_esc' /\ HasRequest(active_command_')
         /\ \/ receiving_telegram_'.state = "waitForSyn" /\ ~bus.clean
            \/ /\ receiving_telegram_'.state = "waitForRequestData"
               /\ receiving_telegram_'.req = 1 /\ receiving_telegram_'.qq = qq
         /\ IF uart_tx # <<>> /\ qq = PrimaryAddress
            THEN /\ active_command_'.request \in Commands
                 /\ uart_tx' = RemainingRequestPart(active_command_'.request)
                 /\ ~IsContending(active_command_')
            ELSE /\ uart_tx' = <<>>
                 /\ active_command_'.state # "waitForArbitration"
                 /\ IsContending(active_command_') => uart_tx # <<>>
<1> DEFINE t == receiving_telegram_
           r == receiving_telegram_'
<1>1. /\ IInv /\ WireTyped /\ HasRequest(active_command_) /\ ~in_esc
      /\ uart_tx # <<>> <=> IsContending(active_command_)
  BY DEF BInv, CommandInv, TransmissionInv, IsContending
<1>2. qq \in Byte \ {SYN, ESC}
  BY PrimariesTyped
<1>3. IsSymbol(qq) /\ real_byte(qq) = qq
  BY <1>1, <1>2 DEF IsSymbol, real_byte
<1>4. /\ ~in_esc' /\ Receive(CurrentTelegram, qq)
      /\ \E reply_size : Respond(r, TRUE, reply_size)
      /\ \E c \in CommandType :
           /\ HasRequest(c) /\ Send(c, qq)
           /\ IsContending(active_command_) => c = active_command_
           /\ ~IsContending(active_command_) => ~IsContending(c)
      /\ uart_tx' = <<>> \o CommandBytes(cmd_tx', active_command_'.request)
                         \o ResponseBytes(resp_tx')
  BY <1>1, <1>3, WireSymbol
<1>5. \/ r.state = "waitForSyn" /\ ~bus.clean
      \/ r.state = "waitForRequestData" /\ r.req = 1 /\ r.qq = qq
  <2>1. CASE Skips
    BY <1>2, <1>4, <2>1, SkipsOn DEF Skips
  <2>2. CASE is_finished(t) /\ ~bus.clean
    <3>1. CurrentTelegram = NewTelegram
      BY <2>2 DEF CurrentTelegram
    <3>2. ReceiveSyn(NewTelegram, qq)
      BY <1>4, <3>1, ReceiveByState DEF NewTelegram
    <3> QED
      BY <1>2, <2>2, <3>2 DEF ReceiveSyn, NewTelegram
  <2>3. CASE t.state = "waitForArbitration"
    <3>1. t \in TelegramType /\ t.req = 0
      BY <1>1, <2>3 DEF IInv, TypeOK, Fits
    <3>2. CurrentTelegram = t
      BY <2>3 DEF CurrentTelegram, is_finished, EndStates
    <3>3. ReceivePrimary(t, qq)
      BY <1>4, <2>3, <3>2, ReceiveByState
    <3>4. r = set_state(push_req_data(t, qq), "waitForRequestData")
      BY <1>2, <1>3, <3>3 DEF ReceivePrimary
    <3> QED
      BY <3>1, <3>4 DEF set_state, push_req_data, TelegramType, OFFSET_QQ, OFFSET_ZZ, OFFSET_NN
  <2> QED
    BY <2>1, <2>2, <2>3 DEF BInv, ReceiverInv
<1>6. resp_tx' = "none"
  BY <1>4, <1>5, RespondByState
<1>7. PICK c \in CommandType :
        /\ HasRequest(c) /\ Send(c, qq)
        /\ IsContending(active_command_) => c = active_command_
        /\ ~IsContending(active_command_) => ~IsContending(c)
  BY <1>4
<1>8. CASE uart_tx # <<>> /\ qq = PrimaryAddress
  <2>1. /\ HasRequest(active_command_') /\ cmd_tx' = "request"
        /\ ~IsContending(active_command_') /\ active_command_'.request \in Commands
    BY <1>1, <1>2, <1>7, <1>8, ContendingCommand
  <2> DEFINE rest == RemainingRequestPart(active_command_'.request)
  <2>2. rest \in Seq(Byte)
    <3>1. RequestPart(active_command_'.request) \in Seq(Byte)
      BY <2>1, EbusBusAssumption DEF WellFormedRequest
    <3> QED
      BY <3>1, EscapedTyped DEF RemainingRequestPart
  <2>3. uart_tx' = <<>> \o rest \o <<>>
    BY <1>4, <1>6, <2>1 DEF CommandBytes, ResponseBytes
  <2> HIDE DEF rest
  <2>4. uart_tx' = rest
    BY <2>2, <2>3, ConcatEmptySeq
  <2> QED
    BY <1>4, <1>5, <1>8, <2>1, <2>4 DEF rest
<1>9. CASE ~(uart_tx # <<>> /\ qq = PrimaryAddress)
  <2>1. /\ HasRequest(active_command_') /\ cmd_tx' = "none"
        /\ active_command_'.state # "waitForArbitration"
        /\ IsContending(active_command_') => IsContending(active_command_)
    <3>1. CASE IsContending(active_command_)
      BY <1>1, <1>2, <1>7, <1>9, <3>1, ContendingCommand DEF IsContending
    <3>2. CASE ~IsContending(active_command_)
      BY <1>2, <1>7, <3>2, QuietCommand DEF IsContending
    <3> QED
      BY <3>1, <3>2
  <2>2. uart_tx' = <<>> \o <<>> \o <<>>
    BY <1>4, <1>6, <2>1 DEF CommandBytes, ResponseBytes
  <2>3. uart_tx' = <<>>
    BY <2>2, EmptyTyped, ConcatEmptySeq
  <2> QED
    BY <1>1, <1>4, <1>5, <1>9, <2>1, <2>3
<1> QED
  BY <1>8, <1>9

\* A request follows QQ: the rest of it is encoded in what remains.
LEMMA RequestBegins ==
  ASSUME NEW symbols, WellFormedRequest(symbols),
         Encodes(Remaining', symbols, FALSE), bus'.phase = "request", bus'.zz = Nobody,
         ~in_esc', in_esc' \in BOOLEAN,
         \/ receiving_telegram_'.state = "waitForSyn" /\ ~bus'.clean
         \/ /\ receiving_telegram_'.state = "waitForRequestData"
            /\ receiving_telegram_'.req = 1 /\ receiving_telegram_'.qq = bus'.owner
  PROVE  TransmissionInv'
<1>1. /\ symbols \in Seq(Byte) /\ symbols # <<>> /\ Len(symbols) >= 5
      /\ symbols[1] \notin {SYN, ESC}
      /\ symbols[4] < MAX_DATA_LENGTH /\ Len(symbols) = 5 + symbols[4]
  BY DEF WellFormedRequest
<1>2. in_esc' = FALSE
  OBVIOUS
<1>3. Skips' \/ Follows(symbols, FALSE)'
  <2>1. CASE receiving_telegram_'.state = "waitForSyn" /\ ~bus'.clean
    BY <2>1 DEF Skips
  <2>2. CASE /\ receiving_telegram_'.state = "waitForRequestData"
             /\ receiving_telegram_'.req = 1 /\ receiving_telegram_'.qq = bus'.owner
    <3>1. RequestGoesOn(receiving_telegram_', symbols)
      BY <1>1, <2>2 DEF RequestGoesOn, OFFSET_NN
    <3> QED
      BY <1>2, <2>2, <3>1 DEF Follows
  <2> QED
    BY <2>1, <2>2
<1> QED
  BY <1>1, <1>2, <1>3 DEF TransmissionInv

\* The first byte of a request is its first symbol, which is never escaped.
LEMMA FirstByte ==
  ASSUME NEW symbols, WellFormedRequest(symbols)
  PROVE  /\ Escaped(symbols) \in Seq(Byte) /\ Escaped(symbols) # <<>>
         /\ Encodes(Escaped(symbols), symbols, FALSE)
         /\ Head(Escaped(symbols)) = symbols[1]
<1>1. symbols \in Seq(Byte) /\ symbols # <<>> /\ symbols[1] \notin {SYN, ESC}
  BY DEF WellFormedRequest
<1>2. Escaped(symbols) \in Seq(Byte) /\ Escaped(symbols) # <<>>
  BY <1>1, EscapedTyped
<1>3. Encodes(Escaped(symbols), symbols, FALSE)
  BY <1>1 DEF Encodes
<1> QED
  BY <1>1, <1>2, <1>3, EncodesStep

\* The end of every case: who has the wire now, if anybody.
LEMMA ArbitrationEnds ==
  ASSUME BInv, bus.phase = "free", bus' \in BusType, bus'.phase \in {"undecided", "request"},
         bus'.script # <<>> => uart_tx' = <<>> /\ bus'.phase = "request",
         uart_tx' # <<>> => bus'.phase = "request" /\ IsOurs',
         uart_tx' \in Seq(Byte),
         IInv', HeaderInv', TransmissionInv',
         command_queue_' \in Seq(Commands), Len(command_queue_') <= CommandQueueSize,
         HasRequest(active_command_'), active_command_'.state # "waitForArbitration",
         active_command_'.state = "waitForArbitration2nd" =>
           \/ bus'.phase = "undecided"
           \/ /\ bus'.script # <<>> /\ ~in_esc'
              /\ Head(bus'.script) \notin {SYN, ESC, PrimaryAddress},
         bus'.phase = "request" /\ IsOurs' => bus'.good,
         \/ receiving_telegram_'.state = "waitForSyn" /\ ~bus'.clean
         \/ receiving_telegram_'.state = "waitForRequestData" /\ receiving_telegram_'.req = 1
  PROVE  BInv'
<1>1. WireTyped' /\ AddressInv'
  BY DEF WireTyped, AddressInv
<1>2. ReceiverInv'
  BY DEF ReceiverInv, Skips
<1>3. UartInv'
  <2>1. uart_tx' # <<>> => OurTurn'
    BY DEF OurTurn
  <2> QED
    BY <2>1 DEF UartInv, SpeaksInTurn
<1>4. CommandInv'
  BY DEF CommandInv, IsContending
<1>5. GoodInv'
  BY DEF GoodInv, ResponsesIntact
<1> QED
  BY <1>1, <1>2, <1>3, <1>4, <1>5 DEF BInv

\* Whoever takes part, this node among them or not.
LEMMA ArbitrateInv ==
  ASSUME NeverAddressedAsPrimary, BInv, NEW rivals \in SUBSET MayContend, Arbitrate(rivals)
  PROVE  BInv'
<1> DEFINE contenders == rivals \cup (IF uart_tx = <<>> THEN {} ELSE {Head(uart_tx)})
           qq == WiredAnd(contenders)
           r == receiving_telegram_'
<1>1. /\ bus.phase = "free" /\ contenders # {} /\ bus \in BusType
      /\ bus.zz = Nobody /\ bus.script = <<>>
  BY DEF Arbitrate, BInv, UartInv, ReceiverInv, WireTyped
<1>2. rivals \in SUBSET Rivals /\ Rivals \subseteq Primaries \ {PrimaryAddress}
  BY <1>1, EbusBusAssumption DEF MayContend, BusType
<1>3. uart_tx # <<>> => uart_tx = <<PrimaryAddress>> /\ Head(uart_tx) = PrimaryAddress
                        /\ Tail(uart_tx) = <<>>
  <2>1. Head(<<PrimaryAddress>>) = PrimaryAddress /\ Tail(<<PrimaryAddress>>) = <<>>
    OBVIOUS
  <2>2. uart_tx \in {<<>>, <<PrimaryAddress>>}
    BY <1>1 DEF BInv, UartInv
  <2> QED
    BY <2>1, <2>2
<1>4. contenders \in SUBSET Primaries
  BY <1>2, <1>3, OurAddresses
<1>5. PrimaryAddress \in contenders <=> uart_tx # <<>>
  BY <1>2, <1>3
<1>6. qq \in Primaries
  BY <1>1, <1>4, WiredAndTyped
<1>7. Wire(qq, TRUE, <<>>)
  <2>1. Wire(qq, TRUE, IF uart_tx = <<>> THEN <<>> ELSE Tail(uart_tx))
    BY DEF Arbitrate
  <2>2. (IF uart_tx = <<>> THEN <<>> ELSE Tail(uart_tx)) = <<>>
    BY <1>3
  <2> HIDE DEF qq
  <2> QED
    BY <2>1, <2>2
<1> DEFINE Won(script, good) ==
             [bus EXCEPT !.phase = "request", !.owner = qq, !.script = script,
                         !.good = good, !.eligible = {}]
<1>8. /\ qq \in rivals => \E symbols \in ForeignRequests, good \in BOOLEAN :
                            bus' = Won(Escaped(symbols), good)
      /\ qq \in contenders \ rivals => bus' = Won(<<>>, TRUE)
      /\ qq \notin contenders =>
           \E eligible \in SUBSET Rivals :
             bus' = [bus EXCEPT !.phase = "undecided", !.eligible = eligible]
  <2>1. CASE qq \in rivals
    BY <2>1 DEF Arbitrate
  <2>2. CASE qq \in contenders \ rivals
    BY <2>2 DEF Arbitrate
  <2>3. CASE qq \notin contenders
    <3> DEFINE eligible == {a \in rivals : PriorityClass(a) = PriorityClass(qq)}
    <3>1. bus' = [bus EXCEPT !.phase = "undecided", !.eligible = eligible]
      BY <2>3 DEF Arbitrate
    <3>2. eligible \in SUBSET Rivals
      BY <1>2
    <3> QED
      BY <2>3, <3>1, <3>2
  <2> QED
    BY <2>1, <2>2, <2>3
<1> HIDE DEF contenders, qq
<1>9. /\ ~in_esc' /\ HasRequest(active_command_')
      /\ \/ r.state = "waitForSyn" /\ ~bus.clean
         \/ /\ r.state = "waitForRequestData"
            /\ r.req = 1 /\ r.qq = qq
      /\ IF uart_tx # <<>> /\ qq = PrimaryAddress
         THEN /\ active_command_'.request \in Commands
              /\ uart_tx' = RemainingRequestPart(active_command_'.request)
              /\ ~IsContending(active_command_')
         ELSE /\ uart_tx' = <<>>
              /\ active_command_'.state # "waitForArbitration"
              /\ IsContending(active_command_') => uart_tx # <<>>
  BY <1>1, <1>6, <1>7, PrimaryRead
<1>10. /\ IInv' /\ HeaderInv' /\ in_esc' \in BOOLEAN
       /\ command_queue_' \in Seq(Commands) /\ Len(command_queue_') <= CommandQueueSize
  <2>1. qq \in Byte
    BY <1>6, PrimariesTyped
  <2>2. /\ IInv' /\ HeaderInv'
        /\ command_queue_' \in Seq(Commands) /\ Len(command_queue_') <= CommandQueueSize
    BY <1>7, <2>1, WireInv DEF BInv
  <2> QED
    BY <2>2 DEF IInv, TypeOK
<1>11. ASSUME NEW script \in Seq(Byte), NEW good \in BOOLEAN, qq \in Rivals \cup {PrimaryAddress}
       PROVE  /\ Won(script, good) \in BusType
              /\ Won(script, good).phase = "request" /\ Won(script, good).owner = qq
              /\ Won(script, good).zz = Nobody /\ Won(script, good).script = script
              /\ Won(script, good).good = good /\ Won(script, good).clean = bus.clean
  BY <1>1, <1>11 DEF BusType, Phases
<1>12. CASE qq \in rivals
  <2>1. PICK symbols \in ForeignRequests, good \in BOOLEAN : bus' = Won(Escaped(symbols), good)
    BY <1>8, <1>12
  <2>2. WellFormedRequest(symbols) /\ symbols[1] \notin {SYN, ESC, PrimaryAddress}
    BY EbusBusAssumption DEF NeverAddressedAsPrimary, WellFormedRequest
  <2> DEFINE script == Escaped(symbols)
  <2>3. /\ script \in Seq(Byte) /\ script # <<>>
        /\ Encodes(script, symbols, FALSE) /\ Head(script) = symbols[1]
    BY <2>2, FirstByte
  <2> HIDE DEF script
  <2>4. /\ bus' \in BusType /\ bus'.phase = "request" /\ bus'.owner = qq
        /\ bus'.zz = Nobody /\ bus'.script = script /\ bus'.clean = bus.clean
    <3>1. bus' = Won(script, good)
      BY <2>1 DEF script
    <3> HIDE DEF Won
    <3> QED
      BY <1>2, <1>11, <1>12, <2>3, <3>1
  <2>5. qq # PrimaryAddress /\ uart_tx' = <<>>
    BY <1>2, <1>9, <1>12
  <2>6. TransmissionInv'
    <3>1. Encodes(Remaining', symbols, FALSE)
      BY <2>3, <2>4, <2>5 DEF Remaining
    <3> QED
      BY <1>9, <1>10, <2>2, <2>4, <3>1, RequestBegins
  <2>7. uart_tx' \in Seq(Byte) /\ ~IsOurs'
    BY <2>4, <2>5, EmptyTyped DEF IsOurs
  <2>8. active_command_'.state # "waitForArbitration"
    BY <1>9, <2>5
  <2> QED
    BY <1>1, <1>9, <1>10, <2>2, <2>3, <2>4, <2>5, <2>6, <2>7, <2>8, ArbitrationEnds
<1>13. CASE qq \in contenders \ rivals
  <2>1. uart_tx # <<>> /\ qq = PrimaryAddress
    BY <1>3, <1>13 DEF contenders
  <2> DEFINE request == active_command_'.request
             symbols == RequestPart(request)
             rest == RemainingRequestPart(request)
  <2>2. /\ request \in Commands /\ uart_tx' = rest
        /\ ~IsContending(active_command_')
    BY <1>9, <2>1
  <2>3. WellFormedRequest(symbols)
    BY <2>2, EbusBusAssumption
  <2>4. /\ rest \in Seq(Byte) /\ rest # <<>> /\ Encodes(rest, symbols, FALSE)
    BY <2>3, FirstByte DEF RemainingRequestPart
  <2> HIDE DEF request, symbols, rest
  <2>5. /\ bus' \in BusType /\ bus'.phase = "request" /\ bus'.owner = qq
        /\ bus'.zz = Nobody /\ bus'.script = <<>> /\ bus'.clean = bus.clean /\ bus'.good = TRUE
    <3>1. bus' = Won(<<>>, TRUE)
      BY <1>8, <1>13
    <3> HIDE DEF Won
    <3> QED
      BY <1>11, <2>1, <3>1, EmptyTyped
  <2>6. TransmissionInv'
    <3>1. Encodes(Remaining', symbols, FALSE)
      BY <2>2, <2>4 DEF Remaining
    <3> QED
      BY <1>9, <1>10, <2>3, <2>5, <3>1, RequestBegins
  <2>7. uart_tx' \in Seq(Byte) /\ IsOurs'
    BY <2>1, <2>2, <2>4, <2>5 DEF IsOurs
  <2>8. /\ active_command_'.state # "waitForArbitration"
        /\ active_command_'.state # "waitForArbitration2nd"
    BY <2>2 DEF IsContending
  <2> QED
    BY <1>1, <1>9, <1>10, <2>5, <2>6, <2>7, <2>8, ArbitrationEnds
<1>14. CASE qq \notin contenders
  <2>1. PICK eligible \in SUBSET Rivals :
          bus' = [bus EXCEPT !.phase = "undecided", !.eligible = eligible]
    BY <1>8, <1>14
  <2>2. /\ bus' \in BusType /\ bus'.phase = "undecided"
        /\ bus'.script = <<>> /\ bus'.clean = bus.clean
    BY <1>1, <2>1 DEF BusType, Phases
  <2>3. ~(uart_tx # <<>> /\ qq = PrimaryAddress)
    BY <1>5, <1>14
  <2>4. uart_tx' = <<>> /\ active_command_'.state # "waitForArbitration"
    BY <1>9, <2>3
  <2>5. TransmissionInv' /\ uart_tx' \in Seq(Byte)
    BY <1>9, <2>2, <2>4, EmptyTyped DEF TransmissionInv
  <2> QED
    BY <1>1, <1>9, <1>10, <2>2, <2>4, <2>5, ArbitrationEnds
<1> QED
  BY <1>4, <1>12, <1>13, <1>14 DEF contenders

\* A request is queued: the bus goes on as before.
LEMMA QueueCommandInv ==
  ASSUME BInv, NEW request \in Commands, QueueCommand(request)
  PROVE  BInv'
<1>1. UNCHANGED <<vars, uart_tx, bus>>
  BY DEF QueueCommand
<1>2. command_queue_' \in Seq(Commands) /\ Len(command_queue_') <= CommandQueueSize
  BY EbusBusAssumption DEF QueueCommand, BInv, WireTyped
<1>3. IInv' /\ HeaderInv'
  BY <1>1 DEF BInv, IInv, TypeOK, ContendsAtStart, SingleSpeaker, HeaderInv, vars, machine
<1>4. WireTyped'
  BY <1>1, <1>2 DEF BInv, WireTyped
<1>5. TransmissionInv' /\ AddressInv'
  BY <1>1 DEF BInv, TransmissionInv, AddressInv, Remaining, Skips, Follows, vars, machine
<1>6. ReceiverInv' /\ UartInv'
  BY <1>1 DEF BInv, ReceiverInv, UartInv, SpeaksInTurn, OurTurn, IsOurs, SameParties, Skips,
              vars, machine
<1>7. CommandInv' /\ GoodInv'
  BY <1>1 DEF BInv, CommandInv, GoodInv, ResponsesIntact, IsOurs, vars, machine
<1> QED
  BY <1>3, <1>4, <1>5, <1>6, <1>7 DEF BInv

\* After a restart the engine waits for the next SYN, and the bus goes on.
LEMMA RestartInv == BInv /\ Restart => BInv'
<1> SUFFICES ASSUME BInv, Restart PROVE BInv'
  OBVIOUS
<1>1. IInv'
  <2>1. Init'
    BY DEF Restart, Silent, Init
  <2>2. (Init => IInv)'
    BY InitInv, PTL
  <2> QED
    BY <2>1, <2>2
<1>2. /\ in_esc' = FALSE /\ receiving_telegram_' = NewTelegram
      /\ active_command_'.state = "endCompleted"
      /\ command_queue_' = <<>> /\ uart_tx' = <<>> /\ bus' = [bus EXCEPT !.clean = FALSE]
  BY DEF Restart
<1>3. /\ bus \in BusType /\ bus' \in BusType /\ ~bus'.clean
      /\ bus'.phase = bus.phase /\ bus'.owner = bus.owner /\ bus'.zz = bus.zz
      /\ bus'.script = bus.script /\ bus'.good = bus.good
  BY <1>2 DEF BInv, WireTyped, BusType
<1>4. WireTyped'
  <2>1. command_queue_' \in Seq(Commands) /\ Len(command_queue_') <= CommandQueueSize
    BY <1>2, EbusBusAssumption
  <2>2. uart_tx' \in Seq(Byte)
    BY <1>2, EmptyTyped
  <2> QED
    BY <1>3, <2>1, <2>2 DEF WireTyped
<1>5. Skips' /\ HeaderInv'
  BY <1>2, <1>3 DEF Skips, HeaderInv, NewTelegram
<1>6. TransmissionInv'
  <2>1. CASE bus.phase \notin {"request", "response"}
    BY <1>2, <1>3, <2>1 DEF TransmissionInv
  <2>2. CASE bus.phase \in {"request", "response"} /\ uart_tx = <<>>
    <3>1. PICK symbols \in Seq(Byte), half \in BOOLEAN :
            /\ Encodes(Remaining, symbols, half)
            /\ bus.zz = Nobody /\ symbols # <<>> =>
                 bus.phase = "request" /\ ~half /\ symbols[1] \notin {SYN, ESC}
      BY <2>2 DEF BInv, TransmissionInv
    <3>2. Remaining' = Remaining
      BY <1>2, <1>3, <2>2 DEF Remaining
    <3>3. Encodes(Remaining', symbols, half)
      BY <3>1, <3>2
    <3> QED
      BY <1>2, <1>3, <1>5, <2>2, <3>1, <3>3 DEF TransmissionInv
  <2>3. CASE bus.phase \in {"request", "response"} /\ uart_tx # <<>>
    <3>1. Remaining' = <<>>
      BY <1>2, <1>3, <2>3 DEF Remaining, BInv, UartInv
    <3>2. Encodes(Remaining', <<>>, FALSE)
      BY <3>1, EmptyTyped, EscapedEmpty DEF Encodes
    <3> QED
      BY <1>2, <1>3, <1>5, <2>3, <3>2, EmptyTyped DEF TransmissionInv
  <2> QED
    BY <2>1, <2>2, <2>3
<1>7. AddressInv' /\ ReceiverInv'
  BY <1>3, <1>5 DEF BInv, AddressInv, ReceiverInv, Skips
<1>8. UartInv'
  BY <1>2, <1>3 DEF BInv, UartInv, SpeaksInTurn
<1>9. CommandInv'
  BY <1>2 DEF CommandInv, HasRequest, is_finished, EndStates
<1>10. GoodInv'
  <2>1. receiving_telegram_'.state # "endCompleted"
    BY <1>2 DEF NewTelegram
  <2>2. uart_tx' # <<ACK, SYN>>
    BY <1>2
  <2> QED
    BY <1>3, <2>1, <2>2 DEF BInv, GoodInv, IsOurs, ResponsesIntact
<1> QED
  BY <1>1, <1>4, <1>5, <1>6, <1>7, <1>8, <1>9, <1>10 DEF BInv

\* The node may be switched on in the middle of a request.
LEMMA BusInitInv == BusInit => BInv
<1> SUFFICES ASSUME BusInit PROVE BInv
  OBVIOUS
<1>1. /\ IInv /\ in_esc = FALSE /\ receiving_telegram_ = NewTelegram
      /\ active_command_.state = "endCompleted" /\ command_queue_ = <<>> /\ uart_tx = <<>>
  BY InitInv DEF BusInit, Init
<1>2. command_queue_ \in Seq(Commands) /\ Len(command_queue_) <= CommandQueueSize
      /\ uart_tx \in Seq(Byte)
  <2>1. command_queue_ \in Seq(Commands) /\ Len(command_queue_) <= CommandQueueSize
    BY <1>1, EbusBusAssumption
  <2> QED
    BY <1>1, <2>1, EmptyTyped
<1>3. Nobody \in Byte
  BY DEF Nobody, ESC, Byte
<1>4. /\ bus \in BusType /\ ~bus.clean /\ bus.good
      /\ \/ /\ bus.phase = "free" /\ bus.owner = Nobody /\ bus.zz = Nobody
            /\ bus.script = <<>>
         \/ /\ bus.phase = "request" /\ bus.zz # Nobody
            /\ \E symbols \in Seq(Byte) : bus.script = Escaped(symbols)
  <2>1. CASE bus = Free({}, FALSE)
    BY <1>3, <2>1, EmptyTyped DEF Free, BusType, Phases
  <2>2. CASE \E symbols \in ForeignRequests, primary \in Rivals, n \in 1 .. 3 :
               bus = [Free({}, FALSE) EXCEPT !.phase = "request", !.owner = primary,
                        !.zz = symbols[1],
                        !.script = Escaped(SubSeq(symbols, n + 1, Len(symbols)))]
    <3>1. PICK symbols \in ForeignRequests, primary \in Rivals, n \in 1 .. 3 :
               bus = [Free({}, FALSE) EXCEPT !.phase = "request", !.owner = primary,
                        !.zz = symbols[1],
                        !.script = Escaped(SubSeq(symbols, n + 1, Len(symbols)))]
      BY <2>2
    <3>2. /\ symbols \in Seq(Byte) /\ Len(symbols) >= 5 /\ symbols[1] \in Byte
          /\ symbols[1] # Nobody
      BY EbusBusAssumption DEF WellFormedRequest, Nobody
    <3> DEFINE rest == SubSeq(symbols, n + 1, Len(symbols))
    <3>3. rest \in Seq(Byte)
      BY <3>2
    <3>4. Escaped(rest) \in Seq(Byte)
      BY <3>3, EscapedTyped
    <3>5. /\ bus \in BusType /\ ~bus.clean /\ bus.good /\ bus.phase = "request"
          /\ bus.zz = symbols[1] /\ bus.script = Escaped(rest)
      <4> DEFINE script == Escaped(rest)
      <4> HIDE DEF rest
      <4>1. script \in Seq(Byte)
        BY <3>4
      <4> HIDE DEF script
      <4>2. bus = [Free({}, FALSE) EXCEPT !.phase = "request", !.owner = primary,
                     !.zz = symbols[1], !.script = script]
        BY <3>1 DEF script, rest
      <4> QED
        BY <3>2, <4>1, <4>2 DEF Free, BusType, Phases, script
    <3> QED
      BY <3>2, <3>3, <3>5
  <2> QED
    BY <2>1, <2>2 DEF BusInit
<1>5. Skips /\ HeaderInv
  BY <1>1, <1>4 DEF Skips, HeaderInv, NewTelegram
<1>6. WireTyped
  BY <1>2, <1>4 DEF WireTyped
<1>7. TransmissionInv
  <2>1. CASE bus.phase = "free"
    BY <1>1, <2>1 DEF TransmissionInv
  <2>2. CASE bus.phase # "free"
    <3>1. PICK symbols \in Seq(Byte) : bus.script = Escaped(symbols)
      BY <1>4, <2>2
    <3>2. Encodes(Remaining, symbols, FALSE)
      BY <1>1, <3>1 DEF Encodes, Remaining
    <3> QED
      BY <1>1, <1>4, <1>5, <2>2, <3>2 DEF TransmissionInv
  <2> QED
    BY <2>1, <2>2
<1>8. AddressInv /\ ReceiverInv
  BY <1>4, <1>5 DEF AddressInv, ReceiverInv
<1>9. UartInv
  BY <1>1, <1>4 DEF UartInv, SpeaksInTurn
<1>10. CommandInv
  BY <1>1 DEF CommandInv, HasRequest, is_finished, EndStates
<1>11. GoodInv
  <2>1. receiving_telegram_.state # "endCompleted" /\ bus.good
    BY <1>1, <1>4 DEF NewTelegram
  <2> QED
    BY <2>1 DEF GoodInv, ResponsesIntact
<1> QED
  BY <1>1, <1>5, <1>6, <1>7, <1>8, <1>9, <1>10, <1>11 DEF BInv

\* Every step keeps the invariant.
LEMMA BusNextInv ==
  ASSUME NeverAddressedAsPrimary
  PROVE  BInv /\ [BusNext \/ Restart]_busVars => BInv'
<1> SUFFICES ASSUME BInv, [BusNext \/ Restart]_busVars PROVE BInv'
  OBVIOUS
<1>1. CASE UNCHANGED busVars
  <2>1. UNCHANGED <<vars, command_queue_, uart_tx, bus>>
    BY <1>1 DEF busVars
  <2>2. IInv' /\ HeaderInv' /\ WireTyped'
    BY <2>1 DEF BInv, IInv, TypeOK, ContendsAtStart, SingleSpeaker, HeaderInv, WireTyped,
                vars, machine
  <2>3. TransmissionInv' /\ AddressInv'
    BY <2>1 DEF BInv, TransmissionInv, AddressInv, Remaining, Skips, Follows, vars, machine
  <2>4. ReceiverInv' /\ UartInv'
    BY <2>1 DEF BInv, ReceiverInv, UartInv, SpeaksInTurn, OurTurn, IsOurs, SameParties, Skips,
                vars, machine
  <2>5. CommandInv' /\ GoodInv'
    BY <2>1 DEF BInv, CommandInv, GoodInv, ResponsesIntact, IsOurs, vars, machine
  <2> QED
    BY <2>2, <2>3, <2>4, <2>5 DEF BInv
<1>2. CASE \E request \in Commands : QueueCommand(request)
  BY <1>2, QueueCommandInv
<1>3. CASE AutoSyn \/ IdleSyn \/ Unheard \/ \E byte \in StrayBytes : Stray(byte)
  BY <1>3, AutoSynInv, IdleSynInv, UnheardInv, StrayInv
<1>4. CASE \E rivals \in SUBSET MayContend : Arbitrate(rivals)
  BY <1>4, ArbitrateInv
<1>5. CASE ForeignSpeaks \/ ForeignAcksRequest \/ ForeignRefusesRequest
  BY <1>5, ForeignSpeaksInv, ForeignAcksRequestInv, ForeignRefusesRequestInv
<1>6. CASE \E answer \in {ACK, NACK} : ForeignAnswersResponse(answer)
  BY <1>6, ForeignAnswersResponseInv
<1>7. CASE NodeSpeaks \/ Restart
  BY <1>7, NodeSpeaksInv, RestartInv
<1> QED
  BY <1>1, <1>2, <1>3, <1>4, <1>5, <1>6, <1>7 DEF BusNext

-----------------------------------------------------------------------------
(* The properties.                                                         *)

\* Whatever falls silent, is corrupted or restarted, the engine is where the wire
\* is, and the UART holds what its turn asks.
THEOREM BusInvariant ==
  ASSUME NeverAddressedAsPrimary
  PROVE  CrashSpec => []BInv
<1>1. BInv /\ [BusNext \/ Restart]_busVars => BInv'
  BY BusNextInv
<1> QED
  BY <1>1, BusInitInv, PTL DEF CrashSpec

\* Every variable keeps the type of its C++ counterpart, and the bus its own.
THEOREM BusTypesHold ==
  ASSUME NeverAddressedAsPrimary
  PROVE  CrashSpec => []BusTypeOK
<1>1. BInv => BusTypeOK
  BY DEF BInv, IInv, WireTyped, BusType, BusTypeOK
<1> QED
  BY <1>1, BusInvariant, PTL

\* The node never transmits while another device has the wire.
THEOREM NeverOutOfTurn ==
  ASSUME NeverAddressedAsPrimary
  PROVE  CrashSpec => []SpeaksInTurn
<1>1. BInv => SpeaksInTurn
  BY DEF BInv, UartInv
<1> QED
  BY <1>1, BusInvariant, PTL

\* The engine follows every telegram that begins after one that was over.
THEOREM FollowsTheWire ==
  ASSUME NeverAddressedAsPrimary
  PROVE  CrashSpec => []InSync
<1>1. BInv => InSync
  <2> SUFFICES ASSUME BInv, bus.clean, bus.phase \in DOMAIN StateInPhase
               PROVE  /\ receiving_telegram_.state = StateInPhase[bus.phase]
                      /\ receiving_telegram_.qq = bus.owner
                      /\ receiving_telegram_.zz = bus.zz
    BY DEF InSync
  <2>1. bus.phase \in {"free", "request", "ack", "response", "respack"}
    BY DEF StateInPhase
  <2>2. CASE bus.phase = "free"
    BY <2>2 DEF BInv, ReceiverInv, HeaderInv, Skips, StateInPhase, Nobody
  <2>3. CASE bus.phase \in {"request", "response"}
    <3>1. PICK symbols \in Seq(Byte), half \in BOOLEAN : Follows(symbols, half)
      BY <2>3 DEF BInv, TransmissionInv, Skips
    <3> QED
      BY <2>3, <3>1 DEF BInv, HeaderInv, Follows, StateInPhase, Nobody
  <2>4. CASE bus.phase \in {"ack", "respack"}
    BY <2>4 DEF BInv, ReceiverInv, Skips, SameParties, StateInPhase
  <2> QED
    BY <2>1, <2>2, <2>3, <2>4
<1> QED
  BY <1>1, BusInvariant, PTL

\* A telegram that is handed on as completed has ended on the wire.
LEMMA CompletedAtEnd ==
  ASSUME BInv, receiving_telegram_.state = "endCompleted"
  PROVE  bus.phase \in {"end", "spoiled"} /\ bus.carried /\ SameParties
<1>1. bus.phase \in Phases
  BY DEF BInv, WireTyped, BusType
<1>2. bus.phase \notin {"request", "response"}
  BY DEF BInv, TransmissionInv, Skips, Follows
<1>3. bus.phase \in {"end", "spoiled"}
  BY <1>1, <1>2 DEF BInv, ReceiverInv, UartInv, Skips, Phases
<1> QED
  BY <1>3 DEF BInv, ReceiverInv

\* What the items take their values from is what the bus has carried.
THEOREM CompletedTelegramsAreReal ==
  ASSUME NeverAddressedAsPrimary
  PROVE  CrashSpec => []CompletedIsReal
<1>1. BInv => CompletedIsReal
  BY CompletedAtEnd DEF CompletedIsReal, SameParties
<1> QED
  BY <1>1, BusInvariant, PTL

\* A response to this node that counts had a CRC that was right.
THEOREM CorruptResponsesRefused ==
  ASSUME NeverAddressedAsPrimary
  PROVE  CrashSpec => []ResponsesIntact
<1>1. BInv => ResponsesIntact
  BY DEF BInv, GoodInv
<1> QED
  BY <1>1, BusInvariant, PTL

\* Whoever waits for this node finds an answer in its UART.
THEOREM EverybodyAnswered ==
  ASSUME NeverAddressedAsPrimary
  PROVE  CrashSpec => []Answers
<1>1. BInv => Answers
  BY DEF BInv, ReceiverInv, Answers, OwesAnswer, Skips
<1> QED
  BY <1>1, BusInvariant, PTL

\* What the bus has carried to its end is handed over with the byte after it, or
\* an escape sequence begins there.
THEOREM CompletedTelegramsHandedOver ==
  ASSUME NeverAddressedAsPrimary
  PROVE  CrashSpec => HandedOver
<1> DEFINE Hands ==
             bus.clean /\ bus.carried /\ bus.phase = "end" /\ bus' # bus
               => queued' \/ bus'.phase = "spoiled" \/ Restart
<1>1. ASSUME BInv, BusNext, bus.clean, bus.carried, bus.phase = "end", bus' # bus,
             bus'.phase # "spoiled"
      PROVE  queued'
  <2>1. is_finished(receiving_telegram_) /\ ~in_esc
    BY <1>1 DEF BInv, ReceiverInv, TransmissionInv
  <2>2. SYN # ESC
    BY DEF SYN, ESC
  <2>3. \E b, crcMatches, unsent : Wire(b, crcMatches, unsent) /\ b # ESC
    <3>1. CASE AutoSyn
      BY <2>2, <3>1 DEF AutoSyn
    <3>2. CASE \E byte \in StrayBytes : Stray(byte)
      <4>1. PICK byte \in StrayBytes : Stray(byte)
        BY <3>2
      <4>2. byte # ESC
        <5>1. byte = ESC => bus' = [bus EXCEPT !.phase = "spoiled"]
          BY <1>1, <4>1 DEF Stray
        <5> QED
          BY <1>1, <5>1 DEF BInv, WireTyped, BusType
      <4> QED
        BY <4>1, <4>2 DEF Stray
    <3>3. CASE NodeSpeaks
      <4>1. uart_tx = <<SYN>>
        BY <1>1, <3>3 DEF NodeSpeaks, BInv, UartInv
      <4>2. Head(<<SYN>>) = SYN
        OBVIOUS
      <4> QED
        BY <2>2, <3>3, <4>1, <4>2 DEF NodeSpeaks
    <3>4. CASE IdleSyn \/ Unheard \/ \E rivals \in SUBSET MayContend : Arbitrate(rivals)
      BY <1>1, <3>4 DEF IdleSyn, Unheard, Arbitrate
    <3>5. CASE \/ ForeignAcksRequest \/ ForeignRefusesRequest
               \/ \E answer \in {ACK, NACK} : ForeignAnswersResponse(answer)
      BY <1>1, <3>5 DEF ForeignAcksRequest, ForeignRefusesRequest, ForeignAnswersResponse
    <3>6. CASE ForeignSpeaks
      BY <1>1, <3>6 DEF ForeignSpeaks, BInv, UartInv
    <3>7. CASE \E request \in Commands : QueueCommand(request)
      BY <1>1, <3>7 DEF QueueCommand
    <3> QED
      BY <1>1, <3>1, <3>2, <3>3, <3>4, <3>5, <3>6, <3>7 DEF BusNext
  <2>4. PICK b, crcMatches, unsent : Wire(b, crcMatches, unsent) /\ b # ESC
    BY <2>3
  <2>5. PICK reply_size :
          process_received_char(b, crcMatches, DequeueCommand, reply_size)
    BY <2>4 DEF Wire
  <2>6. ProcessSymbol(b, crcMatches, DequeueCommand, reply_size)
    BY <2>1, <2>4, <2>5 DEF process_received_char, EscapeBegins, InvalidEscape
  <2> QED
    BY <2>1, <2>6 DEF ProcessSymbol, QueueReceivedTelegram
<1>2. BInv /\ [BusNext \/ Restart]_busVars => [Hands]_busVars
  BY <1>1
<1> QED
  BY <1>2, BusInvariant, PTL DEF CrashSpec, HandedOver

-----------------------------------------------------------------------------
(* The ACK a command waits for.                                            *)

\* A command begins to wait when it wins, and is completed by an ACK only.
LEMMA AckCommand ==
  ASSUME BInv, NEW b, NEW crcMatches, NEW unsent, Wire(b, crcMatches, unsent)
  PROVE  /\ active_command_'.state = "waitForCommandAck" =>
              \/ active_command_' = active_command_ /\ (IsSymbol(b) => b \notin {ACK, SYN})
              \/ /\ IsContending(active_command_) /\ b = PrimaryAddress
                 /\ is_ack_expected(active_command_'.request.zz)
         /\ /\ active_command_.state = "waitForCommandAck"
            /\ active_command_'.state = "endCompleted"
            => b = ACK
<1> DEFINE a == active_command_
           dequeued == DequeueCommand
           c == CurrentCommand(dequeued)
<1>1. PICK reply_size : process_received_char(b, crcMatches, dequeued, reply_size)
  BY DEF Wire
<1>2. CASE EscapeBegins(b) \/ InvalidEscape(b)
  <2>1. active_command_' = a /\ ~IsSymbol(b)
    BY <1>2 DEF EscapeBegins, InvalidEscape, IsSymbol
  <2> QED
    BY <2>1
<1>3. CASE ProcessSymbol(b, crcMatches, dequeued, reply_size)
  <2>1. a \in CommandType /\ dequeued \in Commands \cup {NoRequest}
    BY DEF BInv, IInv, TypeOK, DequeueCommand, WireTyped
  <2>2. c \in CommandType
    BY <2>1, CurrentCommandTyped
  <2>3. c = a \/ (c.state = "waitForSend" /\ is_finished(a))
    BY DEF CurrentCommand, MayDequeue, NewCommand
  <2>4. Send(c, b)
    BY <1>3 DEF ProcessSymbol
  <2> HIDE DEF a, dequeued, c
  <2>5. \A s : set_state(c, s).state = s /\ set_state(c, s).request = c.request
    BY <2>2 DEF set_state, CommandType
  <2>6. CASE IgnoresByte(c, b) /\ CommandWaits(c, b)
    BY <2>3, <2>6 DEF a, IgnoresByte, CommandWaits, is_finished, EndStates
  <2>7. CASE StartArbitration(c, b) \/ RepeatArbitration(c, b) \/ EnterSecondRound(c, b)
    BY <2>2, <2>3, <2>5, <2>7 DEF a, StartArbitration, RepeatArbitration, EnterSecondRound
  <2>8. CASE WinArbitration(c, b)
    <3>1. c = a /\ IsContending(a) /\ a.state # "waitForCommandAck"
      BY <2>3, <2>8 DEF WinArbitration, Contends, IsContending
    <3>2. b = PrimaryAddress
      BY <2>8 DEF WinArbitration, IsEcho
    <3>3. CASE is_ack_expected(c.request.zz)
      <4>1. active_command_' = set_state(c, "waitForCommandAck")
        BY <2>8, <3>3 DEF WinArbitration
      <4> QED
        BY <2>5, <3>1, <3>2, <3>3, <4>1 DEF a
    <3>4. CASE ~is_ack_expected(c.request.zz)
      <4>1. active_command_' = set_state(c, "endCompleted")
        BY <2>8, <3>4 DEF WinArbitration
      <4> QED
        BY <2>5, <3>1, <3>2, <4>1 DEF a
    <3> QED
      BY <3>3, <3>4
  <2>9. CASE LoseArbitration(c, b) \/ CommandTimedOut(c, b)
    <3>1. active_command_'.state \in {"waitForSend", "endSendFailed"}
      BY <2>2, <2>9 DEF LoseArbitration, CommandTimedOut, RetryOrFail, CommandType
    <3> QED
      BY <3>1
  <2>10. CASE CommandAcknowledged(c, b)
    <3>1. active_command_' = set_state(c, "endCompleted") /\ b = ACK
      BY <2>10 DEF CommandAcknowledged
    <3> QED
      BY <2>5, <3>1
  <2> QED
    BY <2>4, <2>6, <2>7, <2>8, <2>9, <2>10 DEF Send
<1> QED
  BY <1>1, <1>2, <1>3 DEF process_received_char

\* The rest of our request has its ZZ first, and no ACK if it waits for one.
LEMMA RequestWithoutAck ==
  ASSUME NoAckInRequests, NEW request \in Commands, is_ack_expected(request.zz)
  PROVE  LET rest == RemainingRequestPart(request) IN
         /\ rest \in Seq(Byte) /\ rest # <<>> /\ Head(rest) = request.zz
         /\ \A i \in DOMAIN rest : rest[i] # ACK
<1> DEFINE symbols == RequestPart(request)
<1>1. WellFormedRequest(symbols) /\ request.rest \in Seq(Byte) /\ request.zz \in Byte
  BY EbusBusAssumption, EbusAssumption
<1>2. symbols[1] = request.zz
  <2> DEFINE first == request.zz
             rest == request.rest
  <2>1. first \in Byte /\ rest \in Seq(Byte)
    BY <1>1
  <2> HIDE DEF first, rest
  <2>2. <<first>> \o rest \in Seq(Byte) /\ <<first>> \o rest # <<>>
        /\ Head(<<first>> \o rest) = first
    BY <2>1, TakeFirst
  <2>3. (<<first>> \o rest)[1] = first
    BY <2>2, TailTyped
  <2> QED
    BY <2>3 DEF RequestPart, first, rest
<1> HIDE DEF symbols
<1>3. /\ Escaped(symbols) \in Seq(Byte) /\ Escaped(symbols) # <<>>
      /\ Head(Escaped(symbols)) = symbols[1]
  BY <1>1, FirstByte
<1> QED
  BY <1>2, <1>3 DEF NoAckInRequests, RemainingRequestPart, symbols

\* What this node transmits while a command of it waits.
LEMMA AckNodeSpeaks ==
  ASSUME BInv, BInv', AckInv, NodeSpeaks, active_command_'.state = "waitForCommandAck"
  PROVE  AckInv'
<1> DEFINE b == Head(uart_tx)
           left == Tail(uart_tx)
           request == active_command_.request
<1>1. /\ uart_tx # <<>> /\ uart_tx \in Seq(Byte) /\ Wire(b, bus.good, left) /\ OurTurn
      /\ bus.phase # "free" /\ bus.good \in BOOLEAN
  BY DEF NodeSpeaks, BInv, WireTyped, BusType, UartInv, SpeaksInTurn
<1>2. ~IsContending(active_command_)
  BY <1>1 DEF BInv, CommandInv, UartInv, OurTurn, IsContending
<1>3. active_command_' = active_command_ /\ (IsSymbol(b) => b \notin {ACK, SYN})
  BY <1>1, <1>2, AckCommand
<1>4. /\ IsOurs /\ is_ack_expected(request.zz)
      /\ bus.phase \in {"request", "ack", "end"}
      /\ bus.phase = "ack" => bus.zz = request.zz
      /\ bus.phase = "request" =>
           /\ \A i \in DOMAIN uart_tx : uart_tx[i] # ACK
           /\ IF bus.zz = Nobody THEN b = request.zz ELSE bus.zz = request.zz
  BY <1>3 DEF AckInv
<1>5. bus.phase # "request" => ~in_esc
  BY <1>4 DEF BInv, TransmissionInv
<1>6. CASE bus.phase = "request"
  <2>1. Transmits(b, left, bus.good, left)
    BY <1>6, NodeTransmits
  <2> DEFINE zz == IF bus.zz = Nobody THEN b ELSE bus.zz
  <2>2. /\ bus'.owner = bus.owner /\ bus'.zz = zz /\ left \in Seq(Byte)
        /\ left # <<>> => bus'.phase = "request"
        /\ left = <<>> => bus'.phase \in {"ack", "end"}
    BY <1>6, <2>1, TransmitsWire
  <2>3. zz = request.zz
    BY <1>4, <1>6
  <2>4. zz # Nobody
    <3>1. PICK symbols, half : Reads(b, left, symbols, half)
      BY <2>1, TransmitsReads
    <3> QED
      BY <3>1 DEF Reads, Nobody
  <2> HIDE DEF zz
  <2>5. ASSUME left # <<>>
        PROVE  uart_tx' # <<>> /\ \A i \in DOMAIN uart_tx' : uart_tx'[i] # ACK
    <3>1. uart_tx' = left
      <4>1. CASE IsSymbol(b)
        <5>1. /\ uart_tx' = left \o ResponseBytes(resp_tx')
              /\ \E reply_size : Respond(receiving_telegram_', bus.good, reply_size)
          BY <2>1, <4>1, TransmitsQuiet
        <5>2. receiving_telegram_'.state \in {"waitForSyn", "waitForRequestData"}
          BY <2>2, <2>5 DEF BInv, TransmissionInv, Skips, Follows
        <5>3. resp_tx' = "none"
          BY <1>1, <5>1, <5>2, RespondByState
        <5> QED
          BY <2>2, <5>1, <5>3, NoResponseBytes
      <4>2. CASE ~IsSymbol(b)
        <5>1. in_esc \in BOOLEAN
          BY DEF BInv, IInv, TypeOK
        <5> QED
          BY <1>1, <2>2, <4>2, <5>1, WireEarly
      <4> QED
        BY <4>1, <4>2
    <3>2. \A i \in DOMAIN left : left[i] # ACK
      <4>1. \A i \in DOMAIN left : left[i] = uart_tx[i + 1] /\ i + 1 \in DOMAIN uart_tx
        BY <1>1, HeadTailProperties
      <4> QED
        BY <1>4, <1>6, <4>1
    <3> HIDE DEF left
    <3> QED
      BY <2>5, <3>1, <3>2
  <2> QED
    BY <1>3, <1>4, <2>2, <2>3, <2>4, <2>5 DEF AckInv, IsOurs
<1>7. CASE bus.phase = "ack"
  <2>1. b # ACK
    BY <1>3, <1>5, <1>7 DEF IsSymbol, ACK, ESC
  <2>2. bus' = Over(FALSE)
    BY <1>1, <1>7, <2>1 DEF NodeSpeaks
  <2>3. bus'.phase = "end" /\ bus'.owner = bus.owner
    BY <2>2 DEF Over, BInv, WireTyped, BusType
  <2> QED
    BY <1>3, <1>4, <2>3 DEF AckInv, IsOurs
<1>8. CASE bus.phase = "end"
  <2>1. uart_tx = <<SYN>>
    BY <1>1, <1>8 DEF BInv, UartInv
  <2>2. Head(<<SYN>>) = SYN
    OBVIOUS
  <2> QED
    BY <1>3, <1>5, <1>8, <2>1, <2>2 DEF IsSymbol, SYN, ESC
<1> QED
  BY <1>4, <1>6, <1>7, <1>8

\* What begins to wait is a request that has just won.
LEMMA AckArbitrate ==
  ASSUME NeverAddressedAsPrimary, NoAckInRequests, BInv, BInv', AckInv,
         NEW rivals \in SUBSET MayContend, Arbitrate(rivals),
         active_command_'.state = "waitForCommandAck"
  PROVE  AckInv'
<1> DEFINE contenders == rivals \cup (IF uart_tx = <<>> THEN {} ELSE {Head(uart_tx)})
           qq == WiredAnd(contenders)
           unsent == IF uart_tx = <<>> THEN <<>> ELSE Tail(uart_tx)
           request == active_command_'.request
<1>1. /\ bus.phase = "free" /\ bus \in BusType /\ bus.zz = Nobody
      /\ Wire(qq, TRUE, unsent)
  BY DEF Arbitrate, BInv, ReceiverInv, WireTyped
<1>2. active_command_.state # "waitForCommandAck"
  BY <1>1 DEF AckInv
<1> HIDE DEF contenders, qq, unsent
<1>3. /\ IsContending(active_command_) /\ qq = PrimaryAddress
      /\ is_ack_expected(request.zz)
  BY <1>1, <1>2, AckCommand
<1>4. uart_tx = <<PrimaryAddress>>
  BY <1>1, <1>3 DEF BInv, CommandInv, UartInv, IsContending
<1>5. Head(<<PrimaryAddress>>) = PrimaryAddress /\ Tail(<<PrimaryAddress>>) = <<>>
  OBVIOUS
<1>6. qq \in contenders \ rivals /\ unsent = <<>> /\ qq \in Primaries
  <2>1. PrimaryAddress \notin rivals
    BY <1>1, EbusBusAssumption DEF MayContend, BusType
  <2>2. PrimaryAddress \in contenders /\ unsent = <<>>
    BY <1>4, <1>5 DEF contenders, unsent
  <2> QED
    BY <1>3, <2>1, <2>2, OurAddresses
<1>7. bus' = [bus EXCEPT !.phase = "request", !.owner = qq, !.script = <<>>,
                         !.good = TRUE, !.eligible = {}]
  BY <1>6 DEF Arbitrate, contenders, qq
<1>8. bus'.phase = "request" /\ bus'.owner = qq /\ bus'.zz = Nobody
  BY <1>1, <1>7 DEF BusType
<1>9. request \in Commands /\ uart_tx' = RemainingRequestPart(request)
  <2>1. Wire(qq, TRUE, <<>>)
    BY <1>1, <1>6
  <2>2. uart_tx # <<>>
    BY <1>4
  <2> QED
    BY <1>1, <1>3, <1>6, <2>1, <2>2, PrimaryRead
<1>10. /\ uart_tx' # <<>> /\ Head(uart_tx') = request.zz
       /\ \A i \in DOMAIN uart_tx' : uart_tx'[i] # ACK
  BY <1>3, <1>9, RequestWithoutAck
<1> QED
  BY <1>3, <1>8, <1>10 DEF AckInv, IsOurs

\* Every step keeps it.
LEMMA AckInvNext ==
  ASSUME NeverAddressedAsPrimary, NoAckInRequests, QuietNoise, BInv, BInv', AckInv,
         [BusNext \/ Restart]_busVars
  PROVE  AckInv'
<1> SUFFICES ASSUME active_command_'.state = "waitForCommandAck" PROVE AckInv'
  BY DEF AckInv
<1>1. CASE UNCHANGED <<vars, uart_tx, bus>>
  BY <1>1 DEF AckInv, IsOurs, vars, machine
<1>2. bus.phase = "ack" => ~in_esc /\ ~IsContending(active_command_)
  BY DEF BInv, TransmissionInv, CommandInv, IsContending
<1>3. CASE AutoSyn \/ IdleSyn \/ Unheard
  <2>1. PICK unsent : Wire(SYN, TRUE, unsent) /\ (uart_tx = <<>> \/ bus.phase = "free")
    BY <1>3 DEF AutoSyn, IdleSyn, Unheard
  <2>2. SYN # PrimaryAddress
    BY OurAddresses, PrimariesTyped
  <2>3. active_command_' = active_command_ /\ ~IsSymbol(SYN)
    <3>1. \/ active_command_' = active_command_ /\ (IsSymbol(SYN) => SYN \notin {ACK, SYN})
          \/ SYN = PrimaryAddress
      BY <2>1, AckCommand
    <3> QED
      BY <2>2, <3>1
  <2>4. bus.phase \in {"ack", "end"}
    BY <2>1, <2>3 DEF AckInv
  <2>5. ~in_esc
    BY <2>4 DEF BInv, TransmissionInv
  <2> QED
    BY <2>3, <2>5 DEF IsSymbol, SYN, ESC
<1>4. CASE \E rivals \in SUBSET MayContend : Arbitrate(rivals)
  BY <1>4, AckArbitrate
<1>5. CASE ForeignSpeaks
  <2> DEFINE b == Head(bus.script)
  <2>1. /\ Wire(b, bus.good, <<>>) /\ uart_tx = <<>> /\ bus.script # <<>>
        /\ bus.phase \in {"request", "response"}
    BY <1>5 DEF ForeignSpeaks, BInv, UartInv
  <2>2. active_command_.state # "waitForCommandAck"
    BY <2>1 DEF AckInv
  <2>3. IsContending(active_command_) /\ b = PrimaryAddress
    BY <2>1, <2>2, AckCommand
  <2> QED
    BY <2>1, <2>3 DEF BInv, CommandInv, IsContending
<1>6. CASE ForeignAcksRequest
  <2>1. Wire(ACK, TRUE, <<>>) /\ bus.phase = "ack"
    BY <1>6 DEF ForeignAcksRequest
  <2>2. IsSymbol(ACK)
    BY <1>2, <2>1 DEF IsSymbol, ACK, ESC
  <2> QED
    BY <1>2, <2>1, <2>2, AckCommand
<1>7. CASE ForeignRefusesRequest
  <2>1. Wire(NACK, TRUE, <<>>) /\ bus.phase = "ack" /\ bus' = Over(FALSE)
    BY <1>7 DEF ForeignRefusesRequest
  <2>2. active_command_' = active_command_
    BY <1>2, <2>1, AckCommand
  <2>3. bus'.phase = "end" /\ bus'.owner = bus.owner
    BY <2>1 DEF Over, BInv, WireTyped, BusType
  <2> QED
    BY <2>2, <2>3 DEF AckInv, IsOurs
<1>8. CASE \E answer \in {ACK, NACK} : ForeignAnswersResponse(answer)
  <2>1. PICK answer \in {ACK, NACK} : ForeignAnswersResponse(answer)
    BY <1>8
  <2>2. Wire(answer, TRUE, <<>>) /\ bus.phase = "respack"
    BY <2>1 DEF ForeignAnswersResponse
  <2>3. active_command_.state # "waitForCommandAck" /\ ~IsContending(active_command_)
    BY <2>2 DEF AckInv, BInv, CommandInv, IsContending
  <2> QED
    BY <2>2, <2>3, AckCommand
<1>9. CASE NodeSpeaks
  BY <1>9, AckNodeSpeaks
<1>10. CASE Restart
  BY <1>10 DEF Restart
<1>11. CASE \E byte \in StrayBytes : Stray(byte)
  <2>1. PICK byte \in StrayBytes : Stray(byte)
    BY <1>11
  <2>2. byte # ESC /\ Wire(byte, TRUE, <<>>) /\ bus.phase \in {"end", "spoiled"}
    BY <2>1 DEF Stray, QuietNoise
  <2>3. ~IsContending(active_command_)
    BY <2>2 DEF BInv, CommandInv, IsContending
  <2>4. active_command_' = active_command_
    BY <2>2, <2>3, AckCommand
  <2>5. bus' = [bus EXCEPT !.carried = FALSE]
    BY <2>1, <2>2 DEF Stray
  <2>6. bus'.phase = bus.phase /\ bus'.owner = bus.owner
    BY <2>5 DEF BInv, WireTyped, BusType
  <2> QED
    BY <2>2, <2>4, <2>6 DEF AckInv, IsOurs
<1> QED
  BY <1>1, <1>3, <1>4, <1>5, <1>6, <1>7, <1>8, <1>9, <1>10, <1>11 DEF BusNext, busVars, QueueCommand

\* NoRequest is not a request that anybody may queue.
LEMMA NoRequestNotQueued == NoRequest \notin Commands
<1> SUFFICES ASSUME NoRequest \in Commands PROVE FALSE
  OBVIOUS
<1> DEFINE rest == NoRequest.rest
           symbols == RequestPart(NoRequest)
<1>1. rest \in Seq(Byte) /\ WellFormedRequest(symbols) /\ NoRequest.zz = ESC
  BY EbusBusAssumption DEF NoRequest
<1> HIDE DEF rest
<1>2. ESC \in Byte
  BY DEF ESC, Byte
<1>3. (<<ESC>> \o rest)[1] = ESC
  <2>1. <<ESC>> \o rest \in Seq(Byte) /\ <<ESC>> \o rest # <<>> /\ Head(<<ESC>> \o rest) = ESC
    BY <1>1, <1>2, TakeFirst
  <2> QED
    BY <2>1, TailTyped
<1>4. symbols[1] = ESC
  BY <1>1, <1>3 DEF RequestPart, rest
<1> QED
  BY <1>1, <1>4 DEF WellFormedRequest

\* The byte that completes a command that waits is the ACK for its request.
LEMMA AckedWhenCompleted ==
  ASSUME QuietNoise, BInv, AckInv, BusNext \/ Restart,
         active_command_.state = "waitForCommandAck", active_command_'.state = "endCompleted",
         active_command_'.request = active_command_.request
  PROVE  bus.phase = "ack" /\ IsOurs /\ bus.zz = active_command_.request.zz
<1>1. /\ IsOurs /\ bus.phase \in {"request", "ack", "end"}
      /\ bus.phase = "ack" => bus.zz = active_command_.request.zz
      /\ bus.phase = "request" =>
           uart_tx # <<>> /\ \A i \in DOMAIN uart_tx : uart_tx[i] # ACK
  BY DEF AckInv
<1> SUFFICES bus.phase = "ack"
  BY <1>1
<1>2. SYN # ACK /\ NACK # ACK
  BY DEF SYN, ACK, NACK
<1>3. CASE \E request \in Commands : QueueCommand(request)
  BY <1>3 DEF QueueCommand, vars, machine
<1>4. CASE AutoSyn \/ IdleSyn \/ Unheard
  <2>1. \E unsent : Wire(SYN, TRUE, unsent)
    BY <1>4 DEF AutoSyn, IdleSyn, Unheard
  <2>2. SYN = ACK
    BY <2>1, AckCommand
  <2> QED
    BY <1>2, <2>2
<1>5. CASE \E rivals \in SUBSET MayContend : Arbitrate(rivals)
  BY <1>1, <1>5 DEF Arbitrate
<1>6. CASE ForeignSpeaks
  BY <1>1, <1>6 DEF ForeignSpeaks, BInv, UartInv
<1>7. CASE ForeignAcksRequest \/ ForeignRefusesRequest
  BY <1>7 DEF ForeignAcksRequest, ForeignRefusesRequest
<1>8. CASE \E answer \in {ACK, NACK} : ForeignAnswersResponse(answer)
  BY <1>1, <1>8 DEF ForeignAnswersResponse
<1>9. CASE NodeSpeaks
  <2> DEFINE b == Head(uart_tx)
             left == Tail(uart_tx)
  <2>1. Wire(b, bus.good, left) /\ uart_tx # <<>> /\ uart_tx \in Seq(Byte)
    BY <1>9 DEF NodeSpeaks, BInv, WireTyped
  <2> HIDE DEF left
  <2>2. b = ACK
    BY <2>1, AckCommand
  <2>3. b = uart_tx[1] /\ 1 \in DOMAIN uart_tx
    BY <2>1
  <2>4. CASE bus.phase = "request"
    BY <1>1, <2>2, <2>3, <2>4
  <2>5. CASE bus.phase = "end"
    <3>1. uart_tx = <<SYN>>
      BY <2>1, <2>5 DEF BInv, UartInv
    <3>2. Head(<<SYN>>) = SYN
      OBVIOUS
    <3> QED
      BY <1>2, <2>2, <3>1, <3>2
  <2> QED
    BY <1>1, <2>4, <2>5
<1>10. CASE Restart
  <2>1. active_command_'.request = NoRequest
    BY <1>10 DEF Restart
  <2>2. active_command_.request \in Commands
    BY DEF BInv, CommandInv, HasRequest, is_finished, EndStates
  <2> QED
    BY <2>1, <2>2, NoRequestNotQueued
<1>11. CASE \E byte \in StrayBytes : Stray(byte)
  <2>1. PICK byte \in StrayBytes : Wire(byte, TRUE, <<>>)
    BY <1>11 DEF Stray
  <2>2. byte = ACK
    BY <2>1, AckCommand
  <2> QED
    BY <2>2 DEF QuietNoise
<1> QED
  BY <1>3, <1>4, <1>5, <1>6, <1>7, <1>8, <1>9, <1>10, <1>11 DEF BusNext

\* With no ACK among the bytes of its own request, and no noise that looks like one
\* or swallows a SYN, a command that waits for an ACK is completed only by the
\* device it has addressed.
THEOREM CompletedOnlyByAck ==
  ASSUME NeverAddressedAsPrimary, NoAckInRequests, QuietNoise
  PROVE  CrashSpec => CompletedOnlyIfAcked
<1> DEFINE OnlyIfAcked ==
             (active_command_.state = "waitForCommandAck" /\ active_command_'.state = "endCompleted"
                /\ active_command_'.request = active_command_.request)
               => bus.phase = "ack" /\ IsOurs /\ bus.zz = active_command_.request.zz
<1>1. BusInit => AckInv
  <2>1. Init => active_command_.state = "endCompleted"
    BY DEF Init
  <2> QED
    BY <2>1 DEF AckInv, BusInit
<1>2. BInv /\ BInv' /\ AckInv /\ [BusNext \/ Restart]_busVars => AckInv'
  BY AckInvNext
<1>3. BInv /\ AckInv /\ [BusNext \/ Restart]_busVars => [OnlyIfAcked]_busVars
  BY AckedWhenCompleted
<1> QED
  BY <1>1, <1>2, <1>3, BusInvariant, PTL DEF CrashSpec, CompletedOnlyIfAcked

-----------------------------------------------------------------------------
(* The request that is sent.                                               *)

\* The rest of a request is written only by a command that contends, when it reads
\* its QQ.
LEMMA RequestCommand ==
  ASSUME BInv, NEW b, NEW crcMatches, NEW unsent, Wire(b, crcMatches, unsent),
         cmd_tx' = "request"
  PROVE  IsContending(active_command_) /\ b = PrimaryAddress
<1> DEFINE a == active_command_
           dequeued == DequeueCommand
           c == CurrentCommand(dequeued)
<1>1. PICK reply_size : process_received_char(b, crcMatches, dequeued, reply_size)
  BY DEF Wire
<1>2. ProcessSymbol(b, crcMatches, dequeued, reply_size)
  BY <1>1 DEF process_received_char, EscapeBegins, InvalidEscape, Silent
<1>3. c = a \/ c.state = "waitForSend"
  BY DEF CurrentCommand, NewCommand
<1>4. Send(c, b)
  BY <1>2 DEF ProcessSymbol
<1> HIDE DEF a, dequeued, c
<1>5. WinArbitration(c, b)
  BY <1>4
     DEF Send, CommandWaits, StartArbitration, RepeatArbitration, EnterSecondRound,
         LoseArbitration, CommandAcknowledged, CommandTimedOut, RetryOrFail
<1> QED
  BY <1>3, <1>5 DEF a, WinArbitration, Contends, IsContending, IsEcho

\* Of the steps of the bus, only an arbitration that this node has won makes it
\* write one.
LEMMA WonArbitration ==
  ASSUME BInv, BusNext \/ Restart, cmd_tx' = "request",
         ~(\E request \in Commands : QueueCommand(request))
  PROVE  bus'.phase = "request" /\ IsOurs'
<1>1. PrimaryAddress # SYN
  BY OurAddresses, PrimariesTyped
<1>2. IsContending(active_command_) =>
        \/ bus.phase = "free" /\ uart_tx # <<>>
        \/ bus.phase = "undecided" /\ uart_tx = <<>>
        \/ /\ bus.phase = "request" /\ uart_tx = <<>>
           /\ bus.script # <<>> /\ Head(bus.script) # PrimaryAddress
  BY DEF IsContending, BInv, CommandInv, UartInv, SpeaksInTurn, OurTurn
<1>3. CASE AutoSyn \/ IdleSyn \/ Unheard
  <2>1. \E unsent : Wire(SYN, TRUE, unsent)
    BY <1>3 DEF AutoSyn, IdleSyn, Unheard
  <2> QED
    BY <1>1, <2>1, RequestCommand
<1>4. ASSUME NEW rivals \in SUBSET MayContend, Arbitrate(rivals)
      PROVE  bus'.phase = "request" /\ IsOurs'
  <2> DEFINE contenders == rivals \cup (IF uart_tx = <<>> THEN {} ELSE {Head(uart_tx)})
             qq == WiredAnd(contenders)
             unsent == IF uart_tx = <<>> THEN <<>> ELSE Tail(uart_tx)
  <2>1. bus.phase = "free" /\ bus \in BusType /\ Wire(qq, TRUE, unsent)
    BY <1>4 DEF Arbitrate, BInv, WireTyped
  <2> HIDE DEF qq, unsent
  <2>2. IsContending(active_command_) /\ qq = PrimaryAddress
    BY <2>1, RequestCommand
  <2>3. uart_tx = <<PrimaryAddress>>
    BY <1>2, <2>1, <2>2 DEF BInv, UartInv
  <2>4. Head(<<PrimaryAddress>>) = PrimaryAddress
    OBVIOUS
  <2>5. PrimaryAddress \notin rivals
    BY <2>1, EbusBusAssumption DEF MayContend, BusType
  <2>6. qq \in contenders \ rivals
    BY <2>2, <2>3, <2>4, <2>5
  <2>7. bus' = [bus EXCEPT !.phase = "request", !.owner = qq, !.script = <<>>,
                           !.good = TRUE, !.eligible = {}]
    BY <1>4, <2>6 DEF Arbitrate, qq
  <2> QED
    BY <2>1, <2>2, <2>7 DEF BusType, IsOurs
<1>5. CASE ForeignSpeaks
  <2>1. bus.script # <<>> /\ Wire(Head(bus.script), bus.good, <<>>)
    BY <1>5 DEF ForeignSpeaks
  <2>2. bus.phase \in {"request", "response"} /\ uart_tx = <<>>
    BY <2>1 DEF BInv, UartInv
  <2> QED
    BY <1>2, <2>1, <2>2, RequestCommand
<1>6. CASE ForeignAcksRequest \/ ForeignRefusesRequest
  <2>1. bus.phase = "ack" /\ (Wire(ACK, TRUE, <<>>) \/ Wire(NACK, TRUE, <<>>))
    BY <1>6 DEF ForeignAcksRequest, ForeignRefusesRequest
  <2> QED
    BY <1>2, <2>1, RequestCommand
<1>7. CASE \E answer \in {ACK, NACK} : ForeignAnswersResponse(answer)
  <2>1. bus.phase = "respack" /\ \E answer : Wire(answer, TRUE, <<>>)
    BY <1>7 DEF ForeignAnswersResponse
  <2> QED
    BY <1>2, <2>1, RequestCommand
<1>8. CASE NodeSpeaks
  <2>1. uart_tx # <<>> /\ bus.phase # "free" /\ Wire(Head(uart_tx), bus.good, Tail(uart_tx))
    BY <1>8 DEF NodeSpeaks
  <2> QED
    BY <1>2, <2>1, RequestCommand
<1>9. CASE Restart
  BY <1>9 DEF Restart, Silent
<1>10. CASE \E byte \in StrayBytes : Stray(byte)
  <2>1. bus.phase \in {"end", "spoiled"} /\ \E byte : Wire(byte, TRUE, <<>>)
    BY <1>10 DEF Stray
  <2> QED
    BY <1>2, <2>1, RequestCommand
<1> QED
  BY <1>3, <1>4, <1>5, <1>6, <1>7, <1>8, <1>9, <1>10 DEF BusNext

\* The request is sent only by the primary whose QQ is on the wire, in the second
\* round as well: as long as nobody addresses this node as a primary.
THEOREM RequestSentWhenWon ==
  ASSUME NeverAddressedAsPrimary
  PROVE  CrashSpec => []SendsOnlyWhenWon
<1>1. BusInit => SendsOnlyWhenWon
  BY DEF BusInit, Init, SendsOnlyWhenWon
<1>2. BInv /\ SendsOnlyWhenWon /\ [BusNext \/ Restart]_busVars => SendsOnlyWhenWon'
  <2> SUFFICES ASSUME BInv, SendsOnlyWhenWon, [BusNext \/ Restart]_busVars
               PROVE  SendsOnlyWhenWon'
    OBVIOUS
  <2>1. CASE (\E request \in Commands : QueueCommand(request)) \/ UNCHANGED busVars
    BY <2>1 DEF QueueCommand, busVars, vars, SendsOnlyWhenWon, IsOurs
  <2>2. CASE /\ BusNext \/ Restart
             /\ ~(\E request \in Commands : QueueCommand(request))
    BY <2>2, WonArbitration DEF SendsOnlyWhenWon
  <2> QED
    BY <2>1, <2>2
<1> QED
  BY <1>1, <1>2, BusInvariant, PTL DEF CrashSpec

=============================================================================
