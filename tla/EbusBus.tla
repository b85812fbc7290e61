------------------------------ MODULE EbusBus ------------------------------
(***************************************************************************)
(* The engine on an eBUS with other devices.  One step is one byte on the  *)
(* wire; every device reads every byte, its own included.  Other primaries *)
(* and secondaries follow the protocol, but may fall silent at any moment, *)
(* refuse or corrupt what is sent; then the AUTO-SYN generator goes on.    *)
(* Noise adds bytes after a telegram, and a QQ of this node may get lost.  *)
(*                                                                         *)
(* The engine answers a byte before the next one is on the wire: at 2400   *)
(* baud it has 4 ms.  What it writes waits in the UART, uart_tx.           *)
(*                                                                         *)
(* bus is what really happens on the wire.  The engine does not see it:    *)
(* the properties compare it with what the engine believes.                *)
(***************************************************************************)
EXTENDS Ebus, Escaping

CONSTANTS
  Rivals,             \* the addresses of the other primaries
  ForeignRequests,    \* what they may send after QQ, symbol for symbol
  ForeignResponses,   \* what other secondaries may answer after ACK
  Reply,              \* the symbols after ACK of this node's reply
  StrayBytes,         \* what noise may add after a telegram
  CommandQueueSize    \* command_queue_length_

\* The protocol's own idea of an address: the engine has another, in Elf.
PriorityClass(address) == address % 16
SubAddress(address) == address \div 16
OurSecondary == SecondaryOf(PrimaryAddress)

\* What follows QQ: ZZ, PB, SB, NN, the data and the CRC.  validate_ebus_address
\* takes neither SYN nor ESC for an address.
WellFormedRequest(symbols) ==
  /\ symbols \in Seq(Byte) /\ Len(symbols) >= 5
  /\ symbols[1] \notin {SYN, ESC}
  /\ symbols[4] < MAX_DATA_LENGTH /\ Len(symbols) = 5 + symbols[4]

\* NN, the data and the CRC.
WellFormedResponse(symbols) ==
  /\ symbols \in Seq(Byte) /\ Len(symbols) >= 2
  /\ symbols[1] < MAX_DATA_LENGTH /\ Len(symbols) = 2 + symbols[1]

RequestPart(request) == <<request.zz>> \o request.rest

\* Our address is one that validate_primary_address admits and whose secondary
\* address the engine knows: 0xFF is not.  Everybody keeps to the protocol, and
\* to lengths that the buffers are made for.
ASSUME EbusBusAssumption ==
  /\ PrimaryAddress \in Primaries /\ to_secondary(PrimaryAddress) = OurSecondary
  /\ Rivals \subseteq Primaries \ {PrimaryAddress}
  /\ \A symbols \in ForeignRequests : WellFormedRequest(symbols)
  /\ \A symbols \in ForeignResponses : WellFormedResponse(symbols)
  /\ WellFormedResponse(Reply)
  /\ StrayBytes \subseteq Byte \ {SYN}
  /\ \A request \in Commands :
       request.rest \in Seq(Byte) /\ WellFormedRequest(RequestPart(request))
  /\ CommandQueueSize \in Nat \ {0}

VARIABLES
  command_queue_,   \* of EbusComponent: from the main loop to the engine
  uart_tx,          \* bytes written and not yet on the wire
  bus

busVars == <<vars, command_queue_, uart_tx, bus>>

Phases == {"free", "undecided", "request", "ack", "response", "respack",
           "end", "spoiled", "collision"}

Nobody == ESC

\* The wire after a SYN: any primary may begin.  eligible: who takes part in
\* a second round; clean: the SYN came after a telegram, not within one; carried:
\* whoever had to has acknowledged the telegram that is over.
Free(eligible, clean) ==
  [phase |-> "free", owner |-> Nobody, zz |-> Nobody, script |-> <<>>,
   good |-> TRUE, eligible |-> eligible, clean |-> clean,
   carried |-> FALSE]

\* The node may be switched on in the middle of a telegram.
BusInit ==
  /\ Init
  /\ command_queue_ = <<>>
  /\ uart_tx = <<>>
  /\ \/ bus = Free({}, FALSE)
     \/ \E symbols \in ForeignRequests, primary \in Rivals, n \in 1 .. 3 :
          bus = [Free({}, FALSE) EXCEPT !.phase = "request", !.owner = primary,
                   !.zz = symbols[1],
                   !.script = Escaped(SubSeq(symbols, n + 1, Len(symbols)))]

-----------------------------------------------------------------------------
(* What the engine writes to the UART, and how it takes commands.          *)

RemainingRequestPart(request) == Escaped(RequestPart(request))

CommandBytes(tx, request) ==
  CASE tx = "none"    -> <<>>
    [] tx = "qq"      -> Escape(PrimaryAddress)
    [] tx = "request" -> RemainingRequestPart(request)

ResponseBytes(tx) ==
  CASE tx = "none"    -> <<>>
    [] tx = "nack"    -> <<NACK>>
    [] tx = "ack_syn" -> <<ACK, SYN>>
    [] tx = "reply"   -> <<ACK>> \o Escaped(Reply)

\* The first command in the queue, taken when the last one is finished.
DequeueCommand ==
  IF MayDequeue /\ command_queue_ # <<>>
  THEN Head(command_queue_) ELSE NoRequest

\* The byte is on the wire: the engine reads it.  sent: it is our own.
Wire(received_byte, crcMatches, unsent) ==
  /\ \E reply_size \in ReplySizes :
       process_received_char(received_byte, crcMatches, DequeueCommand, reply_size)
  /\ command_queue_' =
       IF IsSymbol(received_byte) /\ DequeueCommand # NoRequest
       THEN Tail(command_queue_) ELSE command_queue_
  /\ uart_tx' = unsent \o CommandBytes(cmd_tx', active_command_'.request)
                       \o ResponseBytes(resp_tx')

\* update(): the main loop queues a request to poll.
QueueCommand(request) ==
  /\ Len(command_queue_) < CommandQueueSize
  /\ command_queue_' = Append(command_queue_, request)
  /\ UNCHANGED <<vars, uart_tx, bus>>

\* Power fails for a moment: nothing is kept, and the bus goes on.
Restart ==
  /\ lock_counter_' = 0
  /\ char_count_since_last_syn_' = 0
  /\ in_esc' = FALSE
  /\ state_' = "ARBITRATION"
  /\ receiving_telegram_' = NewTelegram
  /\ active_command_' =
       [state |-> "endCompleted", request |-> NoRequest, tries_count |-> 0]
  /\ Silent
  /\ command_queue_' = <<>>
  /\ uart_tx' = <<>>
  /\ bus' = [bus EXCEPT !.clean = FALSE]

-----------------------------------------------------------------------------
(* The wire when nobody, another device or this node transmits.            *)

IsOurs == bus.owner = PrimaryAddress

IsToUs == bus.zz \in {PrimaryAddress, OurSecondary}

AfterSyn == Free(IF bus.phase = "undecided" THEN bus.eligible ELSE {},
                 bus.phase \in {"free", "end"})

\* The generator sends SYN after a pause, and the owner at the end.
AutoSyn ==
  /\ bus.phase # "free" /\ uart_tx = <<>>
  /\ bus' = AfterSyn
  /\ Wire(SYN, TRUE, <<>>)

\* Two SYNs in a row: the bus is idle.
IdleSyn ==
  /\ bus.phase = "free" /\ uart_tx = <<>>
  /\ bus' = AfterSyn
  /\ Wire(SYN, TRUE, <<>>)

\* Our QQ does not come back: nobody hears it, and the generator sends SYN.
Unheard ==
  /\ bus.phase = "free" /\ uart_tx # <<>>
  /\ bus' = AfterSyn
  /\ Wire(SYN, TRUE, Tail(uart_tx))

\* Noise is read as a byte.  An ESC begins an escape sequence, whatever its
\* second byte will be.
Stray(byte) ==
  /\ bus.phase \in {"end", "spoiled"} /\ uart_tx = <<>>
  /\ bus' = IF bus.phase = "end" /\ byte = ESC THEN [bus EXCEPT !.phase = "spoiled"]
                                              ELSE [bus EXCEPT !.carried = FALSE]
  /\ Wire(byte, TRUE, <<>>)

\* Zeros are dominant.  The nibbles of primaries are 0, 1, 3, 7 and 15, of
\* which the smaller one is the bitwise AND.
WiredAnd(addresses) ==
  LET Lowest(nibbles) == CHOOSE n \in nibbles : \A m \in nibbles : n <= m
  IN  16 * Lowest({SubAddress(a) : a \in addresses})
        + Lowest({PriorityClass(a) : a \in addresses})

\* All who begin at once put QQ on the wire in the same moment.
Arbitrate(rivals) ==
  LET contenders == rivals \cup (IF uart_tx = <<>> THEN {} ELSE {Head(uart_tx)})
      qq == WiredAnd(contenders)
      Won(script, good) ==
        [bus EXCEPT !.phase = "request", !.owner = qq, !.script = script,
                    !.good = good, !.eligible = {}]
  IN  /\ bus.phase = "free" /\ contenders # {}
      /\ CASE qq \in rivals ->
                \E symbols \in ForeignRequests, good \in BOOLEAN :
                  bus' = Won(Escaped(symbols), good)
           [] qq \in contenders \ rivals -> bus' = Won(<<>>, TRUE)
           [] OTHER ->
                bus' = [bus EXCEPT !.phase = "undecided",
                          !.eligible = {a \in rivals : PriorityClass(a) = PriorityClass(qq)}]
      /\ Wire(qq, TRUE, IF uart_tx = <<>> THEN <<>> ELSE Tail(uart_tx))

MayContend == IF bus.eligible = {} THEN Rivals ELSE bus.eligible

\* The request or the response goes on with this byte, and is over with it
\* when nothing is left.
Continue(byte, left) ==
  LET zz == IF bus.zz = Nobody THEN byte ELSE bus.zz
      next == CASE bus.phase = "response" -> "respack"
                [] bus.phase = "request" /\ zz # BROADCAST_ADDRESS -> "ack"
                [] bus.phase = "request" /\ zz = BROADCAST_ADDRESS -> "end"
  IN  [bus EXCEPT !.zz = zz, !.phase = IF left = <<>> THEN next ELSE @,
                  !.carried = (left = <<>> /\ next = "end")]

Over(carried) == [bus EXCEPT !.phase = "end", !.carried = carried]

ForeignSpeaks ==
  /\ uart_tx = <<>> /\ bus.script # <<>>
  /\ LET left == Tail(bus.script) IN
       /\ bus' = [Continue(Head(bus.script), left) EXCEPT !.script = left]
       /\ Wire(Head(bus.script), bus.good, <<>>)

ForeignAcksRequest ==
  /\ uart_tx = <<>> /\ bus.phase = "ack" /\ ~IsToUs
  /\ IF bus.zz \notin Primaries
     THEN \E symbols \in ForeignResponses, good \in BOOLEAN :
            bus' = [bus EXCEPT !.phase = "response", !.script = Escaped(symbols), !.good = good]
     ELSE bus' = Over(TRUE)
  /\ Wire(ACK, TRUE, <<>>)

ForeignRefusesRequest ==
  /\ uart_tx = <<>> /\ bus.phase = "ack" /\ ~IsToUs
  /\ bus' = Over(FALSE)
  /\ Wire(NACK, TRUE, <<>>)

ForeignAnswersResponse(answer) ==
  /\ uart_tx = <<>> /\ bus.phase = "respack" /\ ~IsOurs
  /\ bus' = Over(answer = ACK)
  /\ Wire(answer, TRUE, <<>>)

\* The protocol lets this node transmit.
OurTurn ==
  \/ bus.phase = "free"
  \/ bus.phase \in {"request", "respack", "end"} /\ IsOurs
  \/ bus.phase \in {"ack", "response"} /\ bus.zz = OurSecondary

\* The CRC sent is that of the escaped data, the one expected is not: with an
\* escaped symbol in the reply they may differ.
ReplyCrcMatches ==
  IF \E i \in 1 .. Len(Reply) - 1 : Reply[i] \in {ESC, SYN} THEN BOOLEAN ELSE {TRUE}

NodeSpeaks ==
  LET byte == Head(uart_tx)
      left == Tail(uart_tx)
  IN  /\ uart_tx # <<>> /\ bus.phase # "free"
      /\ CASE ~OurTurn -> bus' = [bus EXCEPT !.phase = "collision", !.script = <<>>]
           [] OurTurn /\ bus.phase \in {"request", "response"} -> bus' = Continue(byte, left)
           [] OurTurn /\ bus.phase = "ack" ->
                IF byte = ACK
                THEN \E good \in ReplyCrcMatches :
                       bus' = [bus EXCEPT !.phase = "response", !.good = good]
                ELSE bus' = Over(FALSE)
           [] OurTurn /\ bus.phase = "respack" -> bus' = Over(byte = ACK)
           [] OurTurn /\ bus.phase = "end" -> bus' = AfterSyn
      /\ Wire(byte, bus.good, left)

BusNext ==
  \/ \E request \in Commands : QueueCommand(request)
  \/ AutoSyn
  \/ IdleSyn
  \/ Unheard
  \/ \E byte \in StrayBytes : Stray(byte)
  \/ \E rivals \in SUBSET MayContend : Arbitrate(rivals)
  \/ ForeignSpeaks
  \/ ForeignAcksRequest
  \/ ForeignRefusesRequest
  \/ \E answer \in {ACK, NACK} : ForeignAnswersResponse(answer)
  \/ NodeSpeaks

\* A byte is on the wire again and again: the AUTO-SYN generator sees to it.
\* Noise and lost bytes do not count, and do not go on for ever.
Traffic ==
  \/ AutoSyn \/ IdleSyn \/ NodeSpeaks
  \/ \E rivals \in SUBSET MayContend : Arbitrate(rivals)
  \/ ForeignSpeaks \/ ForeignAcksRequest \/ ForeignRefusesRequest
  \/ \E answer \in {ACK, NACK} : ForeignAnswersResponse(answer)

\* The bus is not used by others all the time: again and again nobody begins
\* after a SYN, and again and again this goes on for a second SYN.
Pause == bus.clean /\ IdleSyn

BusFairness == WF_busVars(Traffic) /\ SF_busVars(IdleSyn) /\ SF_busVars(Pause)

BusSpec == BusInit /\ [][BusNext]_busVars

CrashSpec == BusInit /\ [][BusNext \/ Restart]_busVars

FairCrashSpec == CrashSpec /\ BusFairness

-----------------------------------------------------------------------------
(* Properties.                                                             *)

BusTypeOK ==
  /\ TypeOK
  /\ command_queue_ \in Seq(Commands) /\ Len(command_queue_) <= CommandQueueSize
  /\ uart_tx \in Seq(Byte)
  /\ bus \in [phase : Phases, owner : Rivals \cup {PrimaryAddress, Nobody},
              zz : Byte, script : Seq(Byte), good : BOOLEAN,
              eligible : SUBSET Rivals, clean : BOOLEAN, carried : BOOLEAN]

\* The node transmits only when the protocol gives it the wire: in the
\* arbitration slot, as owner of the telegram, or as its addressed secondary.
\* A byte at any other time destroys what another device is sending.
SpeaksInTurn == uart_tx # <<>> => OurTurn

\* The engine follows the telegram on the wire byte by byte, so that it knows
\* whose turn it is, for every telegram that begins after one that was over.
StateInPhase ==
  [free     |-> "waitForArbitration",  request |-> "waitForRequestData",
   ack      |-> "waitForRequestAck",   response |-> "waitForResponseData",
   respack  |-> "waitForResponseAck"]

InSync ==
  bus.clean /\ bus.phase \in DOMAIN StateInPhase =>
    /\ receiving_telegram_.state = StateInPhase[bus.phase]
    /\ receiving_telegram_.qq = bus.owner
    /\ receiving_telegram_.zz = bus.zz

\* A telegram handed on as completed, which the items take their values from,
\* is one the bus has carried to its end: acknowledged by whoever had to, with
\* this sender and this receiver.
CompletedIsReal ==
  receiving_telegram_.state = "endCompleted" =>
    /\ bus.phase \in {"end", "spoiled"} /\ bus.carried
    /\ receiving_telegram_.qq = bus.owner
    /\ receiving_telegram_.zz = bus.zz

\* A response to our own request counts only when its CRC was right: a corrupt
\* one is refused, and the refusal is what the engine then reads.
ResponsesIntact ==
  /\ receiving_telegram_.state = "endCompleted"
  /\ receiving_telegram_.qq = PrimaryAddress
  /\ is_response_expected(receiving_telegram_.zz)
  => bus.good

\* Whoever waits for this node gets an answer, in every telegram that begins
\* after one that was over: a primary that has sent a request to it, a secondary
\* that has responded to its request.
OwesAnswer ==
  \/ bus.phase = "ack" /\ bus.zz = OurSecondary
  \/ bus.phase = "respack" /\ IsOurs

Answers == bus.clean /\ OwesAnswer => uart_tx # <<>>

\* "responses to our commands are stored in receiving_telegram_; when response
\* is completed send ACK or NACK when we were the primary": every response, not
\* only in telegrams that begin after one that was over.
AnswersResponses == bus.phase = "respack" /\ IsOurs => uart_tx # <<>>

\* "we won arbitration", "won round 2": the rest of a request is sent only by
\* the primary whose QQ is on the wire.
SendsOnlyWhenWon == cmd_tx = "request" => bus.phase = "request" /\ IsOurs

\* A command that waits for ACK is completed only when the addressed device
\* has acknowledged the whole request; otherwise it is tried again.
CompletedOnlyIfAcked ==
  [][ (active_command_.state = "waitForCommandAck" /\ active_command_'.state = "endCompleted"
         /\ active_command_'.request = active_command_.request)
      => bus.phase = "ack" /\ IsOurs /\ bus.zz = active_command_.request.zz ]_busVars

\* Every telegram that the bus carries to its end, and that begins after one that
\* was over, goes into the history queue with the next byte, be it SYN or noise;
\* only an ESC, the first byte of an escape sequence, comes in between.
HandedOver ==
  [][ bus.clean /\ bus.carried /\ bus.phase = "end" /\ bus' # bus
      => queued' \/ bus'.phase = "spoiled" \/ Restart ]_busVars

\* A command that has been taken from the queue is completed or given up.
CommandFinishes ==
  active_command_.state = "waitForSend" ~> is_finished(active_command_)

\* The main loop, which waits without a timeout for space in the full queue,
\* goes on.
QueueGetsSpace ==
  Len(command_queue_) = CommandQueueSize ~> Len(command_queue_) < CommandQueueSize

=============================================================================
