----------------------------- MODULE ZebusProofs -----------------------------
(***************************************************************************)
(* Theorems about Zebus: whatever its address, the telegrams on the bus    *)
(* and the sizes of its queues are.  Its sending side is that of           *)
(* EbusPolling; its receiving side is not that of EbusDelivery, since the  *)
(* list of handlers grows while the message task walks through it, but the *)
(* steps are the same, and the lemmas on them hold for both.               *)
(***************************************************************************)
EXTENDS Zebus, TLAPS

P == INSTANCE EbusPollingProofs WITH
  Items <- Requests, PrimaryAddressSet <- TRUE, PrimaryAddress <- master_address,
  MemoryContents <- {}, command_queue_size_ <- command_size,
  primary_address_ <- masterAddress, command_queue_ <- telegramCommandQueue

D == INSTANCE EbusDeliveryProofs WITH
  Items <- Sensors, history_queue_size_ <- history_size,
  history_queue_ <- telegramHistoryQueue

-----------------------------------------------------------------------------
(* The inductive invariant.                                                *)

Prepared == {prepare_command(Requests[i]) : i \in DOMAIN Requests}

\* Until the list of handlers is complete, update() has not been called, and
\* nothing has been asked for.
QuietDuringSetup ==
  message_handlers # HandlerCount =>
    /\ polling = 0 /\ telegramCommandQueue = <<>>
    /\ phase = "idle" /\ awaited = Polling!NoCommand

\* What is worked on, and what is waited for, is one of the two requests.
RequestsKnown ==
  /\ phase # "idle" => request \in Prepared
  /\ awaited \in Prepared \cup {Polling!NoCommand}

\* A telegram that is on its way to a sensor has found its handler in the list,
\* unless the sensor has lost a later one: the message task does not come to the
\* end of the list before.
HandlerIsThere(i) == D!LatestIsOnItsWay(i) /\ (D!Awaits(i) => i \in Registered)

ZebusInv ==
  /\ message_handlers \in 0 .. HandlerCount
  /\ P!PInv /\ D!DeliveryInv
  /\ QuietDuringSetup /\ RequestsKnown
  /\ \A i \in DOMAIN Sensors \ lost : HandlerIsThere(i)

-----------------------------------------------------------------------------
(* The assumptions of the instances, and that they mean what those of      *)
(* Zebus mean.                                                             *)

LEMMA SensorsAreNumbered ==
  /\ Len(Sensors) = 6 /\ DOMAIN Sensors = 1 .. 6
  /\ \A i \in DOMAIN Sensors : /\ Sensors[i].kind \in {"sensor", "binary_sensor"}
                               /\ Sensors[i].handler = IF i < 3 THEN i ELSE 3
<1>1. Len(Sensors) = 6 /\ DOMAIN Sensors = 1 .. 6
  BY DEF Sensors
<1>2. \A i \in 1 .. 6 : \/ i = 1 \/ i = 2 \/ i = 3 \/ i = 4 \/ i = 5 \/ i = 6
  OBVIOUS
<1>3. /\ Sensors[1] = WaterPressure /\ Sensors[2] = DispRoomTemp
      /\ Sensors[3] = HeaterStatus("sensor", 0) /\ Sensors[4] = HeaterStatus("sensor", 1)
      /\ Sensors[5] = HeaterStatus("sensor", 5)
      /\ Sensors[6] = HeaterStatus("binary_sensor", 6)
  BY DEF Sensors
<1>4. /\ WaterPressure.kind = "sensor" /\ WaterPressure.handler = 1
      /\ DispRoomTemp.kind = "sensor" /\ DispRoomTemp.handler = 2
      /\ \A kind, position : /\ HeaterStatus(kind, position).kind = kind
                             /\ HeaterStatus(kind, position).handler = 3
  BY DEF WaterPressure, DispRoomTemp, HeaterStatus, SensorOf
<1> QED
  BY <1>1, <1>2, <1>3, <1>4

\* The handlers of the list are those of the first sensors.
LEMMA RegisteredIsPrefix ==
  ASSUME message_handlers \in 0 .. HandlerCount, NEW i \in Registered
  PROVE  i \in 1 .. 6 /\ \A k \in 1 .. i : k \in Registered
<1>1. i \in 1 .. 6 /\ i \in DOMAIN Sensors /\ Sensors[i].handler <= message_handlers
  BY SensorsAreNumbered DEF Registered
<1>2. ASSUME NEW k \in 1 .. i PROVE k \in Registered
  <2>1. k \in DOMAIN Sensors /\ Sensors[k].handler \in Nat /\ Sensors[i].handler \in Nat
    BY <1>1, SensorsAreNumbered
  <2>2. Sensors[k].handler <= Sensors[i].handler
    BY <1>1, <2>1, SensorsAreNumbered
  <2>3. message_handlers \in Nat
    BY DEF HandlerCount
  <2> QED
    BY <1>1, <2>1, <2>2, <2>3 DEF Registered
<1> QED
  BY <1>1, <1>2

LEMMA NextRegisteredInRange ==
  ASSUME message_handlers \in 0 .. HandlerCount, NEW i \in 0 .. 6
  PROVE  /\ NextRegistered(i) \in 0 .. 6 /\ NextRegistered(i) \in {0, i + 1}
         /\ NextRegistered(i) # 0 => NextRegistered(i) \in Registered
         /\ i + 1 \in Registered => NextRegistered(i) = i + 1
  BY RegisteredIsPrefix DEF NextRegistered

LEMMA DeliveryAssumption == D!EbusDeliveryAssumption
<1>1. Sensors \in Seq({Sensors[i] : i \in DOMAIN Sensors})
  <2> DEFINE a == WaterPressure
             b == DispRoomTemp
             c == HeaterStatus("sensor", 0)
             d == HeaterStatus("sensor", 1)
             e == HeaterStatus("sensor", 5)
             f == HeaterStatus("binary_sensor", 6)
  <2>1. Sensors = <<a, b, c, d, e, f>>
    BY DEF Sensors
  <2> HIDE DEF a, b, c, d, e, f
  <2> QED
    BY <2>1
<1> QED
  BY <1>1, ZebusAssumption, SensorsAreNumbered DEF D!EbusDeliveryAssumption, D!Byte, Byte

LEMMA PollingAssumption == P!EbusPollingAssumption
<1> DEFINE a == createReadConfigCommand(MASTER_HEATER, DEVICE_CONFIG_WATER_PRESSURE)
           b == createReadConfigCommand(MASTER_EXA, DEVICE_CONFIG_DISP_ROOM_TEMP)
<1>1. Requests = <<a, b>>
  BY DEF Requests
<1>2. to_secondary(MASTER_HEATER) = 8 /\ to_secondary(MASTER_EXA) = 21
  <2>1. 3 % 16 = 3 /\ 3 \div 16 = 0 /\ 16 % 16 = 0 /\ 16 \div 16 = 1
    OBVIOUS
  <2>2. is_primary(3) /\ is_primary(16)
    BY <2>1 DEF is_primary, is_primary_nibble, get_priority_class, get_sub_address
  <2> QED
    BY <2>2 DEF to_secondary, MASTER_HEATER, MASTER_EXA
<1>3. /\ a.address = 8 /\ a.send_poll = TRUE
      /\ b.address = 21 /\ b.send_poll = TRUE
  BY <1>2 DEF createReadConfigCommand
<1> HIDE DEF a, b
<1>4. Requests \in Seq(P!Range(Requests)) /\ P!Range(Requests) = {a, b}
  BY <1>1 DEF P!Range
<1>5. \A item \in P!Range(Requests) : item.address \in P!Byte /\ item.send_poll \in BOOLEAN
  <2>1. \A item \in P!Range(Requests) : item.address \in P!Byte
    BY <1>3, <1>4 DEF P!Byte
  <2>2. \A item \in P!Range(Requests) : item.send_poll \in BOOLEAN
    BY <1>3, <1>4, Zenon
  <2> QED
    BY <2>1, <2>2
<1> QED
  BY <1>4, <1>5, ZebusAssumption
  DEF P!EbusPollingAssumption, P!Byte, Byte, P!SYN, SYN

\* The sending side.
LEMMA SamePolling ==
  /\ Polling!Init <=> P!Init
  /\ Polling!MainLoop <=> P!MainLoop
  /\ Polling!TakeCommand <=> P!TakeCommand
  /\ Polling!WorkOnCommand <=> P!WorkOnCommand
  /\ Polling!PollingTypeOK <=> P!PollingTypeOK
  /\ Polling!NoCommand = P!NoCommand
  /\ \A item : Polling!prepare_command(item) = P!prepare_command(item)
  /\ \A item : prepare_command(item) = P!prepare_command(item)
<1>1. Polling!SYN = P!SYN /\ Polling!ESC = P!ESC /\ Polling!Byte = P!Byte
      /\ Polling!BROADCAST_ADDRESS = P!BROADCAST_ADDRESS
  BY DEF Polling!SYN, P!SYN, Polling!ESC, P!ESC, Polling!Byte, P!Byte,
         Polling!BROADCAST_ADDRESS, P!BROADCAST_ADDRESS
<1>2. /\ \A item : Polling!prepare_command(item) = P!prepare_command(item)
      /\ \A item : prepare_command(item) = P!prepare_command(item)
  BY DEF Polling!prepare_command, P!prepare_command, prepare_command
<1>3. Polling!Range(Requests) = P!Range(Requests)
  BY DEF Polling!Range, P!Range
<1>4. Polling!NeedsNoAck = P!NeedsNoAck
  BY <1>1, <1>2, <1>3 DEF Polling!NeedsNoAck, P!NeedsNoAck
<1>5. Polling!NoCommand = P!NoCommand
  BY <1>1 DEF Polling!NoCommand, P!NoCommand
<1>6. \A i : Polling!NextItem(i) = P!NextItem(i)
  BY DEF Polling!NextItem, P!NextItem
<1>7. Polling!Init <=> P!Init
  BY <1>5 DEF Polling!Init, P!Init, Polling!Engine!Init, P!Engine!Init
<1>8. Polling!MainLoop <=> P!MainLoop
  BY <1>1, <1>2, <1>6
  DEF Polling!MainLoop, P!MainLoop, Polling!Update, P!Update, Polling!SkipItem, P!SkipItem,
      Polling!PollItem, P!PollItem, Polling!engine, P!engine
<1>9. Polling!TakeCommand <=> P!TakeCommand
  BY DEF Polling!TakeCommand, P!TakeCommand, Polling!Engine!Accept, P!Engine!Accept
<1>10. Polling!WorkOnCommand <=> P!WorkOnCommand
  BY <1>4
  DEF Polling!WorkOnCommand, P!WorkOnCommand, Polling!Engine!Contend, P!Engine!Contend,
      Polling!Engine!Put, P!Engine!Put, Polling!Engine!Fail, P!Engine!Fail,
      Polling!Engine!Acknowledge, P!Engine!Acknowledge
<1>11. Polling!PollingTypeOK <=> P!PollingTypeOK
  BY <1>1, <1>2, <1>3 DEF Polling!PollingTypeOK, P!PollingTypeOK
<1> QED
  BY <1>2, <1>5, <1>7, <1>8, <1>9, <1>10, <1>11

\* The receiving side.
LEMMA SameReading ==
  ASSUME NEW item, NEW telegram
  PROVE  Delivery!Reading(item, telegram) = D!Reading(item, telegram)
BY DEF Delivery!Reading, D!Reading, Delivery!get_response_bytes, D!get_response_bytes,
       Delivery!MapThenSumSet, D!MapThenSumSet, Delivery!MapThenFoldSet, D!MapThenFoldSet,
       Delivery!get_response_byte, D!get_response_byte, Delivery!ByteAt, D!ByteAt,
       Delivery!INVALID_RESPONSE_BYTE, D!INVALID_RESPONSE_BYTE, Delivery!IsBitSet, D!IsBitSet

LEMMA SameOwner ==
  ASSUME NEW item, NEW telegram
  PROVE  /\ Delivery!is_mine(item, telegram) <=> D!is_mine(item, telegram)
         /\ Delivery!Concerns(telegram, item) <=> D!Concerns(telegram, item)
BY DEF Delivery!is_mine, D!is_mine, Delivery!Concerns, D!Concerns, Delivery!SYN, D!SYN,
       Delivery!get_request_byte, D!get_request_byte, Delivery!ByteAt, D!ByteAt,
       Delivery!INVALID_REQUEST_BYTE, D!INVALID_REQUEST_BYTE

LEMMA SameDelivery ==
  /\ Delivery!Init <=> D!Init
  /\ \A telegram, hearing : Delivery!Enqueue(telegram, hearing) <=> D!Enqueue(telegram, hearing)
  /\ \A first : Delivery!ReceiveMessage(first) <=> D!ReceiveMessage(first)
  /\ \A next : Delivery!ProcessReceived(next) <=> D!ProcessReceived(next)
  /\ Delivery!DeliveryTypeOK <=> D!DeliveryTypeOK
  /\ Delivery!ShowsLatest <=> D!ShowsLatest
<1>1. Delivery!Init <=> D!Init
  BY DEF Delivery!Init, D!Init, Delivery!Nothing, D!Nothing
<1>2. ASSUME NEW telegram, NEW hearing
      PROVE  Delivery!Enqueue(telegram, hearing) <=> D!Enqueue(telegram, hearing)
  <2>1. \A set : Delivery!Record(telegram, set) <=> D!Record(telegram, set)
    BY SameReading, SameOwner DEF Delivery!Record, D!Record
  <2> QED
    BY <2>1 DEF Delivery!Enqueue, D!Enqueue
<1>3. ASSUME NEW first PROVE Delivery!ReceiveMessage(first) <=> D!ReceiveMessage(first)
  BY DEF Delivery!ReceiveMessage, D!ReceiveMessage
<1>4. ASSUME NEW next PROVE Delivery!ProcessReceived(next) <=> D!ProcessReceived(next)
  BY SameReading, SameOwner DEF Delivery!ProcessReceived, D!ProcessReceived
<1>5. Delivery!DeliveryTypeOK <=> D!DeliveryTypeOK
  BY DEF Delivery!DeliveryTypeOK, D!DeliveryTypeOK
<1>6. Delivery!ShowsLatest <=> D!ShowsLatest
  BY DEF Delivery!ShowsLatest, D!ShowsLatest
<1> QED
  BY <1>1, <1>2, <1>3, <1>4, <1>5, <1>6

-----------------------------------------------------------------------------
(* The steps.                                                              *)

LEMMA ZebusInvInit == Init => ZebusInv
<1> SUFFICES ASSUME Init PROVE ZebusInv
  OBVIOUS
<1>1. P!Init /\ D!Init
  BY SamePolling, SameDelivery DEF Init
<1>2. P!PInv
  BY <1>1, PollingAssumption, P!PInvInit
<1>3. D!DInv
  BY <1>1, DeliveryAssumption, D!DInvInit
<1>4. QuietDuringSetup /\ RequestsKnown
  BY <1>1, SamePolling DEF Init, P!Init, P!Engine!Init, QuietDuringSetup, RequestsKnown
<1>5. \A i \in DOMAIN Sensors \ lost : HandlerIsThere(i)
  <2>1. telegramHistoryQueue = <<>> /\ handling.item = 0
    BY <1>1 DEF D!Init
  <2>2. \A i : ~D!Awaits(i)
    BY <2>1 DEF D!Awaits, D!IsAhead
  <2> QED
    BY <1>3, <2>2 DEF D!DInv, HandlerIsThere
<1> QED
  BY <1>2, <1>3, <1>4, <1>5 DEF ZebusInv, Init, HandlerCount, D!DInv

\* What a step does to one of the two sides only.
LEMMA SendingStutters ==
  ASSUME ZebusInv, UNCHANGED pollingVars
  PROVE  P!PInv' /\ UNCHANGED P!pollingVars
<1>1. UNCHANGED P!pollingVars
  BY DEF pollingVars, P!pollingVars, P!engine
<1> QED
  BY <1>1, PollingAssumption, P!PInvStep DEF ZebusInv

LEMMA ReceivingStutters ==
  ASSUME ZebusInv, UNCHANGED deliveryVars, message_handlers' \in 0 .. HandlerCount,
         message_handlers' >= message_handlers
  PROVE  D!DeliveryInv' /\ (\A i \in DOMAIN Sensors \ lost : HandlerIsThere(i))'
<1>1. D!DeliveryInv'
  BY DEF deliveryVars, ZebusInv, D!DeliveryInv, D!DeliveryTypeOK, D!HandlingOK
<1>2. Registered \subseteq Registered'
  <2>1. \A i \in DOMAIN Sensors : Sensors[i].handler \in Nat
    BY SensorsAreNumbered
  <2>2. message_handlers \in Nat /\ message_handlers' \in Nat
    BY DEF ZebusInv, HandlerCount
  <2> QED
    BY <2>1, <2>2 DEF Registered
<1>3. \A i : /\ D!LatestIsOnItsWay(i)' <=> D!LatestIsOnItsWay(i)
             /\ D!Awaits(i)' <=> D!Awaits(i)
  BY DEF deliveryVars, D!LatestIsOnItsWay, D!Awaits, D!IsAhead, D!IsLastFor
<1>4. lost' = lost
  BY DEF deliveryVars
<1> QED
  BY <1>1, <1>2, <1>3, <1>4 DEF ZebusInv, HandlerIsThere

LEMMA HandlerStep == ZebusInv /\ add_message_handler => ZebusInv'
<1> SUFFICES ASSUME ZebusInv, add_message_handler PROVE ZebusInv'
  OBVIOUS
<1>1. /\ message_handlers' \in 0 .. HandlerCount /\ message_handlers' >= message_handlers
      /\ message_handlers # HandlerCount
      /\ UNCHANGED pollingVars /\ UNCHANGED deliveryVars /\ awaited' = awaited
  BY DEF ZebusInv, add_message_handler, HandlerCount
<1>2. P!PInv' /\ D!DeliveryInv' /\ (\A i \in DOMAIN Sensors \ lost : HandlerIsThere(i))'
  BY <1>1, SendingStutters, ReceivingStutters
<1>3. QuietDuringSetup' /\ RequestsKnown'
  BY <1>1 DEF ZebusInv, QuietDuringSetup, RequestsKnown, pollingVars
<1> QED
  BY <1>1, <1>2, <1>3 DEF ZebusInv

\* What is queued is one of the two requests.
LEMMA QueueIsPrepared ==
  ASSUME P!PInv
  PROVE  /\ telegramCommandQueue \in Seq(Prepared)
         /\ \A i \in DOMAIN Requests : prepare_command(Requests[i]) \in Prepared
<1>1. {P!prepare_command(item) : item \in P!Range(Requests)} = Prepared
  BY SamePolling DEF P!Range, Prepared
<1> QED
  BY <1>1 DEF P!PInv, P!PollingTypeOK, Prepared

LEMMA SendingStep ==
  ASSUME ZebusInv, update \/ TakeCommand \/ WorkOnCommand
  PROVE  ZebusInv' /\ P!Next
<1>1. /\ P!MainLoop \/ P!TakeCommand \/ P!WorkOnCommand
      /\ UNCHANGED <<message_handlers, deliveryVars>>
  BY SamePolling DEF update, TakeCommand, WorkOnCommand
<1>2. P!Next
  BY <1>1 DEF P!Next
<1>3. P!PInv'
  BY <1>2, PollingAssumption, P!PInvStep DEF ZebusInv
<1>4. /\ D!DeliveryInv' /\ (\A i \in DOMAIN Sensors \ lost : HandlerIsThere(i))'
      /\ message_handlers' \in 0 .. HandlerCount
  <2>1. /\ message_handlers' = message_handlers /\ message_handlers \in 0 .. HandlerCount
        /\ message_handlers >= message_handlers
    BY <1>1 DEF ZebusInv, HandlerCount
  <2> QED
    BY <1>1, <2>1, ReceivingStutters
<1>5. CASE update
  <2>1. message_handlers = HandlerCount /\ message_handlers' = HandlerCount
        /\ awaited' = awaited /\ P!MainLoop
    BY <1>5, SamePolling DEF update
  <2>2. UNCHANGED <<phase, request>>
    BY <2>1 DEF P!MainLoop, P!Update, P!SkipItem, P!PollItem, P!engine
  <2>3. QuietDuringSetup' /\ RequestsKnown'
    BY <2>1, <2>2 DEF ZebusInv, QuietDuringSetup, RequestsKnown
  <2> QED
    BY <1>2, <1>3, <1>4, <2>3 DEF ZebusInv
<1>6. CASE TakeCommand
  <2>1. /\ telegramCommandQueue # <<>> /\ request' = Head(telegramCommandQueue)
        /\ awaited' = awaited /\ message_handlers' = message_handlers
    BY <1>6, SamePolling DEF TakeCommand, P!TakeCommand
  <2>2. message_handlers = HandlerCount
    BY <2>1 DEF ZebusInv, QuietDuringSetup
  <2>3. request' \in Prepared
    BY <2>1, QueueIsPrepared DEF ZebusInv
  <2>4. QuietDuringSetup' /\ RequestsKnown'
    BY <2>1, <2>2, <2>3 DEF ZebusInv, QuietDuringSetup, RequestsKnown
  <2> QED
    BY <1>2, <1>3, <1>4, <2>4 DEF ZebusInv
<1>7. CASE WorkOnCommand
  <2>1. /\ P!WorkOnCommand /\ message_handlers' = message_handlers
        /\ awaited' \in {request, awaited}
    BY <1>7, SamePolling DEF WorkOnCommand
  <2>2. phase # "idle" /\ request' = request
    BY <2>1 DEF P!WorkOnCommand, P!Engine!Contend, P!Engine!Put, P!Engine!Fail,
                P!Engine!Acknowledge
  <2>3. message_handlers = HandlerCount /\ request \in Prepared
    BY <2>2 DEF ZebusInv, QuietDuringSetup, RequestsKnown
  <2>4. QuietDuringSetup' /\ RequestsKnown'
    BY <2>1, <2>2, <2>3 DEF ZebusInv, QuietDuringSetup, RequestsKnown
  <2> QED
    BY <1>2, <1>3, <1>4, <2>4 DEF ZebusInv
<1> QED
  BY <1>5, <1>6, <1>7

\* A telegram goes to the sensors whose handlers are there by now; what the
\* others have missed is lost.
LEMMA FinishStep ==
  ASSUME ZebusInv, NEW telegram \in Telegrams, QueueTelegram(telegram)
  PROVE  ZebusInv'
<1>1. /\ D!Enqueue(telegram, Registered)
      /\ UNCHANGED pollingVars /\ message_handlers' = message_handlers
      /\ awaited' = Polling!NoCommand
  BY SameDelivery DEF QueueTelegram
<1>2. P!PInv'
  BY <1>1, SendingStutters
<1>3. D!DeliveryInv'
  BY <1>1, DeliveryAssumption, D!QueueTypeStep DEF ZebusInv
<1>4. ASSUME NEW i \in DOMAIN Sensors \ lost' PROVE HandlerIsThere(i)'
  <2>1. i \notin lost => D!LatestIsOnItsWay(i) /\ (D!Awaits(i) => i \in Registered)
    BY DEF ZebusInv, HandlerIsThere
  <2>2. /\ D!LatestIsOnItsWay(i)'
        /\ i \in Registered \/ (i \notin lost /\ (D!Awaits(i)' => D!Awaits(i)))
    BY <1>1, <2>1, DeliveryAssumption, D!QueueStep DEF ZebusInv
  <2>3. Registered' = Registered
    BY <1>1 DEF Registered
  <2> QED
    BY <2>1, <2>2, <2>3 DEF HandlerIsThere
<1>5. QuietDuringSetup' /\ RequestsKnown'
  BY <1>1 DEF ZebusInv, QuietDuringSetup, RequestsKnown, pollingVars
<1> QED
  BY <1>1, <1>2, <1>3, <1>4, <1>5 DEF ZebusInv

\* The loop over the handlers does not end before one that a telegram is for.
LEMMA HandleStep == ZebusInv /\ handleMessage => ZebusInv'
<1> SUFFICES ASSUME ZebusInv, handleMessage PROVE ZebusInv'
  OBVIOUS
<1>1. /\ UNCHANGED pollingVars /\ message_handlers' = message_handlers
      /\ awaited' = awaited /\ lost' = lost
      /\ Registered' = Registered
  <2>1. lost' = lost
    BY SameDelivery DEF handleMessage, D!ReceiveMessage, D!ProcessReceived
  <2> QED
    BY <2>1 DEF handleMessage, Registered
<1>2. /\ D!DeliveryInv' 
      /\ \A i \in DOMAIN Sensors \ lost :
           D!LatestIsOnItsWay(i)' /\ (D!Awaits(i)' => D!Awaits(i))
  <2>1. CASE D!ReceiveMessage(NextRegistered(0))
    <3>1. NextRegistered(0) \in 0 .. Len(Sensors) /\ NextRegistered(0) \in 0 .. 1
      BY NextRegisteredInRange, SensorsAreNumbered DEF ZebusInv
    <3>2. D!DeliveryInv'
      BY <2>1, <3>1, DeliveryAssumption, D!ReceiveTypeStep DEF ZebusInv
    <3>3. ASSUME NEW i \in DOMAIN Sensors \ lost
          PROVE  D!LatestIsOnItsWay(i)' /\ (D!Awaits(i)' => D!Awaits(i))
      <4>1. D!Awaits(i) => NextRegistered(0) = 1
        <5> SUFFICES ASSUME D!Awaits(i) PROVE NextRegistered(0) = 1
          OBVIOUS
        <5>1. i \in Registered
          BY DEF ZebusInv, HandlerIsThere
        <5>2. 1 \in Registered
          BY <5>1, RegisteredIsPrefix DEF ZebusInv
        <5> QED
          BY <5>2 DEF NextRegistered
      <4>2. D!LatestIsOnItsWay(i)
        BY DEF ZebusInv, HandlerIsThere
      <4> QED
        BY <2>1, <3>1, <4>1, <4>2, DeliveryAssumption, D!ReceiveStep DEF ZebusInv
    <3> QED
      BY <3>2, <3>3
  <2>2. CASE D!ProcessReceived(NextRegistered(handling.item))
    <3>1. /\ handling.item \in 0 .. 6 /\ handling.item # 0
          /\ NextRegistered(handling.item) \in 0 .. Len(Sensors)
          /\ NextRegistered(handling.item) \in {0, handling.item + 1}
      <4>1. handling.item \in 0 .. 6 /\ handling.item # 0
        BY <2>2, SensorsAreNumbered DEF ZebusInv, D!DeliveryInv, D!DeliveryTypeOK,
                                        D!ProcessReceived
      <4> QED
        BY <4>1, NextRegisteredInRange, SensorsAreNumbered DEF ZebusInv
    <3>2. D!DeliveryInv'
      BY <2>2, <3>1, DeliveryAssumption, D!ProcessTypeStep DEF ZebusInv
    <3>3. ASSUME NEW i \in DOMAIN Sensors \ lost
          PROVE  D!LatestIsOnItsWay(i)' /\ (D!Awaits(i)' => D!Awaits(i))
      <4>1. D!IsAhead(i) /\ handling.item # i => NextRegistered(handling.item) # 0
        <5> SUFFICES ASSUME D!IsAhead(i), handling.item # i
                     PROVE  NextRegistered(handling.item) # 0
          OBVIOUS
        <5>1. i \in Registered
          BY DEF ZebusInv, HandlerIsThere, D!Awaits
        <5>2. handling.item + 1 \in 1 .. i
          BY <3>1, SensorsAreNumbered DEF D!IsAhead
        <5>3. handling.item + 1 \in Registered
          BY <5>1, <5>2, RegisteredIsPrefix DEF ZebusInv
        <5> QED
          BY <3>1, <5>3 DEF NextRegistered
      <4>2. D!LatestIsOnItsWay(i)
        BY DEF ZebusInv, HandlerIsThere
      <4> QED
        BY <2>2, <3>1, <4>1, <4>2, DeliveryAssumption, D!ProcessStep DEF ZebusInv
    <3> QED
      BY <3>2, <3>3
  <2> QED
    BY <2>1, <2>2, SameDelivery DEF handleMessage
<1>3. P!PInv'
  BY <1>1, SendingStutters
<1>4. QuietDuringSetup' /\ RequestsKnown'
  BY <1>1 DEF ZebusInv, QuietDuringSetup, RequestsKnown, pollingVars
<1>5. ASSUME NEW i \in DOMAIN Sensors \ lost' PROVE HandlerIsThere(i)'
  BY <1>1, <1>2 DEF ZebusInv, HandlerIsThere
<1> QED
  BY <1>1, <1>2, <1>3, <1>4, <1>5 DEF ZebusInv

\* Every step keeps the invariant, and is a step of EbusPolling or none.
LEMMA ZebusInvStep == ZebusInv /\ [Next]_zebusVars => ZebusInv' /\ [P!Next]_P!pollingVars
<1> SUFFICES ASSUME ZebusInv, [Next]_zebusVars
             PROVE  ZebusInv' /\ [P!Next]_P!pollingVars
  OBVIOUS
<1>1. CASE UNCHANGED zebusVars
  <2>1. /\ UNCHANGED pollingVars /\ UNCHANGED deliveryVars
        /\ message_handlers' = message_handlers /\ awaited' = awaited
    BY <1>1 DEF zebusVars
  <2>2. P!PInv' /\ UNCHANGED P!pollingVars
    BY <2>1, SendingStutters
  <2>3. message_handlers \in 0 .. HandlerCount /\ message_handlers >= message_handlers
    BY DEF ZebusInv, HandlerCount
  <2>4. D!DeliveryInv' /\ (\A i \in DOMAIN Sensors \ lost : HandlerIsThere(i))'
    BY <2>1, <2>3, ReceivingStutters
  <2>5. QuietDuringSetup' /\ RequestsKnown'
    BY <2>1 DEF ZebusInv, QuietDuringSetup, RequestsKnown, pollingVars
  <2> QED
    BY <2>1, <2>2, <2>3, <2>4, <2>5 DEF ZebusInv
<1>2. CASE update \/ TakeCommand \/ WorkOnCommand
  BY <1>2, SendingStep
<1>3. CASE add_message_handler \/ (\E telegram \in Telegrams : QueueTelegram(telegram))
             \/ handleMessage
  <2>1. UNCHANGED pollingVars
    BY <1>3 DEF add_message_handler, QueueTelegram, handleMessage
  <2> QED
    BY <1>3, <2>1, SendingStutters, HandlerStep, FinishStep, HandleStep
<1> QED
  BY <1>1, <1>2, <1>3 DEF Next

LEMMA ZebusInvariant == Spec => []ZebusInv
<1>1. ZebusInv /\ [Next]_zebusVars => ZebusInv'
  BY ZebusInvStep
<1> QED
  BY <1>1, ZebusInvInit, PTL DEF Spec

-----------------------------------------------------------------------------
(* The theorems.                                                           *)

\* Every field keeps to its type, the queues stay within their sizes, and what
\* is waited for is an answer to one of the two requests.
THEOREM ZebusComponentTyped == Spec => []ZebusComponentTypeOK
<1>1. ZebusInv => ZebusComponentTypeOK
  <2> SUFFICES ASSUME ZebusInv PROVE ZebusComponentTypeOK
    OBVIOUS
  <2>1. Polling!PollingTypeOK /\ Delivery!DeliveryTypeOK
    BY SamePolling, SameDelivery DEF ZebusInv, P!PInv, D!DeliveryInv
  <2>2. Prepared = Range([i \in DOMAIN Requests |-> prepare_command(Requests[i])])
    BY DEF Prepared, Range
  <2> QED
    BY <2>1, <2>2 DEF ZebusInv, RequestsKnown, ZebusComponentTypeOK
<1> QED
  BY <1>1, ZebusInvariant, PTL

\* Although the message task walks through a list that is still growing, every
\* sensor comes to show the last telegram that finished when its handler was
\* there, unless a full queue dropped it: for all telegrams and queue sizes.
THEOREM SensorsShowLatest == Spec => []ShowsLatest
<1>1. ZebusInv => ShowsLatest
  <2> SUFFICES ASSUME ZebusInv PROVE D!ShowsLatest
    BY SameDelivery DEF ShowsLatest
  <2> SUFFICES ASSUME telegramHistoryQueue = <<>>, handling.item = 0,
                      NEW i \in DOMAIN Sensors \ lost
               PROVE  published[i] = latest[i]
    BY DEF D!ShowsLatest
  <2>1. D!LatestIsOnItsWay(i) /\ ~D!IsAhead(i)
    BY DEF ZebusInv, HandlerIsThere, D!IsAhead
  <2> QED
    BY <2>1 DEF D!LatestIsOnItsWay
<1> QED
  BY <1>1, ZebusInvariant, PTL

\* The answer to a request of its own finds all handlers in the list.
THEOREM OwnAnswersAreHeard == Spec => AnswersAreHeard
<1> DEFINE Heard == awaited # Polling!NoCommand /\ awaited' = Polling!NoCommand
                      => Len(telegramHistoryQueue) = history_size \/ lost' \subseteq lost
<1>1. ZebusInv /\ [Next]_zebusVars => [Heard]_zebusVars
  <2> SUFFICES ASSUME ZebusInv, Next, awaited # Polling!NoCommand,
                      awaited' = Polling!NoCommand,
                      Len(telegramHistoryQueue) # history_size
               PROVE  lost' \subseteq lost
    OBVIOUS
  <2>1. PICK telegram \in Telegrams : QueueTelegram(telegram)
    BY DEF Next, add_message_handler, update, TakeCommand, WorkOnCommand, BusIsFree,
           handleMessage
  <2>2. message_handlers = HandlerCount
    BY DEF ZebusInv, QuietDuringSetup
  <2>3. Registered = DOMAIN Sensors
    BY <2>2, SensorsAreNumbered DEF Registered, HandlerCount
  <2>4. D!Record(telegram, Registered)
    BY <2>1, SameDelivery DEF QueueTelegram, D!Enqueue
  <2> QED
    BY <2>3, <2>4 DEF D!Record
<1> QED
  BY <1>1, ZebusInvariant, PTL DEF Spec, AnswersAreHeard

\* The sending side of zebus implements that of ebus, with two items and an
\* address that is always set ...
THEOREM ZebusImplementsPolling == Spec => P!Spec
<1>1. Init => P!Init
  BY SamePolling DEF Init
<1>2. ZebusInv /\ [Next]_zebusVars => [P!Next]_P!pollingVars
  BY ZebusInvStep
<1> QED
  BY <1>1, <1>2, ZebusInvariant, PTL DEF Spec, P!Spec

\* ... so it asks for both in turn, however long update() has to wait.
THEOREM ZebusPollsInOrder == Spec => []P!PollsInOrder
  BY ZebusImplementsPolling, PollingAssumption, P!ItemsArePolledInOrder, PTL

=============================================================================
