-------------------------------- MODULE Zebus --------------------------------
(***************************************************************************)
(* The component of the predecessor: class Zebus around its engine.        *)
(* setup() starts the byte task and the message task and only then fills   *)
(* the list of message handlers that the message task walks through;       *)
(* update() queues two fixed requests.  Queues and tasks are those of      *)
(* EbusPolling and EbusDelivery, the engine is a CommandService, and both  *)
(* sides meet on the bus: the answer to a request is a telegram like any   *)
(* other, and nothing else is on the bus until it has come.                *)
(***************************************************************************)
EXTENDS EbusItem, SequencesExt

CONSTANTS
  master_address,
  Telegrams,      \* the finished telegrams the bus may carry
  Attempts,       \* of CommandService
  history_size, command_size

ASSUME ZebusAssumption ==
  /\ master_address \in Byte \ {SYN}
  /\ \A telegram \in Telegrams : {telegram.data, telegram.response} \subseteq Seq(Byte)
  /\ Attempts \in Nat \ {0}
  /\ history_size \in Nat \ {0} /\ command_size \in Nat \ {0}

MASTER_HEATER == 3
MASTER_EXA    == 16

CMD_DEVICE_CONFIG == 46345   \* 0xB509
CMD_HEATER_STATUS == 46353   \* 0xB511

DEVICE_CONFIG_SUBCOMMAND_READ == 13
DEVICE_CONFIG_WATER_PRESSURE  == <<2, 0>>
DEVICE_CONFIG_DISP_ROOM_TEMP  == <<62, 0>>

ReadConfig(config_element) == <<DEVICE_CONFIG_SUBCOMMAND_READ>> \o config_element

\* As an item, a request of update().
createReadConfigCommand(target, config_element) ==
  [address |-> to_secondary(target), send_poll |-> TRUE,
   command |-> CMD_DEVICE_CONFIG, payload |-> ReadConfig(config_element)]

Requests ==
  <<createReadConfigCommand(MASTER_HEATER, DEVICE_CONFIG_WATER_PRESSURE),
    createReadConfigCommand(MASTER_EXA, DEVICE_CONFIG_DISP_ROOM_TEMP)>>

\* As items, the sensors in the order they are published, with the place of their
\* message handler in the list.  No handler looks at the address.
SensorOf(handler, kind, command, payload, position, bytes) ==
  [handler |-> handler, kind |-> kind, address |-> SYN, command |-> command,
   payload |-> payload, position |-> position, bytes |-> bytes, bits |-> 0 .. 7]

WaterPressure ==
  SensorOf(1, "sensor", CMD_DEVICE_CONFIG, ReadConfig(DEVICE_CONFIG_WATER_PRESSURE), 0, 2)

DispRoomTemp ==
  SensorOf(2, "sensor", CMD_DEVICE_CONFIG, ReadConfig(DEVICE_CONFIG_DISP_ROOM_TEMP), 0, 2)

HeaterStatus(kind, position) == SensorOf(3, kind, CMD_HEATER_STATUS, <<1>>, position, 1)

HandlerCount == 3

\* flow_temp, return_temp, storage_temp, and hot_water_heating, which is on when
\* any bit of its byte is set: the mask is applied with &&.
Sensors ==
  <<WaterPressure, DispRoomTemp,
    HeaterStatus("sensor", 0), HeaterStatus("sensor", 1), HeaterStatus("sensor", 5),
    HeaterStatus("binary_sensor", 6)>>

VARIABLES
  message_handlers,   \* how many are in the list
  masterAddress,      \* of the engine
  telegramCommandQueue, polling, phase, request, failures, requests, outcome,
  telegramHistoryQueue, handling, published, latest, lost,
  awaited             \* the request whose answer is next on the bus, or NoCommand

pollingVars ==
  <<masterAddress, telegramCommandQueue, polling, phase, request, failures, requests, outcome>>
deliveryVars == <<telegramHistoryQueue, handling, published, latest, lost>>
zebusVars == <<message_handlers, pollingVars, deliveryVars, awaited>>

Polling == INSTANCE EbusPolling WITH
  Items <- Requests, PrimaryAddressSet <- TRUE, PrimaryAddress <- master_address,
  MemoryContents <- {}, command_queue_size_ <- command_size,
  primary_address_ <- masterAddress, command_queue_ <- telegramCommandQueue

Delivery == INSTANCE EbusDelivery WITH
  Items <- Sensors, history_queue_size_ <- history_size,
  history_queue_ <- telegramHistoryQueue

Init ==
  /\ message_handlers = 0
  /\ Polling!Init /\ Delivery!Init
  /\ awaited = Polling!NoCommand

-----------------------------------------------------------------------------
(* The main loop: setup(), then update() again and again.                  *)

add_message_handler ==
  /\ message_handlers < HandlerCount
  /\ message_handlers' = message_handlers + 1
  /\ UNCHANGED <<pollingVars, deliveryVars, awaited>>

\* Mutants: update() is called while setup() is still running; it waits for
\* space for all its requests.
update_DuringSetup ==
  Polling!MainLoop /\ UNCHANGED <<message_handlers, deliveryVars, awaited>>

update_SpaceForAll ==
  /\ message_handlers = HandlerCount
  /\ Len(telegramCommandQueue) + Len(Requests) <= command_size
  /\ Polling!MainLoop
  /\ UNCHANGED <<message_handlers, deliveryVars, awaited>>

update ==
  /\ message_handlers = HandlerCount
  /\ Polling!MainLoop
  /\ UNCHANGED <<message_handlers, deliveryVars, awaited>>

-----------------------------------------------------------------------------
(* The byte task.                                                          *)

BusIsFree == awaited = Polling!NoCommand

TakeCommand ==
  /\ Polling!TakeCommand
  /\ phase' = "contending" => BusIsFree
  /\ UNCHANGED <<message_handlers, deliveryVars, awaited>>

\* Once a request is acknowledged, its answer follows.
WorkOnCommand ==
  /\ BusIsFree
  /\ Polling!WorkOnCommand
  /\ awaited' = IF Polling!Engine!Acknowledge THEN request ELSE awaited
  /\ UNCHANGED <<message_handlers, deliveryVars>>

IsAnswer(telegram) ==
  /\ telegram.zz = awaited.zz /\ telegram.command = awaited.command
  /\ telegram.data = awaited.payload

\* The sensors whose handlers are in the list.
Registered == {i \in DOMAIN Sensors : Sensors[i].handler <= message_handlers}

\* A telegram has finished, completed or not.  It is recorded for the sensors
\* that must show it: those with a handler by now.
QueueTelegram(telegram) ==
  /\ BusIsFree \/ IsAnswer(telegram)
  /\ awaited' = Polling!NoCommand
  /\ Delivery!Enqueue(telegram, Registered)
  /\ UNCHANGED <<message_handlers, pollingVars>>

-----------------------------------------------------------------------------
(* The message task: the loop ends where the list ends at that moment.     *)

\* Mutant: the last sensor of the list is left out.
NextRegistered_NotTheLast(i) == IF i + 2 \in Registered THEN i + 1 ELSE 0

NextRegistered(i) == IF i + 1 \in Registered THEN i + 1 ELSE 0

handleMessage ==
  /\ \/ Delivery!ReceiveMessage(NextRegistered(0))
     \/ Delivery!ProcessReceived(NextRegistered(handling.item))
  /\ UNCHANGED <<message_handlers, pollingVars, awaited>>

Next ==
  \/ add_message_handler \/ update
  \/ TakeCommand \/ WorkOnCommand \/ \E telegram \in Telegrams : QueueTelegram(telegram)
  \/ handleMessage

Spec == Init /\ [][Next]_zebusVars

\* setup() comes to its end, update() is called again and again, and the two
\* tasks get their turn.  A command that was taken comes to its end, which takes
\* a bus that becomes free.
FairSpec ==
  /\ Spec
  /\ WF_zebusVars(add_message_handler) /\ WF_zebusVars(update)
  /\ WF_zebusVars(TakeCommand) /\ WF_zebusVars(WorkOnCommand)
  /\ WF_zebusVars(awaited # Polling!NoCommand /\ \E telegram \in Telegrams : QueueTelegram(telegram))
  /\ WF_zebusVars(handleMessage)

-----------------------------------------------------------------------------
(* Properties.                                                             *)

ZebusComponentTypeOK ==
  /\ message_handlers \in 0 .. HandlerCount
  /\ Polling!PollingTypeOK /\ Delivery!DeliveryTypeOK
  /\ awaited \in Range([i \in DOMAIN Requests |-> prepare_command(Requests[i])])
                \cup {Polling!NoCommand}

\* Although the message task walks through a list that is still growing, every
\* sensor comes to show the last telegram that finished when its handler was in
\* the list, unless a full queue dropped it.
ShowsLatest == Delivery!ShowsLatest

\* The answer to a request of our own misses no handler: if one of its sensors
\* loses it, then to a full queue.
AnswersAreHeard ==
  [][awaited # Polling!NoCommand /\ awaited' = Polling!NoCommand
       => Len(telegramHistoryQueue) = history_size \/ lost' \subseteq lost]_zebusVars

\* The two requests are asked for again and again, although update() stands still
\* while the queue is full, the engine fails, or the bus waits for an answer.
RequestsAreAsked ==
  \A i \in DOMAIN Requests :
    []<>(phase # "idle" /\ request = prepare_command(Requests[i]))

=============================================================================
