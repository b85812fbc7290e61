----------------------------- MODULE EbusPolling ----------------------------
(***************************************************************************)
(* The sending side of the component: update(), which the main loop calls  *)
(* every poll interval, queues the requests of the items that poll, and    *)
(* waits while the command queue is full; the byte task's engine takes     *)
(* them.  Of the engine only what it promises is here: CommandService,     *)
(* which EbusHistory shows it to implement.                                *)
(***************************************************************************)
EXTENDS EbusItem, SequencesExt

CONSTANTS
  Items,               \* items_, in the order they were added
  PrimaryAddressSet,   \* is primary_address in the configuration?
  PrimaryAddress,      \* if so, its value
  MemoryContents,      \* what primary_address_ may hold if nothing sets it
  Attempts,            \* of CommandService
  command_queue_size_

ASSUME EbusPollingAssumption ==
  /\ Items \in Seq(Range(Items))
  /\ \A item \in Range(Items) : item.address \in Byte /\ item.send_poll \in BOOLEAN
  /\ PrimaryAddressSet \in BOOLEAN /\ PrimaryAddress \in Byte \ {SYN}
  /\ MemoryContents \subseteq Byte
  /\ Attempts \in Nat \ {0}
  /\ command_queue_size_ \in Nat \ {0}

VARIABLES
  primary_address_,
  command_queue_,
  polling,      \* the item update() is at, or 0 between two calls
  phase, request, failures, requests, outcome   \* the engine, as a service

engine == <<phase, request, failures, requests, outcome>>
pollingVars == <<primary_address_, command_queue_, polling, engine>>

NeedsNoAck ==
  {prepare_command(item) : item \in {i \in Range(Items) : i.address = BROADCAST_ADDRESS}}

Engine == INSTANCE CommandService

\* The request of the default SendCommand.
NoCommand == [zz |-> ESC]

Init ==
  /\ primary_address_ \in IF PrimaryAddressSet THEN {PrimaryAddress} ELSE MemoryContents
  /\ command_queue_ = <<>>
  /\ polling = 0
  /\ Engine!Init /\ request = NoCommand

-----------------------------------------------------------------------------
(* The main loop.                                                          *)

\* Mutants: the loop over the items goes one too far; it starts again at its end.
NextItem_PastEnd(i) == i + 1

NextItem_Endless(i) == IF i = Len(Items) THEN 1 ELSE i + 1

NextItem(i) == IF i = Len(Items) THEN 0 ELSE i + 1

Update ==
  /\ polling = 0 /\ primary_address_ # SYN
  /\ polling' = NextItem(0)
  /\ UNCHANGED <<primary_address_, command_queue_, engine>>

SkipItem ==
  /\ polling # 0 /\ ~Items[polling].send_poll
  /\ polling' = NextItem(polling)
  /\ UNCHANGED <<primary_address_, command_queue_, engine>>

\* Mutants: a full queue is not waited for; the request goes to the front.
PollItem_NoWait ==
  /\ polling # 0 /\ Items[polling].send_poll
  /\ command_queue_' =
       IF Len(command_queue_) < command_queue_size_
       THEN Append(command_queue_, prepare_command(Items[polling])) ELSE command_queue_
  /\ polling' = NextItem(polling)
  /\ UNCHANGED <<primary_address_, engine>>

PollItem_ToFront ==
  /\ polling # 0 /\ Items[polling].send_poll
  /\ Len(command_queue_) < command_queue_size_
  /\ command_queue_' = <<prepare_command(Items[polling])>> \o command_queue_
  /\ polling' = NextItem(polling)
  /\ UNCHANGED <<primary_address_, engine>>

\* portMAX_DELAY: while the queue is full, the main loop stands still.
PollItem ==
  /\ polling # 0 /\ Items[polling].send_poll
  /\ Len(command_queue_) < command_queue_size_
  /\ command_queue_' = Append(command_queue_, prepare_command(Items[polling]))
  /\ polling' = NextItem(polling)
  /\ UNCHANGED <<primary_address_, engine>>

MainLoop == Update \/ SkipItem \/ PollItem

-----------------------------------------------------------------------------
(* The byte task.                                                          *)

\* dequeue_command_ takes from the queue what the service accepts.
TakeCommand ==
  /\ command_queue_ # <<>>
  /\ Engine!Accept /\ request' = Head(command_queue_)
  /\ command_queue_' = Tail(command_queue_)
  /\ UNCHANGED <<primary_address_, polling>>

WorkOnCommand ==
  /\ Engine!Contend \/ Engine!Put \/ Engine!Fail \/ Engine!Acknowledge
  /\ UNCHANGED <<primary_address_, command_queue_, polling>>

Next == MainLoop \/ TakeCommand \/ WorkOnCommand

\* The scheduler calls update() again and again.  A command that was taken
\* comes to its end: EbusBus!CommandFinishes.
Fairness ==
  WF_pollingVars(MainLoop) /\ WF_pollingVars(TakeCommand) /\ WF_pollingVars(WorkOnCommand)

Spec == Init /\ [][Next]_pollingVars

FairSpec == Spec /\ Fairness

-----------------------------------------------------------------------------
(* Properties.                                                             *)

PollingTypeOK ==
  /\ primary_address_ \in Byte
  /\ command_queue_ \in Seq({prepare_command(item) : item \in Range(Items)})
  /\ Len(command_queue_) <= command_queue_size_
  /\ polling \in 0 .. Len(Items)
  /\ phase \in {"idle", "waiting", "contending", "sent"}

Pollers == {i \in DOMAIN Items : Items[i].send_poll}

\* The item whose turn it is from item i on, in a circle.
IsTurnOf(k, i) ==
  /\ k \in Pollers
  /\ IF \E p \in Pollers : p >= i
     THEN k >= i /\ \A p \in Pollers : p >= i => p >= k
     ELSE \A p \in Pollers : p >= k

\* d is the command to ask for after c.
Follows(c, d) ==
  \E k, l \in Pollers :
    c = prepare_command(Items[k]) /\ d = prepare_command(Items[l]) /\ IsTurnOf(l, k + 1)

\* The place of update(): between two calls, before the first item.
Place == IF polling = 0 THEN 1 ELSE polling

\* update() goes on with the item that comes after k.
GoesOnAfter(k) == \A l \in Pollers : IsTurnOf(l, Place) <=> IsTurnOf(l, k + 1)

LastAsked == IF command_queue_ = <<>> THEN request ELSE command_queue_[Len(command_queue_)]

\* The items are asked for in turn: from the command last taken by the engine,
\* along the queue, to the item that update() is at, none is left out, asked
\* for twice or overtaken, however long update() has had to wait.
PollsInOrder ==
  /\ request # NoCommand /\ command_queue_ # <<>> => Follows(request, Head(command_queue_))
  /\ \A i \in 1 .. Len(command_queue_) - 1 : Follows(command_queue_[i], command_queue_[i + 1])
  /\ LastAsked # NoCommand =>
       \E k \in Pollers : LastAsked = prepare_command(Items[k]) /\ GoesOnAfter(k)

\* update() returns to the main loop, although it waits without a timeout.
UpdateReturns == polling # 0 ~> polling = 0

\* Every item that polls is asked for again and again: a full queue and long
\* retries of the others do not starve it.
EveryItemIsAsked ==
  \A item \in {i \in Range(Items) : i.send_poll} :
    primary_address_ # SYN ~> (phase # "idle" /\ request = prepare_command(item))

\* "primary_addres: N/A" (dump_config): without the option the node has no
\* address, and update() returns at once.
SilentWithoutAddress == ~PrimaryAddressSet => command_queue_ = <<>> /\ phase = "idle"

=============================================================================
