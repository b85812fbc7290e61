---------------------------- MODULE EbusDelivery ----------------------------
(***************************************************************************)
(* The receiving side of the component: the byte task's engine hands a     *)
(* finished telegram over in the history queue, and the message task gives *)
(* the completed ones to the items, one item after the other.  Of the      *)
(* engine only this is here: any telegram may finish at any time.          *)
(***************************************************************************)
EXTENDS EbusItem

CONSTANTS
  Items,        \* items_, in the order they were added
  Telegrams,    \* the finished telegrams the bus may carry
  history_queue_size_

ASSUME EbusDeliveryAssumption ==
  /\ Items \in Seq({Items[i] : i \in DOMAIN Items})
  /\ \A telegram \in Telegrams : {telegram.data, telegram.response} \subseteq Seq(Byte)
  /\ \A i \in DOMAIN Items : Items[i].kind \in {"sensor", "binary_sensor"}
  /\ history_queue_size_ \in Nat \ {0}

VARIABLES
  history_queue_,
  handling,     \* the telegram of the message task, and the item it is at or 0
  published,    \* the last state of each item
  latest,       \* history variables: the state each item ought to get to,
  lost          \* and the items whose latest telegram was dropped

deliveryVars == <<history_queue_, handling, published, latest, lost>>

\* The state of an item is <<value>>, or this if it has published nothing.
Nothing == <<>>

\* Mutant: the loop over the items goes one too far.
NextItem_PastEnd(i) == i + 1

NextItem(i) == IF i = Len(Items) THEN 0 ELSE i + 1

\* Which telegram the message task has before the first one does not matter.
Init ==
  /\ history_queue_ = <<>>
  /\ handling \in [telegram : Telegrams, item : {0}]
  /\ published = [i \in DOMAIN Items |-> Nothing]
  /\ latest = published /\ lost = {}

\* The item is to publish what it reads in this telegram.
Concerns(telegram, item) == telegram.state = "endCompleted" /\ is_mine(item, telegram)

\* A completed telegram counts for the items that are to get it; for the others
\* it concerns, it is lost.
Record(telegram, hearing) ==
  LET concerned == {i \in DOMAIN Items : Concerns(telegram, Items[i])}
      kept == concerned \cap hearing
  IN  /\ latest' = [i \in DOMAIN Items |->
                      IF i \in kept THEN <<Reading(Items[i], telegram)>> ELSE latest[i]]
      /\ lost' = (lost \cup concerned) \ kept

\* xQueueSendToBackFromISR does not wait: a full queue drops the telegram.
Enqueue(telegram, hearing) ==
  LET isFull == Len(history_queue_) = history_queue_size_
  IN  /\ history_queue_' = IF isFull THEN history_queue_ ELSE Append(history_queue_, telegram)
      /\ Record(telegram, IF isFull THEN {} ELSE hearing)
      /\ UNCHANGED <<handling, published>>

QueueTelegram(telegram) == Enqueue(telegram, DOMAIN Items)

\* Mutant: telegrams that ended with an error are given to the items too.
ReceiveMessage_AnyState(first) ==
  /\ handling.item = 0 /\ history_queue_ # <<>>
  /\ history_queue_' = Tail(history_queue_)
  /\ handling' = [telegram |-> Head(history_queue_), item |-> first]
  /\ UNCHANGED <<published, latest, lost>>

ReceiveMessage(first) ==
  /\ handling.item = 0 /\ history_queue_ # <<>>
  /\ history_queue_' = Tail(history_queue_)
  /\ handling' = [telegram |-> Head(history_queue_),
                  item |-> IF Head(history_queue_).state = "endCompleted" THEN first ELSE 0]
  /\ UNCHANGED <<published, latest, lost>>

\* Mutant: the first item a telegram belongs to keeps it from the others.
ProcessReceived_FirstOnly(next) ==
  LET item == Items[handling.item]
      isMine == is_mine(item, handling.telegram)
  IN  /\ handling.item # 0
      /\ published' = IF isMine
                      THEN [published EXCEPT ![handling.item] = <<Reading(item, handling.telegram)>>]
                      ELSE published
      /\ handling' = [handling EXCEPT !.item = IF isMine THEN 0 ELSE next]
      /\ UNCHANGED <<history_queue_, latest, lost>>

\* process_received of one item; the other tasks run in between.
ProcessReceived(next) ==
  LET item == Items[handling.item]
      isMine == is_mine(item, handling.telegram)
  IN  /\ handling.item # 0
      /\ published' = IF isMine
                      THEN [published EXCEPT ![handling.item] = <<Reading(item, handling.telegram)>>]
                      ELSE published
      /\ handling' = [handling EXCEPT !.item = next]
      /\ UNCHANGED <<history_queue_, latest, lost>>

MessageTask == ReceiveMessage(NextItem(0)) \/ ProcessReceived(NextItem(handling.item))

Next == MessageTask \/ \E telegram \in Telegrams : QueueTelegram(telegram)

Spec == Init /\ [][Next]_deliveryVars

\* The message task gets its turn on the other core.
FairSpec == Spec /\ WF_deliveryVars(MessageTask)

-----------------------------------------------------------------------------
(* Properties.                                                             *)

DeliveryTypeOK ==
  /\ history_queue_ \in Seq(Telegrams) /\ Len(history_queue_) <= history_queue_size_
  /\ handling.item \in 0 .. Len(Items)
  /\ DOMAIN published = DOMAIN Items /\ DOMAIN latest = DOMAIN Items
  /\ lost \subseteq DOMAIN Items

\* When all telegrams have been handled, every item shows what the last
\* telegram for it said, unless that one was dropped at a full queue: telegrams
\* are not reordered, mixed up or given to the wrong item.
ShowsLatest ==
  history_queue_ = <<>> /\ handling.item = 0 =>
    \A i \in DOMAIN Items \ lost : published[i] = latest[i]

\* A value that was handed over is published, even if later ones are dropped.
EventuallyShown ==
  \A i \in DOMAIN Items : \A telegram \in {t \in Telegrams : Concerns(t, Items[i])} :
    latest[i] = <<Reading(Items[i], telegram)>> ~> published[i] = <<Reading(Items[i], telegram)>>

=============================================================================
