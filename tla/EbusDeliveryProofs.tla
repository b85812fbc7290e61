------------------------- MODULE EbusDeliveryProofs -------------------------
(***************************************************************************)
(* Theorems about EbusDelivery: whatever the items, the telegrams and the  *)
(* size of the queue are, every item ends up showing the latest telegram.  *)
(*                                                                         *)
(* The lemmas on the single steps are about one item, about any set of     *)
(* items that hear a telegram, and about any loop over the items that does *)
(* not end before an item that is to get the one in hand: ZebusProofs uses *)
(* them for a list that grows.                                             *)
(***************************************************************************)
EXTENDS EbusDelivery, TLAPS

-----------------------------------------------------------------------------
(* The inductive invariant.                                                *)

\* DeliveryTypeOK does not say that the telegram in hand is one.
HandlingOK ==
  /\ handling \in [telegram : Telegrams, item : 0 .. Len(Items)]
  /\ handling.item # 0 => handling.telegram.state = "endCompleted"

\* The k-th telegram of a queue is the last one there that concerns item i.
IsLastFor(i, k, queue) ==
  /\ Concerns(queue[k], Items[i])
  /\ \A l \in DOMAIN queue : l > k => ~Concerns(queue[l], Items[i])

\* The message task still has to give its telegram to item i.
IsAhead(i) == handling.item \in 1 .. i /\ is_mine(Items[i], handling.telegram)

\* Where the latest state of item i is to be found: in the last telegram of the
\* queue that concerns it, or else in the one in hand if i is still ahead of the
\* message task, or else the item shows it.
LatestIsOnItsWay(i) ==
  \/ \E k \in DOMAIN history_queue_ :
       /\ IsLastFor(i, k, history_queue_)
       /\ latest[i] = <<Reading(Items[i], history_queue_[k])>>
  \/ /\ \A k \in DOMAIN history_queue_ : ~Concerns(history_queue_[k], Items[i])
     /\ IsAhead(i) => latest[i] = <<Reading(Items[i], handling.telegram)>>
     /\ ~IsAhead(i) => latest[i] = published[i]

\* A telegram for item i is in the queue or ahead of it.
Awaits(i) ==
  \/ \E k \in DOMAIN history_queue_ : Concerns(history_queue_[k], Items[i])
  \/ IsAhead(i)

DeliveryInv == DeliveryTypeOK /\ HandlingOK

DInv ==
  /\ DeliveryInv
  /\ \A i \in DOMAIN Items \ lost : LatestIsOnItsWay(i)

-----------------------------------------------------------------------------
LEMMA ItemsAreNumbered == Len(Items) \in Nat /\ DOMAIN Items = 1 .. Len(Items)
  BY EbusDeliveryAssumption

\* The loop over the items comes to each of them, and ends.
LEMMA NextItemInRange ==
  ASSUME NEW i \in 0 .. Len(Items)
  PROVE  NextItem(i) \in 0 .. Len(Items) /\ NextItem(i) \in {0, i + 1}
                                         /\ (NextItem(i) = 0 <=> i = Len(Items))
<1>1. Len(Items) \in Nat
  BY ItemsAreNumbered
<1>2. CASE i = Len(Items)
  BY <1>1, <1>2 DEF NextItem
<1>3. CASE i # Len(Items)
  <2>1. i \in Nat /\ i < Len(Items)
    BY <1>1, <1>3
  <2> QED
    BY <1>1, <2>1 DEF NextItem
<1> QED
  BY <1>2, <1>3

LEMMA FirstItem ==
  /\ 0 \in 0 .. Len(Items) /\ NextItem(0) \in 0 .. Len(Items)
  /\ \A i \in DOMAIN Items : NextItem(0) = 1 /\ 1 \in 1 .. i
<1>1. 0 \in 0 .. Len(Items)
  BY ItemsAreNumbered
<1>2. NextItem(0) \in 0 .. Len(Items)
  BY <1>1, NextItemInRange
<1>3. ASSUME NEW i \in DOMAIN Items PROVE NextItem(0) = 1 /\ 1 \in 1 .. i
  <2>1. Len(Items) # 0 /\ i >= 1 /\ i \in Nat
    BY ItemsAreNumbered
  <2> QED
    BY <2>1 DEF NextItem
<1> QED
  BY <1>1, <1>2, <1>3

LEMMA DInvInit == Init => DInv
<1> SUFFICES ASSUME Init PROVE DInv
  OBVIOUS
<1>1. DeliveryTypeOK /\ HandlingOK
  BY ItemsAreNumbered, EbusDeliveryAssumption DEF Init, DeliveryTypeOK, HandlingOK
<1>2. ASSUME NEW i \in DOMAIN Items PROVE LatestIsOnItsWay(i)
  BY ItemsAreNumbered DEF Init, LatestIsOnItsWay, IsAhead
<1> QED
  BY <1>1, <1>2 DEF DInv, DeliveryInv

-----------------------------------------------------------------------------
(* A telegram finishes.                                                    *)

LEMMA QueueTypeStep ==
  ASSUME DeliveryInv, NEW telegram \in Telegrams, NEW hearing, Enqueue(telegram, hearing)
  PROVE  DeliveryInv'
<1> DEFINE isFull == Len(history_queue_) = history_queue_size_
<1>1. history_queue_' \in Seq(Telegrams) /\ Len(history_queue_') <= history_queue_size_
  <2>1. CASE isFull
    BY <2>1, EbusDeliveryAssumption DEF DeliveryInv, DeliveryTypeOK, Enqueue
  <2>2. CASE ~isFull
    <3>1. history_queue_' = Append(history_queue_, telegram)
      BY <2>2 DEF Enqueue
    <3> QED
      BY <2>2, <3>1, EbusDeliveryAssumption DEF DeliveryInv, DeliveryTypeOK
  <2> QED
    BY <2>1, <2>2
<1>2. lost' \subseteq DOMAIN Items /\ DOMAIN latest' = DOMAIN Items
  BY DEF DeliveryInv, DeliveryTypeOK, Enqueue, Record
<1> QED
  BY <1>1, <1>2 DEF DeliveryInv, DeliveryTypeOK, HandlingOK, Enqueue

LEMMA QueueStep ==
  ASSUME DeliveryInv, NEW telegram \in Telegrams, NEW hearing, Enqueue(telegram, hearing),
         NEW i \in DOMAIN Items \ lost', i \notin lost => LatestIsOnItsWay(i)
  PROVE  /\ LatestIsOnItsWay(i)'
         /\ i \in hearing \/ (i \notin lost /\ (Awaits(i)' => Awaits(i)))
<1>1. CASE Len(history_queue_) = history_queue_size_
  \* What is lost is forgotten.
  <2>1. /\ i \notin lost /\ latest'[i] = latest[i]
        /\ UNCHANGED <<history_queue_, handling, published>>
    BY <1>1 DEF Enqueue, Record
  <2> QED
    BY <2>1 DEF LatestIsOnItsWay, IsLastFor, IsAhead, Awaits
<1>2. CASE Len(history_queue_) # history_queue_size_
  <2> DEFINE n == Len(history_queue_)
  <2>1. /\ history_queue_' = Append(history_queue_, telegram)
        /\ UNCHANGED <<handling, published>>
    BY <1>2 DEF Enqueue
  <2>2. /\ n \in Nat /\ DOMAIN history_queue_ = 1 .. n
        /\ DOMAIN history_queue_' = 1 .. n + 1
        /\ history_queue_'[n + 1] = telegram
        /\ \A k \in 1 .. n : history_queue_'[k] = history_queue_[k]
    BY <2>1 DEF DeliveryInv, DeliveryTypeOK
  <2>3. CASE Concerns(telegram, Items[i])
    <3>1. latest'[i] = <<Reading(Items[i], telegram)>> /\ i \in hearing
      BY <1>2, <2>3 DEF Enqueue, Record
    <3>2. IsLastFor(i, n + 1, history_queue_')
      BY <2>2, <2>3 DEF IsLastFor
    <3> QED
      BY <2>2, <3>1, <3>2 DEF LatestIsOnItsWay
  <2>4. CASE ~Concerns(telegram, Items[i])
    <3>1. latest'[i] = latest[i] /\ i \notin lost
      BY <1>2, <2>4 DEF Enqueue, Record
    <3>2. \A k \in 1 .. n : IsLastFor(i, k, history_queue_) => IsLastFor(i, k, history_queue_')
      BY <2>2, <2>4 DEF IsLastFor
    <3>3. LatestIsOnItsWay(i)
      BY <3>1
    <3>4. CASE \E k \in DOMAIN history_queue_ :
                 /\ IsLastFor(i, k, history_queue_)
                 /\ latest[i] = <<Reading(Items[i], history_queue_[k])>>
      <4> PICK k \in 1 .. n : /\ IsLastFor(i, k, history_queue_)
                              /\ latest[i] = <<Reading(Items[i], history_queue_[k])>>
        BY <2>2, <3>4
      <4> QED
        BY <2>2, <3>1, <3>2 DEF LatestIsOnItsWay, Awaits, IsLastFor
    <3>5. CASE /\ \A k \in DOMAIN history_queue_ : ~Concerns(history_queue_[k], Items[i])
               /\ IsAhead(i) => latest[i] = <<Reading(Items[i], handling.telegram)>>
               /\ ~IsAhead(i) => latest[i] = published[i]
      <4>1. \A k \in 1 .. n + 1 : ~Concerns(history_queue_'[k], Items[i])
        BY <2>2, <2>4, <3>5
      <4>2. IsAhead(i)' <=> IsAhead(i)
        BY <2>1 DEF IsAhead
      <4> QED
        BY <2>1, <2>2, <3>1, <3>5, <4>1, <4>2 DEF LatestIsOnItsWay, Awaits
    <3> QED
      BY <3>3, <3>4, <3>5 DEF LatestIsOnItsWay
  <2> QED
    BY <2>3, <2>4
<1> QED
  BY <1>1, <1>2

-----------------------------------------------------------------------------
(* The message task takes a telegram.                                      *)

LEMMA ReceiveTypeStep ==
  ASSUME DeliveryInv, NEW first \in 0 .. Len(Items), ReceiveMessage(first)
  PROVE  DeliveryInv'
<1>1. /\ history_queue_ \in Seq(Telegrams) /\ history_queue_ # <<>>
      /\ history_queue_' = Tail(history_queue_)
  BY DEF DeliveryInv, DeliveryTypeOK, ReceiveMessage
<1>2. /\ history_queue_' \in Seq(Telegrams) /\ Len(history_queue_') <= Len(history_queue_)
      /\ Head(history_queue_) \in Telegrams
  BY <1>1
<1>3. Len(history_queue_') <= history_queue_size_
  BY <1>1, <1>2, EbusDeliveryAssumption DEF DeliveryInv, DeliveryTypeOK
<1>4. 0 \in 0 .. Len(Items)
  BY FirstItem
<1>5. HandlingOK'
  BY <1>2, <1>4 DEF HandlingOK, ReceiveMessage
<1> QED
  BY <1>2, <1>3, <1>5 DEF DeliveryInv, DeliveryTypeOK, HandlingOK, ReceiveMessage

LEMMA ReceiveStep ==
  ASSUME DeliveryInv, NEW first \in 0 .. 1, ReceiveMessage(first),
         NEW i \in DOMAIN Items, LatestIsOnItsWay(i), Awaits(i) => first = 1
  PROVE  LatestIsOnItsWay(i)' /\ (Awaits(i)' => Awaits(i))
<1> DEFINE n == Len(history_queue_)
<1>1. /\ n \in Nat \ {0} /\ DOMAIN history_queue_ = 1 .. n
      /\ DOMAIN history_queue_' = 1 .. n - 1
      /\ \A k \in 1 .. n - 1 : history_queue_'[k] = history_queue_[k + 1]
      /\ Head(history_queue_) = history_queue_[1]
  BY DEF DeliveryInv, DeliveryTypeOK, ReceiveMessage
<1>2. /\ handling.item = 0 /\ UNCHANGED <<published, latest, lost>>
      /\ handling'.telegram = history_queue_[1]
      /\ handling'.item = IF history_queue_[1].state = "endCompleted" THEN first ELSE 0
  BY <1>1 DEF ReceiveMessage
<1>3. ~IsAhead(i)
  BY <1>2 DEF IsAhead
<1>4. Awaits(i)' => Awaits(i)
  <2>1. \A k \in 1 .. n - 1 : k + 1 \in 1 .. n
    BY <1>1
  <2>2. IsAhead(i)' => Concerns(history_queue_[1], Items[i]) /\ 1 \in 1 .. n
    BY <1>1, <1>2 DEF IsAhead, Concerns
  <2> QED
    BY <1>1, <2>1, <2>2 DEF Awaits
\* The queue has something for i: it is further up, or in hand now.
<1>5. CASE \E k \in DOMAIN history_queue_ :
             /\ IsLastFor(i, k, history_queue_)
             /\ latest[i] = <<Reading(Items[i], history_queue_[k])>>
  <2>1. PICK k \in 1 .. n : /\ IsLastFor(i, k, history_queue_)
                            /\ latest[i] = <<Reading(Items[i], history_queue_[k])>>
    BY <1>1, <1>5
  <2>2. CASE k # 1
    <3>1. k - 1 \in 1 .. n - 1 /\ history_queue_'[k - 1] = history_queue_[k]
      BY <1>1, <2>2
    <3>2. \A l \in 1 .. n - 1 : l > k - 1 => ~Concerns(history_queue_'[l], Items[i])
      <4> TAKE l \in 1 .. n - 1
      <4> HAVE l > k - 1
      <4>1. l + 1 \in 1 .. n /\ l + 1 > k
        BY <1>1
      <4> QED
        BY <1>1, <2>1, <4>1 DEF IsLastFor
    <3>3. IsLastFor(i, k - 1, history_queue_')
      BY <1>1, <2>1, <3>1, <3>2 DEF IsLastFor
    <3> QED
      BY <1>1, <1>2, <1>4, <2>1, <3>1, <3>3 DEF LatestIsOnItsWay
  <2>3. CASE k = 1
    <3>1. \A l \in 1 .. n - 1 : ~Concerns(history_queue_'[l], Items[i])
      <4> TAKE l \in 1 .. n - 1
      <4>1. l + 1 \in 1 .. n /\ l + 1 > 1
        BY <1>1
      <4> QED
        BY <1>1, <2>1, <2>3, <4>1 DEF IsLastFor
    <3>2. history_queue_[1].state = "endCompleted" /\ is_mine(Items[i], history_queue_[1])
      BY <2>1, <2>3 DEF IsLastFor, Concerns
    <3>3. first = 1 /\ 1 \in 1 .. i
      BY <1>1, <2>1, <2>3, FirstItem DEF Awaits, IsLastFor
    <3>4. IsAhead(i)'
      BY <1>2, <3>2, <3>3 DEF IsAhead
    <3> QED
      BY <1>1, <1>2, <1>4, <2>1, <2>3, <3>1, <3>4 DEF LatestIsOnItsWay
  <2> QED
    BY <2>2, <2>3
\* It has nothing for i, and what is in hand now is not for i either.
<1>6. CASE (\A k \in DOMAIN history_queue_ : ~Concerns(history_queue_[k], Items[i]))
             /\ latest[i] = published[i]
  <2>1. \A l \in 1 .. n - 1 : ~Concerns(history_queue_'[l], Items[i])
    <3> TAKE l \in 1 .. n - 1
    <3>1. l + 1 \in 1 .. n
      BY <1>1
    <3> QED
      BY <1>1, <1>6, <3>1
  <2>2. ~Concerns(history_queue_[1], Items[i])
    BY <1>1, <1>6
  <2>3. ~IsAhead(i)'
    BY <1>2, <2>2 DEF IsAhead, Concerns
  <2> QED
    BY <1>1, <1>2, <1>4, <1>6, <2>1, <2>3 DEF LatestIsOnItsWay
<1> QED
  BY <1>3, <1>5, <1>6 DEF LatestIsOnItsWay

-----------------------------------------------------------------------------
(* The message task gives it to an item.                                   *)

LEMMA ProcessTypeStep ==
  ASSUME DeliveryInv, NEW next \in 0 .. Len(Items), ProcessReceived(next)
  PROVE  DeliveryInv'
<1>1. HandlingOK'
  BY DEF DeliveryInv, HandlingOK, ProcessReceived
<1>2. DOMAIN published' = DOMAIN Items
  BY DEF DeliveryInv, DeliveryTypeOK, ProcessReceived
<1> QED
  BY <1>1, <1>2 DEF DeliveryInv, DeliveryTypeOK, HandlingOK, ProcessReceived

LEMMA ProcessStep ==
  ASSUME DeliveryInv, NEW next, ProcessReceived(next), next \in {0, handling.item + 1},
         NEW i \in DOMAIN Items, LatestIsOnItsWay(i),
         IsAhead(i) /\ handling.item # i => next # 0
  PROVE  LatestIsOnItsWay(i)' /\ (Awaits(i)' => Awaits(i))
<1> DEFINE j == handling.item
<1>1. /\ UNCHANGED <<history_queue_, latest>>
      /\ handling'.telegram = handling.telegram /\ handling'.item = next
  BY DEF ProcessReceived, DeliveryInv, HandlingOK
<1>2. j \in 1 .. Len(Items) /\ Len(Items) \in Nat /\ i \in 1 .. Len(Items)
  BY ItemsAreNumbered DEF DeliveryInv, DeliveryTypeOK, ProcessReceived
<1>3. /\ i # j => published'[i] = published[i]
      /\ i = j /\ IsAhead(i) => published'[i] = <<Reading(Items[i], handling.telegram)>>
      /\ i = j /\ ~IsAhead(i) => published'[i] = published[i]
  <2>1. CASE is_mine(Items[j], handling.telegram)
    <3>1. published' = [published EXCEPT ![j] = <<Reading(Items[j], handling.telegram)>>]
      BY <2>1 DEF ProcessReceived
    <3>2. i = j => IsAhead(i)
      BY <1>2, <2>1 DEF IsAhead
    <3> QED
      BY <3>1, <3>2 DEF DeliveryInv, DeliveryTypeOK
  <2>2. CASE ~is_mine(Items[j], handling.telegram)
    BY <2>2 DEF ProcessReceived, IsAhead
  <2> QED
    BY <2>1, <2>2
\* After its own turn, i is not ahead any more; before it, it stays so.
<1>4. /\ i # j => (IsAhead(i)' <=> IsAhead(i))
      /\ i = j => ~IsAhead(i)'
  <2>1. CASE i = j
    <3>1. next \notin 1 .. i
      BY <1>2, <2>1
    <3> QED
      BY <1>1, <2>1, <3>1 DEF IsAhead
  <2>2. CASE i # j
    <3>1. next # 0 => (next \in 1 .. i <=> j \in 1 .. i)
      BY <1>2, <2>2
    <3>2. next = 0 => next \notin 1 .. i
      BY <1>2
    <3> QED
      BY <1>1, <2>2, <3>1, <3>2 DEF IsAhead
  <2> QED
    BY <2>1, <2>2
<1>5. Awaits(i)' => Awaits(i)
  BY <1>1, <1>4 DEF Awaits
<1> QED
  BY <1>1, <1>3, <1>4, <1>5 DEF LatestIsOnItsWay, IsLastFor

-----------------------------------------------------------------------------
LEMMA DInvStep == DInv /\ [Next]_deliveryVars => DInv'
<1> SUFFICES ASSUME DInv, [Next]_deliveryVars PROVE DInv'
  OBVIOUS
<1>1. ASSUME NEW telegram \in Telegrams, QueueTelegram(telegram) PROVE DInv'
  <2>1. Enqueue(telegram, DOMAIN Items)
    BY <1>1 DEF QueueTelegram
  <2>2. DeliveryInv'
    BY <2>1, QueueTypeStep DEF DInv
  <2>3. \A i \in DOMAIN Items \ lost' : LatestIsOnItsWay(i)'
    BY <2>1, QueueStep DEF DInv
  <2> QED
    BY <2>2, <2>3 DEF DInv
<1>2. ASSUME ReceiveMessage(NextItem(0)) PROVE DInv'
  <2>1. DeliveryInv' /\ lost' = lost
    BY <1>2, ReceiveTypeStep, FirstItem DEF DInv, ReceiveMessage
  <2>2. \A i \in DOMAIN Items : NextItem(0) \in 0 .. 1 /\ NextItem(0) = 1
    BY FirstItem
  <2>3. \A i \in DOMAIN Items \ lost' : LatestIsOnItsWay(i)'
    BY <1>2, <2>1, <2>2, ReceiveStep DEF DInv
  <2> QED
    BY <2>1, <2>3 DEF DInv
<1>3. ASSUME ProcessReceived(NextItem(handling.item)) PROVE DInv'
  <2>1. handling.item \in 0 .. Len(Items) /\ lost' = lost
    BY <1>3 DEF DInv, DeliveryInv, DeliveryTypeOK, ProcessReceived
  <2>2. /\ NextItem(handling.item) \in 0 .. Len(Items)
        /\ NextItem(handling.item) \in {0, handling.item + 1}
        /\ NextItem(handling.item) = 0 <=> handling.item = Len(Items)
    BY <2>1, NextItemInRange
  <2>3. DeliveryInv'
    BY <1>3, <2>2, ProcessTypeStep DEF DInv
  <2>4. \A i \in DOMAIN Items : IsAhead(i) /\ handling.item # i => handling.item # Len(Items)
    BY <2>1, ItemsAreNumbered DEF IsAhead
  <2>5. \A i \in DOMAIN Items \ lost' : LatestIsOnItsWay(i)'
    BY <1>3, <2>1, <2>2, <2>4, ProcessStep DEF DInv
  <2> QED
    BY <2>3, <2>5 DEF DInv
<1>4. ASSUME UNCHANGED deliveryVars PROVE DInv'
  BY <1>4 DEF deliveryVars, DInv, DeliveryInv, DeliveryTypeOK, HandlingOK, LatestIsOnItsWay,
              IsLastFor, IsAhead
<1> QED
  BY <1>1, <1>2, <1>3, <1>4 DEF Next, MessageTask

\* No queue overflows, and the message task is never at an item that is not
\* there: for every list of items, set of telegrams and queue size.
THEOREM DeliveryTypeCorrect == Spec => []DeliveryTypeOK
<1>1. DInv => DeliveryTypeOK
  BY DEF DInv, DeliveryInv
<1> QED
  BY <1>1, DInvInit, DInvStep, PTL DEF Spec

\* Whatever finishes while the message task is at work: when all telegrams have
\* been handled, every item shows what the last telegram for it said, unless a
\* full queue dropped that one.
THEOREM ItemsShowLatest == Spec => []ShowsLatest
<1>1. DInv => ShowsLatest
  <2> SUFFICES ASSUME DInv, history_queue_ = <<>>, handling.item = 0,
                      NEW i \in DOMAIN Items \ lost
               PROVE  published[i] = latest[i]
    BY DEF ShowsLatest
  <2>1. LatestIsOnItsWay(i) /\ ~IsAhead(i)
    BY DEF DInv, IsAhead
  <2> QED
    BY <2>1 DEF LatestIsOnItsWay
<1> QED
  BY <1>1, DInvInit, DInvStep, PTL DEF Spec

=============================================================================
