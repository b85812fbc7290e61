------------------------- MODULE EbusPollingProofs --------------------------
(***************************************************************************)
(* Theorems about EbusPolling: for every list of items and every size of   *)
(* the command queue, the items are asked for in turn.                     *)
(***************************************************************************)
EXTENDS EbusPolling, TLAPS

\* The invariants are inductive; only the last command taken is in no type yet.
PInv ==
  /\ PollingTypeOK
  /\ PollsInOrder

Requests == {prepare_command(item) : item \in Range(Items)}

LEMMA ItemsAreNumbered ==
  /\ Len(Items) \in Nat /\ DOMAIN Items = 1 .. Len(Items)
  /\ Pollers \subseteq 1 .. Len(Items)
  /\ \A i \in DOMAIN Items : prepare_command(Items[i]) \in Requests
  BY EbusPollingAssumption DEF Range, Pollers, Requests

LEMMA NextItemInRange ==
  ASSUME NEW i \in 0 .. Len(Items)
  PROVE  NextItem(i) \in 0 .. Len(Items)
<1>1. Len(Items) \in Nat
  BY ItemsAreNumbered
<1>2. CASE i = Len(Items)
  BY <1>1, <1>2 DEF NextItem
<1>3. CASE i # Len(Items)
  BY <1>1, <1>3 DEF NextItem
<1> QED
  BY <1>2, <1>3

LEMMA TailFacts ==
  ASSUME NEW S, NEW q \in Seq(S), q # <<>>
  PROVE  /\ Len(q) \in Nat \ {0} /\ Head(q) = q[1]
         /\ Tail(q) \in Seq(S) /\ Len(Tail(q)) = Len(q) - 1
         /\ \A i \in 1 .. Len(q) - 1 : Tail(q)[i] = q[i + 1]
         /\ Tail(q) = <<>> <=> Len(q) = 1
         /\ Tail(q) # <<>> => Head(Tail(q)) = Tail(q)[1]
<1>1. Len(q) \in Nat \ {0} /\ Head(q) = q[1]
  OBVIOUS
<1>2. Tail(q) \in Seq(S) /\ Len(Tail(q)) = Len(q) - 1
  OBVIOUS
<1>3. \A i \in 1 .. Len(q) - 1 : Tail(q)[i] = q[i + 1]
  OBVIOUS
<1>4. Tail(q) = <<>> <=> Len(Tail(q)) = 0
  <2> DEFINE t == Tail(q)
  <2>1. t \in Seq(S)
    BY <1>2
  <2> HIDE DEF t
  <2>2. t = <<>> <=> Len(t) = 0
    BY <2>1
  <2> QED
    BY <2>2 DEF t
<1>5. Tail(q) = <<>> <=> Len(q) = 1
  BY <1>1, <1>2, <1>4
<1>6. Tail(q) # <<>> => Head(Tail(q)) = Tail(q)[1]
  BY <1>2
<1> QED
  BY <1>1, <1>2, <1>3, <1>5, <1>6, Zenon

LEMMA BeforeLast ==
  ASSUME NEW n \in Nat, NEW i \in 1 .. n, i # n
  PROVE  i \in 1 .. n - 1 /\ i + 1 \in 1 .. n
  OBVIOUS

-----------------------------------------------------------------------------
(* Turns.                                                                  *)

\* Two places with no item that polls between them give the same turn.
LEMMA SameTurn ==
  ASSUME NEW i \in Int, NEW j \in Int, NEW l \in Pollers,
         \A p \in Pollers : p >= i <=> p >= j
  PROVE  IsTurnOf(l, i) <=> IsTurnOf(l, j)
  BY DEF IsTurnOf

\* Past the last item, it is the turn of the first one again.
LEMMA TurnsAreCyclic ==
  ASSUME NEW l \in Pollers
  PROVE  IsTurnOf(l, Len(Items) + 1) <=> IsTurnOf(l, 1)
<1>1. \A p \in Pollers : p \in Nat /\ p >= 1 /\ ~(p >= Len(Items) + 1)
  BY ItemsAreNumbered
<1> QED
  BY <1>1 DEF IsTurnOf

\* An item that polls is next from its own place on, and no other is.
LEMMA OwnTurn ==
  ASSUME NEW p \in Pollers, NEW l \in Pollers, IsTurnOf(l, p)
  PROVE  l = p
<1>1. p \in Nat /\ l \in Nat
  BY ItemsAreNumbered
<1>2. p >= p
  BY <1>1
<1>3. l >= p /\ p >= l
  BY <1>2 DEF IsTurnOf
<1> QED
  BY <1>1, <1>3

LEMMA OwnTurnComes ==
  ASSUME NEW p \in Pollers
  PROVE  IsTurnOf(p, p)
<1>1. p \in Nat
  BY ItemsAreNumbered
<1>2. p >= p
  BY <1>1
<1> QED
  BY <1>2 DEF IsTurnOf

\* Behind an item, or behind all of them, update() is at the same turn.
LEMMA TurnAfterStep ==
  ASSUME PollingTypeOK, polling # 0, polling' = NextItem(polling), NEW l \in Pollers
  PROVE  IsTurnOf(l, Place') <=> IsTurnOf(l, polling + 1)
<1>1. polling \in 1 .. Len(Items) /\ Len(Items) \in Nat
  BY ItemsAreNumbered DEF PollingTypeOK
<1>2. CASE polling = Len(Items)
  <2>1. Place' = 1 /\ polling + 1 = Len(Items) + 1
    BY <1>2 DEF Place, NextItem
  <2> QED
    BY <2>1, TurnsAreCyclic
<1>3. CASE polling # Len(Items)
  <2>1. Place' = polling + 1
    BY <1>1, <1>3 DEF Place, NextItem
  <2> QED
    BY <2>1
<1> QED
  BY <1>2, <1>3

-----------------------------------------------------------------------------
LEMMA PInvInit == Init => PInv
<1> SUFFICES ASSUME Init PROVE PInv
  OBVIOUS
<1>1. PollingTypeOK
  <2>1. primary_address_ \in Byte
    BY EbusPollingAssumption DEF Init
  <2> QED
    BY <2>1, ItemsAreNumbered, EbusPollingAssumption
    DEF Init, PollingTypeOK, Engine!Init
<1>2. PollsInOrder
  BY DEF Init, PollsInOrder, LastAsked
<1> QED
  BY <1>1, <1>2 DEF PInv

\* update() begins, or passes an item that does not poll: it stays at the same
\* turn.
LEMMA WalkStep ==
  ASSUME PInv, Update \/ SkipItem
  PROVE  PInv'
<1>1. /\ UNCHANGED <<primary_address_, command_queue_, engine>>
      /\ polling' = NextItem(polling) /\ polling' \in 0 .. Len(Items)
  <2>1. polling' = NextItem(polling)
    BY DEF Update, SkipItem
  <2>2. NextItem(polling) \in 0 .. Len(Items)
    BY NextItemInRange DEF PInv, PollingTypeOK
  <2> QED
    BY <2>1, <2>2 DEF Update, SkipItem
<1>2. PollingTypeOK'
  BY <1>1 DEF PInv, PollingTypeOK, engine
<1>3. \A l \in Pollers : IsTurnOf(l, Place') <=> IsTurnOf(l, Place)
  <2> TAKE l \in Pollers
  <2>1. CASE polling = 0
    BY <1>1, <2>1 DEF NextItem, Place
  <2>2. CASE polling # 0
    <3>1. polling \in Int /\ polling + 1 \in Int
      BY ItemsAreNumbered DEF PInv, PollingTypeOK
    <3>2. polling \notin Pollers
      BY <2>2 DEF Update, SkipItem, Pollers
    <3>3. \A p \in Pollers : p >= polling <=> p >= polling + 1
      BY <3>1, <3>2, ItemsAreNumbered
    <3>4. IsTurnOf(l, polling) <=> IsTurnOf(l, polling + 1)
      BY <3>1, <3>3, SameTurn
    <3> QED
      BY <1>1, <2>2, <3>4, TurnAfterStep DEF PInv, Place
  <2> QED
    BY <2>1, <2>2
<1>4. ASSUME NEW k \in Pollers, GoesOnAfter(k) PROVE GoesOnAfter(k)'
  BY <1>3, <1>4 DEF GoesOnAfter, Place
<1>5. PollsInOrder'
  BY <1>1, <1>4 DEF PInv, PollsInOrder, LastAsked, engine
<1> QED
  BY <1>2, <1>5 DEF PInv

\* update() queues the request of the item whose turn it is.
LEMMA PollStep ==
  ASSUME PInv, PollItem
  PROVE  PInv'
<1> DEFINE n == Len(command_queue_)
           asked == prepare_command(Items[polling])
<1>1. /\ UNCHANGED <<primary_address_, engine>>
      /\ command_queue_' = Append(command_queue_, asked)
      /\ n < command_queue_size_
      /\ polling # 0 /\ polling' = NextItem(polling)
  BY DEF PollItem
<1>2. polling \in Pollers
  BY ItemsAreNumbered DEF PollItem, Pollers, PInv, PollingTypeOK
<1>3. command_queue_ \in Seq(Requests) /\ asked \in Requests
  BY <1>2, ItemsAreNumbered DEF PInv, PollingTypeOK, Requests
<1>4. /\ n \in Nat /\ DOMAIN command_queue_ = 1 .. n
      /\ command_queue_' \in Seq(Requests) /\ Len(command_queue_') = n + 1
      /\ command_queue_'[n + 1] = asked /\ command_queue_' # <<>>
      /\ \A i \in 1 .. n : command_queue_'[i] = command_queue_[i]
      /\ Head(command_queue_') = command_queue_'[1]
      /\ n = 0 <=> command_queue_ = <<>>
  BY <1>1, <1>3
<1>5. PollingTypeOK'
  <2>1. NextItem(polling) \in 0 .. Len(Items)
    BY NextItemInRange DEF PInv, PollingTypeOK
  <2>2. n + 1 <= command_queue_size_
    BY <1>1, <1>4, EbusPollingAssumption
  <2> QED
    BY <1>1, <1>4, <2>1, <2>2 DEF PInv, PollingTypeOK, engine, Requests
<1>6. LastAsked # NoCommand => Follows(LastAsked, asked)
  <2> HAVE LastAsked # NoCommand
  <2>1. PICK k \in Pollers : LastAsked = prepare_command(Items[k]) /\ GoesOnAfter(k)
    BY DEF PInv, PollsInOrder
  <2>2. IsTurnOf(polling, k + 1)
    BY <1>1, <1>2, <2>1, OwnTurnComes DEF GoesOnAfter, Place
  <2> QED
    BY <1>2, <2>1, <2>2 DEF Follows
<1>7. ASSUME request' # NoCommand
      PROVE  Follows(request', Head(command_queue_'))
  <2>1. request' = request
    BY <1>1 DEF engine
  <2>2. CASE n = 0
    BY <1>4, <1>6, <1>7, <2>1, <2>2 DEF LastAsked
  <2>3. CASE n # 0
    <3>1. Head(command_queue_') = Head(command_queue_) /\ command_queue_ # <<>>
      BY <1>4, <2>3
    <3> QED
      BY <1>7, <2>1, <3>1 DEF PInv, PollsInOrder
  <2> QED
    BY <2>2, <2>3
<1>8. ASSUME NEW i \in 1 .. n
      PROVE  Follows(command_queue_'[i], command_queue_'[i + 1])
  <2>1. CASE i = n
    <3>1. LastAsked = command_queue_[n]
      BY <1>4, <2>1 DEF LastAsked
    <3>2. command_queue_[n] \in Requests
      BY <1>3, <1>4, <2>1
    <3>3. LastAsked # NoCommand
      BY <3>1, <3>2 DEF Requests, NoCommand, prepare_command
    <3> QED
      BY <1>4, <1>6, <2>1, <3>1, <3>3
  <2>2. CASE i # n
    <3>1. i \in 1 .. n - 1 /\ i + 1 \in 1 .. n
      BY <1>4, <2>2, BeforeLast
    <3> QED
      BY <1>4, <3>1 DEF PInv, PollsInOrder
  <2> QED
    BY <2>1, <2>2
<1>9. /\ LastAsked' = asked
      /\ \E k \in Pollers : asked = prepare_command(Items[k]) /\ GoesOnAfter(k)'
  <2>1. LastAsked' = asked
    BY <1>4 DEF LastAsked
  <2>2. PICK k \in Pollers : k = polling
    BY <1>2
  <2>3. \A l \in Pollers : IsTurnOf(l, Place') <=> IsTurnOf(l, k + 1)
    BY <1>1, <2>2, TurnAfterStep DEF PInv
  <2>4. GoesOnAfter(k)'
    BY <2>3 DEF GoesOnAfter, Place
  <2> QED
    BY <2>1, <2>2, <2>4
<1>10. PollsInOrder'
  <2>1. \A i \in 1 .. Len(command_queue_') - 1 :
          Follows(command_queue_'[i], command_queue_'[i + 1])
    BY <1>4, <1>8
  <2> QED
    BY <1>7, <1>9, <2>1 DEF PollsInOrder
<1> QED
  BY <1>5, <1>10 DEF PInv

\* The engine takes the first command, which is the last one to have been taken
\* from now on.
LEMMA TakeStep ==
  ASSUME PInv, TakeCommand
  PROVE  PInv'
<1> DEFINE n == Len(command_queue_)
<1>1. /\ UNCHANGED <<primary_address_, polling>>
      /\ command_queue_ # <<>> /\ command_queue_' = Tail(command_queue_)
      /\ request' = Head(command_queue_) /\ phase' \in {"waiting", "contending"}
  BY DEF TakeCommand, Engine!Accept
<1>2. command_queue_ \in Seq(Requests)
  BY DEF PInv, PollingTypeOK, Requests
<1>3. /\ n \in Nat \ {0} /\ Len(command_queue_') = n - 1
      /\ command_queue_' \in Seq(Requests)
      /\ Head(command_queue_) = command_queue_[1]
      /\ \A i \in 1 .. n - 1 : command_queue_'[i] = command_queue_[i + 1]
      /\ command_queue_' = <<>> <=> n = 1
      /\ command_queue_' # <<>> => Head(command_queue_') = command_queue_'[1]
  BY <1>1, <1>2, TailFacts, Zenon
<1>4. PollingTypeOK'
  <2>1. n - 1 <= command_queue_size_
    BY <1>3, EbusPollingAssumption DEF PInv, PollingTypeOK
  <2> QED
    BY <1>1, <1>3, <2>1 DEF PInv, PollingTypeOK, Requests
<1>5. \A i \in 1 .. n - 1 : Follows(command_queue_[i], command_queue_[i + 1])
  BY DEF PInv, PollsInOrder
<1>6. command_queue_' # <<>> => Follows(request', Head(command_queue_'))
  <2> HAVE command_queue_' # <<>>
  <2>1. 1 \in 1 .. n - 1
    BY <1>3
  <2> QED
    BY <1>1, <1>3, <1>5, <2>1
<1>7. \A i \in 1 .. (n - 1) - 1 : Follows(command_queue_'[i], command_queue_'[i + 1])
  <2> TAKE i \in 1 .. (n - 1) - 1
  <2>1. i \in 1 .. n - 1 /\ i + 1 \in 1 .. n - 1
    BY <1>3
  <2> QED
    BY <1>3, <1>5, <2>1
<1>8. LastAsked' = LastAsked
  <2>1. LastAsked = command_queue_[n]
    BY <1>1 DEF LastAsked
  <2>2. CASE n = 1
    BY <1>1, <1>3, <2>1, <2>2 DEF LastAsked
  <2>3. CASE n # 1
    <3>1. n - 1 \in 1 .. n - 1 /\ (n - 1) + 1 = n
      BY <1>3, <2>3
    <3>2. command_queue_'[n - 1] = command_queue_[n]
      BY <1>3, <3>1
    <3>3. LastAsked' = command_queue_'[n - 1]
      BY <1>3, <2>3 DEF LastAsked
    <3> QED
      BY <2>1, <3>2, <3>3
  <2> QED
    BY <2>2, <2>3
<1>9. ASSUME NEW k \in Pollers, GoesOnAfter(k) PROVE GoesOnAfter(k)'
  BY <1>1, <1>9 DEF GoesOnAfter, Place
<1>10. PollsInOrder'
  BY <1>3, <1>6, <1>7, <1>8, <1>9 DEF PInv, PollsInOrder
<1> QED
  BY <1>4, <1>10 DEF PInv

LEMMA WorkStep ==
  ASSUME PInv, WorkOnCommand \/ UNCHANGED pollingVars
  PROVE  PInv'
<1>1. /\ UNCHANGED <<primary_address_, command_queue_, polling, request>>
      /\ phase' \in {"idle", "waiting", "contending", "sent"}
  BY DEF WorkOnCommand, pollingVars, engine, PInv, PollingTypeOK,
         Engine!Contend, Engine!Put, Engine!Fail, Engine!Acknowledge
<1>2. PollingTypeOK'
  BY <1>1 DEF PInv, PollingTypeOK
<1>3. PollsInOrder'
  BY <1>1 DEF PInv, PollsInOrder, LastAsked, GoesOnAfter, Place
<1> QED
  BY <1>2, <1>3 DEF PInv

LEMMA PInvStep == PInv /\ [Next]_pollingVars => PInv'
  BY WalkStep, PollStep, TakeStep, WorkStep DEF Next, MainLoop

\* The command queue never overflows, and update() is never at an item that is
\* not there: for every list of items, queue size and number of attempts.
THEOREM PollingTypeCorrect == Spec => []PollingTypeOK
<1>1. PInv => PollingTypeOK
  BY DEF PInv
<1> QED
  BY <1>1, PInvInit, PInvStep, PTL DEF Spec

\* However long update() has to wait for the queue, and wherever the engine is
\* with its tries: no item is left out, asked for twice or overtaken.
THEOREM ItemsArePolledInOrder == Spec => []PollsInOrder
<1>1. PInv => PollsInOrder
  BY DEF PInv
<1> QED
  BY <1>1, PInvInit, PInvStep, PTL DEF Spec

=============================================================================
