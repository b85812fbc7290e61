--------------------------- MODULE TelegramProofs ----------------------------
(***************************************************************************)
(* What the operators of Telegram keep, how full its buffers may be, and   *)
(* what symbols are on the wire, with the facts on sequences that takes.   *)
(* The engines, of ebus and of zebus, and Codec rest on these lemmas.      *)
(***************************************************************************)
EXTENDS Telegram, Escaping, SequenceTheorems, WellFoundedInduction, TLAPS

\* The states of the receiving telegram in which nothing, or only QQ, has been
\* stored since the last SYN.
BeforeRequest == {"waitForSyn", "waitForArbitration"} \cup EndStates

ReceiverStates ==
  {"waitForSyn", "waitForArbitration", "waitForRequestData", "waitForRequestAck",
   "waitForResponseData", "waitForResponseAck"} \cup (EndStates \ {"endSendFailed"})

\* How full the buffers are in each state: in a data state there is room for at
\* least the next byte, because the length has been clamped.
Fits(t) ==
  /\ t.req <= OFFSET_DATA + t.nn + 1
  /\ t.res <= RESPONSE_OFFSET + t.res_nn + 1
  /\ t.state \in {"waitForSyn", "waitForArbitration"} => t.req = 0
  /\ t.state = "waitForRequestData" => t.req >= 1 /\ t.req <= OFFSET_DATA + t.nn
  /\ t.state \in {"waitForSyn", "waitForArbitration", "waitForRequestData",
                  "waitForRequestAck"} => t.res = 0
  /\ t.state = "waitForResponseData" => t.res <= RESPONSE_OFFSET + t.res_nn

-----------------------------------------------------------------------------
(* The operators of Telegram.                                              *)

\* get_nn never returns more than the buffers are made for.
LEMMA GetNNBounded ==
  ASSUME NEW nn \in Byte
  PROVE  get_nn(nn) \in 0 .. MAX_DATA_LENGTH - 1
BY MaxDataLengthAssumption DEF get_nn, Byte

\* Storing a byte of the request keeps the type and changes no state.
LEMMA PushRequestTyped ==
  ASSUME NEW t \in TelegramType, NEW b \in Byte
  PROVE  /\ push_req_data(t, b) \in TelegramType
         /\ push_req_data(t, b).state = t.state
         /\ push_req_data(t, b).req = t.req + 1
         /\ push_req_data(t, b).res = t.res
         /\ push_req_data(t, b).res_nn = t.res_nn
         /\ t.req # OFFSET_NN => push_req_data(t, b).nn = t.nn
<1> DEFINE qq == IF t.req = OFFSET_QQ THEN b ELSE t.qq
           zz == IF t.req = OFFSET_ZZ THEN b ELSE t.zz
           nn == IF t.req = OFFSET_NN THEN get_nn(b) ELSE t.nn
<1>1. /\ t.qq \in Byte /\ t.zz \in Byte /\ t.req \in Nat
      /\ t.nn \in 0 .. MAX_DATA_LENGTH - 1
  BY DEF TelegramType
<1>2. qq \in Byte /\ zz \in Byte /\ nn \in 0 .. MAX_DATA_LENGTH - 1 /\ t.req + 1 \in Nat
  BY <1>1, GetNNBounded
<1>3. push_req_data(t, b) =
        [t EXCEPT !.qq = qq, !.zz = zz, !.nn = nn, !.req = t.req + 1]
  BY DEF push_req_data, TelegramType
<1>4. t.req # OFFSET_NN => nn = t.nn
  OBVIOUS
<1> HIDE DEF qq, zz, nn
<1> QED
  BY <1>2, <1>3, <1>4 DEF TelegramType

\* The same for the response.
LEMMA PushResponseTyped ==
  ASSUME NEW t \in TelegramType, NEW b \in Byte
  PROVE  /\ push_response_data(t, b) \in TelegramType
         /\ push_response_data(t, b).state = t.state
         /\ push_response_data(t, b).res = t.res + 1
         /\ push_response_data(t, b).req = t.req
         /\ push_response_data(t, b).nn = t.nn
         /\ t.res # 0 => push_response_data(t, b).res_nn = t.res_nn
<1> DEFINE res_nn == IF t.res = 0 THEN get_nn(b) ELSE t.res_nn
<1>1. t.res \in Nat /\ t.res_nn \in 0 .. MAX_DATA_LENGTH - 1
  BY DEF TelegramType
<1>2. res_nn \in 0 .. MAX_DATA_LENGTH - 1 /\ t.res + 1 \in Nat
  BY <1>1, GetNNBounded
<1>3. push_response_data(t, b) = [t EXCEPT !.res_nn = res_nn, !.res = t.res + 1]
  BY DEF push_response_data, TelegramType
<1>4. t.res # 0 => res_nn = t.res_nn
  OBVIOUS
<1> HIDE DEF res_nn
<1> QED
  BY <1>2, <1>3, <1>4 DEF TelegramType

\* The state changes, and nothing else.
LEMMA SetStateTyped ==
  ASSUME NEW t \in TelegramType, NEW s \in PendingStates \cup EndStates
  PROVE  /\ set_state(t, s) \in TelegramType
         /\ set_state(t, s).state = s
         /\ set_state(t, s).req = t.req /\ set_state(t, s).nn = t.nn
         /\ set_state(t, s).res = t.res /\ set_state(t, s).res_nn = t.res_nn
BY DEF set_state, TelegramType

\* A new telegram is empty.
LEMMA NewTelegramTyped ==
  /\ NewTelegram \in TelegramType
  /\ NewTelegram.state = "waitForSyn"
  /\ Fits(NewTelegram)
BY MaxDataLengthAssumption
   DEF NewTelegram, TelegramType, Fits, Byte, PendingStates, ESC, EndStates,
       OFFSET_DATA, RESPONSE_OFFSET

-----------------------------------------------------------------------------
(* Sequences.                                                              *)

\* A set of naturals has a least element.
LEMMA LeastExists ==
  ASSUME NEW T \in SUBSET Nat, T # {}
  PROVE  \E n \in T : \A m \in T : n <= m
<1>1. \E n \in T : \A m \in T : ~(<<m, n>> \in OpToRel(<, Nat))
  BY NatLessThanWellFounded, WFMin
<1>2. PICK n \in T : \A m \in T : ~(<<m, n>> \in OpToRel(<, Nat))
  BY <1>1
<1>3. \A m \in T : ~ (m < n)
  BY <1>2 DEF OpToRel
<1> QED
  BY <1>3

\* A set of naturals with zero and with every successor has all of them.
LEMMA NatSetInduction ==
  ASSUME NEW S \in SUBSET Nat, 0 \in S, \A n \in S : n + 1 \in S
  PROVE  S = Nat
<1> DEFINE T == Nat \ S
<1> SUFFICES ASSUME T # {} PROVE FALSE
  OBVIOUS
<1>1. PICK x \in T : \A y \in T : x <= y
  BY LeastExists
<1>2. x # 0 /\ x \in Nat
  OBVIOUS
<1>3. x - 1 \in Nat /\ x - 1 \in S
  BY <1>1, <1>2
<1> QED
  BY <1>3


\* f[k]: the first k sequences one after the other.
Flattens(f, seqs, k) ==
  \A i \in 1 .. k : f[i] = IF i = 1 THEN seqs[i] ELSE f[i - 1] \o seqs[i]

\* There is such a function.
LEMMA FlattenExists ==
  ASSUME NEW S, NEW seqs \in Seq(Seq(S)), seqs # <<>>
  PROVE  \E f \in [1 .. Len(seqs) -> Seq(S)] : Flattens(f, seqs, Len(seqs))
<1> DEFINE n == Len(seqs)
           Extends(k) == k \in 1 .. n => \E f \in [1 .. k -> Seq(S)] : Flattens(f, seqs, k)
           K == {k \in Nat : Extends(k)}
<1>1. n \in Nat \ {0} /\ \A i \in 1 .. n : seqs[i] \in Seq(S)
  OBVIOUS
<1>2. ASSUME NEW k \in Nat, Extends(k) PROVE Extends(k + 1)
  <2> SUFFICES ASSUME k + 1 \in 1 .. n
               PROVE  \E f \in [1 .. k + 1 -> Seq(S)] : Flattens(f, seqs, k + 1)
    OBVIOUS
  <2>1. CASE k = 0
    <3> DEFINE f == [i \in 1 .. 1 |-> seqs[1]]
    <3>1. f \in [1 .. k + 1 -> Seq(S)]
      BY <1>1, <2>1
    <3>2. Flattens(f, seqs, k + 1)
      BY <1>1, <2>1 DEF Flattens
    <3> QED
      BY <3>1, <3>2
  <2>2. CASE k # 0
    <3>1. k \in 1 .. n
      BY <1>1, <2>2
    <3>2. PICK g \in [1 .. k -> Seq(S)] : Flattens(g, seqs, k)
      BY <1>2, <3>1
    <3> DEFINE f == [i \in 1 .. k + 1 |-> IF i <= k THEN g[i] ELSE g[k] \o seqs[k + 1]]
    <3>3. g[k] \o seqs[k + 1] \in Seq(S)
      <4>1. g[k] \in Seq(S) /\ seqs[k + 1] \in Seq(S)
        BY <1>1, <3>1
      <4> QED
        BY <4>1, ConcatProperties
    <3>4. f \in [1 .. k + 1 -> Seq(S)]
      BY <3>1, <3>3
    <3>5. \A i \in 1 .. k + 1 : f[i] = IF i = 1 THEN seqs[i] ELSE f[i - 1] \o seqs[i]
      <4> TAKE i \in 1 .. k + 1
      <4>1. CASE i = k + 1
        BY <2>2, <4>1
      <4>2. CASE i <= k
        <5>1. g[i] = IF i = 1 THEN seqs[i] ELSE g[i - 1] \o seqs[i]
          <6>1. i \in 1 .. k
            BY <4>2
          <6> QED
            BY <3>2, <6>1 DEF Flattens
        <5>2. f[i] = g[i] /\ (i # 1 => f[i - 1] = g[i - 1])
          BY <4>2
        <5> QED
          BY <5>1, <5>2
      <4> QED
        BY <4>1, <4>2
    <3>6. Flattens(f, seqs, k + 1)
      BY <3>5 DEF Flattens
    <3> QED
      BY <3>4, <3>6
  <2> QED
    BY <2>1, <2>2
<1>3. K = Nat
  <2>1. Extends(0)
    OBVIOUS
  <2> HIDE DEF Extends
  <2>2. K \in SUBSET Nat /\ 0 \in K /\ \A k \in K : k + 1 \in K
    BY <1>2, <2>1
  <2> QED
    BY <2>2, NatSetInduction
<1>4. Extends(n)
  <2> HIDE DEF Extends
  <2> QED
    BY <1>1, <1>3
<1> QED
  BY <1>1, <1>4

\* FlattenSeq is the last value of such a function.
LEMMA FlattenLast ==
  ASSUME NEW S, NEW seqs \in Seq(Seq(S)), seqs # <<>>,
         NEW f \in [1 .. Len(seqs) -> Seq(S)], Flattens(f, seqs, Len(seqs))
  PROVE  FlattenSeq(seqs) = f[Len(seqs)]
<1> DEFINE n == Len(seqs)
           Appends(g) == g = [i \in 1 .. n |-> IF i = 1 THEN seqs[i] ELSE g[i - 1] \o seqs[i]]
           flatten == CHOOSE g : Appends(g)
           Agree(k) == k \in 1 .. n => flatten[k] = f[k]
           K == {k \in Nat : Agree(k)}
<1>1. n \in Nat \ {0}
  OBVIOUS
<1>2. Appends(f)
  BY DEF Flattens
<1>3. Appends(flatten)
  BY <1>2
<1>4. FlattenSeq(seqs) = flatten[n]
  BY <1>1 DEF FlattenSeq
<1> HIDE DEF flatten
<1>5. ASSUME NEW k \in Nat, Agree(k) PROVE Agree(k + 1)
  <2> SUFFICES ASSUME k + 1 \in 1 .. n PROVE flatten[k + 1] = f[k + 1]
    OBVIOUS
  <2>1. ASSUME NEW g, Appends(g)
        PROVE  g[k + 1] = IF k = 0 THEN seqs[k + 1] ELSE g[k] \o seqs[k + 1]
    <3>1. k + 1 \in 1 .. n /\ k + 1 - 1 = k /\ (k + 1 = 1 <=> k = 0)
      OBVIOUS
    <3>2. \A i \in 1 .. n : g[i] = IF i = 1 THEN seqs[i] ELSE g[i - 1] \o seqs[i]
      BY <2>1, Zenon
    <3> HIDE DEF n, Appends
    <3> QED
      BY <3>1, <3>2
  <2>2. k # 0 => flatten[k] = f[k]
    BY <1>1, <1>5
  <2> HIDE DEF Appends
  <2> QED
    BY <1>2, <1>3, <2>1, <2>2
<1>6. K = Nat
  <2>1. Agree(0)
    OBVIOUS
  <2> HIDE DEF Agree
  <2>2. K \in SUBSET Nat /\ 0 \in K /\ \A k \in K : k + 1 \in K
    BY <1>5, <2>1
  <2> QED
    BY <2>2, NatSetInduction
<1> QED
  <2>1. Agree(n)
    <3> HIDE DEF Agree
    <3> QED
      BY <1>1, <1>6
  <2> QED
    BY <1>1, <1>4, <2>1

\* Concatenation is associative; as an operator, which the provers do not open
\* unless they are told to.
IsAssociative(S) == \A s, t, u \in Seq(S) : s \o (t \o u) = (s \o t) \o u

LEMMA Associative ==
  ASSUME NEW S
  PROVE  IsAssociative(S)
<1> SUFFICES ASSUME NEW s \in Seq(S), NEW t \in Seq(S), NEW u \in Seq(S)
             PROVE  s \o (t \o u) = (s \o t) \o u
  BY DEF IsAssociative
<1> QED
  BY ConcatAssociative

\* The first sequence comes first.
LEMMA FlattenCons ==
  ASSUME NEW S, NEW seqs \in Seq(Seq(S)), seqs # <<>>
  PROVE  /\ FlattenSeq(seqs) = Head(seqs) \o FlattenSeq(Tail(seqs))
         /\ FlattenSeq(seqs) \in Seq(S)
<1> DEFINE n == Len(seqs)
           rest == Tail(seqs)
           first == Head(seqs)
<1>0. IsAssociative(S)
  BY Associative
<1>1. /\ n \in Nat \ {0} /\ first = seqs[1] /\ \A i \in 1 .. n : seqs[i] \in Seq(S)
      /\ rest \in Seq(Seq(S)) /\ Len(rest) = n - 1
      /\ \A i \in 1 .. n - 1 : rest[i] = seqs[i + 1]
  OBVIOUS
<1>2. first \in Seq(S)
  BY <1>1
<1> HIDE DEF n, rest, first
<1>3. CASE n = 1
  <2>1. PICK f \in [1 .. n -> Seq(S)] : Flattens(f, seqs, n)
    BY FlattenExists DEF n
  <2>2. FlattenSeq(seqs) = f[1] /\ f[1] = seqs[1]
    BY <1>3, <2>1, FlattenLast DEF n, Flattens
  <2>3. rest = <<>> /\ FlattenSeq(rest) = <<>>
    BY <1>1, <1>3 DEF FlattenSeq
  <2> QED
    BY <1>1, <1>2, <2>2, <2>3, ConcatEmptySeq DEF first, rest
<1>4. CASE n # 1
  <2>1. rest # <<>> /\ Len(rest) \in Nat \ {0}
    BY <1>1, <1>4
  <2>2. PICK f \in [1 .. n - 1 -> Seq(S)] : Flattens(f, rest, n - 1)
    <3>1. rest \in Seq(Seq(S)) /\ Len(rest) = n - 1
      BY <1>1
    <3> QED
      BY <2>1, <3>1, FlattenExists
  <2>3. FlattenSeq(rest) = f[n - 1]
    BY <1>1, <2>1, <2>2, FlattenLast
  <2> DEFINE h == [i \in 1 .. n |-> IF i = 1 THEN first ELSE first \o f[i - 1]]
  <2>4. \A i \in 1 .. n : h[i] \in Seq(S)
    <3> TAKE i \in 1 .. n
    <3>1. i # 1 => f[i - 1] \in Seq(S)
      BY <1>1
    <3> QED
      BY <1>2, <3>1, ConcatProperties
  <2>5. h \in [1 .. n -> Seq(S)]
    BY <2>4
  <2>6. \A i \in 1 .. n : h[i] = IF i = 1 THEN seqs[i] ELSE h[i - 1] \o seqs[i]
    <3> TAKE i \in 1 .. n
    <3>1. CASE i = 1
      BY <1>1, <3>1
    <3>2. CASE i = 2
      <4>1. f[1] = rest[1] /\ rest[1] = seqs[2]
        <5>1. 1 \in 1 .. n - 1
          BY <1>1, <1>4
        <5>2. rest[1] = seqs[1 + 1]
          BY <1>1, <5>1
        <5>3. f[1] = IF 1 = 1 THEN rest[1] ELSE f[1 - 1] \o rest[1]
          BY <2>2, <5>1 DEF Flattens
        <5> QED
          BY <5>2, <5>3
      <4>2. h[2] = first \o f[1] /\ h[1] = first
        <5>1. 1 \in 1 .. n /\ 2 \in 1 .. n
          BY <1>1, <3>2
        <5>2. h[1] = IF 1 = 1 THEN first ELSE first \o f[1 - 1]
          BY <5>1
        <5>3. h[2] = IF 2 = 1 THEN first ELSE first \o f[2 - 1]
          BY <5>1
        <5> HIDE DEF h
        <5> QED
          BY <5>2, <5>3
      <4>3. i # 1 /\ i - 1 = 1
        BY <3>2
      <4> HIDE DEF h
      <4> QED
        BY <3>2, <4>1, <4>2, <4>3
    <3>3. CASE i > 2
      <4>1. i \in Nat /\ i - 1 \in 1 .. n - 1 /\ i - 1 # 1 /\ i - 2 \in 1 .. n - 1 /\ i - 1 \in 1 .. n
        BY <1>1, <3>3
      <4>2. f[i - 1] = f[i - 1 - 1] \o rest[i - 1]
        BY <2>2, <4>1 DEF Flattens
      <4>3. f[i - 1] = f[i - 2] \o seqs[i]
        <5>1. i - 1 - 1 = i - 2 /\ rest[i - 1] = seqs[i - 1 + 1] /\ i - 1 + 1 = i
          BY <1>1, <4>1
        <5> QED
          BY <4>2, <5>1
      <4>4. h[i] = first \o f[i - 1]
        BY <3>3
      <4>5. h[i - 1] = first \o f[i - 2]
        <5>1. i - 1 - 1 = i - 2
          BY <4>1
        <5> QED
          BY <4>1, <5>1
      <4>6. f[i - 2] \in Seq(S) /\ seqs[i] \in Seq(S)
        BY <1>1, <4>1
      <4> HIDE DEF h
      <4>7. first \o (f[i - 2] \o seqs[i]) = (first \o f[i - 2]) \o seqs[i]
        <5> DEFINE a == f[i - 2]
                   b == seqs[i]
        <5>1. a \in Seq(S) /\ b \in Seq(S)
          BY <4>6
        <5> HIDE DEF a, b
        <5>2. first \o (a \o b) = (first \o a) \o b
          BY <1>0, <1>2, <5>1, Zenon DEF IsAssociative
        <5> QED
          BY <5>2 DEF a, b
      <4>8. i # 1
        BY <3>3
      <4> HIDE DEF h
      <4> QED
        BY <4>3, <4>4, <4>5, <4>7, <4>8, Zenon
    <3> QED
      BY <3>1, <3>2, <3>3
  <2>7. Flattens(h, seqs, n)
    BY <2>6 DEF Flattens
  <2>8. FlattenSeq(seqs) = h[n]
    <3> HIDE DEF h
    <3> QED
      BY <2>5, <2>7, FlattenLast DEF n
  <2>9. h[n] = first \o f[n - 1] /\ h[n] \in Seq(S)
    <3>1. n \in 1 .. n /\ n # 1
      BY <1>1, <1>4
    <3>2. h[n] \in Seq(S)
      BY <2>4, <3>1
    <3> QED
      BY <3>1, <3>2
  <2> QED
    BY <2>3, <2>8, <2>9 DEF first, rest
<1> QED
  BY <1>3, <1>4

-----------------------------------------------------------------------------
(* What is on the wire.                                                    *)

\* The bytes are the encoding of the symbols; half: but for the ESC of the first.
Encodes(bytes, symbols, half) ==
  /\ symbols \in Seq(Byte)
  /\ half => symbols # <<>> /\ symbols[1] \in {SYN, ESC}
  /\ bytes = IF half THEN Tail(Escaped(symbols)) ELSE Escaped(symbols)

\* What a symbol looks like on the wire.
LEMMA EscapeTyped ==
  ASSUME NEW symbol \in Byte
  PROVE  /\ Escape(symbol) \in Seq(Byte) /\ Escape(symbol) # <<>>
         /\ symbol \notin {SYN, ESC} => Escape(symbol) = <<symbol>>
         /\ symbol = ESC => Escape(symbol) = <<ESC, ESCAPED_ESC>>
         /\ symbol = SYN => Escape(symbol) = <<ESC, ESCAPED_SYN>>
<1>1. SYN # ESC /\ ESC \in Byte /\ ESCAPED_ESC \in Byte /\ ESCAPED_SYN \in Byte
  BY DEF Byte, SYN, ESC, ESCAPED_ESC, ESCAPED_SYN
<1>2. CASE symbol = ESC
  BY <1>1, <1>2 DEF Escape
<1>3. CASE symbol = SYN
  BY <1>1, <1>3 DEF Escape
<1>4. CASE symbol \notin {SYN, ESC}
  BY <1>4 DEF Escape
<1> QED
  BY <1>2, <1>3, <1>4

\* Nothing is encoded as nothing.
LEMMA EscapedEmpty == Escaped(<<>>) = <<>>
<1> DEFINE seqs == [i \in DOMAIN <<>> |-> Escape(<<>>[i])]
<1>1. DOMAIN <<>> = 1 .. 0
  OBVIOUS
<1>2. seqs = <<>>
  BY <1>1
<1>3. FlattenSeq(<<>>) = <<>>
  BY DEF FlattenSeq
<1> QED
  BY <1>2, <1>3 DEF Escaped

\* The first symbol comes first.
LEMMA EscapedCons ==
  ASSUME NEW symbols \in Seq(Byte), symbols # <<>>
  PROVE  /\ Escaped(symbols) = Escape(symbols[1]) \o Escaped(Tail(symbols))
         /\ Escaped(symbols) \in Seq(Byte)
<1> DEFINE seqs == [i \in DOMAIN symbols |-> Escape(symbols[i])]
           rest == [i \in DOMAIN Tail(symbols) |-> Escape(Tail(symbols)[i])]
<1>1. /\ DOMAIN symbols = 1 .. Len(symbols) /\ Len(symbols) \in Nat \ {0}
      /\ Tail(symbols) \in Seq(Byte) /\ Len(Tail(symbols)) = Len(symbols) - 1
      /\ DOMAIN Tail(symbols) = 1 .. Len(symbols) - 1
      /\ \A i \in 1 .. Len(symbols) : symbols[i] \in Byte
      /\ \A i \in 1 .. Len(symbols) - 1 : Tail(symbols)[i] = symbols[i + 1]
  BY LenProperties
<1>2. \A i \in 1 .. Len(symbols) : seqs[i] = Escape(symbols[i]) /\ seqs[i] \in Seq(Byte)
  BY <1>1, EscapeTyped
<1>3. seqs \in Seq(Seq(Byte)) /\ Len(seqs) = Len(symbols) /\ seqs # <<>>
  <2>1. seqs \in [1 .. Len(symbols) -> Seq(Byte)]
    BY <1>1, <1>2
  <2> HIDE DEF seqs
  <2> QED
    BY <1>1, <2>1
<1>4. \A i \in 1 .. Len(symbols) - 1 : rest[i] = seqs[i + 1] /\ rest[i] \in Seq(Byte)
  BY <1>1, <1>2
<1>5. rest \in Seq(Seq(Byte)) /\ Len(rest) = Len(symbols) - 1
  <2>1. rest \in [1 .. Len(symbols) - 1 -> Seq(Byte)]
    BY <1>1, <1>4
  <2> HIDE DEF rest
  <2>2. Len(symbols) - 1 \in Nat
    BY <1>1
  <2> QED
    BY <2>1, <2>2
<1>6. rest = Tail(seqs)
  <2> HIDE DEF rest, seqs
  <2>1. /\ Tail(seqs) \in Seq(Seq(Byte)) /\ Len(Tail(seqs)) = Len(symbols) - 1
        /\ \A i \in 1 .. Len(symbols) - 1 : Tail(seqs)[i] = seqs[i + 1]
    BY <1>1, <1>3
  <2>2. Len(rest) = Len(Tail(seqs)) /\ \A i \in 1 .. Len(rest) : rest[i] = Tail(seqs)[i]
    BY <1>4, <1>5, <2>1
  <2> QED
    BY <1>5, <2>1, <2>2, SeqEqual
<1>7. Head(seqs) = Escape(symbols[1])
  <2>1. seqs[1] = Escape(symbols[1])
    BY <1>1, <1>2
  <2> HIDE DEF seqs
  <2> QED
    BY <1>3, <2>1
<1>8. Escaped(symbols) = FlattenSeq(seqs) /\ Escaped(Tail(symbols)) = FlattenSeq(rest)
  BY DEF Escaped
<1> HIDE DEF seqs, rest
<1> QED
  BY <1>3, <1>6, <1>7, <1>8, FlattenCons

\* Encoding keeps bytes, and nothing is encoded as nothing.
LEMMA EscapedTyped ==
  ASSUME NEW symbols \in Seq(Byte)
  PROVE  /\ Escaped(symbols) \in Seq(Byte)
         /\ Escaped(symbols) = <<>> <=> symbols = <<>>
<1>1. CASE symbols = <<>>
  BY <1>1, EscapedEmpty
<1>2. CASE symbols # <<>>
  <2>1. symbols[1] \in Byte /\ Tail(symbols) \in Seq(Byte)
    BY <1>2
  <2>2. Escape(symbols[1]) # <<>> /\ Escape(symbols[1]) \in Seq(Byte)
    BY <2>1, EscapeTyped
  <2>3. Escaped(symbols) # <<>>
    <3>1. CASE Tail(symbols) = <<>>
      BY <1>2, <2>2, <3>1, EscapedCons, EscapedEmpty, ConcatEmptySeq
    <3>2. CASE Tail(symbols) # <<>>
      BY <1>2, <2>1, <2>2, <3>2, EscapedCons, ConcatEqualIffEmpty
    <3> QED
      BY <3>1, <3>2
  <2> QED
    BY <1>2, <2>3, EscapedCons
<1> QED
  BY <1>1, <1>2

\* Taking the first byte from a sequence that begins with it.
LEMMA TakeFirst ==
  ASSUME NEW rest \in Seq(Byte), NEW x \in Byte, NEW y \in Byte
  PROVE  /\ <<x>> \o rest \in Seq(Byte) /\ <<x>> \o rest # <<>>
         /\ Head(<<x>> \o rest) = x /\ Tail(<<x>> \o rest) = rest
         /\ <<x, y>> \o rest \in Seq(Byte) /\ <<x, y>> \o rest # <<>>
         /\ Head(<<x, y>> \o rest) = x /\ Tail(<<x, y>> \o rest) = <<y>> \o rest
<1> DEFINE s == <<x>> \o rest
           u == <<y>> \o rest
           t == <<x, y>> \o rest
<1>0. <<x>> \in Seq(Byte) /\ <<y>> \in Seq(Byte) /\ <<x, y>> \in Seq(Byte)
  OBVIOUS
<1>1. /\ s \in Seq(Byte) /\ Len(s) = 1 + Len(rest)
      /\ s[1] = x /\ \A i \in 1 .. Len(rest) : s[i + 1] = rest[i]
  BY <1>0, ConcatProperties
<1>2. /\ u \in Seq(Byte) /\ Len(u) = 1 + Len(rest)
      /\ u[1] = y /\ \A i \in 1 .. Len(rest) : u[i + 1] = rest[i]
  BY <1>0, ConcatProperties
<1>3. /\ t \in Seq(Byte) /\ Len(t) = 2 + Len(rest)
      /\ t[1] = x /\ t[2] = y /\ \A i \in 1 .. Len(rest) : t[i + 2] = rest[i]
  BY <1>0, ConcatProperties
<1> HIDE DEF s, t, u
<1>4. s # <<>> /\ Head(s) = x
  BY <1>1
<1>5. Tail(s) = rest
  <2>1. Tail(s) \in Seq(Byte) /\ Len(Tail(s)) = Len(rest)
    BY <1>1, <1>4, HeadTailProperties
  <2>2. \A i \in 1 .. Len(rest) : Tail(s)[i] = rest[i]
    BY <1>1, <1>4, <2>1, HeadTailProperties
  <2> QED
    BY <2>1, <2>2, SeqEqual
<1>6. t # <<>> /\ Head(t) = x
  BY <1>3
<1>7. Tail(t) = u
  <2>1. Tail(t) \in Seq(Byte) /\ Len(Tail(t)) = Len(u)
    BY <1>2, <1>3, <1>6, HeadTailProperties
  <2>2. \A i \in 1 .. Len(u) : Tail(t)[i] = u[i]
    <3> TAKE i \in 1 .. Len(u)
    <3>1. Tail(t)[i] = t[i + 1]
      BY <1>2, <1>3, <1>6, <2>1, HeadTailProperties
    <3>2. CASE i = 1
      BY <1>2, <1>3, <3>1, <3>2
    <3>3. CASE i # 1
      <4>1. i - 1 \in 1 .. Len(rest) /\ (i - 1) + 2 = i + 1 /\ (i - 1) + 1 = i
        BY <1>2, <3>3
      <4>2. t[i + 1] = rest[i - 1] /\ u[i] = rest[i - 1]
        BY <1>2, <1>3, <4>1
      <4> QED
        BY <3>1, <4>2
    <3> QED
      BY <3>2, <3>3
  <2> QED
    BY <1>2, <2>1, <2>2, SeqEqual
<1> QED
  BY <1>1, <1>3, <1>4, <1>5, <1>6, <1>7 DEF s, t, u

\* One byte of an encoding: the first half of an escape sequence, the second
\* half, or a symbol of its own.
LEMMA EncodesStep ==
  ASSUME NEW bytes, NEW symbols, NEW half \in BOOLEAN,
         Encodes(bytes, symbols, half), bytes # <<>>
  PROVE  /\ symbols # <<>> /\ symbols[1] \in Byte /\ Tail(symbols) \in Seq(Byte)
         /\ bytes \in Seq(Byte)
         /\ Head(bytes) \in Byte \ {SYN}
         /\ half => /\ Head(bytes) = IF symbols[1] = ESC THEN ESCAPED_ESC ELSE ESCAPED_SYN
                    /\ symbols[1] \in {SYN, ESC}
                    /\ Tail(bytes) = Escaped(Tail(symbols))
         /\ ~half /\ symbols[1] \in {SYN, ESC} =>
              /\ Head(bytes) = ESC
              /\ Tail(bytes) # <<>> /\ Encodes(Tail(bytes), symbols, TRUE)
         /\ ~half /\ symbols[1] \notin {SYN, ESC} =>
              /\ Head(bytes) = symbols[1]
              /\ Tail(bytes) = Escaped(Tail(symbols))
<1> DEFINE rest == Escaped(Tail(symbols))
           second == IF symbols[1] = ESC THEN ESCAPED_ESC ELSE ESCAPED_SYN
<1>1. symbols \in Seq(Byte) /\ symbols # <<>>
  BY EscapedTyped DEF Encodes
<1>2. symbols[1] \in Byte /\ Tail(symbols) \in Seq(Byte) /\ rest \in Seq(Byte)
  <2>1. symbols[1] \in Byte /\ Tail(symbols) \in Seq(Byte)
    BY <1>1
  <2> QED
    BY <2>1, EscapedTyped
<1>3. Escaped(symbols) = Escape(symbols[1]) \o rest /\ Escaped(symbols) \in Seq(Byte)
  BY <1>1, EscapedCons
<1>4. /\ ESC \in Byte \ {SYN} /\ second \in Byte \ {SYN}
      /\ symbols[1] \in {SYN, ESC} => Escape(symbols[1]) = <<ESC, second>>
      /\ symbols[1] \notin {SYN, ESC} => Escape(symbols[1]) = <<symbols[1]>>
  <2>1. /\ ESC \in Byte \ {SYN} /\ second \in Byte \ {SYN}
        /\ ESC # SYN
    BY DEF Byte, SYN, ESC, ESCAPED_ESC, ESCAPED_SYN
  <2> DEFINE first == symbols[1]
  <2>2. first \in Byte
    BY <1>2
  <2>3. second = IF first = ESC THEN ESCAPED_ESC ELSE ESCAPED_SYN
    OBVIOUS
  <2> HIDE DEF first, second
  <2>4. /\ first \in {SYN, ESC} => Escape(first) = <<ESC, second>>
        /\ first \notin {SYN, ESC} => Escape(first) = <<first>>
    BY <2>1, <2>2, <2>3, EscapeTyped
  <2> QED
    BY <2>1, <2>4 DEF first
<1> HIDE DEF rest, second
<1>5. CASE half
  <2>1. symbols[1] \in {SYN, ESC} /\ bytes = Tail(Escaped(symbols))
    BY <1>5 DEF Encodes
  <2>2. bytes = <<second>> \o rest
    <3>1. Escaped(symbols) = <<ESC, second>> \o rest
      BY <1>3, <1>4, <2>1
    <3>2. Tail(<<ESC, second>> \o rest) = <<second>> \o rest
      BY <1>2, <1>4, TakeFirst
    <3> QED
      BY <2>1, <3>1, <3>2
  <2>3. Head(bytes) = second /\ Tail(bytes) = rest /\ bytes \in Seq(Byte)
    BY <1>2, <1>4, <2>2, TakeFirst
  <2> QED
    BY <1>1, <1>2, <1>4, <1>5, <2>1, <2>3 DEF second, rest
<1>6. CASE ~half /\ symbols[1] \in {SYN, ESC}
  <2>1. bytes = <<ESC, second>> \o rest
    BY <1>3, <1>4, <1>6 DEF Encodes
  <2>2. Head(bytes) = ESC /\ Tail(bytes) = <<second>> \o rest
    BY <1>2, <1>4, <2>1, TakeFirst
  <2>3. Tail(bytes) # <<>>
    <3>1. <<second>> \o rest # <<>>
      BY <1>2, <1>4, TakeFirst
    <3> QED
      BY <2>2, <3>1, Zenon
  <2>4. Encodes(Tail(bytes), symbols, TRUE)
    BY <1>1, <1>6 DEF Encodes
  <2> QED
    BY <1>1, <1>2, <1>3, <1>4, <1>6, <2>2, <2>3, <2>4 DEF Encodes
<1>7. CASE ~half /\ symbols[1] \notin {SYN, ESC}
  <2>1. bytes = <<symbols[1]>> \o rest
    BY <1>3, <1>4, <1>7 DEF Encodes
  <2>2. Head(bytes) = symbols[1] /\ Tail(bytes) = rest
    BY <1>2, <2>1, TakeFirst
  <2> QED
    BY <1>1, <1>2, <1>3, <1>7, <2>2 DEF rest, Encodes
<1> QED
  BY <1>5, <1>6, <1>7

\* An encoding ends with its symbols.
LEMMA EncodesEmpty ==
  ASSUME NEW bytes, NEW symbols, NEW half \in BOOLEAN, Encodes(bytes, symbols, half)
  PROVE  bytes = <<>> <=> symbols = <<>> 
<1>1. symbols \in Seq(Byte)
  BY DEF Encodes
<1>2. CASE ~half
  BY <1>1, <1>2, EscapedTyped DEF Encodes
<1>3. CASE half
  <2>1. symbols # <<>> /\ symbols[1] \in {SYN, ESC}
    BY <1>3 DEF Encodes
  <2>2. Encodes(Escaped(symbols), symbols, FALSE) /\ Escaped(symbols) # <<>>
    BY <1>1, <2>1, EscapedTyped DEF Encodes
  <2>3. Tail(Escaped(symbols)) # <<>>
    BY <2>1, <2>2, EncodesStep
  <2> QED
    BY <1>3, <2>1, <2>3 DEF Encodes
<1> QED
  BY <1>2, <1>3

=============================================================================
