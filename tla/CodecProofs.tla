---------------------------- MODULE CodecProofs -----------------------------
(***************************************************************************)
(* What is sent arrives, and what has been corrupted is refused, for all   *)
(* data, lengths and corruptions, in ebus and in zebus; and the CRC of     *)
(* either is the remainder of a polynomial division.                       *)
(*                                                                         *)
(* CodecInv relates the sender to the receiver at every byte in between:   *)
(* what is stored, what is rolled and what is on the wire make up the      *)
(* whole.                                                                  *)
(***************************************************************************)
EXTENDS Codec, TelegramProofs

-----------------------------------------------------------------------------
(* Recursion.                                                              *)

\* What a loop computes: f[i] is its state after i rounds.
IsRun(f, base, step, n) ==
  f[0] = base /\ \A i \in 1 .. n : f[i] = step[<<i, f[i - 1]>>]

\* Every loop whose rounds keep its state in S can be run.
LEMMA RunExists ==
  ASSUME NEW S, NEW n \in Nat, NEW base \in S, NEW step,
         \A i \in 1 .. n, s \in S : step[<<i, s>>] \in S
  PROVE  \E f \in [0 .. n -> S] : IsRun(f, base, step, n)
<1> DEFINE Runs(k) == k \in 0 .. n => \E f \in [0 .. k -> S] : IsRun(f, base, step, k)
           K == {k \in Nat : Runs(k)}
<1>1. Runs(0)
  <2>1. [i \in 0 .. 0 |-> base] \in [0 .. 0 -> S] /\ IsRun([i \in 0 .. 0 |-> base], base, step, 0)
    BY DEF IsRun
  <2> QED
    BY <2>1
<1>2. ASSUME NEW k \in Nat, Runs(k) PROVE Runs(k + 1)
  <2> SUFFICES ASSUME k + 1 \in 0 .. n
               PROVE  \E f \in [0 .. k + 1 -> S] : IsRun(f, base, step, k + 1)
    OBVIOUS
  <2>1. PICK g \in [0 .. k -> S] : IsRun(g, base, step, k)
    BY <1>2
  <2> DEFINE f == [i \in 0 .. k + 1 |-> IF i <= k THEN g[i] ELSE step[<<k + 1, g[k]>>]]
  <2>2. step[<<k + 1, g[k]>>] \in S
    BY <2>1
  <2>3. f \in [0 .. k + 1 -> S]
    BY <2>1, <2>2
  <2>4. f[0] = base
    BY <2>1 DEF IsRun
  <2>5. \A i \in 1 .. k + 1 : f[i] = step[<<i, f[i - 1]>>]
    <3> TAKE i \in 1 .. k + 1
    <3>1. CASE i = k + 1
      BY <3>1
    <3>2. CASE i <= k
      <4>1. g[i] = step[<<i, g[i - 1]>>]
        BY <2>1, <3>2 DEF IsRun
      <4>2. f[i] = g[i] /\ f[i - 1] = g[i - 1]
        BY <3>2
      <4> QED
        BY <4>1, <4>2
    <3> QED
      BY <3>1, <3>2
  <2>6. IsRun(f, base, step, k + 1)
    BY <2>4, <2>5 DEF IsRun
  <2> QED
    BY <2>3, <2>6
<1>3. K = Nat
  <2> HIDE DEF Runs
  <2>1. K \in SUBSET Nat /\ 0 \in K /\ \A k \in K : k + 1 \in K
    BY <1>1, <1>2
  <2> QED
    BY <2>1, NatSetInduction
<1>4. Runs(n)
  <2> HIDE DEF Runs
  <2> QED
    BY <1>3
<1> QED
  BY <1>4

\* Induction along a run.
LEMMA AlongRun ==
  ASSUME NEW n \in Nat, NEW S, 0 \in S, \A i \in 1 .. n : i - 1 \in S => i \in S
  PROVE  \A i \in 0 .. n : i \in S
<1> DEFINE K == {k \in Nat : k \in 0 .. n => k \in S}
<1>1. ASSUME NEW k \in K PROVE k + 1 \in K
  <2> SUFFICES ASSUME k + 1 \in 0 .. n PROVE k + 1 \in S
    OBVIOUS
  <2>1. k + 1 \in 1 .. n /\ (k + 1) - 1 = k /\ k \in S
    OBVIOUS
  <2> QED
    BY <2>1
<1>2. K = Nat
  <2>1. K \in SUBSET Nat /\ 0 \in K
    OBVIOUS
  <2> HIDE DEF K
  <2> QED
    BY <1>1, <2>1, NatSetInduction
<1> QED
  BY <1>2

\* One sequence after the other, place by place.
LEMMA ConcatIs ==
  ASSUME NEW s \in Seq(Byte), NEW t \in Seq(Byte)
  PROVE  /\ s \o t \in Seq(Byte) /\ Len(s \o t) = Len(s) + Len(t)
         /\ \A i \in 1 .. Len(s) : (s \o t)[i] = s[i]
         /\ \A i \in 1 .. Len(t) : (s \o t)[Len(s) + i] = t[i]
<1> DEFINE u == s \o t
           m == Len(s)
           n == Len(t)
<1>1. /\ u \in Seq(Byte) /\ Len(u) = m + n /\ m \in Nat /\ n \in Nat
      /\ \A i \in 1 .. m + n : u[i] = IF i <= m THEN s[i] ELSE t[i - m]
  BY ConcatProperties
<1> HIDE DEF u, m, n
<1>2. \A i \in 1 .. m : i \in 1 .. m + n /\ i <= m
  BY <1>1
<1>3. \A i \in 1 .. n : m + i \in 1 .. m + n /\ ~(m + i <= m) /\ (m + i) - m = i
  BY <1>1
<1>4. /\ \A i \in 1 .. m : u[i] = s[i]
      /\ \A i \in 1 .. n : u[m + i] = t[i]
  BY <1>1, <1>2, <1>3
<1> QED
  BY <1>1, <1>4 DEF u, m, n

\* A slice of a sequence, place by place.
LEMMA SliceIs ==
  ASSUME NEW s \in Seq(Byte), NEW a \in Nat, NEW n \in Nat, a + n <= Len(s)
  PROVE  LET t == SubSeq(s, a + 1, a + n)
         IN  t \in Seq(Byte) /\ Len(t) = n /\ \A i \in 1 .. n : t[i] = s[a + i]
<1> DEFINE t == SubSeq(s, a + 1, a + n)
<1>1. \A i \in a + 1 .. a + n : s[i] \in Byte
  BY LenProperties
<1>2. /\ t \in Seq(Byte)
      /\ Len(t) = IF a + 1 <= a + n THEN (a + n) - (a + 1) + 1 ELSE 0
      /\ \A i \in 1 .. (a + n) - (a + 1) + 1 : t[i] = s[(a + 1) + i - 1]
  <2>1. a + 1 \in Int /\ a + n \in Int
    OBVIOUS
  <2> QED
    BY <1>1, <2>1, SubSeqProperties
<1> HIDE DEF t
<1>3. (a + n) - (a + 1) + 1 = n /\ \A i \in 1 .. n : (a + 1) + i - 1 = a + i
  OBVIOUS
<1>4. Len(t) = n
  BY <1>2
<1>5. \A i \in 1 .. n : t[i] = s[a + i]
  BY <1>2, <1>3
<1> QED
  BY <1>2, <1>4, <1>5 DEF t

-----------------------------------------------------------------------------
(* Bits.                                                                   *)

\* The bits of a byte, written out.
LEMMA BitIs ==
  ASSUME NEW x \in Byte
  PROVE  /\ Bit(x, 0) = x % 2 /\ Bit(x, 1) = (x \div 2) % 2
         /\ Bit(x, 2) = (x \div 4) % 2 /\ Bit(x, 3) = (x \div 8) % 2
         /\ Bit(x, 4) = (x \div 16) % 2 /\ Bit(x, 5) = (x \div 32) % 2
         /\ Bit(x, 6) = (x \div 64) % 2 /\ Bit(x, 7) = (x \div 128) % 2
         /\ \A i \in 0 .. 7 : Bit(x, i) \in {0, 1}
<1>1. x \div 1 = x
  BY DEF Byte
<1>2. /\ Bit(x, 0) = x % 2 /\ Bit(x, 1) = (x \div 2) % 2
      /\ Bit(x, 2) = (x \div 4) % 2 /\ Bit(x, 3) = (x \div 8) % 2
      /\ Bit(x, 4) = (x \div 16) % 2 /\ Bit(x, 5) = (x \div 32) % 2
      /\ Bit(x, 6) = (x \div 64) % 2 /\ Bit(x, 7) = (x \div 128) % 2
  BY <1>1 DEF Bit, Weight
<1>3. \A i \in 0 .. 7 : Bit(x, i) \in {0, 1}
  <2> TAKE i \in 0 .. 7
  <2>1. i \in {0, 1, 2, 3, 4, 5, 6, 7}
    OBVIOUS
  <2> QED
    BY <1>2, <2>1 DEF Byte
<1> QED
  BY <1>2, <1>3

\* A byte is the sum of its bits.
LEMMA ByteOfBits ==
  ASSUME NEW x \in Byte
  PROVE  x = Bit(x, 0) + 2 * Bit(x, 1) + 4 * Bit(x, 2) + 8 * Bit(x, 3)
               + 16 * Bit(x, 4) + 32 * Bit(x, 5) + 64 * Bit(x, 6) + 128 * Bit(x, 7)
BY BitIs DEF Byte

\* Eight bits make a byte.
LEMMA BitsOfByte ==
  ASSUME NEW b0 \in {0, 1}, NEW b1 \in {0, 1}, NEW b2 \in {0, 1}, NEW b3 \in {0, 1},
         NEW b4 \in {0, 1}, NEW b5 \in {0, 1}, NEW b6 \in {0, 1}, NEW b7 \in {0, 1},
         NEW x, x = b0 + 2 * b1 + 4 * b2 + 8 * b3 + 16 * b4 + 32 * b5 + 64 * b6 + 128 * b7
  PROVE  /\ x \in Byte
         /\ Bit(x, 0) = b0 /\ Bit(x, 1) = b1 /\ Bit(x, 2) = b2 /\ Bit(x, 3) = b3
         /\ Bit(x, 4) = b4 /\ Bit(x, 5) = b5 /\ Bit(x, 6) = b6 /\ Bit(x, 7) = b7
<1>1. x \in Byte
  BY DEF Byte
<1>2. /\ x % 2 = b0 /\ (x \div 2) % 2 = b1
      /\ (x \div 4) % 2 = b2 /\ (x \div 8) % 2 = b3
      /\ (x \div 16) % 2 = b4 /\ (x \div 32) % 2 = b5
      /\ (x \div 64) % 2 = b6 /\ (x \div 128) % 2 = b7
  OBVIOUS
<1> QED
  BY <1>1, <1>2, BitIs

\* Bytes that agree in every bit are the same.
LEMMA SameBits ==
  ASSUME NEW x \in Byte, NEW y \in Byte, \A i \in 0 .. 7 : Bit(x, i) = Bit(y, i)
  PROVE  x = y
BY ByteOfBits

\* One bit shifted into the CRC: where a bit was shifted out, the bits of 0x9B
\* are inverted.
LEMMA ShiftInBits ==
  ASSUME NEW c \in Byte, NEW b \in {0, 1}
  PROVE  LET r == ShiftIn(c, b)
             t == Bit(c, 7)
         IN  /\ r \in Byte
             /\ Bit(r, 0) = (b + t) % 2 /\ Bit(r, 1) = (Bit(c, 0) + t) % 2
             /\ Bit(r, 2) = Bit(c, 1) /\ Bit(r, 3) = (Bit(c, 2) + t) % 2
             /\ Bit(r, 4) = (Bit(c, 3) + t) % 2 /\ Bit(r, 5) = Bit(c, 4)
             /\ Bit(r, 6) = Bit(c, 5) /\ Bit(r, 7) = (Bit(c, 6) + t) % 2
<1> DEFINE r == ShiftIn(c, b)
           t == Bit(c, 7)
           shifted == (c % 128) * 2 + b
<1>1. \A i \in 0 .. 7 : Bit(c, i) \in {0, 1}
  BY BitIs
<1>2. c >= 128 <=> t = 1
  BY BitIs DEF Byte
<1>3. c % 128 = Bit(c, 0) + 2 * Bit(c, 1) + 4 * Bit(c, 2) + 8 * Bit(c, 3)
                  + 16 * Bit(c, 4) + 32 * Bit(c, 5) + 64 * Bit(c, 6)
  BY <1>1, ByteOfBits
<1>4. /\ shifted \in Byte
      /\ Bit(shifted, 0) = b /\ Bit(shifted, 1) = Bit(c, 0) /\ Bit(shifted, 2) = Bit(c, 1)
      /\ Bit(shifted, 3) = Bit(c, 2) /\ Bit(shifted, 4) = Bit(c, 3)
      /\ Bit(shifted, 5) = Bit(c, 4) /\ Bit(shifted, 6) = Bit(c, 5)
      /\ Bit(shifted, 7) = Bit(c, 6)
  <2>1. shifted = b + 2 * Bit(c, 0) + 4 * Bit(c, 1) + 8 * Bit(c, 2) + 16 * Bit(c, 3)
                    + 32 * Bit(c, 4) + 64 * Bit(c, 5) + 128 * Bit(c, 6)
    BY <1>1, <1>3
  <2> HIDE DEF shifted
  <2> QED
    BY <1>1, <2>1, BitsOfByte
<1>5. /\ Bit(155, 0) = 1 /\ Bit(155, 1) = 1 /\ Bit(155, 2) = 0 /\ Bit(155, 3) = 1
      /\ Bit(155, 4) = 1 /\ Bit(155, 5) = 0 /\ Bit(155, 6) = 0 /\ Bit(155, 7) = 1
  BY BitIs DEF Byte
<1> HIDE DEF shifted
<1>6. CASE t = 1
  <2>1. r = xor(shifted, 155)
    BY <1>2, <1>6 DEF ShiftIn, shifted
  <2>2. r = ((b + 1) % 2) + 2 * ((Bit(c, 0) + 1) % 2) + 4 * Bit(c, 1)
              + 8 * ((Bit(c, 2) + 1) % 2) + 16 * ((Bit(c, 3) + 1) % 2)
              + 32 * Bit(c, 4) + 64 * Bit(c, 5) + 128 * ((Bit(c, 6) + 1) % 2)
    BY <1>1, <1>4, <1>5, <2>1 DEF xor
  <2> HIDE DEF r
  <2>3. /\ (b + 1) % 2 \in {0, 1} /\ (Bit(c, 0) + 1) % 2 \in {0, 1}
        /\ (Bit(c, 2) + 1) % 2 \in {0, 1} /\ (Bit(c, 3) + 1) % 2 \in {0, 1}
        /\ (Bit(c, 6) + 1) % 2 \in {0, 1}
    BY <1>1
  <2> QED
    BY <1>1, <1>6, <2>2, <2>3, BitsOfByte DEF r
<1>7. CASE t = 0
  <2>1. r = shifted
    BY <1>2, <1>7 DEF ShiftIn, shifted
  <2>2. /\ r \in Byte
        /\ Bit(r, 0) = b /\ Bit(r, 1) = Bit(c, 0) /\ Bit(r, 2) = Bit(c, 1)
        /\ Bit(r, 3) = Bit(c, 2) /\ Bit(r, 4) = Bit(c, 3) /\ Bit(r, 5) = Bit(c, 4)
        /\ Bit(r, 6) = Bit(c, 5) /\ Bit(r, 7) = Bit(c, 6)
    BY <1>4, <2>1
  <2>3. \A x \in {0, 1} : (x + t) % 2 = x
    BY <1>7
  <2>4. /\ (b + t) % 2 = b /\ (Bit(c, 0) + t) % 2 = Bit(c, 0)
        /\ (Bit(c, 2) + t) % 2 = Bit(c, 2) /\ (Bit(c, 3) + t) % 2 = Bit(c, 3)
        /\ (Bit(c, 6) + t) % 2 = Bit(c, 6)
    BY <1>1, <2>3
  <2> HIDE DEF r, t
  <2>5. /\ Bit(r, 0) = (b + t) % 2 /\ Bit(r, 1) = (Bit(c, 0) + t) % 2
        /\ Bit(r, 3) = (Bit(c, 2) + t) % 2 /\ Bit(r, 4) = (Bit(c, 3) + t) % 2
        /\ Bit(r, 7) = (Bit(c, 6) + t) % 2
    BY <2>2, <2>4
  <2> QED
    BY <2>2, <2>5 DEF r, t
<1> QED
  BY <1>1, <1>6, <1>7

-----------------------------------------------------------------------------
(* The CRC.                                                                *)

\* The states of the CRC while the bits of a byte are shifted in.
CalcRun(f, byte, c) ==
  /\ f \in [0 .. 8 -> Byte] /\ f[0] = c
  /\ \A i \in 1 .. 8 : f[i] = ShiftIn(f[i - 1], Bit(byte, 8 - i))

\* crc8_calc is the last of them.
LEMMA CalcRunExists ==
  ASSUME NEW byte \in Byte, NEW c \in Byte
  PROVE  \E f : CalcRun(f, byte, c) /\ crc8_calc(byte, c) = f[8]
<1> DEFINE Rec(g) == g = [i \in 0 .. 8 |-> IF i = 0 THEN c ELSE ShiftIn(g[i - 1], Bit(byte, 8 - i))]
           crc == CHOOSE g : Rec(g)
           step == [p \in (1 .. 8) \X Byte |-> ShiftIn(p[2], Bit(byte, 8 - p[1]))]
<1>1. \A i \in 1 .. 8, x \in Byte : ShiftIn(x, Bit(byte, 8 - i)) \in Byte
  <2> TAKE i \in 1 .. 8, x \in Byte
  <2>1. Bit(byte, 8 - i) \in {0, 1}
    BY BitIs
  <2> QED
    BY <2>1, ShiftInBits
<1>2. \A i \in 1 .. 8, x \in Byte : step[<<i, x>>] = ShiftIn(x, Bit(byte, 8 - i))
  OBVIOUS
<1>3. PICK f \in [0 .. 8 -> Byte] : IsRun(f, c, step, 8)
  <2>1. \A i \in 1 .. 8, x \in Byte : step[<<i, x>>] \in Byte
    BY <1>1, <1>2
  <2> HIDE DEF step
  <2> QED
    BY <2>1, RunExists
<1>4. Rec(f)
  <2>1. f[0] = c
    BY <1>3 DEF IsRun
  <2>2. \A i \in 1 .. 8 : f[i] = ShiftIn(f[i - 1], Bit(byte, 8 - i))
    <3> TAKE i \in 1 .. 8
    <3>1. f[i - 1] \in Byte
      BY <1>3
    <3>2. f[i] = step[<<i, f[i - 1]>>]
      BY <1>3 DEF IsRun
    <3> QED
      BY <1>2, <3>1, <3>2
  <2> QED
    BY <1>3, <2>1, <2>2
<1>5. Rec(crc)
  BY <1>4
<1>6. crc8_calc(byte, c) = crc[8]
  BY DEF crc8_calc
<1> HIDE DEF crc
<1>7. crc[0] = c /\ \A i \in 1 .. 8 : crc[i] = ShiftIn(crc[i - 1], Bit(byte, 8 - i))
  BY <1>5
<1>8. \A i \in 0 .. 8 : crc[i] \in Byte
  <2> DEFINE S == {i \in 0 .. 8 : crc[i] \in Byte}
  <2>1. 0 \in S
    BY <1>7
  <2>2. \A i \in 1 .. 8 : i - 1 \in S => i \in S
    BY <1>1, <1>7
  <2>3. \A i \in 0 .. 8 : i \in S
    <3> HIDE DEF S
    <3> QED
      BY <2>1, <2>2, AlongRun
  <2> QED
    BY <2>3
<1>9. crc \in [0 .. 8 -> Byte]
  BY <1>5, <1>8
<1> QED
  BY <1>6, <1>7, <1>9 DEF CalcRun

\* One round: which bits of two CRCs agree after it.
LEMMA CalcRunBits ==
  ASSUME NEW byte \in Byte, NEW c \in Byte, NEW f, CalcRun(f, byte, c), NEW i \in 1 .. 8
  PROVE  /\ f[i] \in Byte /\ f[i - 1] \in Byte /\ Bit(byte, 8 - i) \in {0, 1}
         /\ f[i] = ShiftIn(f[i - 1], Bit(byte, 8 - i))
<1>1. i \in 0 .. 8 /\ i - 1 \in 0 .. 8 /\ 8 - i \in 0 .. 7
  OBVIOUS
<1> QED
  BY <1>1, BitIs DEF CalcRun

\* The CRC stays a byte.
LEMMA CalcTyped ==
  ASSUME NEW byte \in Byte, NEW c \in Byte
  PROVE  crc8_calc(byte, c) \in Byte
<1>1. PICK f : CalcRun(f, byte, c) /\ crc8_calc(byte, c) = f[8]
  BY CalcRunExists
<1>2. 8 \in 0 .. 8
  OBVIOUS
<1> QED
  BY <1>1, <1>2 DEF CalcRun

\* Different CRCs stay different, whatever byte is rolled in.
LEMMA CalcInjectiveInCrc ==
  ASSUME NEW byte \in Byte, NEW c \in Byte, NEW d \in Byte,
         crc8_calc(byte, c) = crc8_calc(byte, d)
  PROVE  c = d
<1>1. PICK f : CalcRun(f, byte, c) /\ crc8_calc(byte, c) = f[8]
  BY CalcRunExists
<1>2. PICK g : CalcRun(g, byte, d) /\ crc8_calc(byte, d) = g[8]
  BY CalcRunExists
<1>3. \A i \in 1 .. 8 : f[i] = g[i] => f[i - 1] = g[i - 1]
  <2> TAKE i \in 1 .. 8
  <2> SUFFICES ASSUME f[i] = g[i] PROVE f[i - 1] = g[i - 1]
    OBVIOUS
  <2> DEFINE x == f[i - 1]
             y == g[i - 1]
             b == Bit(byte, 8 - i)
  <2>1. x \in Byte /\ y \in Byte /\ b \in {0, 1} /\ ShiftIn(x, b) = ShiftIn(y, b)
    BY <1>1, <1>2, CalcRunBits
  <2> HIDE DEF x, y, b
  <2>2. \A j \in 0 .. 7 : Bit(x, j) \in {0, 1} /\ Bit(y, j) \in {0, 1}
    BY <2>1, BitIs
  <2>3. Bit(x, 7) = Bit(y, 7)
    <3>1. (b + Bit(x, 7)) % 2 = (b + Bit(y, 7)) % 2
      BY <2>1, ShiftInBits
    <3> QED
      BY <2>1, <2>2, <3>1
  <2>4. /\ (Bit(x, 0) + Bit(x, 7)) % 2 = (Bit(y, 0) + Bit(y, 7)) % 2
        /\ Bit(x, 1) = Bit(y, 1)
        /\ (Bit(x, 2) + Bit(x, 7)) % 2 = (Bit(y, 2) + Bit(y, 7)) % 2
        /\ (Bit(x, 3) + Bit(x, 7)) % 2 = (Bit(y, 3) + Bit(y, 7)) % 2
        /\ Bit(x, 4) = Bit(y, 4) /\ Bit(x, 5) = Bit(y, 5)
        /\ (Bit(x, 6) + Bit(x, 7)) % 2 = (Bit(y, 6) + Bit(y, 7)) % 2
    BY <2>1, ShiftInBits
  <2>5. Bit(x, 0) = Bit(y, 0) /\ Bit(x, 2) = Bit(y, 2) /\ Bit(x, 3) = Bit(y, 3)
        /\ Bit(x, 6) = Bit(y, 6)
    BY <2>2, <2>3, <2>4
  <2>6. x = y
    BY <2>1, <2>3, <2>4, <2>5, ByteOfBits
  <2> QED
    BY <2>6 DEF x, y
<1>4. f[8] = g[8]
  BY <1>1, <1>2
<1>5. f[0] = g[0]
  <2>1. /\ f[8] = g[8] => f[7] = g[7]
        /\ f[7] = g[7] => f[6] = g[6]
        /\ f[6] = g[6] => f[5] = g[5]
        /\ f[5] = g[5] => f[4] = g[4]
        /\ f[4] = g[4] => f[3] = g[3]
        /\ f[3] = g[3] => f[2] = g[2]
        /\ f[2] = g[2] => f[1] = g[1]
        /\ f[1] = g[1] => f[0] = g[0]
    <3>1. \A i \in 1 .. 8 : \A j : j = i - 1 => (f[i] = g[i] => f[j] = g[j])
      BY <1>3
    <3> QED
      BY <3>1
  <2> QED
    BY <1>4, <2>1
<1> QED
  BY <1>1, <1>2, <1>5 DEF CalcRun

\* Two CRCs between which nothing differs that is shifted out: they differ after
\* the round where they did before, one bit higher, and where the bits shifted
\* in differ.
LEMMA ShiftInDifferences ==
  ASSUME NEW x \in Byte, NEW y \in Byte, NEW b \in {0, 1}, NEW d \in {0, 1},
         Bit(x, 7) = Bit(y, 7)
  PROVE  /\ Bit(ShiftIn(x, b), 0) = Bit(ShiftIn(y, d), 0) <=> b = d
         /\ \A j \in 1 .. 7 :
              Bit(ShiftIn(x, b), j) = Bit(ShiftIn(y, d), j) <=> Bit(x, j - 1) = Bit(y, j - 1)
<1> DEFINE r == ShiftIn(x, b)
           s == ShiftIn(y, d)
           t == Bit(x, 7)
<1>1. \A j \in 0 .. 7 : Bit(x, j) \in {0, 1} /\ Bit(y, j) \in {0, 1}
  BY BitIs
<1>2. \A u \in {0, 1}, v \in {0, 1}, w \in {0, 1} : (u + w) % 2 = (v + w) % 2 <=> u = v
  OBVIOUS
<1>3. /\ Bit(r, 0) = (b + t) % 2 /\ Bit(r, 1) = (Bit(x, 0) + t) % 2
      /\ Bit(r, 2) = Bit(x, 1) /\ Bit(r, 3) = (Bit(x, 2) + t) % 2
      /\ Bit(r, 4) = (Bit(x, 3) + t) % 2 /\ Bit(r, 5) = Bit(x, 4)
      /\ Bit(r, 6) = Bit(x, 5) /\ Bit(r, 7) = (Bit(x, 6) + t) % 2
  BY ShiftInBits
<1>4. /\ Bit(s, 0) = (d + t) % 2 /\ Bit(s, 1) = (Bit(y, 0) + t) % 2
      /\ Bit(s, 2) = Bit(y, 1) /\ Bit(s, 3) = (Bit(y, 2) + t) % 2
      /\ Bit(s, 4) = (Bit(y, 3) + t) % 2 /\ Bit(s, 5) = Bit(y, 4)
      /\ Bit(s, 6) = Bit(y, 5) /\ Bit(s, 7) = (Bit(y, 6) + t) % 2
  BY ShiftInBits
<1>5. t \in {0, 1}
  BY <1>1
<1> HIDE DEF r, s, t
<1>6. Bit(r, 0) = Bit(s, 0) <=> b = d
  BY <1>2, <1>3, <1>4, <1>5
<1>7. /\ Bit(r, 1) = Bit(s, 1) <=> Bit(x, 0) = Bit(y, 0)
      /\ Bit(r, 2) = Bit(s, 2) <=> Bit(x, 1) = Bit(y, 1)
      /\ Bit(r, 3) = Bit(s, 3) <=> Bit(x, 2) = Bit(y, 2)
      /\ Bit(r, 4) = Bit(s, 4) <=> Bit(x, 3) = Bit(y, 3)
      /\ Bit(r, 5) = Bit(s, 5) <=> Bit(x, 4) = Bit(y, 4)
      /\ Bit(r, 6) = Bit(s, 6) <=> Bit(x, 5) = Bit(y, 5)
      /\ Bit(r, 7) = Bit(s, 7) <=> Bit(x, 6) = Bit(y, 6)
  BY <1>1, <1>2, <1>3, <1>4, <1>5
<1>8. \A j \in 1 .. 7 : Bit(r, j) = Bit(s, j) <=> Bit(x, j - 1) = Bit(y, j - 1)
  <2> TAKE j \in 1 .. 7
  <2>1. \/ j = 1 /\ j - 1 = 0
        \/ j = 2 /\ j - 1 = 1
        \/ j = 3 /\ j - 1 = 2
        \/ j = 4 /\ j - 1 = 3
        \/ j = 5 /\ j - 1 = 4
        \/ j = 6 /\ j - 1 = 5
        \/ j = 7 /\ j - 1 = 6
    OBVIOUS
  <2> QED
    BY <1>7, <2>1
<1> QED
  BY <1>6, <1>8 DEF r, s

\* Different bytes make different CRCs.
LEMMA CalcInjectiveInByte ==
  ASSUME NEW b1 \in Byte, NEW b2 \in Byte, NEW c \in Byte,
         crc8_calc(b1, c) = crc8_calc(b2, c)
  PROVE  b1 = b2
<1>1. PICK f : CalcRun(f, b1, c) /\ crc8_calc(b1, c) = f[8]
  BY CalcRunExists
<1>2. PICK g : CalcRun(g, b2, c) /\ crc8_calc(b2, c) = g[8]
  BY CalcRunExists
\* After i rounds the differences of the last i bits are in the lowest i bits.
<1> DEFINE Differences(i) ==
             \A j \in 0 .. 7 :
               Bit(f[i], j) = Bit(g[i], j) <=>
                 j >= i \/ Bit(b1, 8 - i + j) = Bit(b2, 8 - i + j)
           S == {i \in 0 .. 8 : Differences(i)}
<1>3. Differences(0)
  <2>1. f[0] = g[0]
    BY <1>1, <1>2 DEF CalcRun
  <2> QED
    BY <2>1
<1>4. ASSUME NEW i \in 1 .. 8, Differences(i - 1) PROVE Differences(i)
  <2> DEFINE x == f[i - 1]
             y == g[i - 1]
             d1 == Bit(b1, 8 - i)
             d2 == Bit(b2, 8 - i)
  <2>1. /\ x \in Byte /\ y \in Byte /\ d1 \in {0, 1} /\ d2 \in {0, 1}
        /\ f[i] = ShiftIn(x, d1) /\ g[i] = ShiftIn(y, d2)
    BY <1>1, <1>2, CalcRunBits
  <2>2. Bit(x, 7) = Bit(y, 7)
    <3>1. 7 \in 0 .. 7 /\ 7 >= i - 1
      OBVIOUS
    <3> QED
      BY <1>4, <3>1
  <2> SUFFICES ASSUME NEW j \in 0 .. 7
               PROVE  Bit(f[i], j) = Bit(g[i], j) <=>
                        j >= i \/ Bit(b1, 8 - i + j) = Bit(b2, 8 - i + j)
    OBVIOUS
  <2>3. CASE j = 0
    <3>1. 8 - i + j = 8 - i /\ ~(j >= i)
      BY <2>3
    <3>2. Bit(f[i], 0) = Bit(g[i], 0) <=> d1 = d2
      <4> HIDE DEF x, y, d1, d2
      <4> QED
        BY <2>1, <2>2, ShiftInDifferences
    <3> QED
      BY <2>3, <3>1, <3>2
  <2>4. CASE j # 0
    <3>1. j \in 1 .. 7 /\ j - 1 \in 0 .. 7 /\ (j - 1 >= i - 1 <=> j >= i)
          /\ 8 - (i - 1) + (j - 1) = 8 - i + j
      BY <2>4
    <3>2. Bit(f[i], j) = Bit(g[i], j) <=> Bit(x, j - 1) = Bit(y, j - 1)
      <4> HIDE DEF x, y, d1, d2
      <4> QED
        BY <2>1, <2>2, <3>1, ShiftInDifferences
    <3>3. Bit(x, j - 1) = Bit(y, j - 1) <=>
            j - 1 >= i - 1 \/ Bit(b1, 8 - (i - 1) + (j - 1)) = Bit(b2, 8 - (i - 1) + (j - 1))
      BY <1>4, <3>1
    <3> QED
      BY <3>1, <3>2, <3>3
  <2> QED
    BY <2>3, <2>4
<1>5. Differences(8)
  <2>1. 0 \in S
    BY <1>3
  <2>2. \A i \in 1 .. 8 : i - 1 \in S => i \in S
    <3> TAKE i \in 1 .. 8
    <3> HIDE DEF Differences
    <3> QED
      BY <1>4
  <2>3. \A i \in 0 .. 8 : i \in S
    <3> HIDE DEF S
    <3> QED
      BY <2>1, <2>2, AlongRun
  <2> QED
    BY <2>3
<1>6. f[8] = g[8]
  BY <1>1, <1>2
<1>7. \A j \in 0 .. 7 : Bit(b1, j) = Bit(b2, j)
  <2> TAKE j \in 0 .. 7
  <2>1. 8 - 8 + j = j /\ ~(j >= 8)
    OBVIOUS
  <2> QED
    BY <1>5, <1>6, <2>1
<1> QED
  BY <1>7, SameBits

\* The CRCs over the first n bytes, for every n.
FromRun(f, c, bytes) ==
  /\ f[0] = c
  /\ \A n \in 1 .. Len(bytes) : f[n] = crc8_calc(bytes[n], f[n - 1])

\* crc8_from is the last of them.
LEMMA FromRunExists ==
  ASSUME NEW c \in Byte, NEW bytes \in Seq(Byte)
  PROVE  \E f \in [0 .. Len(bytes) -> Byte] :
           FromRun(f, c, bytes) /\ crc8_from(c, bytes) = f[Len(bytes)]
<1> DEFINE L == Len(bytes)
           Rec(g) == g = [n \in 0 .. L |-> IF n = 0 THEN c ELSE crc8_calc(bytes[n], g[n - 1])]
           crc == CHOOSE g : Rec(g)
           step == [p \in (1 .. L) \X Byte |-> crc8_calc(bytes[p[1]], p[2])]
<1>0. L \in Nat /\ \A n \in 1 .. L : bytes[n] \in Byte
  OBVIOUS
<1>1. \A n \in 1 .. L, x \in Byte : crc8_calc(bytes[n], x) \in Byte
  BY <1>0, CalcTyped
<1>2. \A n \in 1 .. L, x \in Byte : step[<<n, x>>] = crc8_calc(bytes[n], x)
  OBVIOUS
<1>3. PICK f \in [0 .. L -> Byte] : IsRun(f, c, step, L)
  <2>1. \A n \in 1 .. L, x \in Byte : step[<<n, x>>] \in Byte
    BY <1>1, <1>2
  <2> HIDE DEF step
  <2> QED
    BY <1>0, <2>1, RunExists
<1>4. Rec(f)
  <2>1. f[0] = c
    BY <1>3 DEF IsRun
  <2>2. \A n \in 1 .. L : f[n] = crc8_calc(bytes[n], f[n - 1])
    <3> TAKE n \in 1 .. L
    <3>1. f[n - 1] \in Byte
      BY <1>0, <1>3
    <3>2. f[n] = step[<<n, f[n - 1]>>]
      BY <1>3 DEF IsRun
    <3> QED
      BY <1>2, <3>1, <3>2
  <2> QED
    BY <1>3, <2>1, <2>2
<1>5. Rec(crc)
  BY <1>4
<1>6. crc8_from(c, bytes) = crc[L]
  BY DEF crc8_from
<1> HIDE DEF crc
<1>7. crc[0] = c /\ \A n \in 1 .. L : crc[n] = crc8_calc(bytes[n], crc[n - 1])
  BY <1>0, <1>5
<1>8. \A n \in 0 .. L : crc[n] \in Byte
  <2> DEFINE S == {n \in 0 .. L : crc[n] \in Byte}
  <2>1. 0 \in S
    BY <1>0, <1>7
  <2>2. \A n \in 1 .. L : n - 1 \in S => n \in S
    BY <1>1, <1>7
  <2>3. \A n \in 0 .. L : n \in S
    <3> HIDE DEF S, L
    <3> QED
      BY <1>0, <2>1, <2>2, AlongRun
  <2> QED
    BY <2>3
<1>9. crc \in [0 .. L -> Byte]
  <2>1. crc = [n \in 0 .. L |-> crc[n]]
    BY <1>5
  <2> QED
    BY <1>8, <2>1
<1> QED
  BY <1>6, <1>7, <1>9 DEF FromRun

\* The last value of any such run is the CRC.
LEMMA FromRunLast ==
  ASSUME NEW c \in Byte, NEW bytes \in Seq(Byte), NEW g, FromRun(g, c, bytes)
  PROVE  crc8_from(c, bytes) = g[Len(bytes)]
<1>1. PICK f \in [0 .. Len(bytes) -> Byte] :
        FromRun(f, c, bytes) /\ crc8_from(c, bytes) = f[Len(bytes)]
  BY FromRunExists
<1> DEFINE L == Len(bytes)
           S == {n \in 0 .. L : f[n] = g[n]}
<1>2. L \in Nat
  OBVIOUS
<1>3. 0 \in S
  BY <1>1, <1>2 DEF FromRun
<1>4. \A n \in 1 .. L : n - 1 \in S => n \in S
  BY <1>1, <1>2 DEF FromRun
<1>5. \A n \in 0 .. L : n \in S
  <2> HIDE DEF S, L
  <2> QED
    BY <1>2, <1>3, <1>4, AlongRun
<1> QED
  BY <1>1, <1>2, <1>5

\* The CRC of bytes is a byte.
LEMMA FromTyped ==
  ASSUME NEW c \in Byte, NEW bytes \in Seq(Byte)
  PROVE  crc8_from(c, bytes) \in Byte
<1>1. Len(bytes) \in 0 .. Len(bytes)
  BY LenProperties
<1> QED
  BY <1>1, FromRunExists

\* Nothing rolled in changes nothing.
LEMMA FromEmpty ==
  ASSUME NEW c \in Byte
  PROVE  crc8_from(c, <<>>) = c
<1> DEFINE bytes == <<>>
<1>1. bytes \in Seq(Byte) /\ Len(bytes) = 0
  OBVIOUS
<1> HIDE DEF bytes
<1>2. PICK f \in [0 .. Len(bytes) -> Byte] :
        FromRun(f, c, bytes) /\ crc8_from(c, bytes) = f[Len(bytes)]
  BY <1>1, FromRunExists
<1>3. crc8_from(c, bytes) = c
  BY <1>1, <1>2 DEF FromRun
<1> QED
  BY <1>3 DEF bytes

\* The first byte is rolled in first.
LEMMA FromCons ==
  ASSUME NEW c \in Byte, NEW bytes \in Seq(Byte), bytes # <<>>
  PROVE  crc8_from(c, bytes) = crc8_from(crc8_calc(bytes[1], c), Tail(bytes))
<1> DEFINE L == Len(bytes)
           d == crc8_calc(bytes[1], c)
           rest == Tail(bytes)
<1>1. PICK f \in [0 .. L -> Byte] : FromRun(f, c, bytes) /\ crc8_from(c, bytes) = f[L]
  BY FromRunExists
<1>2. /\ L \in Nat \ {0} /\ rest \in Seq(Byte) /\ Len(rest) = L - 1 /\ bytes[1] \in Byte
      /\ \A n \in 1 .. L - 1 : rest[n] = bytes[n + 1]
  OBVIOUS
<1>3. d \in Byte /\ f[1] = d
  BY <1>1, <1>2, CalcTyped DEF FromRun
<1> DEFINE g == [n \in 0 .. L - 1 |-> f[n + 1]]
<1>4. FromRun(g, d, rest)
  <2>1. g[0] = d
    BY <1>2, <1>3
  <2>2. ASSUME NEW n \in 1 .. L - 1 PROVE g[n] = crc8_calc(rest[n], g[n - 1])
    <3>1. g[n] = f[n + 1] /\ g[n - 1] = f[n] /\ rest[n] = bytes[n + 1]
      BY <1>2
    <3>2. n + 1 \in 1 .. L /\ (n + 1) - 1 = n
      BY <1>2
    <3>3. f[n + 1] = crc8_calc(bytes[n + 1], f[(n + 1) - 1])
      BY <1>1, <3>2 DEF FromRun
    <3> QED
      BY <3>1, <3>2, <3>3
  <2> HIDE DEF g, rest, d
  <2> QED
    BY <1>2, <2>1, <2>2 DEF FromRun
<1>5. crc8_from(d, rest) = g[L - 1]
  <2> HIDE DEF g, rest, d
  <2> QED
    BY <1>2, <1>3, <1>4, FromRunLast
<1>6. g[L - 1] = f[L]
  BY <1>2
<1> QED
  BY <1>1, <1>5, <1>6

\* The last byte is rolled in last.
LEMMA FromAppend ==
  ASSUME NEW c \in Byte, NEW bytes \in Seq(Byte), NEW x \in Byte
  PROVE  crc8_from(c, Append(bytes, x)) = crc8_calc(x, crc8_from(c, bytes))
<1> DEFINE all == Append(bytes, x)
           L == Len(bytes)
<1>1. /\ all \in Seq(Byte) /\ Len(all) = L + 1 /\ all[L + 1] = x /\ L \in Nat
      /\ \A n \in 1 .. L : all[n] = bytes[n]
  OBVIOUS
<1> HIDE DEF all
<1>2. PICK f \in [0 .. L + 1 -> Byte] : FromRun(f, c, all) /\ crc8_from(c, all) = f[L + 1]
  BY <1>1, FromRunExists
<1>3. FromRun(f, c, bytes)
  <2>1. ASSUME NEW n \in 1 .. L PROVE f[n] = crc8_calc(bytes[n], f[n - 1])
    <3>1. n \in 1 .. L + 1 /\ all[n] = bytes[n]
      BY <1>1
    <3> QED
      BY <1>1, <1>2, <3>1 DEF FromRun
  <2> QED
    BY <1>2, <2>1 DEF FromRun
<1>4. crc8_from(c, bytes) = f[L]
  BY <1>3, FromRunLast
<1>5. f[L + 1] = crc8_calc(all[L + 1], f[L])
  <2>1. L + 1 \in 1 .. L + 1 /\ (L + 1) - 1 = L
    BY <1>1
  <2>2. f[L + 1] = crc8_calc(all[L + 1], f[(L + 1) - 1])
    BY <1>1, <1>2, <2>1 DEF FromRun
  <2> QED
    BY <2>1, <2>2
<1> QED
  BY <1>1, <1>2, <1>4, <1>5 DEF all

\* Different CRCs stay different, whatever follows.
LEMMA FromInjective ==
  ASSUME NEW c \in Byte, NEW d \in Byte, NEW bytes \in Seq(Byte),
         crc8_from(c, bytes) = crc8_from(d, bytes)
  PROVE  c = d
<1> DEFINE L == Len(bytes)
<1>1. PICK f \in [0 .. L -> Byte] : FromRun(f, c, bytes) /\ crc8_from(c, bytes) = f[L]
  BY FromRunExists
<1>2. PICK g \in [0 .. L -> Byte] : FromRun(g, d, bytes) /\ crc8_from(d, bytes) = g[L]
  BY FromRunExists
<1> DEFINE S == {n \in 0 .. L : f[n] # g[n]}
<1>3. L \in Nat
  OBVIOUS
<1> SUFFICES ASSUME c # d PROVE FALSE
  OBVIOUS
<1>4. 0 \in S
  BY <1>1, <1>2, <1>3 DEF FromRun
<1>5. ASSUME NEW n \in 1 .. L, n - 1 \in S PROVE n \in S
  <2>1. bytes[n] \in Byte /\ f[n - 1] \in Byte /\ g[n - 1] \in Byte /\ f[n - 1] # g[n - 1]
    BY <1>5
  <2>2. f[n] = crc8_calc(bytes[n], f[n - 1]) /\ g[n] = crc8_calc(bytes[n], g[n - 1])
    BY <1>1, <1>2 DEF FromRun
  <2>3. f[n] # g[n]
    BY <2>1, <2>2, CalcInjectiveInCrc
  <2> QED
    BY <2>3
<1>6. \A n \in 0 .. L : n \in S
  <2> HIDE DEF S, L
  <2> QED
    BY <1>3, <1>4, <1>5, AlongRun
<1> QED
  BY <1>1, <1>2, <1>3, <1>6

-----------------------------------------------------------------------------
(* The buffers.                                                            *)

BufferType == [bytes : Seq(Byte), crc : Byte, waitForEscaped : BOOLEAN]

Parts == {"request", "reply"}

\* Where NN is and what is read from it.
LEMMA LengthTyped ==
  ASSUME NEW b \in BufferType, NEW p \in Parts
  PROVE  /\ NNPosition(p) \in {0, 4} /\ Len(b.bytes) \in Nat
         /\ length(b, p) \in 0 .. MAX_DATA_LENGTH - 1
         /\ max_pos(b, p) = NNPosition(p) + 1 + length(b, p)
         /\ Len(b.bytes) <= NNPosition(p) => length(b, p) = 0
<1>1. NNPosition(p) \in {0, 4} /\ Len(b.bytes) \in Nat /\ b.bytes \in Seq(Byte)
  BY DEF NNPosition, OFFSET_NN, BufferType
<1>2. ASSUME Len(b.bytes) > NNPosition(p)
      PROVE  get_nn(b.bytes[NNPosition(p) + 1]) \in 0 .. MAX_DATA_LENGTH - 1
  <2>1. NNPosition(p) + 1 \in 1 .. Len(b.bytes)
    BY <1>1, <1>2
  <2>2. b.bytes[NNPosition(p) + 1] \in Byte
    BY <1>1, <2>1
  <2> QED
    BY <2>2, GetNNBounded
<1>3. 0 \in 0 .. MAX_DATA_LENGTH - 1
  BY MaxDataLengthAssumption
<1>4. length(b, p) \in 0 .. MAX_DATA_LENGTH - 1
  BY <1>1, <1>2, <1>3 DEF length
<1>5. Len(b.bytes) <= NNPosition(p) => length(b, p) = 0
  BY <1>1 DEF length
<1> QED
  BY <1>1, <1>4, <1>5 DEF max_pos

\* A length that the buffers are made for is read as it was stored.
LEMMA LengthStored ==
  ASSUME NEW b \in BufferType, NEW p \in Parts, NEW n \in 0 .. MAX_DATA_LENGTH - 1,
         Len(b.bytes) > NNPosition(p) => b.bytes[NNPosition(p) + 1] = n
  PROVE  /\ Len(b.bytes) < max_pos(b, p) <=> Len(b.bytes) < NNPosition(p) + 1 + n
         /\ Len(b.bytes) > NNPosition(p) =>
              length(b, p) = n /\ max_pos(b, p) = NNPosition(p) + 1 + n
<1>1. NNPosition(p) \in {0, 4} /\ Len(b.bytes) \in Nat
  BY LengthTyped
<1>2. get_nn(n) = n
  BY MaxDataLengthAssumption DEF get_nn
<1>3. Len(b.bytes) > NNPosition(p) => length(b, p) = n
  BY <1>2 DEF length
<1>4. Len(b.bytes) <= NNPosition(p) => length(b, p) = 0
  BY LengthTyped
<1>5. max_pos(b, p) = NNPosition(p) + 1 + length(b, p)
  BY DEF max_pos
<1> QED
  BY <1>1, <1>3, <1>4, <1>5

\* Rolling keeps bytes.
LEMMA RollTyped ==
  ASSUME NEW b \in BufferType, NEW p \in Parts, NEW cr \in Byte
  PROVE  Roll(b, p, cr) \in Byte
<1>1. b.crc \in Byte
  BY DEF BufferType
<1> QED
  BY <1>1, CalcTyped DEF Roll

\* One byte in a buffer of ebus.
LEMMA PushEbus ==
  ASSUME NEW b \in BufferType, NEW p \in Parts, NEW cr \in Byte
  PROVE  LET next == push_buffer_(b, p, cr)
         IN  /\ next \in BufferType
             /\ next.bytes = Append(b.bytes, cr)
             /\ next.crc = Roll(b, p, cr)
             /\ next.waitForEscaped = b.waitForEscaped
<1>1. Append(b.bytes, cr) \in Seq(Byte) /\ Roll(b, p, cr) \in Byte
  BY RollTyped DEF BufferType
<1> QED
  BY <1>1 DEF push_buffer_, BufferType

\* One byte in a buffer of zebus.
LEMMA PushZebus ==
  ASSUME NEW b \in BufferType, NEW p \in Parts, NEW cr \in Byte
  PROVE  LET next == pushBuffer(b, p, cr)
         IN  /\ next \in BufferType
             /\ next.crc = Roll(b, p, cr)
             /\ b.waitForEscaped => next.bytes = b.bytes /\ ~next.waitForEscaped
             /\ ~b.waitForEscaped => /\ next.bytes = Append(b.bytes, cr)
                                     /\ cr = ESC => next.waitForEscaped
                                     /\ cr # ESC => ~next.waitForEscaped
<1>1. CASE b.waitForEscaped
  <2>1. Roll(b, p, cr) \in Byte
    BY RollTyped
  <2> QED
    BY <1>1, <2>1 DEF pushBuffer, BufferType
<1>2. CASE ~b.waitForEscaped
  <2>1. /\ push_buffer_(b, p, cr) \in BufferType
        /\ push_buffer_(b, p, cr).bytes = Append(b.bytes, cr)
        /\ push_buffer_(b, p, cr).crc = Roll(b, p, cr)
    BY PushEbus
  <2>2. (cr = ESC) \in BOOLEAN
    OBVIOUS
  <2> QED
    BY <1>2, <2>1, <2>2 DEF pushBuffer, BufferType
<1>3. b.waitForEscaped \in BOOLEAN
  BY DEF BufferType
<1> QED
  BY <1>1, <1>2, <1>3

\* One byte in the buffer of either.
LEMMA PushTyped ==
  ASSUME NEW b \in BufferType, part \in Parts, NEW cr \in Byte
  PROVE  /\ Push(b, cr) \in BufferType
         /\ Push(b, cr).crc = Roll(b, part, cr)
         /\ ~b.waitForEscaped =>
              /\ Push(b, cr).bytes = Append(b.bytes, cr)
              /\ component = "ebus" \/ cr # ESC => ~Push(b, cr).waitForEscaped
<1>1. CASE component = "ebus"
  BY <1>1, PushEbus DEF Push
<1>2. CASE component # "ebus"
  BY <1>2, PushZebus DEF Push
<1> QED
  BY <1>1, <1>2

-----------------------------------------------------------------------------
(* The sender.                                                             *)

\* What goes into a request, place by place.
LEMMA RequestSymbolsAre ==
  ASSUME NEW zz \in Byte, NEW payload \in Seq(Byte), Len(payload) <= MAX_DATA_LENGTH
  PROVE  LET s == RequestSymbols(zz, payload)
         IN  /\ s \in Seq(Byte) /\ Len(s) = 5 + Len(payload) /\ Len(payload) \in Nat
             /\ s[1] = Primary /\ s[2] = zz /\ s[3] = 7 /\ s[4] = 4 /\ s[5] = Len(payload)
             /\ \A i \in 1 .. Len(payload) : s[5 + i] = payload[i]
<1> DEFINE head == <<Primary, zz, 7, 4, Len(payload)>>
<1>1. Primary \in Byte /\ 7 \in Byte /\ 4 \in Byte /\ Len(payload) \in Byte
  <2>1. Primary \in Byte
    BY CodecAssumption DEF Primaries
  <2>2. Len(payload) \in 0 .. 200
    <3>1. Len(payload) \in Nat
      OBVIOUS
    <3>2. \A n \in Nat : n <= MAX_DATA_LENGTH => n \in 0 .. 200
      BY MaxDataLengthAssumption
    <3> QED
      BY <3>1, <3>2
  <2>3. 0 .. 200 \subseteq Byte /\ 7 \in Byte /\ 4 \in Byte
    BY DEF Byte
  <2> QED
    BY <2>1, <2>2, <2>3
<1>2. /\ head \in Seq(Byte) /\ Len(head) = 5
      /\ head[1] = Primary /\ head[2] = zz /\ head[3] = 7 /\ head[4] = 4 /\ head[5] = Len(payload)
  BY <1>1
<1>3. RequestSymbols(zz, payload) = head \o payload
  BY DEF RequestSymbols
<1> HIDE DEF head
<1>4. Len(payload) \in Nat
  OBVIOUS
<1>5. /\ head \o payload \in Seq(Byte) /\ Len(head \o payload) = 5 + Len(payload)
      /\ \A i \in 1 .. 5 : (head \o payload)[i] = head[i]
      /\ \A i \in 1 .. Len(payload) : (head \o payload)[5 + i] = payload[i]
  <2> DEFINE u == head \o payload
             m == Len(head)
  <2>1. /\ u \in Seq(Byte) /\ Len(u) = m + Len(payload)
        /\ \A i \in 1 .. m : u[i] = head[i]
        /\ \A i \in 1 .. Len(payload) : u[m + i] = payload[i]
    BY <1>2, ConcatIs
  <2>2. m = 5
    BY <1>2
  <2> HIDE DEF u, m
  <2> QED
    BY <2>1, <2>2 DEF u
<1> QED
  BY <1>2, <1>3, <1>4, <1>5

\* No address looks like ESC or SYN.
LEMMA AddressesNotEscaped ==
  ASSUME NEW primary \in Primaries
  PROVE  /\ primary \in Byte /\ primary \notin {ESC, SYN}
         /\ SecondaryOf(primary) \in Byte /\ SecondaryOf(primary) \notin {ESC, SYN}
BY DEF Primaries, SecondaryOf, ESC, SYN, Byte

\* A buffer after n of the symbols of a request have been pushed into it.
Pushed(b, symbols, n) ==
  /\ b \in BufferType /\ ~b.waitForEscaped
  /\ Len(b.bytes) = n /\ \A i \in 1 .. n : b.bytes[i] = symbols[i]

\* The CRC of four bytes, one by one.
LEMMA FromFour ==
  ASSUME NEW w \in Byte, NEW x \in Byte, NEW y \in Byte, NEW z \in Byte
  PROVE  crc8_from(0, <<w, x, y, z>>)
           = crc8_calc(z, crc8_calc(y, crc8_calc(x, crc8_calc(w, 0))))
<1> DEFINE s0 == <<>>  s1 == <<w>>  s2 == <<w, x>>  s3 == <<w, x, y>>
<1>1. 0 \in Byte /\ s0 \in Seq(Byte) /\ crc8_from(0, s0) = 0
  BY FromEmpty DEF Byte
<1>2. s1 \in Seq(Byte) /\ s1 = Append(s0, w)
  OBVIOUS
<1>3. s2 \in Seq(Byte) /\ s2 = Append(s1, x)
  OBVIOUS
<1>4. s3 \in Seq(Byte) /\ s3 = Append(s2, y)
  OBVIOUS
<1>5. <<w, x, y, z>> = Append(s3, z)
  OBVIOUS
<1> HIDE DEF s0, s1, s2, s3
<1>6. crc8_from(0, s1) = crc8_calc(w, 0)
  BY <1>1, <1>2, FromAppend
<1>7. crc8_from(0, s2) = crc8_calc(x, crc8_from(0, s1))
  BY <1>1, <1>2, <1>3, FromAppend
<1>8. crc8_from(0, s3) = crc8_calc(y, crc8_from(0, s2))
  BY <1>1, <1>3, <1>4, FromAppend
<1>9. crc8_from(0, Append(s3, z)) = crc8_calc(z, crc8_from(0, s3))
  BY <1>1, <1>4, FromAppend
<1> QED
  BY <1>5, <1>6, <1>7, <1>8, <1>9

\* The CRC of a request whose length get_nn() reads as 0: rolling ends with that
\* length.
TooLongCrc(zz, n) == crc8_calc(n, crc8_from(0, <<Primary, zz, 7, 4>>))

\* The constructor leaves in the buffer what it is given, and their CRC.
LEMMA SendCommandIs ==
  ASSUME NEW zz \in Byte, NEW payload \in Seq(Byte), Len(payload) <= MAX_DATA_LENGTH,
         part = "request",
         component # "ebus" =>
           zz # ESC /\ \A i \in 1 .. Len(payload) : payload[i] # ESC
  PROVE  LET b == SendCommand(zz, payload)
             s == RequestSymbols(zz, payload)
         IN  /\ b \in BufferType
             /\ b.bytes = Append(s, b.crc)
             /\ b.crc = IF Len(payload) < MAX_DATA_LENGTH THEN crc8_from(0, s)
                        ELSE TooLongCrc(zz, Len(payload))
<1> DEFINE s == RequestSymbols(zz, payload)
           L == Len(payload)
           n == 5 + L
           Rec(g) == g = [k \in 0 .. Len(s) |-> IF k = 0 THEN EmptyBuffer ELSE Push(g[k - 1], s[k])]
           body == CHOOSE g : Rec(g)
           all == body[Len(s)]
           step == [q \in (1 .. Len(s)) \X BufferType |-> Push(q[2], s[q[1]])]
<1>1. /\ s \in Seq(Byte) /\ Len(s) = n /\ L \in 0 .. MAX_DATA_LENGTH /\ n \in Nat
      /\ s[1] = Primary /\ s[2] = zz /\ s[3] = 7 /\ s[4] = 4 /\ s[5] = L
      /\ \A i \in 1 .. L : s[5 + i] = payload[i]
  BY RequestSymbolsAre
<1>2. part \in Parts /\ NNPosition(part) = 4
  BY DEF Parts, NNPosition, OFFSET_NN
<1>3. EmptyBuffer \in BufferType /\ Pushed(EmptyBuffer, s, 0)
  BY DEF EmptyBuffer, BufferType, Pushed, Byte
<1>4. component # "ebus" => \A i \in 1 .. n : s[i] # ESC
  <2> SUFFICES ASSUME component # "ebus", NEW i \in 1 .. n PROVE s[i] # ESC
    OBVIOUS
  <2>1. CASE i <= 5
    <3>1. Primary # ESC /\ zz # ESC
      <4>1. Primary # ESC
        BY CodecAssumption, AddressesNotEscaped
      <4> QED
        BY <4>1
    <3>2. 7 # ESC /\ 4 # ESC /\ L # ESC
      <4>1. MAX_DATA_LENGTH < 169
        BY CodecAssumption DEF ESC
      <4>2. 7 # ESC /\ 4 # ESC /\ \A x \in 0 .. MAX_DATA_LENGTH : x # ESC
        BY <4>1, MaxDataLengthAssumption DEF ESC
      <4> QED
        BY <1>1, <4>2
    <3>3. i \in {1, 2, 3, 4, 5}
      BY <2>1
    <3> QED
      BY <1>1, <3>1, <3>2, <3>3
  <2>2. CASE i > 5
    <3>1. i - 5 \in 1 .. L /\ 5 + (i - 5) = i
      BY <1>1, <2>2
    <3>2. s[5 + (i - 5)] = payload[i - 5]
      BY <1>1, <3>1
    <3> QED
      BY <3>1, <3>2
  <2> QED
    BY <2>1, <2>2
<1> HIDE DEF s
\* The function by which the loop is written exists.
<1>5. \A k \in 1 .. n, b \in BufferType : s[k] \in Byte /\ Push(b, s[k]) \in BufferType
  <2> TAKE k \in 1 .. n, b \in BufferType
  <2>1. s[k] \in Byte
    BY <1>1
  <2>2. part \in Parts
    BY <1>2
  <2> HIDE DEF n
  <2> QED
    BY <2>1, <2>2, PushTyped
<1>6. PICK f \in [0 .. n -> BufferType] : IsRun(f, EmptyBuffer, step, n)
  <2>1. \A k \in 1 .. n, b \in BufferType : step[<<k, b>>] \in BufferType
    BY <1>1, <1>5
  <2> HIDE DEF step
  <2> QED
    BY <1>1, <1>3, <2>1, RunExists
<1>7. Rec(f)
  <2>1. f[0] = EmptyBuffer
    BY <1>6 DEF IsRun
  <2>2. \A k \in 1 .. n : f[k] = Push(f[k - 1], s[k])
    <3> TAKE k \in 1 .. n
    <3>1. f[k - 1] \in BufferType
      <4>1. n \in Nat
        BY <1>1
      <4> HIDE DEF n
      <4>2. k - 1 \in 0 .. n
        BY <4>1
      <4> QED
        BY <1>6, <4>2
    <3>2. f[k] = step[<<k, f[k - 1]>>]
      BY <1>6 DEF IsRun
    <3> QED
      BY <1>1, <3>1, <3>2
  <2> QED
    BY <1>1, <1>6, <2>1, <2>2
<1>8. Rec(body)
  BY <1>7
<1>9. SendCommand(zz, payload) = Push(all, all.crc)
  BY DEF SendCommand, s
<1> HIDE DEF body
<1>10. body[0] = EmptyBuffer /\ \A k \in 1 .. n : body[k] = Push(body[k - 1], s[k])
  <2>1. \A k \in 0 .. n : body[k] = IF k = 0 THEN EmptyBuffer ELSE Push(body[k - 1], s[k])
    <3>1. Len(s) = n
      BY <1>1
    <3> HIDE DEF n
    <3> QED
      BY <1>8, <3>1, Zenon
  <2>2. 0 \in 0 .. n /\ \A k \in 1 .. n : k \in 0 .. n /\ k # 0
    BY <1>1
  <2> HIDE DEF n
  <2> QED
    BY <2>1, <2>2
\* What it holds after k rounds.
<1>11. PICK cr \in [0 .. n -> Byte] : FromRun(cr, 0, s) /\ crc8_from(0, s) = cr[n]
  <2>1. 0 \in Byte
    BY DEF Byte
  <2> QED
    BY <1>1, <2>1, FromRunExists
<1> DEFINE Holds(k) == /\ Pushed(body[k], s, k)
                       /\ L < MAX_DATA_LENGTH => body[k].crc = cr[k]
                       /\ ~(L < MAX_DATA_LENGTH) => body[k].crc = cr[IF k <= 5 THEN k ELSE 5]
           S == {k \in 0 .. n : Holds(k)}
<1>12. Holds(0)
  <2>1. EmptyBuffer.crc = 0 /\ cr[0] = 0
    BY <1>11 DEF EmptyBuffer, FromRun
  <2> QED
    BY <1>3, <1>10, <2>1
<1>13. ASSUME NEW k \in 1 .. n, Holds(k - 1) PROVE Holds(k)
  <2> DEFINE b == body[k - 1]
             next == body[k]
  <2>1. /\ b \in BufferType /\ ~b.waitForEscaped /\ Len(b.bytes) = k - 1
        /\ \A i \in 1 .. k - 1 : b.bytes[i] = s[i]
        /\ next = Push(b, s[k]) /\ s[k] \in Byte
        /\ L < MAX_DATA_LENGTH => b.crc = cr[k - 1]
        /\ ~(L < MAX_DATA_LENGTH) => b.crc = cr[IF k - 1 <= 5 THEN k - 1 ELSE 5]
    BY <1>5, <1>10, <1>13 DEF Pushed
  <2>2. component = "ebus" \/ s[k] # ESC
    BY <1>4
  <2> HIDE DEF b, next
  <2>3. /\ next \in BufferType /\ next.crc = Roll(b, part, s[k])
        /\ next.bytes = Append(b.bytes, s[k]) /\ ~next.waitForEscaped
    BY <1>2, <2>1, <2>2, PushTyped
  <2>4. Len(next.bytes) = k /\ \A i \in 1 .. k : next.bytes[i] = s[i]
    BY <1>1, <2>1, <2>3 DEF BufferType
  <2>5. L < MAX_DATA_LENGTH => next.crc = cr[k]
    <3> SUFFICES ASSUME L < MAX_DATA_LENGTH PROVE next.crc = cr[k]
      OBVIOUS
    <3>1. L \in 0 .. MAX_DATA_LENGTH - 1
      BY <1>1, MaxDataLengthAssumption
    <3>2. Len(b.bytes) > 4 => b.bytes[5] = L
      BY <1>1, <2>1
    <3>3. Len(b.bytes) < max_pos(b, part) <=> Len(b.bytes) < n
      <4> HIDE DEF L
      <4>1. Len(b.bytes) > NNPosition(part) => b.bytes[NNPosition(part) + 1] = L
        BY <1>2, <3>2
      <4>2. Len(b.bytes) < max_pos(b, part) <=> Len(b.bytes) < NNPosition(part) + 1 + L
        BY <1>2, <2>1, <3>1, <4>1, LengthStored
      <4> QED
        BY <1>1, <1>2, <4>2
    <3>4. Len(b.bytes) < n
      BY <1>1, <2>1
    <3>5. next.crc = crc8_calc(s[k], b.crc)
      BY <2>3, <3>3, <3>4 DEF Roll
    <3>6. cr[k] = crc8_calc(s[k], cr[k - 1])
      BY <1>1, <1>11 DEF FromRun
    <3> QED
      BY <2>1, <3>5, <3>6
  <2>6. ~(L < MAX_DATA_LENGTH) => next.crc = cr[IF k <= 5 THEN k ELSE 5]
    <3> SUFFICES ASSUME ~(L < MAX_DATA_LENGTH)
                 PROVE  next.crc = cr[IF k <= 5 THEN k ELSE 5]
      OBVIOUS
    <3>1. get_nn(L) = 0 /\ 0 \in 0 .. MAX_DATA_LENGTH - 1
      BY <1>1, MaxDataLengthAssumption DEF get_nn
    <3>2. length(b, part) = 0
      <4>1. Len(b.bytes) > 4 => b.bytes[5] = L
        BY <1>1, <2>1
      <4> HIDE DEF L
      <4> QED
        BY <1>2, <3>1, <4>1 DEF length
    <3>3. max_pos(b, part) = 5
      BY <1>2, <3>2 DEF max_pos
    <3>4. CASE k <= 5
      <4>1. next.crc = crc8_calc(s[k], b.crc)
        BY <1>1, <2>1, <2>3, <3>3, <3>4 DEF Roll
      <4>2. cr[k] = crc8_calc(s[k], cr[k - 1])
        BY <1>1, <1>11 DEF FromRun
      <4>3. b.crc = cr[k - 1]
        <5>1. k - 1 <= 5
          BY <1>1, <3>4
        <5> QED
          BY <2>1, <5>1
      <4> QED
        BY <3>4, <4>1, <4>2, <4>3
    <3>5. CASE ~(k <= 5)
      <4>1. next.crc = b.crc
        BY <1>1, <2>1, <2>3, <3>3, <3>5 DEF Roll
      <4>2. b.crc = cr[5]
        <5>1. k - 1 = 5 \/ ~(k - 1 <= 5)
          BY <1>1, <3>5
        <5> QED
          BY <2>1, <5>1
      <4> QED
        BY <3>5, <4>1, <4>2
    <3> QED
      BY <3>4, <3>5
  <2> QED
    BY <2>3, <2>4, <2>5, <2>6 DEF Pushed, next
<1>14. Holds(n)
  <2>1. 0 \in S /\ \A k \in 1 .. n : k - 1 \in S => k \in S
    <3>1. \A k \in 1 .. n : k - 1 \in 0 .. n /\ k \in 0 .. n
      BY <1>1
    <3>2. 0 \in 0 .. n
      BY <1>1
    <3> HIDE DEF Holds
    <3> QED
      BY <1>12, <1>13, <3>1, <3>2
  <2>2. \A k \in 0 .. n : k \in S
    <3> HIDE DEF S, n
    <3> QED
      BY <1>1, <2>1, AlongRun
  <2>3. n \in 0 .. n
    BY <1>1
  <2> HIDE DEF Holds
  <2> QED
    BY <2>2, <2>3
\* At last the CRC is pushed; it is rolled into nothing.
<1>15. /\ all \in BufferType /\ ~all.waitForEscaped /\ all.crc \in Byte
       /\ all.bytes = s
       /\ L < MAX_DATA_LENGTH => all.crc = crc8_from(0, s)
       /\ ~(L < MAX_DATA_LENGTH) => all.crc = cr[5]
  <2>1. all = body[n]
    BY <1>1
  <2>2. /\ all \in BufferType /\ ~all.waitForEscaped /\ Len(all.bytes) = n
        /\ \A i \in 1 .. n : all.bytes[i] = s[i]
    BY <1>14, <2>1 DEF Pushed
  <2>3. all.bytes \in Seq(Byte) /\ all.crc \in Byte
    BY <2>2 DEF BufferType
  <2>4. all.bytes = s
    BY <1>1, <2>2, <2>3, SeqEqual
  <2>5. ~(L < MAX_DATA_LENGTH) => all.crc = cr[5]
    <3>1. n = 5 \/ ~(n <= 5)
      BY <1>1
    <3> HIDE DEF n
    <3> QED
      BY <1>14, <2>1, <3>1
  <2> QED
    BY <1>11, <1>14, <2>1, <2>2, <2>3, <2>4, <2>5
<1> HIDE DEF all
<1>16. max_pos(all, part) <= n
  <2>1. Len(all.bytes) > 4 /\ all.bytes[5] = L
    BY <1>1, <1>15
  <2>2. get_nn(L) <= L
    BY <1>1 DEF get_nn
  <2>3. length(all, part) = get_nn(L)
    BY <1>2, <2>1 DEF length
  <2>4. get_nn(L) \in Nat
    BY <1>1 DEF get_nn
  <2> QED
    BY <1>1, <1>2, <2>2, <2>3, <2>4 DEF max_pos
<1>17. Roll(all, part, all.crc) = all.crc
  <2>1. max_pos(all, part) \in Nat
    BY <1>2, <1>15, LengthTyped, MaxDataLengthAssumption
  <2> QED
    BY <1>1, <1>15, <1>16, <2>1 DEF Roll
<1>18. /\ Push(all, all.crc) \in BufferType
       /\ Push(all, all.crc).crc = all.crc
       /\ Push(all, all.crc).bytes = Append(s, all.crc)
  BY <1>2, <1>15, <1>17, PushTyped
<1>19. cr[5] = TooLongCrc(zz, L)
  <2>1. /\ 1 \in 1 .. Len(s) /\ 2 \in 1 .. Len(s) /\ 3 \in 1 .. Len(s)
        /\ 4 \in 1 .. Len(s) /\ 5 \in 1 .. Len(s)
    BY <1>1
  <2>2. cr[0] = 0 /\ \A k \in 1 .. Len(s) : cr[k] = crc8_calc(s[k], cr[k - 1])
    BY <1>11 DEF FromRun
  <2>3. /\ cr[1] = crc8_calc(s[1], cr[1 - 1]) /\ cr[2] = crc8_calc(s[2], cr[2 - 1])
        /\ cr[3] = crc8_calc(s[3], cr[3 - 1]) /\ cr[4] = crc8_calc(s[4], cr[4 - 1])
        /\ cr[5] = crc8_calc(s[5], cr[5 - 1])
    BY <2>1, <2>2
  <2>4. /\ cr[1] = crc8_calc(Primary, 0) /\ cr[2] = crc8_calc(zz, cr[1])
        /\ cr[3] = crc8_calc(7, cr[2]) /\ cr[4] = crc8_calc(4, cr[3])
        /\ cr[5] = crc8_calc(L, cr[4])
    BY <1>1, <2>2, <2>3
  <2>5. Primary \in Byte /\ 7 \in Byte /\ 4 \in Byte
    BY CodecAssumption, AddressesNotEscaped DEF Byte
  <2>6. cr[4] = crc8_from(0, <<Primary, zz, 7, 4>>)
    BY <2>4, <2>5, FromFour
  <2> QED
    BY <2>4, <2>6 DEF TooLongCrc
<1> QED
  BY <1>9, <1>15, <1>18, <1>19 DEF s

\* What is sent of a part, but for the CRC.  The length that the buffers are not
\* made for is read as zero from the buffer of the sender, too.
Whole ==
  IF part = "request"
  THEN IF Len(data) < MAX_DATA_LENGTH THEN RequestSymbols(SecondaryOf(node), data)
                                      ELSE <<Primary, SecondaryOf(node), 7, 4, 0>>
  ELSE <<Len(data)>> \o data

\* The CRC that is sent.
WholeCrc ==
  IF part = "request"
  THEN IF Len(data) < MAX_DATA_LENGTH THEN crc8_from(0, Whole)
                                      ELSE TooLongCrc(SecondaryOf(node), Len(data))
  ELSE ReplyCrc(data)

\* What a run is about; it never changes.
Setting ==
  /\ component \in {"ebus", "zebus"} /\ part \in Parts /\ node \in Primaries
  /\ data \in Seq(Byte) /\ Len(data) \in 0 .. MAX_DATA_LENGTH
  /\ part = "request" /\ component = "zebus" => ~HasEscaped(data)
  /\ part = "reply" => data # <<>>

\* What is read of a request from the buffer.
LEMMA RequestPartIs ==
  ASSUME NEW b \in BufferType, NEW n \in 0 .. MAX_DATA_LENGTH - 1,
         length(b, "request") = n, Len(b.bytes) >= 5 + n
  PROVE  LET r == RequestPart(b)
         IN  /\ r \in Seq(Byte) /\ Len(r) = 5 + n
             /\ \A i \in 1 .. 4 : r[i] = b.bytes[i]
             /\ r[5] = n
             /\ \A i \in 1 .. n : r[5 + i] = b.bytes[5 + i]
<1> DEFINE s == b.bytes
           h == SubSeq(s, 1, 4)
           t == SubSeq(s, 6, 5 + n)
<1>1. s \in Seq(Byte) /\ Len(s) \in Nat /\ Len(s) >= 5 + n /\ n \in Nat
  BY MaxDataLengthAssumption DEF BufferType
<1>2. n \in Byte
  BY MaxDataLengthAssumption DEF Byte
<1>3. RequestPart(b) = h \o <<n>> \o t
  <2>1. NNPosition("request") = 4 /\ max_pos(b, "request") = 5 + n
    BY DEF NNPosition, OFFSET_NN, max_pos
  <2>2. DataIn(b, "request") = SubSeq(s, 4 + 2, 5 + n)
    BY <2>1 DEF DataIn
  <2>3. DataIn(b, "request") = t
    <3>1. 4 + 2 = 6
      OBVIOUS
    <3> QED
      BY <2>2, <3>1
  <2>4. RequestPart(b) = h \o <<length(b, "request")>> \o DataIn(b, "request")
    BY DEF RequestPart
  <2> HIDE DEF h, t
  <2> QED
    BY <2>3, <2>4
<1> HIDE DEF s
<1>4. h \in Seq(Byte) /\ Len(h) = 4 /\ \A i \in 1 .. 4 : h[i] = s[i]
  BY <1>1
<1>5. t \in Seq(Byte) /\ Len(t) = n /\ \A i \in 1 .. n : t[i] = s[5 + i]
  <2>1. CASE n = 0
    BY <1>1, <2>1
  <2>2. CASE n # 0
    <3>1. 6 \in 1 .. Len(s) /\ 5 + n \in 6 - 1 .. Len(s) /\ 5 + n - 6 + 1 = n
      BY <1>1, <2>2
    <3>2. t \in Seq(Byte) /\ Len(t) = 5 + n - 6 + 1 /\ \A i \in 1 .. 5 + n - 6 + 1 : t[i] = s[6 + i - 1]
      BY <1>1, <3>1
    <3>3. \A i \in 1 .. n : 6 + i - 1 = 5 + i
      BY <1>1
    <3> HIDE DEF t
    <3> QED
      BY <3>1, <3>2, <3>3
  <2> QED
    BY <2>1, <2>2
<1> HIDE DEF h, t
<1> DEFINE u == h \o <<n>>
           r == u \o t
<1>6. u \in Seq(Byte) /\ Len(u) = 5 /\ u[5] = n /\ \A i \in 1 .. 4 : u[i] = s[i]
  <2>1. <<n>> \in Seq(Byte) /\ Len(<<n>>) = 1 /\ <<n>>[1] = n
    BY <1>2
  <2> DEFINE one == <<n>>
  <2>2. one \in Seq(Byte) /\ Len(one) = 1 /\ one[1] = n
    BY <2>1
  <2> HIDE DEF one
  <2>3. u = h \o one
    BY DEF one
  <2> HIDE DEF u
  <2>4. /\ u \in Seq(Byte) /\ Len(u) = Len(h) + Len(one)
        /\ \A i \in 1 .. Len(h) : u[i] = h[i]
        /\ \A i \in 1 .. Len(one) : u[Len(h) + i] = one[i]
    BY <1>4, <2>2, <2>3, ConcatIs
  <2> QED
    BY <1>4, <2>2, <2>4
<1> HIDE DEF u
<1>7. /\ r \in Seq(Byte) /\ Len(r) = 5 + n
      /\ \A i \in 1 .. 5 : r[i] = u[i]
      /\ \A i \in 1 .. n : r[5 + i] = t[i]
  <2>1. /\ r \in Seq(Byte) /\ Len(r) = Len(u) + Len(t)
        /\ \A i \in 1 .. Len(u) : r[i] = u[i]
        /\ \A i \in 1 .. Len(t) : r[Len(u) + i] = t[i]
    BY <1>5, <1>6, ConcatIs
  <2> HIDE DEF r
  <2> QED
    BY <1>5, <1>6, <2>1
<1> HIDE DEF r
<1>8. /\ r \in Seq(Byte) /\ Len(r) = 5 + n /\ r[5] = n
      /\ \A i \in 1 .. 4 : r[i] = s[i]
      /\ \A i \in 1 .. n : r[5 + i] = s[5 + i]
  <2>1. r[5] = n /\ \A i \in 1 .. 4 : r[i] = s[i]
    <3>1. 5 \in 1 .. 5 /\ \A i \in 1 .. 4 : i \in 1 .. 5
      OBVIOUS
    <3> QED
      BY <1>6, <1>7, <3>1
  <2>2. \A i \in 1 .. n : r[5 + i] = s[5 + i]
    BY <1>5, <1>7
  <2> QED
    BY <1>7, <2>1, <2>2
<1> QED
  BY <1>3, <1>8 DEF r, u, s

\* What is sent is the whole, and its CRC.
LEMMA SentIs ==
  ASSUME Setting
  PROVE  SentPart = Whole /\ SentCrc = WholeCrc /\ SentCrc \in Byte
<1> DEFINE L == Len(data)
<1>1. data \in Seq(Byte) /\ L \in Nat /\ L <= MAX_DATA_LENGTH
  BY DEF Setting
<1>2. CASE part = "request"
  <2> DEFINE zz == SecondaryOf(node)
             b == SendCommand(zz, data)
             s == RequestSymbols(zz, data)
             n == IF L < MAX_DATA_LENGTH THEN L ELSE 0
  <2>1. zz \in Byte /\ zz # ESC
    BY AddressesNotEscaped DEF Setting
  <2>2. component # "ebus" => \A i \in 1 .. L : data[i] # ESC
    BY <1>1, <1>2 DEF Setting, HasEscaped
  <2>3. /\ b \in BufferType /\ b.bytes = Append(s, b.crc)
        /\ b.crc = IF L < MAX_DATA_LENGTH THEN crc8_from(0, s) ELSE TooLongCrc(zz, L)
    BY <1>1, <1>2, <2>1, <2>2, SendCommandIs
  <2>4. /\ s \in Seq(Byte) /\ Len(s) = 5 + L
        /\ s[1] = Primary /\ s[2] = zz /\ s[3] = 7 /\ s[4] = 4 /\ s[5] = L
        /\ \A i \in 1 .. L : s[5 + i] = data[i]
    BY <1>1, <2>1, RequestSymbolsAre
  <2>5. b.crc \in Byte
    BY <2>3 DEF BufferType
  <2>6. SentPart = RequestPart(b) /\ SentCrc = b.crc
    BY <1>2 DEF SentPart, SentCrc
  <2>7. /\ Whole = IF L < MAX_DATA_LENGTH THEN s ELSE <<Primary, zz, 7, 4, 0>>
        /\ WholeCrc = IF L < MAX_DATA_LENGTH THEN crc8_from(0, Whole) ELSE TooLongCrc(zz, L)
    BY <1>2 DEF Whole, WholeCrc
  <2> HIDE DEF b, s, zz
  <2>8. /\ Len(b.bytes) = 6 + L /\ \A i \in 1 .. 5 + L : b.bytes[i] = s[i]
    BY <1>1, <2>3, <2>4, <2>5
  <2>9. n \in 0 .. MAX_DATA_LENGTH - 1 /\ n <= L /\ get_nn(L) = n
    BY <1>1, MaxDataLengthAssumption DEF get_nn
  <2>10. length(b, "request") = n
    <3>1. Len(b.bytes) > 4 /\ b.bytes[5] = L
      BY <1>1, <2>4, <2>8
    <3>2. NNPosition("request") = 4
      BY DEF NNPosition, OFFSET_NN
    <3> QED
      BY <2>9, <3>1, <3>2 DEF length
  <2> DEFINE r == RequestPart(b)
  <2>11. Len(b.bytes) >= 5 + n
    BY <1>1, <2>8, <2>9
  <2>12. /\ r \in Seq(Byte) /\ Len(r) = 5 + n /\ r[5] = n
         /\ \A i \in 1 .. 4 : r[i] = b.bytes[i]
         /\ \A i \in 1 .. n : r[5 + i] = b.bytes[5 + i]
    <3> HIDE DEF n
    <3> QED
      BY <2>3, <2>9, <2>10, <2>11, RequestPartIs
  <2> HIDE DEF r
  <2>13. CASE L < MAX_DATA_LENGTH
    <3>1. n = L
      BY <2>13
    <3>2. \A i \in 1 .. 5 + L : r[i] = s[i]
      <4> TAKE i \in 1 .. 5 + L
      <4>1. CASE i <= 4
        BY <2>8, <2>12, <4>1
      <4>2. CASE i = 5
        BY <2>4, <2>12, <3>1, <4>2
      <4>3. CASE i > 5
        <5>1. i - 5 \in 1 .. L /\ 5 + (i - 5) = i
          BY <1>1, <4>3
        <5>2. r[5 + (i - 5)] = b.bytes[5 + (i - 5)]
          BY <2>12, <3>1, <5>1
        <5> QED
          BY <2>8, <5>1, <5>2
      <4> QED
        BY <1>1, <4>1, <4>2, <4>3
    <3>3. r = s
      <4>1. Len(r) = Len(s) /\ \A i \in 1 .. Len(r) : r[i] = s[i]
        BY <2>4, <2>12, <3>1, <3>2
      <4> HIDE DEF n
      <4> QED
        BY <2>4, <2>12, <4>1, SeqEqual
    <3> QED
      BY <2>3, <2>5, <2>6, <2>7, <2>13, <3>3 DEF r
  <2>14. CASE ~(L < MAX_DATA_LENGTH)
    <3> DEFINE w == <<Primary, zz, 7, 4, 0>>
    <3>1. n = 0
      BY <2>14
    <3>2. Primary \in Byte /\ 7 \in Byte /\ 4 \in Byte /\ 0 \in Byte
      BY CodecAssumption, AddressesNotEscaped DEF Byte
    <3>3. /\ w \in Seq(Byte) /\ Len(w) = 5
          /\ w[1] = Primary /\ w[2] = zz /\ w[3] = 7 /\ w[4] = 4 /\ w[5] = 0
      BY <2>1, <3>2 DEF zz
    <3> HIDE DEF w
    <3>4. r[1] = Primary /\ r[2] = zz /\ r[3] = 7 /\ r[4] = 4 /\ r[5] = 0 /\ Len(r) = 5
      <4>1. Len(r) = 5 /\ r[5] = 0
        BY <2>12, <3>1
      <4>2. \A i \in 1 .. 4 : i \in 1 .. 5 + L
        BY <1>1
      <4>3. \A i \in 1 .. 4 : r[i] = s[i]
        BY <2>8, <2>12, <4>2
      <4>4. r[1] = s[1] /\ r[2] = s[2] /\ r[3] = s[3] /\ r[4] = s[4]
        BY <4>3
      <4> QED
        BY <2>4, <4>1, <4>4
    <3>5. r = w
      <4>1. Len(r) = Len(w) /\ \A i \in 1 .. Len(r) : r[i] = w[i]
        <5>1. \A i \in 1 .. 5 : i \in {1, 2, 3, 4, 5}
          OBVIOUS
        <5> QED
          BY <3>3, <3>4, <5>1
      <4> QED
        BY <2>12, <3>3, <4>1, SeqEqual
    <3> QED
      BY <2>3, <2>5, <2>6, <2>7, <2>14, <3>5 DEF r, w
  <2> QED
    BY <2>13, <2>14
<1>3. CASE part # "request"
  <2>1. SentPart = Whole /\ SentCrc = WholeCrc /\ SentCrc = ReplyCrc(data)
    BY <1>3 DEF SentPart, Whole, SentCrc, WholeCrc
  <2>2. L \in Byte
    <3>1. \A n \in Nat : n <= MAX_DATA_LENGTH => n \in Byte
      BY MaxDataLengthAssumption DEF Byte
    <3> QED
      BY <1>1, <3>1
  <2>3. crc8_calc(L, 0) \in Byte
    <3>1. 0 \in Byte
      BY DEF Byte
    <3> QED
      BY <2>2, <3>1, CalcTyped
  <2>4. Escaped(data) \in Seq(Byte)
    BY <1>1, EscapedTyped
  <2>5. ReplyCrc(data) \in Byte
    BY <2>3, <2>4, FromTyped DEF ReplyCrc
  <2> QED
    BY <2>1, <2>5
<1> QED
  BY <1>2, <1>3

\* The whole, place by place.
LEMMA WholeIs ==
  ASSUME Setting
  PROVE  LET N == NNPosition(part)
             T == Len(Whole)
             L == Len(data)
         IN  /\ Whole \in Seq(Byte) /\ N \in {0, 4} /\ part \in Parts
             /\ T \in Nat /\ T >= N + 1 /\ T <= N + 1 + MAX_DATA_LENGTH
             /\ \A i \in 1 .. N + 1 : Whole[i] \notin {ESC, SYN}
             /\ part = "request" => N = 4 /\ Whole[2] = SecondaryOf(node)
             /\ part = "reply" => N = 0
             /\ L < MAX_DATA_LENGTH =>
                  /\ L \in 0 .. MAX_DATA_LENGTH - 1 /\ T = N + 1 + L /\ Whole[N + 1] = L
                  /\ \A i \in 1 .. L : Whole[N + 1 + i] = data[i]
<1> DEFINE L == Len(data)
<1>1. /\ data \in Seq(Byte) /\ L \in Nat /\ L <= MAX_DATA_LENGTH /\ part \in Parts
      /\ node \in Primaries
  BY DEF Setting
<1>2. \A n \in Nat : n <= MAX_DATA_LENGTH => n \in Byte /\ n \notin {ESC, SYN}
  <2>1. MAX_DATA_LENGTH < 169
    BY CodecAssumption DEF ESC
  <2> QED
    BY <2>1, MaxDataLengthAssumption DEF Byte, ESC, SYN
<1>3. L \in Byte /\ L \notin {ESC, SYN}
  BY <1>1, <1>2
<1>4. L < MAX_DATA_LENGTH => L \in 0 .. MAX_DATA_LENGTH - 1
  <2>1. \A n \in Nat : n < MAX_DATA_LENGTH => n \in 0 .. MAX_DATA_LENGTH - 1
    BY MaxDataLengthAssumption
  <2> QED
    BY <1>1, <2>1
<1>5. MAX_DATA_LENGTH \in Nat
  BY MaxDataLengthAssumption
<1>6. CASE part = "request"
  <2> DEFINE zz == SecondaryOf(node)
             s == RequestSymbols(zz, data)
             w == <<Primary, zz, 7, 4, 0>>
  <2>1. NNPosition(part) = 4
    BY <1>6 DEF NNPosition, OFFSET_NN
  <2>2. /\ Primary \in Byte /\ Primary \notin {ESC, SYN}
        /\ zz \in Byte /\ zz \notin {ESC, SYN}
    BY <1>1, CodecAssumption, AddressesNotEscaped
  <2>3. {7, 4, 0} \subseteq Byte /\ 7 \notin {ESC, SYN} /\ 4 \notin {ESC, SYN} /\ 0 \notin {ESC, SYN}
    BY DEF Byte, ESC, SYN
  <2>4. \A i \in 1 .. 4 + 1 : i \in {1, 2, 3, 4, 5}
    OBVIOUS
  <2>5. CASE L < MAX_DATA_LENGTH
    <3>1. Whole = s
      BY <1>6, <2>5 DEF Whole
    <3>2. /\ s \in Seq(Byte) /\ Len(s) = 5 + L
          /\ s[1] = Primary /\ s[2] = zz /\ s[3] = 7 /\ s[4] = 4 /\ s[5] = L
          /\ \A i \in 1 .. L : s[5 + i] = data[i]
      BY <1>1, <2>2, RequestSymbolsAre
    <3> HIDE DEF s, zz, L
    <3>3. \A i \in 1 .. 4 + 1 : s[i] \notin {ESC, SYN}
      BY <1>3, <2>2, <2>3, <2>4, <3>2
    <3>4. Len(s) \in Nat /\ Len(s) >= 4 + 1 /\ Len(s) <= 4 + 1 + MAX_DATA_LENGTH /\ Len(s) = 4 + 1 + L
      BY <1>1, <1>5, <3>2
    <3>5. s[4 + 1] = L /\ \A i \in 1 .. L : s[4 + 1 + i] = data[i]
      BY <3>2
    <3> QED
      BY <1>1, <1>4, <1>6, <2>1, <3>1, <3>2, <3>3, <3>4, <3>5 DEF zz, L
  <2>6. CASE ~(L < MAX_DATA_LENGTH)
    <3>1. Whole = w
      BY <1>6, <2>6 DEF Whole
    <3>2. /\ w \in Seq(Byte) /\ Len(w) = 5
          /\ w[1] = Primary /\ w[2] = zz /\ w[3] = 7 /\ w[4] = 4 /\ w[5] = 0
      BY <2>2, <2>3 DEF zz
    <3> HIDE DEF w, zz, L
    <3>3. \A i \in 1 .. 4 + 1 : w[i] \notin {ESC, SYN}
      BY <2>2, <2>3, <2>4, <3>2
    <3>4. Len(w) \in Nat /\ Len(w) >= 4 + 1 /\ Len(w) <= 4 + 1 + MAX_DATA_LENGTH
      BY <1>5, <3>2
    <3> QED
      BY <1>1, <1>6, <2>1, <2>6, <3>1, <3>2, <3>3, <3>4 DEF zz, L
  <2> QED
    BY <2>5, <2>6
<1>7. CASE part # "request"
  <2> DEFINE one == <<L>>
             w == one \o data
  <2>1. NNPosition(part) = 0 /\ Whole = w /\ part = "reply"
    BY <1>1, <1>7 DEF NNPosition, Whole, Parts
  <2>2. one \in Seq(Byte) /\ Len(one) = 1 /\ one[1] = L
    BY <1>3
  <2> HIDE DEF one
  <2>3. /\ w \in Seq(Byte) /\ Len(w) = Len(one) + L
        /\ \A i \in 1 .. Len(one) : w[i] = one[i]
        /\ \A i \in 1 .. L : w[Len(one) + i] = data[i]
    BY <1>1, <2>2, ConcatIs
  <2> HIDE DEF w, L
  <2>4. /\ Len(w) = 0 + 1 + L /\ w[0 + 1] = L
        /\ \A i \in 1 .. L : w[0 + 1 + i] = data[i]
    BY <2>2, <2>3
  <2>5. \A i \in 1 .. 0 + 1 : w[i] \notin {ESC, SYN}
    <3>1. \A i \in 1 .. 0 + 1 : i = 0 + 1
      OBVIOUS
    <3> QED
      BY <1>3, <2>4, <3>1
  <2>6. Len(w) \in Nat /\ Len(w) >= 0 + 1 /\ Len(w) <= 0 + 1 + MAX_DATA_LENGTH
    BY <1>1, <1>5, <2>4
  <2> QED
    BY <1>1, <1>4, <1>7, <2>1, <2>3, <2>4, <2>5, <2>6 DEF L
<1> QED
  BY <1>6, <1>7

\* What has no symbol that is escaped is sent as it is.
LEMMA EscapedPlain ==
  ASSUME NEW s \in Seq(Byte), \A i \in 1 .. Len(s) : s[i] \notin {ESC, SYN}
  PROVE  Escaped(s) = s
<1> DEFINE Plain(t) == \A i \in 1 .. Len(t) : t[i] \notin {ESC, SYN}
           Ok(n) == \A t \in Seq(Byte) : Len(t) = n /\ Plain(t) => Escaped(t) = t
           K == {n \in Nat : Ok(n)}
<1>1. Ok(0)
  <2> TAKE t \in Seq(Byte)
  <2>1. Len(t) = 0 => t = <<>>
    OBVIOUS
  <2> QED
    BY <2>1, EscapedEmpty
<1>2. ASSUME NEW n \in Nat, Ok(n) PROVE Ok(n + 1)
  <2> SUFFICES ASSUME NEW t \in Seq(Byte), Len(t) = n + 1, Plain(t) PROVE Escaped(t) = t
    OBVIOUS
  <2>1. /\ t # <<>> /\ t[1] \in Byte /\ Tail(t) \in Seq(Byte) /\ Len(Tail(t)) = n
        /\ \A i \in 1 .. n : Tail(t)[i] = t[i + 1]
    OBVIOUS
  <2>2. Plain(Tail(t)) /\ t[1] \notin {ESC, SYN}
    <3>1. 1 \in 1 .. n + 1 /\ \A i \in 1 .. n : i + 1 \in 1 .. n + 1
      OBVIOUS
    <3> QED
      BY <2>1, <3>1
  <2>3. Escaped(Tail(t)) = Tail(t)
    <3> HIDE DEF Plain
    <3> QED
      BY <1>2, <2>1, <2>2
  <2>4. Escape(t[1]) = <<t[1]>>
    BY <2>1, <2>2, EscapeTyped
  <2>5. Escaped(t) = <<t[1]>> \o Tail(t)
    BY <2>1, <2>3, <2>4, EscapedCons
  <2>6. <<t[1]>> \o Tail(t) = t
    <3> DEFINE u == <<t[1]>> \o Tail(t)
    <3>1. u \in Seq(Byte) /\ u # <<>> /\ Head(u) = t[1] /\ Tail(u) = Tail(t)
      BY <2>1, TakeFirst
    <3> HIDE DEF u
    <3>2. Head(t) = t[1]
      BY <2>1
    <3>3. ASSUME NEW v \in Seq(Byte), v # <<>>, Len(Tail(v)) = n
          PROVE  v[1] = Head(v) /\ Len(v) = n + 1 /\ \A i \in 1 .. n : v[i + 1] = Tail(v)[i]
      <4>1. v[1] = Head(v) /\ Len(v) \in Nat /\ Len(Tail(v)) = Len(v) - 1
        BY <3>3
      <4>2. \A i \in 1 .. Len(v) - 1 : v[i + 1] = Tail(v)[i]
        BY <3>3
      <4> QED
        BY <3>3, <4>1, <4>2
    <3>4. Len(u) = Len(t) /\ u[1] = t[1] /\ \A i \in 1 .. n : u[i + 1] = t[i + 1]
      <4>1. Len(t) = n + 1 /\ \A i \in 1 .. n : t[i + 1] = Tail(t)[i]
        BY <2>1
      <4>2. Len(Tail(u)) = n
        BY <2>1, <3>1
      <4>3. u[1] = Head(u) /\ Len(u) = n + 1 /\ \A i \in 1 .. n : u[i + 1] = Tail(u)[i]
        BY <3>1, <3>3, <4>2
      <4> QED
        BY <3>1, <4>1, <4>3
    <3>5. \A i \in 1 .. Len(u) : u[i] = t[i]
      <4> TAKE i \in 1 .. Len(u)
      <4>1. i = 1 \/ (i - 1 \in 1 .. n /\ (i - 1) + 1 = i)
        BY <3>4
      <4> QED
        BY <3>4, <4>1
    <3>6. u = t
      BY <3>1, <3>4, <3>5, SeqEqual
    <3> QED
      BY <3>6 DEF u
  <2> QED
    BY <2>5, <2>6
<1>3. K = Nat
  <2> HIDE DEF Ok
  <2>1. K \in SUBSET Nat /\ 0 \in K /\ \A n \in K : n + 1 \in K
    BY <1>1, <1>2
  <2> QED
    BY <2>1, NatSetInduction
<1>4. Len(s) \in Nat /\ Ok(Len(s))
  <2>1. Len(s) \in Nat
    OBVIOUS
  <2> HIDE DEF Ok
  <2> QED
    BY <1>3, <2>1
<1> QED
  BY <1>4

-----------------------------------------------------------------------------
(* The invariant: what is stored, what is rolled and what is on its way.   *)

\* The symbols on their way: the body, then the CRC, unless it has arrived.
Pending(body, c, done) == IF done THEN <<>> ELSE Append(body, c)

Rest(body) == IF body = <<>> THEN <<>> ELSE Tail(body)

\* The places of the buffer that have been filled: zebus fills one with ESC.
Filled(body, half, done) ==
  Len(Whole) - Len(body) + IF done \/ (half /\ component = "zebus") THEN 1 ELSE 0

\* The first k places; c is the CRC as it is on the wire.
Stored(b, k, c, corr) ==
  /\ b \in BufferType /\ Len(b.bytes) = k
  /\ corr => k > NNPosition(part)
  /\ Len(data) < MAX_DATA_LENGTH /\ k > NNPosition(part) =>
       b.bytes[NNPosition(part) + 1] = Len(data)
  /\ k = Len(Whole) + 1 => b.bytes[k] = Read(c)
  /\ ~corr => \A i \in 1 .. k : b.bytes[i] = Read(Append(Whole, c)[i])

\* The body is the end of the whole.
BodyAsSent(body) ==
  \A i \in 1 .. Len(body) : body[i] = Whole[Len(Whole) - Len(body) + i]

\* The bytes that are still to be rolled into the CRC.
ToRoll(body, half) ==
  IF component = "ebus" THEN body
  ELSE IF half /\ body # <<>> THEN Tail(Escaped(body)) ELSE Escaped(body)

\* They will make the CRC what was sent, unless a byte has been corrupted.
Rolled(b, body, c, half, corr) ==
  CrcAgrees /\ Len(data) < MAX_DATA_LENGTH =>
    /\ component = "zebus" /\ body # <<>> => body[Len(body)] \notin {ESC, SYN}
    /\ corr <=> crc8_from(b.crc, ToRoll(body, half)) # c
    /\ c = WholeCrc \/ (corr /\ c \notin {ESC, SYN})

OnTheWay(body, c, half, done) ==
  /\ body \in Seq(Byte) /\ Len(body) <= Len(Whole)
  /\ c \in Byte /\ half \in BOOLEAN /\ done \in BOOLEAN
  /\ done => body = <<>> /\ ~half
  /\ Encodes(wire, Pending(body, c, done), half)
  /\ in_esc <=> half /\ component = "ebus"
  /\ buffer.waitForEscaped <=> half /\ component = "zebus"
  /\ Stored(buffer, Filled(body, half, done), c, corrupted)
  /\ ~corrupted => BodyAsSent(body) /\ c = WholeCrc
  /\ Rolled(buffer, body, c, half, corrupted)

CodecInv ==
  /\ Setting /\ in_esc \in BOOLEAN /\ corrupted \in BOOLEAN
  /\ \E body, c, half, done : OnTheWay(body, c, half, done)

-----------------------------------------------------------------------------
(* One symbol.                                                             *)

\* What is first of what is on its way, and what is left without it.
LEMMA PendingFirst ==
  ASSUME NEW body \in Seq(Byte), NEW c \in Byte
  PROVE  LET rem == Pending(body, c, FALSE)
         IN  /\ rem \in Seq(Byte) /\ rem # <<>>
             /\ rem[1] = IF body = <<>> THEN c ELSE body[1]
             /\ Tail(rem) = Pending(Rest(body), c, body = <<>>)
             /\ Rest(body) \in Seq(Byte)
             /\ Len(Rest(body)) = IF body = <<>> THEN 0 ELSE Len(body) - 1
             /\ body = <<>> <=> Len(body) = 0
<1> DEFINE rem == Append(body, c)
<1>1. Pending(body, c, FALSE) = rem
  BY DEF Pending
<1>2. /\ rem \in Seq(Byte) /\ Len(rem) = Len(body) + 1 /\ rem[Len(body) + 1] = c
      /\ \A i \in 1 .. Len(body) : rem[i] = body[i]
      /\ Len(body) \in Nat /\ (body = <<>> <=> Len(body) = 0)
  <2>1. /\ rem \in Seq(Byte) /\ Len(rem) = Len(body) + 1 /\ rem[Len(body) + 1] = c
        /\ \A i \in 1 .. Len(body) : rem[i] = body[i]
    BY AppendProperties
  <2>2. Len(body) \in Nat /\ (body = <<>> <=> Len(body) = 0)
    BY EmptySeq, LenProperties
  <2> HIDE DEF rem
  <2> QED
    BY <2>1, <2>2
<1> HIDE DEF rem
<1>3. CASE body = <<>>
  <2>1. Tail(rem) = <<>>
    <3>1. Len(rem) = 1 /\ rem # <<>>
      <4>1. Len(body) = 0
        BY <1>2, <1>3
      <4>2. Len(rem) = 1
        BY <1>2, <4>1
      <4> QED
        BY <1>2, <4>2, EmptySeq
    <3>2. Tail(rem) \in Seq(Byte) /\ Len(Tail(rem)) = 0
      BY <1>2, <3>1
    <3> DEFINE t == Tail(rem)
    <3> HIDE DEF t
    <3>3. t \in Seq(Byte) /\ Len(t) = 0 => t = <<>>
      OBVIOUS
    <3> QED
      BY <3>2, <3>3 DEF t
  <2> QED
    BY <1>1, <1>2, <1>3, <2>1 DEF Rest, Pending
<1>4. CASE body # <<>>
  <2> DEFINE rest == Tail(body)
  <2>1. /\ rest \in Seq(Byte) /\ Len(rest) = Len(body) - 1
        /\ \A i \in 1 .. Len(body) - 1 : rest[i] = body[i + 1]
    BY <1>4
  <2>2. /\ Append(rest, c) \in Seq(Byte) /\ Len(Append(rest, c)) = Len(body)
        /\ Append(rest, c)[Len(body)] = c
        /\ \A i \in 1 .. Len(body) - 1 : Append(rest, c)[i] = rest[i]
    BY <1>2, <1>4, <2>1
  <2>3. /\ Tail(rem) \in Seq(Byte) /\ Len(Tail(rem)) = Len(body)
        /\ \A i \in 1 .. Len(body) : Tail(rem)[i] = rem[i + 1]
    BY <1>2
  <2>4. \A i \in 1 .. Len(body) : Tail(rem)[i] = Append(rest, c)[i]
    <3> TAKE i \in 1 .. Len(body)
    <3>1. CASE i = Len(body)
      BY <1>2, <2>2, <2>3, <3>1
    <3>2. CASE i # Len(body)
      <4>1. i \in 1 .. Len(body) - 1 /\ i + 1 \in 1 .. Len(body)
        BY <1>2, <3>2
      <4> QED
        BY <1>2, <2>1, <2>2, <2>3, <4>1
    <3> QED
      BY <3>1, <3>2
  <2>5. Tail(rem) = Append(rest, c)
    <3> HIDE DEF rest
    <3> QED
      BY <2>2, <2>3, <2>4, SeqEqual
  <2>6. rem[1] = body[1] /\ rem # <<>>
    BY <1>2, <1>4
  <2>7. (body = <<>>) = FALSE
    BY <1>4
  <2> QED
    BY <1>1, <1>2, <1>4, <2>1, <2>5, <2>6, <2>7 DEF Rest, Pending
<1> QED
  BY <1>3, <1>4

\* One place more.
LEMMA StoreSymbol ==
  ASSUME Setting, NEW corr \in BOOLEAN, NEW b, NEW k, NEW c \in Byte, NEW x \in Byte,
         Stored(b, k, c, corr), k \in 0 .. Len(Whole),
         ~corr => x = Append(Whole, c)[k + 1],
         k = Len(Whole) => x = c,
         NEW next \in BufferType, next.bytes = Append(b.bytes, Read(x))
  PROVE  Stored(next, k + 1, c, corr)
<1> DEFINE N == NNPosition(part)
           T == Len(Whole)
           all == Append(Whole, c)
<1>1. /\ Whole \in Seq(Byte) /\ N \in {0, 4} /\ T \in Nat /\ T >= N + 1
      /\ \A i \in 1 .. N + 1 : Whole[i] \notin {ESC, SYN}
      /\ Len(data) < MAX_DATA_LENGTH => Whole[N + 1] = Len(data)
  BY WholeIs
<1>2. /\ b.bytes \in Seq(Byte) /\ Len(b.bytes) = k /\ k \in Nat
      /\ corr => k > N
      /\ Len(data) < MAX_DATA_LENGTH /\ k > N => b.bytes[N + 1] = Len(data)
      /\ ~corr => \A i \in 1 .. k : b.bytes[i] = Read(all[i])
  BY <1>1 DEF Stored, BufferType
<1>3. Read(x) \in Byte
  BY DEF Read, ESC, Byte
<1>4. /\ Len(next.bytes) = k + 1 /\ next.bytes[k + 1] = Read(x)
      /\ \A i \in 1 .. k : next.bytes[i] = b.bytes[i]
  BY <1>2, <1>3
<1>5. corr => k + 1 > N
  BY <1>1, <1>2
<1>6. ASSUME Len(data) < MAX_DATA_LENGTH, k + 1 > N PROVE next.bytes[N + 1] = Len(data)
  <2>1. CASE k = N
    <3>1. ~corr /\ all[N + 1] = Whole[N + 1] /\ Whole[N + 1] \notin {ESC, SYN}
      BY <1>1, <1>2, <2>1
    <3>2. x = Len(data) /\ Read(x) = x
      BY <1>1, <1>6, <2>1, <3>1 DEF Read
    <3> QED
      BY <1>4, <2>1, <3>2
  <2>2. CASE k # N
    BY <1>1, <1>2, <1>4, <1>6, <2>2
  <2> QED
    BY <2>1, <2>2
<1>7. k + 1 = T + 1 => next.bytes[k + 1] = Read(c)
  BY <1>1, <1>2, <1>4
<1>8. ASSUME ~corr PROVE \A i \in 1 .. k + 1 : next.bytes[i] = Read(all[i])
  <2> TAKE i \in 1 .. k + 1
  <2>1. i = k + 1 \/ i \in 1 .. k
    BY <1>2
  <2> QED
    BY <1>2, <1>4, <1>8, <2>1
<1> QED
  BY <1>4, <1>5, <1>6, <1>7, <1>8 DEF Stored

\* Whether a byte is rolled into the CRC.
LEMMA RollIs ==
  ASSUME Setting, NEW corr, NEW b, NEW k, NEW c, NEW x,
         Stored(b, k, c, corr), Len(data) < MAX_DATA_LENGTH
  PROVE  Roll(b, part, x) = IF k < Len(Whole) THEN crc8_calc(x, b.crc) ELSE b.crc
<1> DEFINE N == NNPosition(part)
           L == Len(data)
<1>1. L \in 0 .. MAX_DATA_LENGTH - 1 /\ Len(Whole) = N + 1 + L /\ part \in Parts
  BY WholeIs
<1>2. b \in BufferType /\ Len(b.bytes) = k /\ (Len(b.bytes) > N => b.bytes[N + 1] = L)
  BY DEF Stored
<1> HIDE DEF L
<1>3. Len(b.bytes) < max_pos(b, part) <=> Len(b.bytes) < N + 1 + L
  BY <1>1, <1>2, LengthStored
<1> QED
  BY <1>1, <1>2, <1>3 DEF Roll

\* The second byte of an escape sequence.
Second(symbol) == IF symbol = ESC THEN ESCAPED_ESC ELSE ESCAPED_SYN

\* The first byte is rolled in first.
LEMMA FromHead ==
  ASSUME NEW c \in Byte, NEW bytes \in Seq(Byte), bytes # <<>>
  PROVE  crc8_from(c, bytes) = crc8_from(crc8_calc(Head(bytes), c), Tail(bytes))
<1>1. Head(bytes) = bytes[1]
  OBVIOUS
<1> QED
  BY <1>1, FromCons

\* A symbol that is rolled in as it is.
LEMMA RollPlain ==
  ASSUME NEW body \in Seq(Byte), body # <<>>, NEW c \in Byte,
         component = "ebus" \/ body[1] \notin {SYN, ESC}
  PROVE  /\ ToRoll(Rest(body), FALSE) \in Seq(Byte)
         /\ crc8_from(c, ToRoll(body, FALSE))
              = crc8_from(crc8_calc(body[1], c), ToRoll(Rest(body), FALSE))
<1>1. Rest(body) = Tail(body) /\ Tail(body) \in Seq(Byte)
  BY DEF Rest
<1>2. CASE component = "ebus"
  <2>1. ToRoll(body, FALSE) = body /\ ToRoll(Rest(body), FALSE) = Tail(body)
    BY <1>1, <1>2 DEF ToRoll
  <2> QED
    BY <1>1, <2>1, FromCons
<1>3. CASE component # "ebus"
  <2> DEFINE bytes == Escaped(body)
  <2>1. ToRoll(body, FALSE) = bytes /\ ToRoll(Rest(body), FALSE) = Escaped(Tail(body))
    BY <1>1, <1>3 DEF ToRoll
  <2>2. bytes \in Seq(Byte) /\ bytes # <<>> /\ Escaped(Tail(body)) \in Seq(Byte)
    BY <1>1, EscapedTyped
  <2>3. Encodes(bytes, body, FALSE)
    BY DEF Encodes
  <2> HIDE DEF bytes
  <2>4. Head(bytes) = body[1] /\ Tail(bytes) = Escaped(Tail(body))
    BY <1>3, <2>2, <2>3, EncodesStep
  <2>5. crc8_from(c, bytes) = crc8_from(crc8_calc(body[1], c), Escaped(Tail(body)))
    BY <2>2, <2>4, FromHead
  <2> QED
    BY <2>1, <2>2, <2>5
<1> QED
  BY <1>2, <1>3

\* A symbol that zebus rolls in as the two bytes it is escaped as.
LEMMA RollEscaped ==
  ASSUME NEW body \in Seq(Byte), body # <<>>, NEW c \in Byte,
         component # "ebus", body[1] \in {SYN, ESC}
  PROVE  /\ ToRoll(body, TRUE) \in Seq(Byte) /\ ToRoll(Rest(body), FALSE) \in Seq(Byte)
         /\ crc8_from(c, ToRoll(body, FALSE)) = crc8_from(crc8_calc(ESC, c), ToRoll(body, TRUE))
         /\ crc8_from(c, ToRoll(body, TRUE))
              = crc8_from(crc8_calc(Second(body[1]), c), ToRoll(Rest(body), FALSE))
<1> DEFINE bytes == Escaped(body)
           half == Tail(bytes)
<1>1. Rest(body) = Tail(body) /\ Tail(body) \in Seq(Byte)
  BY DEF Rest
<1>2. /\ ToRoll(body, FALSE) = bytes /\ ToRoll(body, TRUE) = half
      /\ ToRoll(Rest(body), FALSE) = Escaped(Tail(body))
  BY <1>1 DEF ToRoll
<1>3. bytes \in Seq(Byte) /\ bytes # <<>> /\ Escaped(Tail(body)) \in Seq(Byte)
  BY <1>1, EscapedTyped
<1>4. Encodes(bytes, body, FALSE)
  BY DEF Encodes
<1> HIDE DEF bytes
<1>5. Head(bytes) = ESC /\ half # <<>> /\ Encodes(half, body, TRUE)
  BY <1>3, <1>4, EncodesStep
<1>6. crc8_from(c, bytes) = crc8_from(crc8_calc(ESC, c), half)
  BY <1>3, <1>5, FromHead
<1> HIDE DEF half
<1>7. half \in Seq(Byte) /\ Head(half) = Second(body[1]) /\ Tail(half) = Escaped(Tail(body))
  BY <1>5, EncodesStep DEF Second
<1>8. crc8_from(c, half) = crc8_from(crc8_calc(Second(body[1]), c), Escaped(Tail(body)))
  BY <1>5, <1>7, FromHead
<1> QED
  BY <1>2, <1>3, <1>6, <1>7, <1>8

\* With the body, everything has been rolled.
LEMMA RollEmpty ==
  ASSUME NEW c \in Byte, NEW half
  PROVE  crc8_from(c, ToRoll(<<>>, half)) = c
<1>1. ToRoll(<<>>, half) = <<>>
  BY EscapedEmpty DEF ToRoll
<1> QED
  BY <1>1, FromEmpty

\* Where the body is, and what is left of it without its first symbol.
LEMMA BodyIs ==
  ASSUME Setting, NEW body \in Seq(Byte), NEW c \in Byte, Len(body) <= Len(Whole)
  PROVE  LET k == Len(Whole) - Len(body)
             x == IF body = <<>> THEN c ELSE body[1]
             rest == Rest(body)
         IN  /\ k \in 0 .. Len(Whole) /\ Len(Whole) \in Nat
             /\ k < Len(Whole) <=> body # <<>>
             /\ body # <<>> => (k + 1 < Len(Whole) <=> Len(body) # 1)
             /\ Filled(body, FALSE, FALSE) = k
             /\ component = "zebus" => Filled(body, TRUE, FALSE) = k + 1
             /\ Filled(rest, FALSE, body = <<>>) = k + 1
             /\ x \in Byte /\ (k = Len(Whole) => x = c)
             /\ BodyAsSent(body) => x = Append(Whole, c)[k + 1] /\ BodyAsSent(rest)
             /\ rest \in Seq(Byte) /\ Len(rest) <= Len(Whole)
             /\ rest # <<>> => body # <<>> /\ rest[Len(rest)] = body[Len(body)]
<1> DEFINE T == Len(Whole)
           k == T - Len(body)
           x == IF body = <<>> THEN c ELSE body[1]
           rest == Rest(body)
<1>1. /\ Whole \in Seq(Byte) /\ T \in Nat /\ Len(body) \in Nat
      /\ (body = <<>> <=> Len(body) = 0)
      /\ \A i \in 1 .. T : Append(Whole, c)[i] = Whole[i]
      /\ Append(Whole, c)[T + 1] = c
  <2>1. Whole \in Seq(Byte)
    BY WholeIs
  <2> QED
    BY <2>1
<1>2. /\ rest \in Seq(Byte) /\ Len(rest) = IF body = <<>> THEN 0 ELSE Len(body) - 1
      /\ body # <<>> => \A i \in 1 .. Len(body) - 1 : rest[i] = body[i + 1]
  BY DEF Rest
<1>3. /\ k \in 0 .. T /\ (k < T <=> body # <<>>) /\ (k = T => x = c)
      /\ body # <<>> => (k + 1 < T <=> Len(body) # 1)
  <2> DEFINE m == Len(body)
  <2>1. m \in Nat /\ T \in Nat /\ m <= T /\ k = T - m /\ (body = <<>> <=> m = 0)
    BY <1>1
  <2> HIDE DEF T, m, k
  <2>2. k \in 0 .. T /\ (k < T <=> m # 0) /\ (k = T => m = 0) /\ (k + 1 < T <=> m # 0 /\ m # 1)
    BY <2>1
  <2> QED
    BY <2>1, <2>2 DEF m
<1>4. /\ Filled(body, FALSE, FALSE) = k
      /\ component = "zebus" => Filled(body, TRUE, FALSE) = k + 1
  BY <1>1 DEF Filled
<1>5. Filled(rest, FALSE, body = <<>>) = k + 1
  <2>1. CASE body = <<>>
    BY <1>1, <1>2, <2>1 DEF Filled
  <2>2. CASE body # <<>>
    BY <1>1, <1>2, <2>2 DEF Filled
  <2> QED
    BY <2>1, <2>2
<1>6. x \in Byte
  BY <1>1
<1>7. ASSUME BodyAsSent(body) PROVE x = Append(Whole, c)[k + 1]
  <2>1. CASE body = <<>>
    BY <1>1, <2>1
  <2>2. CASE body # <<>>
    <3>1. 1 \in 1 .. Len(body) /\ k + 1 \in 1 .. T
      BY <1>1, <2>2
    <3>2. body[1] = Whole[k + 1]
      BY <1>7, <3>1 DEF BodyAsSent
    <3> QED
      BY <1>1, <2>2, <3>1, <3>2
  <2> QED
    BY <2>1, <2>2
<1>8. ASSUME BodyAsSent(body) PROVE BodyAsSent(rest)
  <2> SUFFICES ASSUME NEW i \in 1 .. Len(rest) PROVE rest[i] = Whole[T - Len(rest) + i]
    BY DEF BodyAsSent
  <2>1. body # <<>> /\ i + 1 \in 1 .. Len(body) /\ i \in 1 .. Len(body) - 1
        /\ T - Len(rest) + i = T - Len(body) + (i + 1)
    <3>1. body # <<>>
      <4>1. CASE body = <<>>
        BY <1>2, <4>1
      <4> QED
        BY <4>1
    <3>2. Len(rest) = Len(body) - 1
      BY <1>2, <3>1
    <3>3. i \in 1 .. Len(body) - 1
      BY <3>2
    <3> HIDE DEF T, rest
    <3> QED
      BY <1>1, <3>1, <3>2, <3>3
  <2>2. body[i + 1] = Whole[T - Len(body) + (i + 1)]
    BY <1>8, <2>1 DEF BodyAsSent
  <2> QED
    BY <1>2, <2>1, <2>2
<1>9. ASSUME rest # <<>> PROVE body # <<>> /\ rest[Len(rest)] = body[Len(body)]
  <2>1. body # <<>>
    BY <1>9 DEF Rest
  <2>2. Len(rest) = Len(body) - 1 /\ Len(rest) \in Nat \ {0}
    <3>1. Len(rest) # 0
      BY <1>2, <1>9
    <3> QED
      BY <1>1, <1>2, <2>1, <3>1
  <2>3. Len(body) - 1 \in 1 .. Len(body) - 1 /\ (Len(body) - 1) + 1 = Len(body)
    BY <1>1, <2>2
  <2> QED
    BY <1>2, <2>1, <2>2, <2>3
<1>10. Len(rest) <= T
  BY <1>1, <1>2
<1> HIDE DEF T, k, x, rest
<1> QED
  BY <1>1, <1>2, <1>3, <1>4, <1>5, <1>6, <1>7, <1>8, <1>9, <1>10 DEF T, k, x, rest

\* The parts of the invariant after a symbol that is one byte in the buffer and
\* in the CRC.
LEMMA TakeSymbol ==
  ASSUME Setting, NEW corr \in BOOLEAN, NEW b, NEW body \in Seq(Byte), NEW c \in Byte,
         NEW x, x = IF body = <<>> THEN c ELSE body[1],
         NEW rest, rest = Rest(body), NEW last \in BOOLEAN, last <=> body = <<>>,
         component = "ebus" \/ x \notin {SYN, ESC},
         Len(body) <= Len(Whole),
         Stored(b, Filled(body, FALSE, FALSE), c, corr),
         ~corr => BodyAsSent(body),
         Rolled(b, body, c, FALSE, corr),
         NEW next \in BufferType, next.bytes = Append(b.bytes, Read(x)),
         next.crc = Roll(b, part, x)
  PROVE  /\ Stored(next, Filled(rest, FALSE, last), c, corr)
         /\ Rolled(next, rest, c, FALSE, corr)
<1> DEFINE k == Len(Whole) - Len(body)
<1>0. Filled(rest, FALSE, last) = Filled(Rest(body), FALSE, body = <<>>)
  BY DEF Filled
<1>1. /\ k \in 0 .. Len(Whole) /\ (k < Len(Whole) <=> body # <<>>)
      /\ Filled(body, FALSE, FALSE) = k /\ Filled(Rest(body), FALSE, body = <<>>) = k + 1
      /\ x \in Byte /\ (k = Len(Whole) => x = c)
      /\ ~corr => x = Append(Whole, c)[k + 1]
      /\ Rest(body) # <<>> => body # <<>> /\ Rest(body)[Len(Rest(body))] = body[Len(body)]
  BY BodyIs
<1>2. Stored(b, k, c, corr)
  BY <1>1
<1> HIDE DEF k
<1>3. Stored(next, k + 1, c, corr)
  BY <1>1, <1>2, StoreSymbol
<1>4. Rolled(next, Rest(body), c, FALSE, corr)
  <2> SUFFICES ASSUME CrcAgrees, Len(data) < MAX_DATA_LENGTH
               PROVE  Rolled(next, Rest(body), c, FALSE, corr)
    BY DEF Rolled
  <2>1. /\ component = "zebus" /\ body # <<>> => body[Len(body)] \notin {ESC, SYN}
        /\ corr <=> crc8_from(b.crc, ToRoll(body, FALSE)) # c
        /\ c = WholeCrc \/ (corr /\ c \notin {ESC, SYN})
    BY DEF Rolled
  <2>2. next.crc = IF k < Len(Whole) THEN crc8_calc(x, b.crc) ELSE b.crc
    BY <1>2, RollIs
  <2>3. b.crc \in Byte
    BY <1>2 DEF Stored, BufferType
  <2>4. crc8_from(b.crc, ToRoll(body, FALSE)) = crc8_from(next.crc, ToRoll(Rest(body), FALSE))
    <3>1. CASE body = <<>>
      BY <1>1, <2>2, <3>1 DEF Rest
    <3>2. CASE body # <<>>
      <4>1. next.crc = crc8_calc(body[1], b.crc)
        BY <1>1, <2>2, <3>2
      <4>2. component = "ebus" \/ body[1] \notin {SYN, ESC}
        BY <3>2
      <4> QED
        BY <2>3, <3>2, <4>1, <4>2, RollPlain
    <3> QED
      BY <3>1, <3>2
  <2> QED
    BY <1>1, <2>1, <2>4 DEF Rolled
<1> QED
  BY <1>0, <1>1, <1>3, <1>4

\* After ESC in zebus.
LEMMA TakeEsc ==
  ASSUME Setting, NEW corr \in BOOLEAN, NEW b, NEW body \in Seq(Byte), NEW c \in Byte,
         NEW x, x = IF body = <<>> THEN c ELSE body[1],
         component = "zebus", x \in {SYN, ESC},
         Len(body) <= Len(Whole),
         Stored(b, Filled(body, FALSE, FALSE), c, corr),
         ~corr => BodyAsSent(body),
         Rolled(b, body, c, FALSE, corr),
         NEW next \in BufferType, next.bytes = Append(b.bytes, ESC),
         next.crc = Roll(b, part, ESC)
  PROVE  /\ Stored(next, Filled(body, TRUE, FALSE), c, corr)
         /\ Rolled(next, body, c, TRUE, corr)
<1> DEFINE k == Len(Whole) - Len(body)
<1>1. /\ k \in 0 .. Len(Whole) /\ (k < Len(Whole) <=> body # <<>>)
      /\ Filled(body, FALSE, FALSE) = k /\ Filled(body, TRUE, FALSE) = k + 1
      /\ x \in Byte /\ (k = Len(Whole) => x = c)
      /\ ~corr => x = Append(Whole, c)[k + 1]
  BY BodyIs
<1>2. Stored(b, k, c, corr)
  BY <1>1
<1> HIDE DEF k
<1>3. Stored(next, k + 1, c, corr)
  <2>1. Read(x) = ESC
    BY DEF Read
  <2> QED
    BY <1>1, <1>2, <2>1, StoreSymbol
<1>4. Rolled(next, body, c, TRUE, corr)
  <2> SUFFICES ASSUME CrcAgrees, Len(data) < MAX_DATA_LENGTH
               PROVE  Rolled(next, body, c, TRUE, corr)
    BY DEF Rolled
  <2>1. /\ component = "zebus" /\ body # <<>> => body[Len(body)] \notin {ESC, SYN}
        /\ corr <=> crc8_from(b.crc, ToRoll(body, FALSE)) # c
        /\ c = WholeCrc \/ (corr /\ c \notin {ESC, SYN})
    BY DEF Rolled
  <2>2. next.crc = IF k < Len(Whole) THEN crc8_calc(ESC, b.crc) ELSE b.crc
    BY <1>2, RollIs
  <2>3. b.crc \in Byte
    BY <1>2 DEF Stored, BufferType
  <2>4. crc8_from(b.crc, ToRoll(body, FALSE)) = crc8_from(next.crc, ToRoll(body, TRUE))
    <3>1. CASE body = <<>>
      <4>1. next.crc = b.crc
        BY <1>1, <2>2, <3>1
      <4> QED
        BY <2>3, <3>1, <4>1, RollEmpty
    <3>2. CASE body # <<>>
      <4>1. next.crc = crc8_calc(ESC, b.crc)
        BY <1>1, <2>2, <3>2
      <4>2. component # "ebus" /\ body[1] \in {SYN, ESC}
        BY <3>2
      <4> QED
        BY <2>3, <3>2, <4>1, <4>2, RollEscaped
    <3> QED
      BY <3>1, <3>2
  <2> QED
    BY <2>1, <2>4 DEF Rolled
<1> QED
  BY <1>1, <1>3, <1>4

\* After the byte that follows ESC in zebus.
LEMMA TakeSecond ==
  ASSUME Setting, NEW corr \in BOOLEAN, NEW b, NEW body \in Seq(Byte), NEW c \in Byte,
         NEW x, x = IF body = <<>> THEN c ELSE body[1],
         NEW rest, rest = Rest(body), NEW last \in BOOLEAN, last <=> body = <<>>,
         component = "zebus", x \in {SYN, ESC},
         Len(body) <= Len(Whole),
         Stored(b, Filled(body, TRUE, FALSE), c, corr),
         Rolled(b, body, c, TRUE, corr),
         NEW next \in BufferType, next.bytes = b.bytes,
         next.crc = Roll(b, part, Second(x))
  PROVE  /\ Stored(next, Filled(rest, FALSE, last), c, corr)
         /\ Rolled(next, rest, c, FALSE, corr)
<1> DEFINE k == Len(Whole) - Len(body)
<1>0. Filled(rest, FALSE, last) = Filled(Rest(body), FALSE, body = <<>>)
  BY DEF Filled
<1>1. /\ k \in 0 .. Len(Whole) /\ (k < Len(Whole) <=> body # <<>>)
      /\ body # <<>> => (k + 1 < Len(Whole) <=> Len(body) # 1)
      /\ Filled(body, TRUE, FALSE) = k + 1 /\ Filled(Rest(body), FALSE, body = <<>>) = k + 1
      /\ Len(Whole) \in Nat
      /\ Rest(body) # <<>> => body # <<>> /\ Rest(body)[Len(Rest(body))] = body[Len(body)]
  BY BodyIs
<1>2. Stored(b, k + 1, c, corr)
  BY <1>1
<1> HIDE DEF k
<1>3. Stored(next, k + 1, c, corr)
  BY <1>2 DEF Stored
<1>4. Rolled(next, Rest(body), c, FALSE, corr)
  <2> SUFFICES ASSUME CrcAgrees, Len(data) < MAX_DATA_LENGTH
               PROVE  Rolled(next, Rest(body), c, FALSE, corr)
    BY DEF Rolled
  <2>1. /\ component = "zebus" /\ body # <<>> => body[Len(body)] \notin {ESC, SYN}
        /\ corr <=> crc8_from(b.crc, ToRoll(body, TRUE)) # c
        /\ c = WholeCrc \/ (corr /\ c \notin {ESC, SYN})
    BY DEF Rolled
  <2>2. next.crc = IF k + 1 < Len(Whole) THEN crc8_calc(Second(x), b.crc) ELSE b.crc
    BY <1>2, RollIs
  <2>3. b.crc \in Byte
    BY <1>2 DEF Stored, BufferType
  <2>4. crc8_from(b.crc, ToRoll(body, TRUE)) = crc8_from(next.crc, ToRoll(Rest(body), FALSE))
    <3>1. CASE body = <<>>
      <4>1. next.crc = b.crc
        BY <1>1, <2>2, <3>1
      <4>2. Rest(body) = <<>>
        BY <3>1 DEF Rest
      <4> QED
        BY <2>3, <3>1, <4>1, <4>2, RollEmpty
    <3>2. CASE body # <<>>
      \* The last symbol of the body is not escaped: this is not the last one.
      <4>1. Len(body) # 1
        BY <2>1, <3>2
      <4>2. next.crc = crc8_calc(Second(body[1]), b.crc)
        BY <1>1, <2>2, <3>2, <4>1
      <4>3. component # "ebus" /\ body[1] \in {SYN, ESC}
        BY <3>2
      <4> QED
        BY <2>3, <3>2, <4>2, <4>3, RollEscaped
    <3> QED
      BY <3>1, <3>2
  <2> QED
    BY <1>1, <2>1, <2>4 DEF Rolled
<1> QED
  BY <1>0, <1>1, <1>3, <1>4

-----------------------------------------------------------------------------
(* The beginning.                                                          *)

\* Where the data has no symbol that is escaped.
LEMMA NotEscaped ==
  ASSUME NEW s \in Seq(Byte), ~HasEscaped(s)
  PROVE  \A i \in 1 .. Len(s) : s[i] \notin {ESC, SYN}
BY DEF HasEscaped

\* Rolling the whole makes the CRC that is sent.
LEMMA WholeRolled ==
  ASSUME Setting, CrcAgrees, Len(data) < MAX_DATA_LENGTH
  PROVE  /\ crc8_from(0, ToRoll(Whole, FALSE)) = WholeCrc
         /\ component = "zebus" => Whole[Len(Whole)] \notin {ESC, SYN}
<1> DEFINE N == NNPosition(part)
           T == Len(Whole)
           L == Len(data)
<1>1. /\ Whole \in Seq(Byte) /\ N \in {0, 4} /\ T \in Nat /\ T = N + 1 + L
      /\ L \in 0 .. MAX_DATA_LENGTH - 1 /\ L \in Nat
      /\ \A i \in 1 .. N + 1 : Whole[i] \notin {ESC, SYN}
      /\ part = "reply" => N = 0
      /\ Whole[N + 1] = L
      /\ \A i \in 1 .. L : Whole[N + 1 + i] = data[i]
      /\ data \in Seq(Byte) /\ component \in {"ebus", "zebus"} /\ part \in Parts
  <2>1. data \in Seq(Byte) /\ component \in {"ebus", "zebus"} /\ part \in Parts /\ L \in Nat
    BY DEF Setting
  <2> QED
    BY <2>1, WholeIs
<1>2. T # 0 /\ Whole # <<>> /\ T \in 1 .. T
  BY <1>1
<1>3. 0 \in Byte
  BY DEF Byte
<1> HIDE DEF T, L, N
<1>4. CASE part = "request"
  <2>1. WholeCrc = crc8_from(0, Whole)
    BY <1>4 DEF WholeCrc
  <2>2. CASE component = "ebus"
    BY <2>1, <2>2 DEF ToRoll
  <2>3. CASE component = "zebus"
    <3>1. \A i \in 1 .. L : data[i] \notin {ESC, SYN}
      BY <1>1, <1>4, <2>3, NotEscaped DEF Setting, L
    <3>2. \A i \in 1 .. T : Whole[i] \notin {ESC, SYN}
      <4> TAKE i \in 1 .. T
      <4>1. i \in 1 .. N + 1 \/ (i - (N + 1) \in 1 .. L /\ N + 1 + (i - (N + 1)) = i)
        BY <1>1
      <4>2. ASSUME NEW j \in 1 .. L, N + 1 + j = i PROVE Whole[i] \notin {ESC, SYN}
        BY <1>1, <3>1, <4>2
      <4> QED
        BY <1>1, <4>1, <4>2
    <3>3. Escaped(Whole) = Whole
      BY <1>1, <3>2, EscapedPlain DEF T
    <3>4. ToRoll(Whole, FALSE) = Whole
      BY <2>3, <3>3 DEF ToRoll
    <3> QED
      BY <1>2, <2>1, <3>2, <3>4 DEF T
  <2> QED
    BY <1>1, <2>2, <2>3
<1>5. CASE part = "reply"
  <2>1. /\ N = 0 /\ data # <<>> /\ L # 0 /\ Whole[1] = L /\ T = 1 + L
        /\ Whole[1] \notin {ESC, SYN} /\ \A i \in 1 .. L : Whole[1 + i] = data[i]
    <3>1. N = 0 /\ data # <<>>
      BY <1>1, <1>5 DEF Setting
    <3>2. L # 0
      BY <1>1, <3>1 DEF L
    <3>3. 0 + 1 = 1 /\ 1 \in 1 .. 0 + 1
      OBVIOUS
    <3> QED
      BY <1>1, <3>1, <3>2, <3>3
  <2>2. Rest(Whole) = data
    <3> DEFINE rest == Tail(Whole)
    <3>1. /\ Rest(Whole) = rest /\ rest \in Seq(Byte) /\ Len(rest) = T - 1
          /\ \A i \in 1 .. T - 1 : rest[i] = Whole[i + 1]
      BY <1>1, <1>2 DEF Rest, T
    <3> HIDE DEF rest
    <3>2. Len(rest) = Len(data) /\ \A i \in 1 .. Len(rest) : rest[i] = data[i]
      <4>1. T - 1 = L /\ \A i \in 1 .. L : i + 1 = 1 + i
        BY <1>1, <2>1
      <4> QED
        BY <2>1, <3>1, <4>1 DEF L
    <3> QED
      BY <1>1, <3>1, <3>2, SeqEqual
  <2>3. crc8_from(0, ToRoll(Whole, FALSE)) = crc8_from(crc8_calc(L, 0), ToRoll(data, FALSE))
    BY <1>1, <1>2, <1>3, <2>1, <2>2, RollPlain
  <2>4. ToRoll(data, FALSE) = Escaped(data)
    <3>1. CASE component = "ebus"
      <4>1. ~HasEscaped(data)
        BY <1>5, <3>1 DEF CrcAgrees
      <4>2. Escaped(data) = data
        BY <1>1, <4>1, NotEscaped, EscapedPlain
      <4> QED
        BY <3>1, <4>2 DEF ToRoll
    <3>2. CASE component = "zebus"
      BY <3>2 DEF ToRoll
    <3> QED
      BY <1>1, <3>1, <3>2
  <2>5. WholeCrc = crc8_from(crc8_calc(L, 0), Escaped(data))
    BY <1>5 DEF WholeCrc, ReplyCrc, L
  <2>6. ASSUME component = "zebus" PROVE Whole[T] \notin {ESC, SYN}
    <3>1. ~HasEscaped(<<Last(data)>>)
      BY <1>5, <2>6 DEF CrcAgrees
    <3>2. Last(data) = data[L]
      BY DEF Last, L
    <3>3. data[L] \in Byte
      BY <1>1, <2>1 DEF L
    <3>4. data[L] \notin {ESC, SYN}
      <4> DEFINE y == data[L]
      <4>1. ~HasEscaped(<<y>>) /\ <<y>> \in Seq(Byte) /\ Len(<<y>>) = 1 /\ <<y>>[1] = y
        BY <3>1, <3>2, <3>3
      <4> HIDE DEF y
      <4>2. 1 \in DOMAIN <<y>>
        OBVIOUS
      <4>3. y \notin {ESC, SYN}
        BY <4>1, <4>2 DEF HasEscaped
      <4> QED
        BY <4>3 DEF y
    <3>5. Whole[1 + L] = data[L]
      BY <1>1, <2>1
    <3> QED
      BY <2>1, <3>4, <3>5
  <2> QED
    BY <2>3, <2>4, <2>5, <2>6 DEF T
<1> QED
  BY <1>1, <1>4, <1>5 DEF Parts

\* The invariant holds at first, with everything on its way.
LEMMA InitInv == Init => CodecInv
<1> SUFFICES ASSUME Init PROVE CodecInv
  OBVIOUS
<1>1. Setting
  <2>1. data \in Payloads \cup Replies /\ (part = "reply" => data # <<>>)
    BY CodecAssumption DEF Init
  <2>2. data \in Seq(Byte) /\ Len(data) <= MAX_DATA_LENGTH
    BY <2>1, CodecAssumption
  <2>3. Len(data) \in 0 .. MAX_DATA_LENGTH
    <3>1. \A n \in Nat : n <= MAX_DATA_LENGTH => n \in 0 .. MAX_DATA_LENGTH
      BY MaxDataLengthAssumption
    <3>2. Len(data) \in Nat
      BY <2>2
    <3> QED
      BY <2>2, <3>1, <3>2
  <2>4. node \in Primaries
    <3>1. 3 \in Primaries
      BY DEF Primaries, Byte
    <3> QED
      BY <3>1 DEF Init
  <2>5. /\ component \in {"ebus", "zebus"} /\ part \in Parts
        /\ part = "request" /\ component = "zebus" => ~HasEscaped(data)
    BY DEF Init, Parts
  <2> QED
    BY <2>1, <2>2, <2>3, <2>4, <2>5 DEF Setting
<1> DEFINE c == SentCrc
<1>2. /\ SentPart = Whole /\ c \in Byte /\ c = WholeCrc
      /\ Whole \in Seq(Byte) /\ Len(Whole) \in Nat /\ Len(Whole) >= NNPosition(part) + 1
      /\ NNPosition(part) \in {0, 4}
  BY <1>1, SentIs, WholeIs
<1>3. buffer = EmptyBuffer /\ in_esc = FALSE /\ corrupted = FALSE
  BY DEF Init
<1>4. wire = Escaped(SentPart \o <<c>>)
  BY DEF Init
<1> HIDE DEF c
<1>5. Encodes(wire, Pending(Whole, c, FALSE), FALSE)
  <2>1. Whole \o <<c>> = Append(Whole, c)
    BY <1>2, AppendIsConcat
  <2>2. Append(Whole, c) \in Seq(Byte)
    BY <1>2
  <2> QED
    BY <1>2, <1>4, <2>1, <2>2 DEF Encodes, Pending
<1>6. Filled(Whole, FALSE, FALSE) = 0
  BY <1>2 DEF Filled
<1>7. EmptyBuffer \in BufferType /\ EmptyBuffer.bytes = <<>> /\ EmptyBuffer.crc = 0
      /\ ~EmptyBuffer.waitForEscaped
  BY DEF EmptyBuffer, BufferType, Byte
<1>8. Stored(buffer, 0, c, FALSE)
  <2>1. Len(buffer.bytes) = 0
    BY <1>3, <1>7
  <2>2. ~(0 > NNPosition(part)) /\ 0 # Len(Whole) + 1
    BY <1>2
  <2> QED
    BY <1>3, <1>7, <2>1, <2>2 DEF Stored
<1>9. BodyAsSent(Whole)
  <2>1. \A i \in 1 .. Len(Whole) : Len(Whole) - Len(Whole) + i = i
    BY <1>2
  <2> QED
    BY <2>1 DEF BodyAsSent
<1>10. Rolled(buffer, Whole, c, FALSE, FALSE)
  <2> SUFFICES ASSUME CrcAgrees, Len(data) < MAX_DATA_LENGTH
               PROVE  Rolled(buffer, Whole, c, FALSE, FALSE)
    BY DEF Rolled
  <2>1. /\ crc8_from(0, ToRoll(Whole, FALSE)) = WholeCrc
        /\ component = "zebus" => Whole[Len(Whole)] \notin {ESC, SYN}
    BY <1>1, WholeRolled
  <2>2. buffer.crc = 0 /\ c = WholeCrc
    BY <1>2, <1>3, <1>7
  <2> QED
    BY <2>1, <2>2 DEF Rolled
<1>11. OnTheWay(Whole, c, FALSE, FALSE)
  <2>1. /\ Stored(buffer, Filled(Whole, FALSE, FALSE), c, corrupted)
        /\ Rolled(buffer, Whole, c, FALSE, corrupted)
    BY <1>3, <1>6, <1>8, <1>10, Zenon
  <2>2. in_esc <=> FALSE /\ component = "ebus"
    BY <1>3
  <2>3. buffer.waitForEscaped <=> FALSE /\ component = "zebus"
    BY <1>3, <1>7
  <2>4. Len(Whole) <= Len(Whole)
    BY <1>2
  <2> QED
    BY <1>2, <1>5, <1>9, <2>1, <2>2, <2>3, <2>4 DEF OnTheWay
<1> QED
  BY <1>1, <1>3, <1>11 DEF CodecInv

-----------------------------------------------------------------------------
(* The steps.                                                              *)

\* What the invariant says does not depend on anything that changes but for the
\* buffer, the wire and the two flags.
LEMMA StepInv ==
  ASSUME UNCHANGED <<component, part, node, data>>,
         NEW body \in Seq(Byte), NEW c \in Byte, NEW half \in BOOLEAN, NEW done \in BOOLEAN,
         Len(body) <= Len(Whole), done => body = <<>> /\ ~half,
         Encodes(wire', Pending(body, c, done), half),
         in_esc' <=> half /\ component = "ebus",
         buffer'.waitForEscaped <=> half /\ component = "zebus",
         Stored(buffer', Filled(body, half, done), c, corrupted'),
         ~corrupted' => BodyAsSent(body) /\ c = WholeCrc,
         Rolled(buffer', body, c, half, corrupted')
  PROVE  OnTheWay(body, c, half, done)'
<1>1. Whole' = Whole
  BY DEF Whole
<1>2. WholeCrc' = WholeCrc
  BY <1>1 DEF WholeCrc
<1>3. ASSUME NEW x PROVE Read(x)' = Read(x)
  BY DEF Read
<1>4. CrcAgrees' <=> CrcAgrees
  BY DEF CrcAgrees
<1>5. ToRoll(body, half)' = ToRoll(body, half)
  BY DEF ToRoll
<1>6. Filled(body, half, done)' = Filled(body, half, done)
  BY <1>1 DEF Filled
<1>7. Stored(buffer, Filled(body, half, done), c, corrupted)'
  BY <1>1, <1>3, <1>6 DEF Stored, Read
<1>8. ~corrupted' => BodyAsSent(body)' /\ c = WholeCrc'
  BY <1>1, <1>2 DEF BodyAsSent
<1>9. Rolled(buffer, body, c, half, corrupted)'
  BY <1>2, <1>4, <1>5 DEF Rolled
<1>10. Encodes(wire, Pending(body, c, done), half)'
  BY DEF Encodes, Pending
<1> QED
  BY <1>1, <1>7, <1>8, <1>9, <1>10 DEF OnTheWay

\* A byte that is delivered.
LEMMA DeliverInv ==
  ASSUME CodecInv, Deliver
  PROVE  CodecInv'
<1>1. /\ Setting /\ corrupted \in BOOLEAN /\ corrupted' = corrupted
      /\ UNCHANGED <<component, part, node, data>>
      /\ wire # <<>> /\ wire' = Tail(wire)
  BY DEF CodecInv, Deliver
<1>2. PICK body, c, half, done : OnTheWay(body, c, half, done)
  BY DEF CodecInv
<1>3. /\ body \in Seq(Byte) /\ Len(body) <= Len(Whole)
      /\ c \in Byte /\ half \in BOOLEAN /\ done \in BOOLEAN
      /\ Encodes(wire, Pending(body, c, done), half)
      /\ in_esc <=> half /\ component = "ebus"
      /\ buffer.waitForEscaped <=> half /\ component = "zebus"
      /\ Stored(buffer, Filled(body, half, done), c, corrupted)
      /\ ~corrupted => BodyAsSent(body) /\ c = WholeCrc
      /\ Rolled(buffer, body, c, half, corrupted)
  BY <1>2 DEF OnTheWay
<1>4. component \in {"ebus", "zebus"} /\ part \in Parts /\ buffer \in BufferType
  BY <1>1, <1>3 DEF Setting, Stored
<1>5. ~done
  <2>1. CASE done
    <3>1. Pending(body, c, done) = <<>>
      BY <2>1 DEF Pending
    <3> QED
      BY <1>1, <1>3, <3>1, EncodesEmpty
  <2> QED
    BY <2>1
<1> DEFINE rem == Pending(body, c, FALSE)
           x == IF body = <<>> THEN c ELSE body[1]
           rest == Rest(body)
           last == body = <<>>
           y == Head(wire)
<1>6. /\ rem \in Seq(Byte) /\ rem # <<>> /\ rem[1] = x
      /\ Tail(rem) = Pending(rest, c, last)
      /\ rest \in Seq(Byte) /\ last \in BOOLEAN
  BY <1>3, PendingFirst
<1>7. /\ Len(rest) <= Len(Whole) /\ x \in Byte
      /\ ~corrupted => BodyAsSent(rest)
  BY <1>1, <1>3, BodyIs
<1>8. Encodes(wire, rem, half)
  <2>1. Pending(body, c, done) = rem
    BY <1>5 DEF Pending
  <2> QED
    BY <1>3, <2>1
<1>9. Stored(buffer, Filled(body, half, FALSE), c, corrupted)
  <2>1. Filled(body, half, done) = Filled(body, half, FALSE)
    BY <1>5 DEF Filled
  <2> QED
    BY <1>3, <2>1
<1>10. (last => rest = <<>>) /\ (last <=> body = <<>>) /\ rest = Rest(body)
  BY DEF Rest
<1> HIDE DEF rem, x, rest, last, y
<1>11. /\ y \in Byte \ {SYN}
       /\ half => /\ x \in {SYN, ESC} /\ y = Second(x)
                  /\ wire' = Escaped(Tail(rem))
       /\ ~half /\ x \in {SYN, ESC} => y = ESC /\ Encodes(wire', rem, TRUE)
       /\ ~half /\ x \notin {SYN, ESC} => y = x /\ wire' = Escaped(Tail(rem))
  <2>1. Head(wire) \in Byte \ {SYN}
    BY <1>1, <1>3, <1>8, EncodesStep
  <2>2. ASSUME half
        PROVE  /\ Head(wire) = IF rem[1] = ESC THEN ESCAPED_ESC ELSE ESCAPED_SYN
               /\ rem[1] \in {SYN, ESC}
               /\ Tail(wire) = Escaped(Tail(rem))
    BY <1>1, <1>3, <1>8, <2>2, EncodesStep
  <2>3. ASSUME ~half, rem[1] \in {SYN, ESC}
        PROVE  Head(wire) = ESC /\ Encodes(Tail(wire), rem, TRUE)
    <3>1. half = FALSE
      BY <1>3, <2>3
    <3>2. Encodes(wire, rem, FALSE)
      BY <1>8, <3>1
    <3> QED
      BY <1>1, <1>6, <2>3, <3>2, EncodesStep
  <2>4. ASSUME ~half, rem[1] \notin {SYN, ESC}
        PROVE  Head(wire) = rem[1] /\ Tail(wire) = Escaped(Tail(rem))
    <3>1. half = FALSE
      BY <1>3, <2>4
    <3>2. Encodes(wire, rem, FALSE)
      BY <1>8, <3>1
    <3> QED
      BY <1>1, <1>6, <2>4, <3>2, EncodesStep
  <2> QED
    BY <1>1, <1>6, <2>1, <2>2, <2>3, <2>4 DEF Second, y
\* Of a symbol that is taken, the rest is on its way.
<1>12. ASSUME wire' = Escaped(Tail(rem))
       PROVE  Encodes(wire', Pending(rest, c, last), FALSE)
  <2>1. Tail(rem) \in Seq(Byte)
    BY <1>6
  <2> QED
    BY <1>6, <1>12, <2>1 DEF Encodes
<1>13. ASSUME wire' = Escaped(Tail(rem)), ~in_esc', ~buffer'.waitForEscaped,
              Stored(buffer', Filled(rest, FALSE, last), c, corrupted),
              Rolled(buffer', rest, c, FALSE, corrupted)
       PROVE  OnTheWay(rest, c, FALSE, last)'
  BY <1>1, <1>3, <1>6, <1>7, <1>10, <1>12, <1>13, StepInv
\* ebus takes ESC for itself.
<1>14. ASSUME EscapeBegins PROVE \E b, d, h, e : OnTheWay(b, d, h, e)'
  <2>1. component = "ebus" /\ ~half /\ y = ESC /\ in_esc' = TRUE /\ buffer' = buffer
    BY <1>3, <1>14 DEF EscapeBegins, y
  <2>2. x \in {SYN, ESC} /\ Encodes(wire', Pending(body, c, FALSE), TRUE)
    BY <1>11, <2>1 DEF rem
  <2>3. /\ Stored(buffer', Filled(body, TRUE, FALSE), c, corrupted')
        /\ Rolled(buffer', body, c, TRUE, corrupted')
    <3>1. Filled(body, TRUE, FALSE) = Filled(body, half, FALSE)
      BY <2>1 DEF Filled
    <3>2. Stored(buffer, Filled(body, TRUE, FALSE), c, corrupted)
      BY <1>9, <3>1
    <3>3. ToRoll(body, TRUE) = ToRoll(body, half)
      BY <2>1 DEF ToRoll
    <3>4. Rolled(buffer, body, c, TRUE, corrupted)
      BY <1>3, <3>3 DEF Rolled
    <3> QED
      BY <1>1, <2>1, <3>2, <3>4
  <2>4. in_esc' <=> TRUE /\ component = "ebus"
    BY <2>1
  <2>5. buffer'.waitForEscaped <=> TRUE /\ component = "zebus"
    BY <1>3, <2>1
  <2>6. OnTheWay(body, c, TRUE, FALSE)'
    BY <1>1, <1>3, <2>2, <2>3, <2>4, <2>5, StepInv
  <2> QED
    BY <2>6
\* Every other byte is pushed into the buffer.
<1>15. ASSUME ReceiveByte PROVE \E b, d, h, e : OnTheWay(b, d, h, e)'
  <2>1. /\ ~(component = "ebus" /\ ~in_esc /\ y = ESC)
        /\ in_esc' = FALSE /\ buffer' = Push(buffer, real_byte(y))
    BY <1>15 DEF ReceiveByte, y
  <2>2. ESC # SYN /\ ESCAPED_ESC # ESCAPED_SYN
    BY DEF ESC, SYN, ESCAPED_ESC, ESCAPED_SYN
  <2>3. CASE component = "ebus"
    <3>1. wire' = Escaped(Tail(rem)) /\ real_byte(y) = x
      <4>1. CASE half
        <5>1. in_esc /\ x \in {SYN, ESC} /\ y = Second(x) /\ wire' = Escaped(Tail(rem))
          BY <1>3, <1>11, <2>3, <4>1
        <5>2. CASE x = ESC
          <6>1. y = ESCAPED_ESC
            BY <5>1, <5>2 DEF Second
          <6> QED
            BY <5>1, <5>2, <6>1 DEF real_byte
        <5>3. CASE x = SYN
          <6>1. y # ESCAPED_ESC
            BY <2>2, <5>1, <5>3 DEF Second
          <6> QED
            BY <5>1, <5>3, <6>1 DEF real_byte
        <5> QED
          BY <5>1, <5>2, <5>3
      <4>2. CASE ~half
        <5>1. ~in_esc /\ y # ESC
          BY <1>3, <2>1, <2>3, <4>2
        <5>2. y = x /\ wire' = Escaped(Tail(rem))
          BY <1>11, <4>2, <5>1
        <5> QED
          BY <5>1, <5>2 DEF real_byte
      <4> QED
        BY <4>1, <4>2
    <3>2. buffer' = push_buffer_(buffer, part, x)
      BY <2>1, <2>3, <3>1 DEF Push
    <3>3. /\ buffer' \in BufferType /\ buffer'.bytes = Append(buffer.bytes, x)
          /\ buffer'.crc = Roll(buffer, part, x) /\ ~buffer'.waitForEscaped
      <4>1. ~buffer.waitForEscaped
        BY <1>3, <2>3
      <4> DEFINE next == push_buffer_(buffer, part, x)
      <4>2. /\ next \in BufferType /\ next.bytes = Append(buffer.bytes, x)
            /\ next.crc = Roll(buffer, part, x) /\ next.waitForEscaped = buffer.waitForEscaped
        BY <1>4, <1>7, PushEbus
      <4> HIDE DEF next
      <4>3. ~next.waitForEscaped
        BY <4>1, <4>2
      <4>4. buffer' = next
        BY <3>2 DEF next
      <4> QED
        BY <4>2, <4>3, <4>4
    <3>4. Read(x) = x
      BY <2>3 DEF Read
    <3>5. Stored(buffer, Filled(body, FALSE, FALSE), c, corrupted)
      <4>1. Filled(body, FALSE, FALSE) = Filled(body, half, FALSE)
        BY <2>3 DEF Filled
      <4> QED
        BY <1>9, <4>1
    <3>6. Rolled(buffer, body, c, FALSE, corrupted)
      <4>1. ToRoll(body, FALSE) = ToRoll(body, half)
        BY <2>3 DEF ToRoll
      <4> QED
        BY <1>3, <4>1 DEF Rolled
    <3>7. /\ Stored(buffer', Filled(rest, FALSE, last), c, corrupted)
          /\ Rolled(buffer', rest, c, FALSE, corrupted)
      BY <1>1, <1>3, <2>3, <3>3, <3>4, <3>5, <3>6, <1>6, <1>10, TakeSymbol DEF x
    <3>8. OnTheWay(rest, c, FALSE, last)'
      BY <1>13, <2>1, <3>1, <3>3, <3>7
    <3> QED
      BY <3>8
  <2>4. CASE component = "zebus"
    <3> DEFINE next == pushBuffer(buffer, part, y)
    <3>1. component # "ebus" /\ ~in_esc
      BY <1>3, <2>4
    <3>2. real_byte(y) = y
      BY <3>1 DEF real_byte
    <3>3. buffer' = next
      BY <2>1, <3>1, <3>2 DEF Push
    <3>4. /\ next \in BufferType /\ next.crc = Roll(buffer, part, y)
          /\ buffer.waitForEscaped => next.bytes = buffer.bytes /\ ~next.waitForEscaped
          /\ ~buffer.waitForEscaped => /\ next.bytes = Append(buffer.bytes, y)
                                       /\ y = ESC => next.waitForEscaped
                                       /\ y # ESC => ~next.waitForEscaped
      BY <1>4, <1>11, PushZebus
    <3> HIDE DEF next
    <3>5. CASE half
      <4>1. x \in {SYN, ESC} /\ y = Second(x) /\ wire' = Escaped(Tail(rem))
        BY <1>11, <3>5
      <4>2. next.bytes = buffer.bytes /\ ~next.waitForEscaped
        BY <1>3, <2>4, <3>4, <3>5
      <4>3. /\ Stored(buffer, Filled(body, TRUE, FALSE), c, corrupted)
            /\ Rolled(buffer, body, c, TRUE, corrupted)
        <5>1. half = TRUE
          BY <1>3, <3>5
        <5> QED
          BY <1>3, <1>9, <5>1
      <4>4. next.crc = Roll(buffer, part, Second(x))
        BY <3>4, <4>1
      <4>5. /\ Stored(next, Filled(rest, FALSE, last), c, corrupted)
            /\ Rolled(next, rest, c, FALSE, corrupted)
        BY <1>1, <1>3, <2>4, <3>4, <4>1, <4>2, <4>3, <4>4, <1>6, <1>10, TakeSecond DEF x
      <4>6. OnTheWay(rest, c, FALSE, last)'
        BY <1>13, <2>1, <3>3, <4>1, <4>2, <4>5
      <4> QED
        BY <4>6
    <3>6. CASE ~half
      <4>1. /\ Stored(buffer, Filled(body, FALSE, FALSE), c, corrupted)
            /\ Rolled(buffer, body, c, FALSE, corrupted)
            /\ ~buffer.waitForEscaped
        <5>1. half = FALSE
          BY <1>3, <3>6
        <5> QED
          BY <1>3, <1>9, <5>1
      <4>2. CASE x \in {SYN, ESC}
        <5>1. y = ESC /\ Encodes(wire', Pending(body, c, FALSE), TRUE)
          BY <1>11, <3>6, <4>2 DEF rem
        <5>2. next.bytes = Append(buffer.bytes, ESC) /\ next.waitForEscaped
              /\ next.crc = Roll(buffer, part, ESC)
          BY <3>4, <4>1, <5>1
        <5>3. /\ Stored(next, Filled(body, TRUE, FALSE), c, corrupted)
              /\ Rolled(next, body, c, TRUE, corrupted)
          BY <1>1, <1>3, <2>4, <3>4, <4>1, <4>2, <5>2, TakeEsc DEF x
        <5>4. in_esc' <=> TRUE /\ component = "ebus"
          BY <2>1, <3>1
        <5>5. buffer'.waitForEscaped <=> TRUE /\ component = "zebus"
          BY <2>4, <3>3, <5>2
        <5>6. OnTheWay(body, c, TRUE, FALSE)'
          BY <1>1, <1>3, <3>3, <5>1, <5>3, <5>4, <5>5, StepInv
        <5> QED
          BY <5>6
      <4>3. CASE x \notin {SYN, ESC}
        <5>1. y = x /\ wire' = Escaped(Tail(rem))
          BY <1>11, <3>6, <4>3
        <5>2. Read(x) = x
          BY <4>3 DEF Read
        <5>3. next.bytes = Append(buffer.bytes, Read(x)) /\ ~next.waitForEscaped
              /\ next.crc = Roll(buffer, part, x)
          BY <3>4, <4>1, <4>3, <5>1, <5>2
        <5>4. /\ Stored(next, Filled(rest, FALSE, last), c, corrupted)
              /\ Rolled(next, rest, c, FALSE, corrupted)
          BY <1>1, <1>3, <3>4, <4>1, <4>3, <5>3, <1>6, <1>10, TakeSymbol DEF x
        <5>5. OnTheWay(rest, c, FALSE, last)'
          BY <1>13, <2>1, <3>3, <5>1, <5>3, <5>4
        <5> QED
          BY <5>5
      <4> QED
        BY <4>2, <4>3
    <3> QED
      BY <1>3, <3>5, <3>6
  <2> QED
    BY <1>4, <2>3, <2>4
<1>16. \E b, d, h, e : OnTheWay(b, d, h, e)'
  BY <1>14, <1>15 DEF Deliver
<1>17. Setting' /\ in_esc' \in BOOLEAN /\ corrupted' \in BOOLEAN
  <2>1. Setting'
    BY <1>1 DEF Setting
  <2>2. in_esc' \in BOOLEAN
    BY DEF Deliver, EscapeBegins, ReceiveByte
  <2> QED
    BY <1>1, <2>1, <2>2
<1> QED
  BY <1>16, <1>17 DEF CodecInv

\* Inverting bits of a byte makes it another byte.
LEMMA XorChanges ==
  ASSUME NEW x \in Byte, NEW bits \in 1 .. 255
  PROVE  xor(x, bits) \in Byte /\ xor(x, bits) # x
<1> DEFINE s(i) == (Bit(x, i) + Bit(bits, i)) % 2
           r == xor(x, bits)
<1>1. bits \in Byte
  BY DEF Byte
<1>2. \A i \in 0 .. 7 : Bit(x, i) \in {0, 1} /\ Bit(bits, i) \in {0, 1}
  BY <1>1, BitIs
<1>3. \A i \in 0 .. 7 : s(i) \in {0, 1} /\ (s(i) = Bit(x, i) => Bit(bits, i) = 0)
  BY <1>2
<1>4. r = s(0) + 2 * s(1) + 4 * s(2) + 8 * s(3) + 16 * s(4) + 32 * s(5) + 64 * s(6) + 128 * s(7)
  BY DEF xor
<1> DEFINE s0 == s(0)  s1 == s(1)  s2 == s(2)  s3 == s(3)
           s4 == s(4)  s5 == s(5)  s6 == s(6)  s7 == s(7)
<1>5. /\ s0 \in {0, 1} /\ s1 \in {0, 1} /\ s2 \in {0, 1} /\ s3 \in {0, 1}
      /\ s4 \in {0, 1} /\ s5 \in {0, 1} /\ s6 \in {0, 1} /\ s7 \in {0, 1}
      /\ r = s0 + 2 * s1 + 4 * s2 + 8 * s3 + 16 * s4 + 32 * s5 + 64 * s6 + 128 * s7
  BY <1>3, <1>4
<1>6. /\ s0 = Bit(x, 0) => Bit(bits, 0) = 0
      /\ s1 = Bit(x, 1) => Bit(bits, 1) = 0
      /\ s2 = Bit(x, 2) => Bit(bits, 2) = 0
      /\ s3 = Bit(x, 3) => Bit(bits, 3) = 0
      /\ s4 = Bit(x, 4) => Bit(bits, 4) = 0
      /\ s5 = Bit(x, 5) => Bit(bits, 5) = 0
      /\ s6 = Bit(x, 6) => Bit(bits, 6) = 0
      /\ s7 = Bit(x, 7) => Bit(bits, 7) = 0
  BY <1>3
<1> HIDE DEF r, s0, s1, s2, s3, s4, s5, s6, s7
<1>7. /\ r \in Byte
      /\ Bit(r, 0) = s0 /\ Bit(r, 1) = s1 /\ Bit(r, 2) = s2 /\ Bit(r, 3) = s3
      /\ Bit(r, 4) = s4 /\ Bit(r, 5) = s5 /\ Bit(r, 6) = s6 /\ Bit(r, 7) = s7
  BY <1>5, BitsOfByte
<1>8. ASSUME r = x PROVE FALSE
  <2>1. /\ Bit(bits, 0) = 0 /\ Bit(bits, 1) = 0 /\ Bit(bits, 2) = 0 /\ Bit(bits, 3) = 0
        /\ Bit(bits, 4) = 0 /\ Bit(bits, 5) = 0 /\ Bit(bits, 6) = 0 /\ Bit(bits, 7) = 0
    BY <1>6, <1>7, <1>8
  <2>2. bits = 0
    BY <1>1, <2>1, ByteOfBits
  <2> QED
    BY <2>2
<1> QED
  BY <1>7, <1>8 DEF r

\* With another first byte the CRC that is rolled is another one.
LEMMA RollChanges ==
  ASSUME NEW body \in Seq(Byte), body # <<>>, NEW c \in Byte, NEW y \in Byte, y # body[1],
         {body[1], y} \cap {ESC, SYN} = {}
  PROVE  LET other == [body EXCEPT ![1] = y]
         IN  crc8_from(c, ToRoll(other, FALSE)) # crc8_from(c, ToRoll(body, FALSE))
<1> DEFINE other == [body EXCEPT ![1] = y]
           x == body[1]
           cx == crc8_calc(x, c)
           cy == crc8_calc(y, c)
           rest == ToRoll(Rest(body), FALSE)
<1>1. /\ other \in Seq(Byte) /\ other # <<>> /\ other[1] = y /\ Tail(other) = Tail(body)
      /\ x \in Byte
  <2>1. Len(body) \in Nat \ {0} /\ DOMAIN body = 1 .. Len(body) /\ body \in [1 .. Len(body) -> Byte]
    BY EmptySeq
  <2>2. other \in Seq(Byte) /\ Len(other) = Len(body) /\ other[1] = y
    BY <2>1
  <2>3. \A i \in 2 .. Len(body) : other[i] = body[i]
    BY <2>1
  <2>4. Tail(other) = Tail(body)
    BY <2>1, <2>2, <2>3
  <2> QED
    BY <2>1, <2>2, <2>4
<1>2. Rest(other) = Rest(body)
  BY <1>1 DEF Rest
<1>3. y \notin {SYN, ESC} /\ x \notin {SYN, ESC}
  OBVIOUS
<1>4. cx \in Byte /\ cy \in Byte
  BY <1>1, CalcTyped
<1>5. rest \in Seq(Byte) /\ crc8_from(c, ToRoll(body, FALSE)) = crc8_from(cx, rest)
  BY <1>3, RollPlain
<1> DEFINE z == other
<1> HIDE DEF z
<1>6. crc8_from(c, ToRoll(z, FALSE)) = crc8_from(crc8_calc(z[1], c), ToRoll(Rest(z), FALSE))
  BY <1>1, <1>3, RollPlain DEF z
<1>7. crc8_from(c, ToRoll(other, FALSE)) = crc8_from(cy, rest)
  BY <1>1, <1>2, <1>6 DEF z
<1>8. cx # cy
  BY <1>1, CalcInjectiveInByte
<1> HIDE DEF other, cx, cy, rest
<1>9. crc8_from(cx, rest) # crc8_from(cy, rest)
  BY <1>4, <1>5, <1>8, FromInjective
<1> QED
  BY <1>5, <1>7, <1>9 DEF other

\* A byte that is corrupted: the symbols on their way are others.
LEMMA CorruptInv ==
  ASSUME CodecInv, NEW bits \in Noise, Corrupt(bits)
  PROVE  CodecInv'
<1> DEFINE y == xor(Head(wire), bits)
<1>1. /\ Setting /\ corrupted = FALSE /\ corrupted' = TRUE
      /\ UNCHANGED <<component, part, node, data, buffer, in_esc>>
      /\ wire # <<>> /\ wire' = [wire EXCEPT ![1] = y]
      /\ ~in_esc /\ ~buffer.waitForEscaped /\ Len(buffer.bytes) > NNPosition(part)
      /\ {Head(wire), y} \cap {ESC, SYN} = {}
  BY DEF CodecInv, Corrupt
<1>2. PICK body, c, half, done : OnTheWay(body, c, half, done)
  BY DEF CodecInv
<1>3. /\ body \in Seq(Byte) /\ Len(body) <= Len(Whole)
      /\ c \in Byte /\ half \in BOOLEAN /\ done \in BOOLEAN
      /\ Encodes(wire, Pending(body, c, done), half)
      /\ in_esc <=> half /\ component = "ebus"
      /\ buffer.waitForEscaped <=> half /\ component = "zebus"
      /\ Stored(buffer, Filled(body, half, done), c, corrupted)
      /\ Rolled(buffer, body, c, half, corrupted)
  BY <1>2 DEF OnTheWay
<1>4. component \in {"ebus", "zebus"} /\ part \in Parts /\ buffer \in BufferType
  BY <1>1, <1>3 DEF Setting, Stored
<1>5. half = FALSE
  BY <1>1, <1>3, <1>4
<1>6. done = FALSE
  <2>1. CASE done
    <3>1. Pending(body, c, done) = <<>>
      BY <2>1 DEF Pending
    <3> QED
      BY <1>1, <1>3, <3>1, EncodesEmpty
  <2> QED
    BY <1>3, <2>1
<1> DEFINE rem == Pending(body, c, FALSE)
           x == IF body = <<>> THEN c ELSE body[1]
<1>7. /\ rem \in Seq(Byte) /\ rem # <<>> /\ rem[1] = x
      /\ Tail(rem) = Pending(Rest(body), c, body = <<>>)
      /\ body = <<>> <=> Len(body) = 0
  BY <1>3, PendingFirst
<1>8. Encodes(wire, rem, FALSE)
  BY <1>3, <1>5, <1>6
<1>9. x \in Byte
  BY <1>3, <1>7
<1> HIDE DEF rem
<1>10. /\ wire \in Seq(Byte) /\ Head(wire) = x /\ Tail(wire) = Escaped(Tail(rem))
       /\ Tail(rem) \in Seq(Byte)
  <2>1. Encodes(wire, rem, FALSE) /\ wire # <<>> /\ FALSE \in BOOLEAN
    BY <1>1, <1>8
  <2>2. /\ Head(wire) \in Byte /\ wire \in Seq(Byte) /\ Tail(rem) \in Seq(Byte)
        /\ rem[1] \in {SYN, ESC} => Head(wire) = ESC
        /\ rem[1] \notin {SYN, ESC} => Head(wire) = rem[1] /\ Tail(wire) = Escaped(Tail(rem))
    BY <2>1, EncodesStep
  <2>3. Head(wire) # ESC
    BY <1>1
  <2> QED
    BY <1>7, <2>2, <2>3
<1> HIDE DEF x, y
<1>11. y \in Byte /\ y # x /\ x \notin {ESC, SYN} /\ y \notin {ESC, SYN}
  <2>1. bits \in 1 .. 255
    BY CodecAssumption
  <2>2. xor(x, bits) \in Byte /\ xor(x, bits) # x
    BY <1>9, <2>1, XorChanges
  <2>3. y = xor(x, bits)
    BY <1>10 DEF y
  <2> QED
    BY <1>1, <1>10, <2>2, <2>3
<1> DEFINE body2 == IF body = <<>> THEN <<>> ELSE [body EXCEPT ![1] = y]
           c2 == IF body = <<>> THEN y ELSE c
           rem2 == Pending(body2, c2, FALSE)
<1>12. /\ body2 \in Seq(Byte) /\ Len(body2) = Len(body) /\ c2 \in Byte
       /\ (body2 = <<>> <=> body = <<>>)
       /\ body # <<>> => body2[1] = y /\ Rest(body2) = Rest(body)
       /\ \A i \in 2 .. Len(body) : body2[i] = body[i]
  <2>1. CASE body = <<>>
    BY <1>3, <1>11, <2>1
  <2>2. CASE body # <<>>
    <3>1. Len(body) \in Nat \ {0} /\ body \in [1 .. Len(body) -> Byte]
      BY <1>3, <2>2, EmptySeq
    <3>2. body2 = [body EXCEPT ![1] = y]
      BY <2>2
    <3>3. /\ body2 \in Seq(Byte) /\ Len(body2) = Len(body) /\ body2[1] = y
          /\ \A i \in 2 .. Len(body) : body2[i] = body[i]
      BY <1>11, <3>1, <3>2
    <3>4. Tail(body2) = Tail(body) /\ body2 # <<>>
      BY <3>1, <3>3
    <3> QED
      BY <1>3, <2>2, <3>1, <3>3, <3>4 DEF Rest
  <2> QED
    BY <2>1, <2>2
<1>13. Encodes(wire', rem2, FALSE)
  <2> HIDE DEF body2, c2
  <2>1. /\ rem2 \in Seq(Byte) /\ rem2 # <<>> /\ rem2[1] = (IF body2 = <<>> THEN c2 ELSE body2[1])
        /\ Tail(rem2) = Pending(Rest(body2), c2, body2 = <<>>)
    BY <1>12, PendingFirst
  <2>2. rem2[1] = y
    BY <1>12, <2>1 DEF c2
  <2>3. Tail(rem2) = Tail(rem)
    <3>1. CASE body = <<>>
      BY <1>7, <1>12, <2>1, <3>1 DEF Pending
    <3>2. CASE body # <<>>
      BY <1>7, <1>12, <2>1, <3>2 DEF Pending, c2
    <3> QED
      BY <3>1, <3>2
  <2> HIDE DEF rem2
  <2>4. Escaped(rem2) = Escape(rem2[1]) \o Escaped(Tail(rem2))
    BY <2>1, EscapedCons
  <2>5. Escape(y) = <<y>>
    BY <1>11, EscapeTyped
  <2>6. Escaped(rem2) = <<y>> \o Tail(wire)
    BY <1>10, <2>2, <2>3, <2>4, <2>5
  <2>7. wire' = <<y>> \o Tail(wire)
    BY <1>1, <1>10, <1>11
  <2> QED
    BY <2>1, <2>6, <2>7 DEF Encodes
<1> HIDE DEF rem2
<1>14. Filled(body2, FALSE, FALSE) = Filled(body, half, done)
  BY <1>5, <1>6, <1>12 DEF Filled
<1>15. Stored(buffer', Filled(body2, FALSE, FALSE), c2, TRUE)
  <2> DEFINE k == Filled(body, half, done)
  <2>1. k = Len(Whole) - Len(body)
    BY <1>5, <1>6 DEF Filled
  <2>2. /\ buffer \in BufferType /\ Len(buffer.bytes) = k
        /\ Len(data) < MAX_DATA_LENGTH /\ k > NNPosition(part) =>
             buffer.bytes[NNPosition(part) + 1] = Len(data)
    BY <1>3 DEF Stored
  <2>3. k # Len(Whole) + 1
    <3>1. Len(Whole) \in Nat /\ Len(body) \in Nat
      BY <1>1, <1>3, WholeIs
    <3> QED
      BY <2>1, <3>1
  <2>4. k > NNPosition(part)
    BY <1>1, <2>2
  <2> HIDE DEF k
  <2>5. Stored(buffer, k, c2, TRUE)
    BY <2>2, <2>3, <2>4 DEF Stored
  <2>6. Filled(body2, FALSE, FALSE) = k
    BY <1>14 DEF k
  <2> QED
    BY <1>1, <2>5, <2>6
<1>16. Rolled(buffer', body2, c2, FALSE, TRUE)
  <2> SUFFICES ASSUME CrcAgrees, Len(data) < MAX_DATA_LENGTH
      PROVE /\ component = "zebus" /\ body2 # <<>> => body2[Len(body2)] \notin {ESC, SYN}
            /\ crc8_from(buffer.crc, ToRoll(body2, FALSE)) # c2
            /\ c2 = WholeCrc \/ c2 \notin {ESC, SYN}
    BY <1>1 DEF Rolled
  <2>1. /\ component = "zebus" /\ body # <<>> => body[Len(body)] \notin {ESC, SYN}
        /\ crc8_from(buffer.crc, ToRoll(body, FALSE)) = c
        /\ c = WholeCrc
    BY <1>1, <1>3, <1>5 DEF Rolled
  <2>2. buffer.crc \in Byte
    BY <1>4 DEF BufferType
  <2>3. CASE body = <<>>
    <3>1. c2 = y /\ c = x /\ body2 = <<>>
      BY <2>3 DEF x
    <3>2. crc8_from(buffer.crc, ToRoll(<<>>, FALSE)) = buffer.crc
      BY <2>2, RollEmpty
    <3> QED
      BY <1>11, <2>1, <2>3, <3>1, <3>2
  <2>4. CASE body # <<>>
    <3>1. c2 = c /\ x = body[1] /\ body2 = [body EXCEPT ![1] = y]
      BY <2>4 DEF x
    <3>2. {body[1], y} \cap {ESC, SYN} = {} /\ y # body[1]
      BY <1>11, <3>1
    <3>3. crc8_from(buffer.crc, ToRoll(body2, FALSE)) # crc8_from(buffer.crc, ToRoll(body, FALSE))
      BY <1>3, <1>11, <2>2, <2>4, <3>1, <3>2, RollChanges
    <3>4. component = "zebus" => body2[Len(body2)] \notin {ESC, SYN}
      <4>1. Len(body) \in Nat \ {0}
        BY <1>3, <2>4, EmptySeq
      <4> HIDE DEF body2
      <4> QED
        BY <1>11, <1>12, <2>1, <2>4, <4>1
    <3> QED
      BY <2>1, <3>1, <3>3, <3>4
  <2> QED
    BY <2>3, <2>4
<1>17. PICK b, d : b = body2 /\ d = c2
  OBVIOUS
<1>18. OnTheWay(b, d, FALSE, FALSE)'
  <2>1. Encodes(wire', Pending(b, d, FALSE), FALSE)
    BY <1>13, <1>17 DEF rem2
  <2>2. b \in Seq(Byte) /\ d \in Byte /\ Len(b) <= Len(Whole)
    BY <1>3, <1>12, <1>17
  <2>3. ~in_esc' /\ ~buffer'.waitForEscaped /\ corrupted' = TRUE
    BY <1>1
  <2>4. /\ Stored(buffer', Filled(b, FALSE, FALSE), d, corrupted')
        /\ Rolled(buffer', b, d, FALSE, corrupted')
    BY <1>15, <1>16, <1>17, <2>3
  <2> HIDE DEF body2, c2
  <2>5. in_esc' <=> FALSE /\ component = "ebus"
    BY <2>3
  <2>6. buffer'.waitForEscaped <=> FALSE /\ component = "zebus"
    BY <2>3
  <2>7. ~corrupted' => BodyAsSent(b) /\ d = WholeCrc
    BY <2>3
  <2>8. UNCHANGED <<component, part, node, data>>
    BY <1>1
  <2> QED
    BY <2>1, <2>2, <2>4, <2>5, <2>6, <2>7, <2>8, StepInv
<1>19. Setting' /\ in_esc' \in BOOLEAN /\ corrupted' \in BOOLEAN
  BY <1>1 DEF Setting, CodecInv
<1> QED
  BY <1>18, <1>19 DEF CodecInv

\* Nothing happens.
LEMMA StutterInv == CodecInv /\ UNCHANGED codecVars => CodecInv'
<1> SUFFICES ASSUME CodecInv, UNCHANGED codecVars PROVE CodecInv'
  OBVIOUS
<1>1. PICK body, c, half, done : OnTheWay(body, c, half, done)
  BY DEF CodecInv
<1>2. UNCHANGED <<component, part, node, data, wire, buffer, in_esc, corrupted>>
  BY DEF codecVars
<1>3. OnTheWay(body, c, half, done)'
  BY <1>1, <1>2, StepInv DEF OnTheWay
<1>4. Setting' /\ in_esc' \in BOOLEAN /\ corrupted' \in BOOLEAN
  BY <1>2 DEF Setting, CodecInv
<1> QED
  BY <1>3, <1>4 DEF CodecInv

-----------------------------------------------------------------------------
(* The theorems.                                                           *)

\* What has been stored, what has been rolled and what is on its way always
\* make up the part that was sent: the invariant the others follow from.
THEOREM CodecInvariant == Spec => []CodecInv
<1>1. CodecInv /\ [Next]_codecVars => CodecInv'
  BY DeliverInv, CorruptInv, StutterInv DEF Next
<1> QED
  BY <1>1, InitInv, PTL DEF Spec

\* A buffer holds bytes, as many as there is room for.
THEOREM CodecTypes == Spec => []CodecTypeOK
<1>1. CodecInv => CodecTypeOK
  <2> SUFFICES ASSUME CodecInv PROVE CodecTypeOK
    OBVIOUS
  <2>1. PICK body, c, half, done : OnTheWay(body, c, half, done)
    BY DEF CodecInv
  <2>2. /\ body \in Seq(Byte) /\ Len(body) <= Len(Whole) /\ half \in BOOLEAN
        /\ Encodes(wire, Pending(body, c, done), half)
        /\ buffer \in BufferType /\ Len(buffer.bytes) = Filled(body, half, done)
    BY <2>1 DEF OnTheWay, Stored
  <2>3. Setting /\ in_esc \in BOOLEAN
    BY DEF CodecInv
  <2>4. Filled(body, half, done) <= NNPosition(part) + 2 + MAX_DATA_LENGTH
    <3>1. /\ Len(Whole) \in Nat /\ Len(Whole) <= NNPosition(part) + 1 + MAX_DATA_LENGTH
          /\ NNPosition(part) \in {0, 4}
      BY <2>3, WholeIs
    <3>2. Len(body) \in Nat
      BY <2>2
    <3> QED
      BY <3>1, <3>2, MaxDataLengthAssumption DEF Filled
  <2>5. wire \in Seq(Byte)
    <3> DEFINE rem == Pending(body, c, done)
    <3>1. Encodes(wire, rem, half) /\ half \in BOOLEAN
      BY <2>2
    <3> HIDE DEF rem
    <3>2. CASE wire = <<>>
      BY <3>2
    <3>3. CASE wire # <<>>
      BY <3>1, <3>3, EncodesStep
    <3> QED
      BY <3>2, <3>3
  <2> QED
    BY <2>2, <2>3, <2>4, <2>5 DEF CodecTypeOK, BufferType
<1> QED
  BY <1>1, CodecInvariant, PTL

\* When nothing is on its way any more, the CRC has been taken, too.
LEMMA NothingOnItsWay ==
  ASSUME CodecInv, wire = <<>>
  PROVE  \E c \in Byte : OnTheWay(<<>>, c, FALSE, TRUE)
<1>1. PICK body, c, half, done : OnTheWay(body, c, half, done)
  BY DEF CodecInv
<1>2. /\ body \in Seq(Byte) /\ c \in Byte /\ half \in BOOLEAN /\ done \in BOOLEAN
      /\ Encodes(wire, Pending(body, c, done), half)
      /\ done => body = <<>> /\ ~half
  BY <1>1 DEF OnTheWay
<1>3. Pending(body, c, done) = <<>>
  BY <1>2, EncodesEmpty
<1>4. done = TRUE
  <2>1. Append(body, c) # <<>>
    BY <1>2
  <2> QED
    BY <1>2, <1>3, <2>1 DEF Pending
<1>5. body = <<>> /\ half = FALSE
  BY <1>2, <1>4
<1> QED
  BY <1>1, <1>2, <1>4, <1>5

\* Then the buffer holds what was sent, as far as it can be read.
LEMMA ArrivedIs ==
  ASSUME CodecInv, Arrived
  PROVE  \E c \in Byte :
           /\ Len(buffer.bytes) = Len(Whole) + 1
           /\ \A i \in 1 .. Len(Whole) : buffer.bytes[i] = Read(Whole[i])
           /\ buffer.bytes[Len(Whole) + 1] = Read(c) /\ c = SentCrc
           /\ Len(data) < MAX_DATA_LENGTH =>
                /\ buffer.bytes[NNPosition(part) + 1] = Len(data)
                /\ CrcAgrees => buffer.crc = SentCrc
           /\ buffer \in BufferType /\ ~buffer.waitForEscaped
<1>1. Setting /\ wire = <<>> /\ ~corrupted
  BY DEF CodecInv, Arrived
<1>2. PICK c \in Byte : OnTheWay(<<>>, c, FALSE, TRUE)
  BY <1>1, NothingOnItsWay
<1>3. /\ Stored(buffer, Filled(<<>>, FALSE, TRUE), c, corrupted)
      /\ Rolled(buffer, <<>>, c, FALSE, corrupted)
      /\ ~buffer.waitForEscaped /\ c = WholeCrc
  BY <1>1, <1>2 DEF OnTheWay
<1>4. /\ Whole \in Seq(Byte) /\ Len(Whole) \in Nat /\ NNPosition(part) \in {0, 4}
      /\ Len(Whole) >= NNPosition(part) + 1
  BY <1>1, WholeIs
<1>5. Filled(<<>>, FALSE, TRUE) = Len(Whole) + 1
  BY <1>4 DEF Filled
<1>6. Stored(buffer, Len(Whole) + 1, c, FALSE)
  BY <1>1, <1>3, <1>5 DEF CodecInv
<1>7. /\ buffer \in BufferType /\ Len(buffer.bytes) = Len(Whole) + 1
      /\ Len(data) < MAX_DATA_LENGTH => buffer.bytes[NNPosition(part) + 1] = Len(data)
      /\ buffer.bytes[Len(Whole) + 1] = Read(c)
      /\ \A i \in 1 .. Len(Whole) + 1 : buffer.bytes[i] = Read(Append(Whole, c)[i])
  BY <1>4, <1>6 DEF Stored
<1>8. ASSUME NEW i \in 1 .. Len(Whole) PROVE buffer.bytes[i] = Read(Whole[i])
  <2>1. Append(Whole, c)[i] = Whole[i] /\ i \in 1 .. Len(Whole) + 1
    BY <1>4
  <2> QED
    BY <1>7, <2>1
<1>9. SentCrc = WholeCrc
  BY <1>1, SentIs
<1>10. ASSUME Len(data) < MAX_DATA_LENGTH, CrcAgrees
       PROVE  buffer.crc = SentCrc
  <2>1. crc8_from(buffer.crc, ToRoll(<<>>, FALSE)) = c
    BY <1>1, <1>3, <1>10 DEF Rolled
  <2>2. crc8_from(buffer.crc, ToRoll(<<>>, FALSE)) = buffer.crc
    BY <1>7, RollEmpty DEF BufferType
  <2> QED
    BY <1>3, <1>9, <2>1, <2>2
<1> QED
  BY <1>3, <1>7, <1>8, <1>9, <1>10

\* What is read of it: the part is complete, it is valid where the CRCs agree and
\* can be read, and its data are the ones that were sent.
LEMMA ArrivedRead ==
  ASSUME CodecInv, Arrived, Len(data) < MAX_DATA_LENGTH
  PROVE  /\ is_complete(buffer, part)
         /\ CrcAgrees => (is_valid(buffer, part) <=> CrcReadable)
         /\ DataIn(buffer, part) = [i \in DOMAIN data |-> Read(data[i])]
<1> DEFINE N == NNPosition(part)
           T == Len(Whole)
           L == Len(data)
<1>1. PICK c \in Byte :
        /\ Len(buffer.bytes) = T + 1
        /\ \A i \in 1 .. T : buffer.bytes[i] = Read(Whole[i])
        /\ buffer.bytes[N + 1] = L
        /\ buffer.bytes[T + 1] = Read(c)
        /\ CrcAgrees => buffer.crc = SentCrc /\ c = SentCrc
        /\ buffer \in BufferType /\ ~buffer.waitForEscaped
  BY ArrivedIs
<1>2. Setting /\ data \in Seq(Byte)
  BY DEF CodecInv, Setting
<1>3. /\ Whole \in Seq(Byte) /\ N \in {0, 4} /\ part \in Parts /\ T \in Nat
      /\ L \in 0 .. MAX_DATA_LENGTH - 1 /\ T = N + 1 + L
      /\ \A i \in 1 .. L : Whole[N + 1 + i] = data[i]
  BY <1>2, WholeIs
<1> HIDE DEF N, T, L
<1>4. max_pos(buffer, part) = T
  <2>1. Len(buffer.bytes) > NNPosition(part)
    BY <1>1, <1>3 DEF N
  <2>2. max_pos(buffer, part) = N + 1 + L
    BY <1>1, <1>3, <2>1, LengthStored DEF N
  <2> QED
    BY <1>3, <2>2
<1>5. is_complete(buffer, part)
  BY <1>1, <1>3, <1>4 DEF is_complete, N
<1>6. CrcAgrees => (is_valid(buffer, part) <=> CrcReadable)
  BY <1>1, <1>4, <1>5 DEF is_valid, CrcReadable
<1>7. DataIn(buffer, part) = [i \in DOMAIN data |-> Read(data[i])]
  <2>1. buffer.bytes \in Seq(Byte)
    BY <1>1 DEF BufferType
  <2>2. DataIn(buffer, part) = SubSeq(buffer.bytes, N + 2, T)
    BY <1>4 DEF DataIn, N
  <2> DEFINE d == SubSeq(buffer.bytes, N + 2, T)
             e == [i \in DOMAIN data |-> Read(data[i])]
  <2>3. d \in Seq(Byte) /\ Len(d) = L /\ \A i \in 1 .. L : d[i] = buffer.bytes[N + 1 + i]
    <3>1. N + 2 = (N + 1) + 1 /\ T = (N + 1) + L /\ N + 1 \in Nat /\ L \in Nat
      BY <1>3, MaxDataLengthAssumption
    <3>2. (N + 1) + L <= Len(buffer.bytes)
      BY <1>1, <1>3, <2>1
    <3> DEFINE a == N + 1
    <3>3. d = SubSeq(buffer.bytes, a + 1, a + L)
      BY <3>1
    <3> HIDE DEF a, d
    <3>4. a \in Nat /\ L \in Nat /\ a + L <= Len(buffer.bytes)
      BY <3>1, <3>2 DEF a
    <3>5. d \in Seq(Byte) /\ Len(d) = L /\ \A i \in 1 .. L : d[i] = buffer.bytes[a + i]
      BY <2>1, <3>3, <3>4, SliceIs
    <3> QED
      BY <3>5 DEF a
  <2>4. \A i \in 1 .. L : d[i] = Read(data[i])
    <3> SUFFICES ASSUME NEW i \in 1 .. L PROVE d[i] = Read(data[i])
      OBVIOUS
    <3>1. N + 1 + i \in 1 .. T
      BY <1>3
    <3>2. Whole[N + 1 + i] = data[i]
      BY <1>3
    <3>3. buffer.bytes[N + 1 + i] = Read(data[i])
      BY <1>1, <3>1, <3>2
    <3> HIDE DEF d
    <3> QED
      BY <2>3, <3>3
  <2>5. DOMAIN data = 1 .. L
    BY <1>2 DEF L
  <2>6. DOMAIN d = 1 .. L /\ d = [i \in 1 .. L |-> d[i]]
    <3> HIDE DEF d
    <3> QED
      BY <1>3, <2>3
  <2> HIDE DEF d
  <2>7. d = e
    BY <2>4, <2>5, <2>6
  <2> QED
    BY <2>2, <2>7 DEF d
<1> QED
  BY <1>5, <1>6, <1>7

\* A request is complete with its last byte, has the data that were to be sent,
\* and is valid where its CRC can be read.
THEOREM RequestsAreRead == Spec => []RequestsArrive
<1>1. CodecInv => RequestsArrive
  <2> SUFFICES ASSUME CodecInv, Arrived, part = "request", Len(data) < MAX_DATA_LENGTH
      PROVE  /\ is_complete(buffer, part)
             /\ is_valid(buffer, part) <=> CrcReadable
             /\ DataIn(buffer, part) = data
    BY DEF RequestsArrive
  <2>1. /\ is_complete(buffer, part)
        /\ is_valid(buffer, part) <=> CrcReadable
        /\ DataIn(buffer, part) = [i \in DOMAIN data |-> Read(data[i])]
    BY ArrivedRead DEF CrcAgrees
  <2>2. /\ data \in Seq(Byte)
        /\ component = "zebus" => ~HasEscaped(data)
    BY DEF CodecInv, Setting
  <2>3. \A i \in DOMAIN data : Read(data[i]) = data[i]
    BY <2>2 DEF Read, HasEscaped
  <2>4. data = [i \in DOMAIN data |-> data[i]]
    BY <2>2
  <2>5. [i \in DOMAIN data |-> Read(data[i])] = [i \in DOMAIN data |-> data[i]]
    BY <2>3
  <2> QED
    BY <2>1, <2>4, <2>5
<1> QED
  BY <1>1, CodecInvariant, PTL

\* A reply arrives complete, with its data as far as they can be read, and valid
\* where the two ways of rolling the CRC agree.
THEOREM RepliesAreRead == Spec => []RepliesArrive
<1>1. CodecInv => RepliesArrive
  BY ArrivedRead DEF RepliesArrive
<1> QED
  BY <1>1, CodecInvariant, PTL

\* The address that is five above belongs to one primary only.
LEMMA SecondaryOfOne ==
  ASSUME NEW p \in Primaries \ {255}, NEW q \in Primaries \ {255}
  PROVE  SecondaryOf(q) = to_secondary(p) <=> p = q
<1>1. p \in Byte \ {255} /\ q \in Byte \ {255}
  BY DEF Primaries
<1>2. p <= 247 /\ q <= 247
  BY <1>1 DEF Primaries, Byte
<1>3. is_primary(p)
  BY DEF Primaries, is_primary, is_primary_nibble, get_priority_class, get_sub_address
<1>4. to_secondary(p) = p + 5 /\ SecondaryOf(q) = q + 5
  BY <1>1, <1>2, <1>3 DEF to_secondary, SecondaryOf, Byte
<1> QED
  BY <1>1, <1>4 DEF Byte

\* A request is taken by the node whose secondary address it has, and by no other.
THEOREM RequestsFindTheirNode == Spec => []RequestsReachTheirNode
<1>1. CodecInv => RequestsReachTheirNode
  <2> SUFFICES ASSUME CodecInv, Arrived, part = "request", node # 255,
                      NEW primary \in Primaries \ {255}
      PROVE  buffer.bytes[2] = to_secondary(primary) <=> primary = node
    BY DEF RequestsReachTheirNode
  <2>1. Setting /\ node \in Primaries \ {255}
    BY DEF CodecInv, Setting
  <2>2. /\ Whole[2] = SecondaryOf(node) /\ 2 \in 1 .. Len(Whole)
    BY <2>1, WholeIs
  <2>3. buffer.bytes[2] = Read(Whole[2])
    BY <2>2, ArrivedIs
  <2>4. Read(SecondaryOf(node)) = SecondaryOf(node)
    BY <2>1, AddressesNotEscaped DEF Read
  <2>5. SecondaryOf(node) = to_secondary(primary) <=> primary = node
    BY <2>1, SecondaryOfOne
  <2> QED
    BY <2>2, <2>3, <2>4, <2>5
<1> QED
  BY <1>1, CodecInvariant, PTL

\* Whatever bits of one byte are inverted, the receiver does not take a part for
\* valid which was so before.
THEOREM CorruptionIsDetected == Spec => []CorruptionDetected
<1>1. CodecInv => CorruptionDetected
  <2> SUFFICES ASSUME CodecInv, corrupted, CrcAgrees, CrcReadable,
                      Len(data) < MAX_DATA_LENGTH, is_valid(buffer, part)
      PROVE  FALSE
    BY DEF CorruptionDetected
  <2> DEFINE N == NNPosition(part)
             T == Len(Whole)
             L == Len(data)
  <2>1. PICK body, c, half, done : OnTheWay(body, c, half, done)
    BY DEF CodecInv
  <2>2. Setting /\ corrupted = TRUE
    BY DEF CodecInv
  <2>3. /\ body \in Seq(Byte) /\ Len(body) <= T /\ half \in BOOLEAN /\ done \in BOOLEAN
        /\ done => body = <<>> /\ ~half
        /\ buffer.waitForEscaped <=> half /\ component = "zebus"
        /\ Stored(buffer, Filled(body, half, done), c, TRUE)
        /\ Rolled(buffer, body, c, half, TRUE)
    BY <2>1, <2>2 DEF OnTheWay
  <2>4. /\ N \in {0, 4} /\ part \in Parts /\ T \in Nat
        /\ L \in 0 .. MAX_DATA_LENGTH - 1 /\ T = N + 1 + L
    BY <2>2, WholeIs
  <2> HIDE DEF T, L
  <2>5. /\ buffer \in BufferType /\ Len(buffer.bytes) = Filled(body, half, done)
        /\ Len(buffer.bytes) > N /\ buffer.bytes[N + 1] = L
        /\ Len(buffer.bytes) = T + 1 => buffer.bytes[T + 1] = Read(c)
    BY <2>3 DEF Stored, T, L
  <2>6. max_pos(buffer, part) = T
    <3>1. max_pos(buffer, part) = N + 1 + L
      BY <2>4, <2>5, LengthStored
    <3> QED
      BY <2>4, <3>1
  <2>7. /\ Len(buffer.bytes) = T + 1 /\ ~buffer.waitForEscaped
        /\ buffer.bytes[T + 1] = buffer.crc
    BY <2>6 DEF is_valid, is_complete
  <2>8. body = <<>> /\ Read(c) = buffer.crc
    <3>1. T - Len(body) + (IF done \/ (half /\ component = "zebus") THEN 1 ELSE 0) = T + 1
      BY <2>5, <2>7 DEF Filled, T
    <3>2. Len(body) \in Nat
      BY <2>3
    <3>3. Len(body) = 0
      BY <2>4, <3>1, <3>2
    <3> QED
      BY <2>3, <2>5, <2>7, <3>3
  <2>9. crc8_from(buffer.crc, ToRoll(<<>>, half)) # c /\ (c = WholeCrc \/ c \notin {ESC, SYN})
    BY <2>3, <2>8 DEF Rolled
  <2>10. crc8_from(buffer.crc, ToRoll(<<>>, half)) = buffer.crc
    BY <2>5, RollEmpty DEF BufferType
  <2>11. Read(c) = c
    <3>1. CASE c = WholeCrc
      <4>1. c = SentCrc
        BY <2>2, <3>1, SentIs
      <4> QED
        BY <4>1 DEF CrcReadable
    <3>2. CASE c \notin {ESC, SYN}
      BY <3>2 DEF Read
    <3> QED
      BY <2>9, <3>1, <3>2
  <2> QED
    BY <2>8, <2>9, <2>10, <2>11
<1> QED
  BY <1>1, CodecInvariant, PTL

-----------------------------------------------------------------------------
(* The CRC as the remainder of a division.                                 *)

\* The steps of a long division.
DivisionRun(f, p, n) ==
  f[0] = p /\ \A k \in 1 .. n : f[k] = Eliminate(f[k - 1], n + 8 - k)

\* The remainder is what its last step leaves.
LEMMA RemainderIs ==
  ASSUME NEW p \in SUBSET Int, NEW n \in Nat
  PROVE  \E f : DivisionRun(f, p, n) /\ Remainder(p, n) = f[n]
<1> DEFINE Rec(g) == g = [k \in 0 .. n |-> IF k = 0 THEN p ELSE Eliminate(g[k - 1], n + 8 - k)]
           left == CHOOSE g : Rec(g)
           S == SUBSET Int
           step == [q \in (1 .. n) \X S |-> Eliminate(q[2], n + 8 - q[1])]
<1>1. \A k \in 1 .. n, q \in S : Eliminate(q, n + 8 - k) \in S
  <2>1. ASSUME NEW e \in Int, NEW q \in SUBSET Int PROVE Eliminate(q, e) \in SUBSET Int
    <3> DEFINE multiple == {e - 8 + d : d \in Divisor}
    <3>1. multiple \subseteq Int
      BY DEF Divisor
    <3>2. Eliminate(q, e) = IF e \in q THEN (q \ multiple) \cup (multiple \ q) ELSE q
      BY DEF Eliminate
    <3> HIDE DEF multiple
    <3> QED
      BY <3>1, <3>2
  <2> TAKE k \in 1 .. n, q \in S
  <2>2. n + 8 - k \in Int
    OBVIOUS
  <2> QED
    BY <2>1, <2>2
<1>2. \A k \in 1 .. n, q \in S : step[<<k, q>>] = Eliminate(q, n + 8 - k)
  OBVIOUS
<1>3. PICK f \in [0 .. n -> S] : IsRun(f, p, step, n)
  <2>1. \A k \in 1 .. n, q \in S : step[<<k, q>>] \in S
    BY <1>1, <1>2
  <2>2. p \in S
    OBVIOUS
  <2> HIDE DEF step, S
  <2> QED
    BY <2>1, <2>2, RunExists
<1>4. Rec(f)
  <2>1. f[0] = p
    BY <1>3 DEF IsRun
  <2>2. \A k \in 1 .. n : f[k] = Eliminate(f[k - 1], n + 8 - k)
    <3> TAKE k \in 1 .. n
    <3>1. f[k - 1] \in S
      BY <1>3
    <3>2. f[k] = step[<<k, f[k - 1]>>]
      BY <1>3 DEF IsRun
    <3> QED
      BY <1>2, <3>1, <3>2
  <2> HIDE DEF S
  <2> QED
    BY <1>3, <2>1, <2>2
<1>5. Rec(left)
  BY <1>4
<1>6. Remainder(p, n) = left[n]
  BY DEF Remainder
<1> HIDE DEF left
<1>7. DivisionRun(left, p, n)
  BY <1>5 DEF DivisionRun
<1> QED
  BY <1>6, <1>7

\* What is left while p is divided: the CRC at m and the bits of p below it.
Dividing(crc, m, p) ==
  {e \in Nat : IF e < m THEN e \in p ELSE e < m + 8 /\ Bit(crc, e - m) = 1}

\* One bit that is shifted in is one step of the division.
LEMMA ShiftInDivides ==
  ASSUME NEW c \in Byte, NEW b \in {0, 1}, NEW m \in Nat, NEW p \in SUBSET Nat,
         m \in p <=> b = 1
  PROVE  Eliminate(Dividing(c, m + 1, p), m + 8) = Dividing(ShiftIn(c, b), m, p)
<1> DEFINE old == Dividing(c, m + 1, p)
           r == ShiftIn(c, b)
           new == Dividing(r, m, p)
           t == Bit(c, 7)
           multiple == {(m + 8) - 8 + d : d \in Divisor}
<1>1. \A i \in 0 .. 7 : Bit(c, i) \in {0, 1}
  BY BitIs
<1>2. /\ r \in Byte
      /\ Bit(r, 0) = (b + t) % 2 /\ Bit(r, 1) = (Bit(c, 0) + t) % 2
      /\ Bit(r, 2) = Bit(c, 1) /\ Bit(r, 3) = (Bit(c, 2) + t) % 2
      /\ Bit(r, 4) = (Bit(c, 3) + t) % 2 /\ Bit(r, 5) = Bit(c, 4)
      /\ Bit(r, 6) = Bit(c, 5) /\ Bit(r, 7) = (Bit(c, 6) + t) % 2
  BY ShiftInBits
<1>3. /\ \A e \in Nat : e < m => (e \in old <=> e \in p) /\ (e \in new <=> e \in p)
      /\ \A e \in Nat : e > m + 8 => e \notin old /\ e \notin new
      /\ m \in old <=> b = 1
  <2>1. \A e \in Nat : e < m + 1 => (e \in old <=> e \in p)
    BY DEF Dividing
  <2>2. \A e \in Nat : e < m => (e \in new <=> e \in p)
    BY DEF Dividing
  <2>3. \A e \in Nat : e > m + 8 => e \notin old /\ e \notin new
    BY DEF Dividing
  <2> HIDE DEF old, new
  <2> QED
    BY <2>1, <2>2, <2>3
<1>4. \A i \in 0 .. 7 : m + 1 + i \in old <=> Bit(c, i) = 1
  <2> TAKE i \in 0 .. 7
  <2>1. m + 1 + i \in Nat /\ ~(m + 1 + i < m + 1) /\ m + 1 + i < m + 1 + 8
        /\ m + 1 + i - (m + 1) = i
    OBVIOUS
  <2> QED
    BY <2>1 DEF Dividing
<1>5. \A i \in 0 .. 7 : m + i \in new <=> Bit(r, i) = 1
  <2> TAKE i \in 0 .. 7
  <2>1. m + i \in Nat /\ ~(m + i < m) /\ m + i < m + 8 /\ m + i - m = i
    OBVIOUS
  <2> QED
    BY <2>1 DEF Dividing
<1>6. m + 8 \notin new
  BY DEF Dividing
<1>7. \A e : e \in multiple <=> e \in {m, m + 1, m + 3, m + 4, m + 7, m + 8}
  BY DEF Divisor
<1>8. Eliminate(old, m + 8) = IF m + 8 \in old THEN (old \ multiple) \cup (multiple \ old) ELSE old
  BY DEF Eliminate
<1>9. m + 8 \in old <=> t = 1
  <2>1. m + 1 + 7 = m + 8
    OBVIOUS
  <2> QED
    BY <1>4, <2>1
<1>10. old \subseteq Nat /\ new \subseteq Nat
  BY DEF Dividing
<1>11. /\ m + 1 \in old <=> Bit(c, 0) = 1
       /\ m + 2 \in old <=> Bit(c, 1) = 1
       /\ m + 3 \in old <=> Bit(c, 2) = 1
       /\ m + 4 \in old <=> Bit(c, 3) = 1
       /\ m + 5 \in old <=> Bit(c, 4) = 1
       /\ m + 6 \in old <=> Bit(c, 5) = 1
       /\ m + 7 \in old <=> Bit(c, 6) = 1
  <2> HIDE DEF old
  <2>1. /\ m + 1 + 0 = m + 1 /\ m + 1 + 1 = m + 2 /\ m + 1 + 2 = m + 3 /\ m + 1 + 3 = m + 4
        /\ m + 1 + 4 = m + 5 /\ m + 1 + 5 = m + 6 /\ m + 1 + 6 = m + 7
    OBVIOUS
  <2> QED
    BY <1>4, <2>1
<1>12. /\ m \in new <=> Bit(r, 0) = 1
       /\ m + 1 \in new <=> Bit(r, 1) = 1
       /\ m + 2 \in new <=> Bit(r, 2) = 1
       /\ m + 3 \in new <=> Bit(r, 3) = 1
       /\ m + 4 \in new <=> Bit(r, 4) = 1
       /\ m + 5 \in new <=> Bit(r, 5) = 1
       /\ m + 6 \in new <=> Bit(r, 6) = 1
       /\ m + 7 \in new <=> Bit(r, 7) = 1
  <2> HIDE DEF new, r
  <2>1. m + 0 = m
    OBVIOUS
  <2> QED
    BY <1>5, <2>1
<1> DEFINE left == Eliminate(old, m + 8)
<1>13. left \subseteq Nat
  BY <1>7, <1>8, <1>10
<1>14. ASSUME t = 0 PROVE left = new
  <2> HIDE DEF old, new, r, t, multiple
  <2>1. left = old
    BY <1>8, <1>9, <1>14
  <2>2. /\ Bit(r, 0) = b /\ Bit(r, 1) = Bit(c, 0) /\ Bit(r, 2) = Bit(c, 1)
        /\ Bit(r, 3) = Bit(c, 2) /\ Bit(r, 4) = Bit(c, 3) /\ Bit(r, 5) = Bit(c, 4)
        /\ Bit(r, 6) = Bit(c, 5) /\ Bit(r, 7) = Bit(c, 6)
    BY <1>1, <1>2, <1>14
  <2>3. \A e \in {m, m + 1, m + 2, m + 3, m + 4, m + 5, m + 6, m + 7, m + 8} :
          e \in new <=> e \in old
    BY <1>3, <1>6, <1>9, <1>11, <1>12, <1>14, <2>2
  <2>4. \A e \in Nat : e \in new <=> e \in old
    BY <1>3, <2>3
  <2> QED
    BY <1>10, <2>1, <2>4
<1>15. ASSUME t = 1 PROVE left = new
  <2> HIDE DEF old, new, r, t, multiple
  <2>1. \A e : e \in left <=> ~(e \in old <=> e \in multiple)
    BY <1>8, <1>9, <1>15
  <2>2. /\ Bit(r, 0) = 1 <=> b # 1
        /\ Bit(r, 1) = 1 <=> Bit(c, 0) # 1
        /\ Bit(r, 2) = Bit(c, 1)
        /\ Bit(r, 3) = 1 <=> Bit(c, 2) # 1
        /\ Bit(r, 4) = 1 <=> Bit(c, 3) # 1
        /\ Bit(r, 5) = Bit(c, 4)
        /\ Bit(r, 6) = Bit(c, 5)
        /\ Bit(r, 7) = 1 <=> Bit(c, 6) # 1
    <3>1. \A u \in {0, 1} : (u + 1) % 2 = 1 <=> u # 1
      OBVIOUS
    <3>2. /\ Bit(r, 0) = (b + 1) % 2 /\ Bit(r, 1) = (Bit(c, 0) + 1) % 2
          /\ Bit(r, 2) = Bit(c, 1) /\ Bit(r, 3) = (Bit(c, 2) + 1) % 2
          /\ Bit(r, 4) = (Bit(c, 3) + 1) % 2 /\ Bit(r, 5) = Bit(c, 4)
          /\ Bit(r, 6) = Bit(c, 5) /\ Bit(r, 7) = (Bit(c, 6) + 1) % 2
      BY <1>2, <1>15
    <3>3. /\ (b + 1) % 2 = 1 <=> b # 1
          /\ (Bit(c, 0) + 1) % 2 = 1 <=> Bit(c, 0) # 1
          /\ (Bit(c, 2) + 1) % 2 = 1 <=> Bit(c, 2) # 1
          /\ (Bit(c, 3) + 1) % 2 = 1 <=> Bit(c, 3) # 1
          /\ (Bit(c, 6) + 1) % 2 = 1 <=> Bit(c, 6) # 1
      BY <1>1, <3>1
    <3> QED
      BY <3>2, <3>3
  <2>3. /\ m \in new <=> m \notin old
        /\ m + 1 \in new <=> m + 1 \notin old
        /\ m + 2 \in new <=> m + 2 \in old
        /\ m + 3 \in new <=> m + 3 \notin old
        /\ m + 4 \in new <=> m + 4 \notin old
        /\ m + 5 \in new <=> m + 5 \in old
        /\ m + 6 \in new <=> m + 6 \in old
        /\ m + 7 \in new <=> m + 7 \notin old
        /\ m + 8 \in new <=> m + 8 \notin old
    BY <1>3, <1>6, <1>9, <1>11, <1>12, <1>15, <2>2
  <2>4. \A e \in {m, m + 1, m + 2, m + 3, m + 4, m + 5, m + 6, m + 7, m + 8} :
          e \in new <=> e \in left
    BY <1>7, <2>1, <2>3
  <2>5. \A e \in Nat : e < m \/ e > m + 8 => e \notin multiple
    BY <1>7
  <2>6. \A e \in Nat : e < m \/ e > m + 8 => (e \in new <=> e \in left)
    BY <1>3, <2>1, <2>5
  <2>7. \A e \in Nat : e \in new <=> e \in left
    BY <2>4, <2>6
  <2> HIDE DEF left
  <2> QED
    BY <1>10, <1>13, <2>7
<1>16. t = 0 \/ t = 1
  BY <1>1
<1> QED
  BY <1>14, <1>15, <1>16

\* The bits of the polynomial of a message: bit 8 - j of its byte i is the j-th bit
\* of that byte to be shifted in.
LEMMA PolynomialBit ==
  ASSUME NEW bytes \in Seq(Byte), NEW i \in 1 .. Len(bytes), NEW j \in 1 .. 8
  PROVE  /\ 8 * Len(bytes) - (8 * (i - 1) + j) \in Nat
         /\ 8 * Len(bytes) - (8 * (i - 1) + j) \in Polynomial(bytes)
              <=> Bit(bytes[i], 8 - j) = 1
<1> DEFINE L == Len(bytes)
           m == 8 * L - (8 * (i - 1) + j)
<1>1. L \in Nat /\ i \in 1 .. L
  OBVIOUS
<1> HIDE DEF L
<1>2. m = 8 * (L - i) + (8 - j) /\ L - i \in Nat /\ 8 - j \in 0 .. 7
  BY <1>1
<1>3. m \in 0 .. 8 * L - 1 /\ m \div 8 = L - i /\ m % 8 = 8 - j
  BY <1>1, <1>2
<1>4. L - (m \div 8) = i
  BY <1>1, <1>3
<1> HIDE DEF m
<1>5. m \in Polynomial(bytes) <=> Bit(bytes[L - (m \div 8)], m % 8) = 1
  BY <1>3 DEF Polynomial, L
<1>6. m \in Nat /\ (m \in Polynomial(bytes) <=> Bit(bytes[i], 8 - j) = 1)
  BY <1>1, <1>3, <1>4, <1>5
<1> QED
  BY <1>6 DEF m, L

\* One byte that is rolled in is eight steps of the division.
LEMMA CalcDivides ==
  ASSUME NEW bytes \in Seq(Byte), NEW i \in 1 .. Len(bytes), NEW c \in Byte, NEW f,
         DivisionRun(f, Polynomial(bytes), 8 * Len(bytes)),
         f[8 * (i - 1)] = Dividing(c, 8 * Len(bytes) - 8 * (i - 1), Polynomial(bytes))
  PROVE  f[8 * i] = Dividing(crc8_calc(bytes[i], c), 8 * Len(bytes) - 8 * i, Polynomial(bytes))
<1> DEFINE p == Polynomial(bytes)
           n == 8 * Len(bytes)
           k == 8 * (i - 1)
<1>1. bytes[i] \in Byte /\ Len(bytes) \in Nat
  OBVIOUS
<1>2. PICK g : CalcRun(g, bytes[i], c) /\ crc8_calc(bytes[i], c) = g[8]
  BY <1>1, CalcRunExists
<1> DEFINE S == {j \in 0 .. 8 : f[k + j] = Dividing(g[j], n - (k + j), p)}
<1>3. 0 \in S
  <2>1. g[0] = c /\ k + 0 = k
    BY <1>2 DEF CalcRun
  <2> QED
    BY <2>1
<1>4. ASSUME NEW j \in 1 .. 8, j - 1 \in S PROVE j \in S
  <2> DEFINE m == n - (k + j)
             b == Bit(bytes[i], 8 - j)
             h == g[j - 1]
  <2>1. m \in Nat /\ (m \in p <=> b = 1) /\ p \in SUBSET Nat
    <3>1. p \in SUBSET Nat
      BY <1>1 DEF Polynomial
    <3> QED
      BY <3>1, PolynomialBit
  <2>2. h \in Byte /\ b \in {0, 1} /\ g[j] = ShiftIn(h, b)
    BY <1>1, <1>2, CalcRunBits
  <2>3. k + j \in 1 .. n /\ k + j - 1 = k + (j - 1) /\ n + 8 - (k + j) = m + 8
        /\ n - (k + (j - 1)) = m + 1
    BY <1>1
  <2>4. f[k + j] = Eliminate(f[k + j - 1], n + 8 - (k + j))
    BY <2>3 DEF DivisionRun
  <2>5. f[k + (j - 1)] = Dividing(h, n - (k + (j - 1)), p)
    BY <1>4
  <2> HIDE DEF m, b, h, k, n, p
  <2>6. f[k + j] = Eliminate(Dividing(h, m + 1, p), m + 8)
    BY <2>3, <2>4, <2>5
  <2>7. Eliminate(Dividing(h, m + 1, p), m + 8) = Dividing(ShiftIn(h, b), m, p)
    BY <2>1, <2>2, ShiftInDivides
  <2>8. f[k + j] = Dividing(g[j], m, p)
    BY <2>2, <2>6, <2>7
  <2> QED
    BY <2>8 DEF m
<1>5. \A j \in 0 .. 8 : j \in S
  <2> HIDE DEF S
  <2> QED
    BY <1>3, <1>4, AlongRun
<1>6. f[k + 8] = Dividing(g[8], n - (k + 8), p)
  BY <1>5
<1>7. k + 8 = 8 * i
  OBVIOUS
<1> QED
  BY <1>2, <1>6, <1>7

\* The CRC of a message is the remainder of its polynomial.
LEMMA CrcOfMessage ==
  ASSUME NEW bytes \in Seq(Byte)
  PROVE  Polynomial(<<crc8_from(0, bytes)>>) = Remainder(Polynomial(bytes), 8 * Len(bytes))
<1> DEFINE p == Polynomial(bytes)
           L == Len(bytes)
           n == 8 * L
<1>1. 0 \in Byte /\ L \in Nat /\ n \in Nat /\ p \in SUBSET Int
  BY DEF Polynomial, Byte
<1>2. PICK f : DivisionRun(f, p, n) /\ Remainder(p, n) = f[n]
  BY <1>1, RemainderIs
<1>3. PICK g \in [0 .. L -> Byte] : FromRun(g, 0, bytes) /\ crc8_from(0, bytes) = g[L]
  BY <1>1, FromRunExists
<1> DEFINE D == {i \in 0 .. L : f[8 * i] = Dividing(g[i], n - 8 * i, p)}
<1>4. 0 \in D
  <2>1. g[0] = 0 /\ f[0] = p /\ 8 * 0 = 0 /\ n - 0 = n
    BY <1>1, <1>2, <1>3 DEF FromRun, DivisionRun
  <2>2. \A j \in 0 .. 7 : Bit(0, j) = 0
    BY <1>1, BitIs
  <2>3. p \subseteq 0 .. n - 1
    BY DEF Polynomial
  <2>4. Dividing(0, n, p) = p
    <3>1. ASSUME NEW e \in Nat, ~(e < n), e < n + 8 PROVE Bit(0, e - n) # 1
      <4>1. e - n \in 0 .. 7
        BY <1>1, <3>1
      <4> QED
        BY <2>2, <4>1
    <3> HIDE DEF p, n
    <3> QED
      BY <1>1, <2>3, <3>1 DEF Dividing
  <2> QED
    BY <1>1, <2>1, <2>4
<1>5. ASSUME NEW i \in 1 .. L, i - 1 \in D PROVE i \in D
  <2>1. g[i] = crc8_calc(bytes[i], g[i - 1]) /\ g[i - 1] \in Byte
    BY <1>3 DEF FromRun
  <2>2. f[8 * (i - 1)] = Dividing(g[i - 1], n - 8 * (i - 1), p)
    BY <1>5
  <2> DEFINE c == g[i - 1]
  <2>3. c \in Byte /\ f[8 * (i - 1)] = Dividing(c, n - 8 * (i - 1), p)
    BY <2>1, <2>2
  <2> HIDE DEF c
  <2>4. f[8 * i] = Dividing(crc8_calc(bytes[i], c), n - 8 * i, p)
    BY <1>2, <2>3, CalcDivides
  <2>5. f[8 * i] = Dividing(g[i], n - 8 * i, p)
    BY <2>1, <2>4 DEF c
  <2> QED
    BY <2>5
<1>6. \A i \in 0 .. L : i \in D
  <2> HIDE DEF D, L
  <2> QED
    BY <1>1, <1>4, <1>5, AlongRun
<1> DEFINE crc == crc8_from(0, bytes)
<1>7. Remainder(p, n) = Dividing(crc, 0, p) /\ crc \in Byte
  <2>1. L \in 0 .. L /\ n - 8 * L = 0
    BY <1>1
  <2>2. f[8 * L] = Dividing(g[L], n - 8 * L, p)
    BY <1>6, <2>1
  <2>3. f[n] = Dividing(g[L], 0, p)
    BY <2>1, <2>2
  <2>4. g[L] \in Byte
    BY <1>3, <2>1
  <2> HIDE DEF n, p
  <2> QED
    BY <1>2, <1>3, <2>3, <2>4
<1> HIDE DEF crc
<1>8. Polynomial(<<crc>>) = Dividing(crc, 0, p)
  <2>1. Len(<<crc>>) = 1 /\ <<crc>>[1] = crc
    OBVIOUS
  <2>2. \A e \in 0 .. 7 : 1 - (e \div 8) = 1 /\ e % 8 = e /\ e - 0 = e
    OBVIOUS
  <2>3. Polynomial(<<crc>>) = {e \in 0 .. 8 * 1 - 1 : Bit(<<crc>>[1 - (e \div 8)], e % 8) = 1}
    BY <2>1 DEF Polynomial
  <2>4. Polynomial(<<crc>>) = {e \in 0 .. 7 : Bit(crc, e) = 1}
    BY <2>1, <2>2, <2>3
  <2>5. Dividing(crc, 0, p) = {e \in 0 .. 7 : Bit(crc, e) = 1}
    <3> HIDE DEF p
    <3>1. ASSUME NEW e \in Nat
          PROVE  e \in Dividing(crc, 0, p) <=> e < 8 /\ Bit(crc, e) = 1
      <4>1. ~(e < 0) /\ e - 0 = e /\ 0 + 8 = 8
        OBVIOUS
      <4> QED
        BY <4>1 DEF Dividing
    <3>2. \A e \in Dividing(crc, 0, p) : e \in Nat
      BY DEF Dividing
    <3> QED
      BY <3>1, <3>2
  <2> QED
    BY <2>4, <2>5
<1> QED
  BY <1>7, <1>8 DEF crc

\* The receiver's CRC in ebus is that of what is covered by it.
CoveredRolled ==
  component = "ebus" => buffer.crc = crc8_from(0, Covered(buffer, part))

\* One more byte keeps it so.
LEMMA PushCovered ==
  ASSUME NEW b \in BufferType, NEW p \in Parts, NEW x \in Byte,
         b.crc = crc8_from(0, Covered(b, p))
  PROVE  push_buffer_(b, p, x).crc = crc8_from(0, Covered(push_buffer_(b, p, x), p))
<1> DEFINE next == push_buffer_(b, p, x)
           N == NNPosition(p)
           k == Len(b.bytes)
           mp == max_pos(b, p)
<1>1. /\ next \in BufferType /\ next.bytes = Append(b.bytes, x)
      /\ next.crc = Roll(b, p, x)
  BY PushEbus
<1>2. b.bytes \in Seq(Byte) /\ k \in Nat /\ 0 \in Byte
  BY DEF BufferType, Byte
<1>3. N \in {0, 4} /\ length(b, p) \in Nat /\ mp = N + 1 + length(b, p)
  BY LengthTyped, MaxDataLengthAssumption
<1> HIDE DEF next
<1>4. length(next, p) \in Nat /\ max_pos(next, p) = N + 1 + length(next, p)
  BY <1>1, LengthTyped, MaxDataLengthAssumption
<1>5. /\ Len(next.bytes) = k + 1 /\ next.bytes \in Seq(Byte)
      /\ \A i \in 1 .. k : next.bytes[i] = b.bytes[i]
  BY <1>1, <1>2
<1>6. ASSUME k > N PROVE max_pos(next, p) = mp
  <2>1. N + 1 \in 1 .. k
    BY <1>2, <1>3, <1>6
  <2>2. next.bytes[N + 1] = b.bytes[N + 1]
    BY <1>5, <2>1
  <2>3. k + 1 > N
    BY <1>2, <1>3, <1>6
  <2>4. length(next, p) = length(b, p)
    BY <1>5, <1>6, <2>2, <2>3 DEF length
  <2> QED
    BY <1>3, <1>4, <2>4
<1> HIDE DEF k, mp, N
<1>7. CASE k < mp
  <2>1. Covered(b, p) = b.bytes
    <3>1. Covered(b, p) = SubSeq(b.bytes, 1, k)
      BY <1>7 DEF Covered, k, mp
    <3> QED
      BY <1>2, <3>1 DEF k
  <2>2. k + 1 <= max_pos(next, p)
    <3>1. CASE k > N
      BY <1>2, <1>3, <1>6, <1>7, <3>1
    <3>2. CASE ~(k > N)
      BY <1>2, <1>3, <1>4, <3>2
    <3> QED
      BY <3>1, <3>2
  <2>3. Covered(next, p) = next.bytes
    <3>1. (IF k + 1 < max_pos(next, p) THEN k + 1 ELSE max_pos(next, p)) = k + 1
      BY <1>2, <1>3, <1>4, <2>2
    <3>2. Covered(next, p) = SubSeq(next.bytes, 1, k + 1)
      BY <1>5, <3>1 DEF Covered
    <3> QED
      BY <1>5, <3>2
  <2>4. next.crc = crc8_calc(x, b.crc)
    BY <1>1, <1>7 DEF Roll, k, mp
  <2>5. crc8_from(0, Append(b.bytes, x)) = crc8_calc(x, crc8_from(0, b.bytes))
    BY <1>2, FromAppend
  <2> QED
    BY <1>1, <2>1, <2>3, <2>4, <2>5 DEF next
<1>8. CASE ~(k < mp)
  <2>1. k > N
    BY <1>2, <1>3, <1>8
  <2>2. mp \in 1 .. k
    BY <1>2, <1>3, <1>8
  <2>3. next.crc = b.crc
    BY <1>1, <1>8 DEF Roll, k, mp
  <2>4. Covered(b, p) = SubSeq(b.bytes, 1, mp)
    BY <1>8 DEF Covered, k, mp
  <2>5. Covered(next, p) = SubSeq(next.bytes, 1, mp)
    <3>1. ~(k + 1 < mp)
      BY <1>2, <2>2
    <3> QED
      BY <1>5, <1>6, <2>1, <3>1 DEF Covered
  <2>6. SubSeq(next.bytes, 1, mp) = SubSeq(b.bytes, 1, mp)
    <3> DEFINE s == SubSeq(next.bytes, 1, mp)
               t == SubSeq(b.bytes, 1, mp)
    <3>1. s \in Seq(Byte) /\ Len(s) = mp /\ \A i \in 1 .. mp : s[i] = next.bytes[i]
      BY <1>2, <1>5, <2>2 DEF k
    <3>2. t \in Seq(Byte) /\ Len(t) = mp /\ \A i \in 1 .. mp : t[i] = b.bytes[i]
      BY <1>2, <2>2 DEF k
    <3> HIDE DEF s, t
    <3>3. \A i \in 1 .. mp : s[i] = t[i]
      <4>1. \A i \in 1 .. mp : i \in 1 .. k
        BY <1>2, <2>2
      <4> QED
        BY <1>5, <3>1, <3>2, <4>1
    <3>4. s = t
      BY <3>1, <3>2, <3>3, SeqEqual
    <3> QED
      BY <3>4 DEF s, t
  <2> QED
    BY <2>3, <2>4, <2>5, <2>6 DEF next
<1> QED
  BY <1>7, <1>8

\* In every state the receiver's CRC is that of the bytes before the CRC that have
\* arrived.
LEMMA CoveredIsRolled == Spec => []CoveredRolled
<1>1. Init => CoveredRolled
  <2> SUFFICES ASSUME Init PROVE buffer.crc = crc8_from(0, Covered(buffer, part))
    BY DEF CoveredRolled
  <2>1. buffer.bytes = <<>> /\ buffer.crc = 0 /\ part \in Parts /\ buffer \in BufferType
    BY DEF Init, EmptyBuffer, Parts, BufferType, Byte
  <2>2. Covered(buffer, part) = <<>>
    <3>1. max_pos(buffer, part) \in Nat \ {0}
      BY <2>1, LengthTyped, MaxDataLengthAssumption
    <3>2. Covered(buffer, part) = SubSeq(<<>>, 1, 0)
      BY <2>1, <3>1 DEF Covered
    <3> QED
      BY <3>2
  <2>3. 0 \in Byte
    BY DEF Byte
  <2> QED
    BY <2>1, <2>2, <2>3, FromEmpty
<1>2. CodecInv /\ CoveredRolled /\ [Next]_codecVars => CoveredRolled'
  <2> SUFFICES ASSUME CodecInv, CoveredRolled, [Next]_codecVars, component' = "ebus"
      PROVE  buffer'.crc = crc8_from(0, Covered(buffer', part'))
    BY DEF CoveredRolled, Covered, max_pos, length
  <2>1. component' = component /\ part' = part
    BY DEF Next, Deliver, Corrupt, codecVars
  <2>2. buffer.crc = crc8_from(0, Covered(buffer, part))
    BY <2>1 DEF CoveredRolled
  <2>3. buffer \in BufferType /\ part \in Parts
    BY DEF CodecInv, OnTheWay, Stored, Setting
  <2>4. CASE UNCHANGED buffer
    BY <2>1, <2>2, <2>4
  <2>5. CASE Deliver /\ ReceiveByte
    <3> DEFINE x == real_byte(Head(wire))
    <3>1. buffer' = push_buffer_(buffer, part, x)
      BY <2>1, <2>5 DEF ReceiveByte, Push
    <3>2. x \in Byte
      <4>1. PICK body, c, half, done : OnTheWay(body, c, half, done)
        BY DEF CodecInv
      <4> DEFINE rem == Pending(body, c, done)
      <4>2. Encodes(wire, rem, half) /\ half \in BOOLEAN /\ wire # <<>>
        BY <2>5, <4>1 DEF OnTheWay, Deliver
      <4> HIDE DEF rem
      <4>3. Head(wire) \in Byte
        BY <4>2, EncodesStep
      <4>4. ESC \in Byte /\ SYN \in Byte
        BY DEF ESC, SYN, Byte
      <4> QED
        BY <4>3, <4>4 DEF real_byte
    <3> HIDE DEF x
    <3> QED
      BY <2>1, <2>2, <2>3, <3>1, <3>2, PushCovered
  <2> QED
    BY <2>4, <2>5 DEF Next, Deliver, EscapeBegins, Corrupt, codecVars
<1> QED
  BY <1>1, <1>2, CodecInvariant, PTL DEF Spec

\* The CRC that is rolled along, bit by bit, over the bytes before the CRC is the
\* remainder of their polynomial: the whole message counts, in this order.
THEOREM CrcIsTheRemainder == Spec => []CrcIsRemainder
<1>1. CodecInv /\ CoveredRolled => CrcIsRemainder
  <2> SUFFICES ASSUME CodecInv, CoveredRolled, component = "ebus"
      PROVE  Polynomial(<<buffer.crc>>)
               = Remainder(Polynomial(Covered(buffer, part)), 8 * Len(Covered(buffer, part)))
    BY DEF CrcIsRemainder
  <2> DEFINE covered == Covered(buffer, part)
  <2>1. buffer.bytes \in Seq(Byte)
    BY DEF CodecInv, OnTheWay, Stored, BufferType
  <2>2. covered \in Seq(Byte)
    <3>1. buffer \in BufferType /\ part \in Parts
      BY DEF CodecInv, OnTheWay, Stored, Setting
    <3>2. Len(buffer.bytes) \in Nat /\ max_pos(buffer, part) \in Nat
      BY <3>1, LengthTyped, MaxDataLengthAssumption
    <3> DEFINE n == IF Len(buffer.bytes) < max_pos(buffer, part)
                    THEN Len(buffer.bytes) ELSE max_pos(buffer, part)
    <3>3. n \in 0 .. Len(buffer.bytes)
      BY <3>2
    <3>4. covered = SubSeq(buffer.bytes, 1, n)
      BY DEF Covered
    <3> HIDE DEF n
    <3> QED
      BY <2>1, <3>3, <3>4
  <2>3. buffer.crc = crc8_from(0, covered)
    BY DEF CoveredRolled
  <2> HIDE DEF covered
  <2>4. Polynomial(<<crc8_from(0, covered)>>) = Remainder(Polynomial(covered), 8 * Len(covered))
    BY <2>2, CrcOfMessage
  <2> QED
    BY <2>3, <2>4 DEF covered
<1> QED
  BY <1>1, CodecInvariant, CoveredIsRolled, PTL

\* A fifth byte after four.
LEMMA FifthAppended ==
  ASSUME NEW w \in Byte, NEW x \in Byte, NEW y \in Byte, NEW z \in Byte, NEW v \in Byte
  PROVE  <<w, x, y, z>> \in Seq(Byte) /\ Append(<<w, x, y, z>>, v) = <<w, x, y, z, v>>
<1> DEFINE s == <<w, x, y, z>>
           t == <<w, x, y, z, v>>
           u == Append(s, v)
<1>1. /\ s \in Seq(Byte) /\ Len(s) = 4
      /\ s[1] = w /\ s[2] = x /\ s[3] = y /\ s[4] = z
  OBVIOUS
<1>2. /\ t \in Seq(Byte) /\ Len(t) = 5
      /\ t[1] = w /\ t[2] = x /\ t[3] = y /\ t[4] = z /\ t[5] = v
  OBVIOUS
<1> HIDE DEF s, t
<1>3. u \in Seq(Byte) /\ Len(u) = 5 /\ u[5] = v /\ \A i \in 1 .. 4 : u[i] = s[i]
  <2>1. /\ u \in Seq(Byte) /\ Len(u) = Len(s) + 1 /\ u[Len(s) + 1] = v
        /\ \A i \in 1 .. Len(s) : u[i] = s[i]
    <3>1. s \in Seq(Byte) /\ v \in Byte
      BY <1>1
    <3> QED
      BY <3>1, AppendProperties
  <2> HIDE DEF u
  <2> QED
    BY <1>1, <2>1
<1> HIDE DEF u
<1>4. \A i \in 1 .. Len(u) : u[i] = t[i]
  <2>1. \A i \in 1 .. 5 : i \in {1, 2, 3, 4, 5}
    OBVIOUS
  <2> QED
    BY <1>1, <1>2, <1>3, <2>1
<1>5. u = t
  BY <1>2, <1>3, <1>4, SeqEqual
<1> QED
  BY <1>1, <1>5 DEF s, t, u

\* A request whose data fill the buffer goes out without them, but is not taken
\* for a valid request with no data: its CRC is that of another length.
THEOREM TooLongAreRefused == Spec => []TooLongIsRefused
<1>1. CodecInv /\ CoveredRolled => TooLongIsRefused
  <2> SUFFICES ASSUME CodecInv, CoveredRolled, Arrived, part = "request", component = "ebus",
                      Len(data) = MAX_DATA_LENGTH, is_valid(buffer, part)
               PROVE  FALSE
    BY DEF TooLongIsRefused
  <2> DEFINE zz == SecondaryOf(node)
             head == <<Primary, zz, 7, 4>>
             L == Len(data)
  <2>1. Setting /\ L \in Nat /\ L = MAX_DATA_LENGTH /\ node \in Primaries
    BY DEF CodecInv, Setting
  <2>2. L \in Byte /\ 0 \in Byte /\ L # 0 /\ ~(L < MAX_DATA_LENGTH)
    BY <2>1, MaxDataLengthAssumption DEF Byte
  <2>3. zz \in Byte /\ Primary \in Byte /\ 7 \in Byte /\ 4 \in Byte
    BY <2>1, CodecAssumption, AddressesNotEscaped DEF Byte
  <2>4. /\ Whole = <<Primary, zz, 7, 4, 0>> /\ SentCrc = TooLongCrc(zz, L)
        /\ NNPosition(part) = 4
    <3>1. SentCrc = WholeCrc
      BY <2>1, SentIs
    <3> QED
      BY <2>2, <3>1 DEF Whole, WholeCrc, NNPosition, OFFSET_NN
  <2> HIDE DEF zz, L
  <2>5. head \in Seq(Byte) /\ Append(head, 0) = <<Primary, zz, 7, 4, 0>>
    BY <2>2, <2>3, FifthAppended
  <2>6. /\ Len(Whole) = 5 /\ Whole[1] = Primary /\ Whole[2] = zz /\ Whole[3] = 7
        /\ Whole[4] = 4 /\ Whole[5] = 0 /\ Whole \in Seq(Byte)
    BY <2>2, <2>3, <2>4
  <2>7. \A i \in 1 .. 5 : Read(Whole[i]) = Whole[i]
    BY DEF Read
  <2>8. /\ buffer \in BufferType /\ Len(buffer.bytes) = 6
        /\ \A i \in 1 .. 5 : buffer.bytes[i] = Whole[i]
        /\ buffer.bytes[6] = SentCrc
    <3>1. Read(SentCrc) = SentCrc
      BY DEF Read
    <3> QED
      BY <2>6, <2>7, <3>1, ArrivedIs
  <2>9. max_pos(buffer, part) = 5
    <3>1. buffer.bytes[5] = 0
      BY <2>6, <2>8
    <3>2. get_nn(0) = 0
      BY MaxDataLengthAssumption DEF get_nn
    <3> QED
      BY <2>4, <2>8, <3>1, <3>2 DEF max_pos, length
  <2>10. Covered(buffer, part) = Append(head, 0)
    <3> DEFINE covered == SubSeq(buffer.bytes, 1, 5)
    <3>1. Covered(buffer, part) = covered
      BY <2>8, <2>9 DEF Covered
    <3>2. buffer.bytes \in Seq(Byte)
      BY <2>8 DEF BufferType
    <3>3. covered \in Seq(Byte) /\ Len(covered) = 5 /\ \A i \in 1 .. 5 : covered[i] = buffer.bytes[i]
      BY <2>8, <3>2
    <3> HIDE DEF covered
    <3>4. covered = Whole
      BY <2>6, <2>8, <3>3, SeqEqual
    <3> QED
      BY <2>4, <2>5, <3>1, <3>4
  <2>11. buffer.crc = crc8_calc(0, crc8_from(0, head))
    <3>1. buffer.crc = crc8_from(0, Append(head, 0))
      BY <2>10 DEF CoveredRolled
    <3> HIDE DEF head
    <3> QED
      BY <2>2, <2>5, <3>1, FromAppend
  <2>12. buffer.crc = SentCrc
    BY <2>8, <2>9 DEF is_valid
  <2>13. crc8_from(0, head) \in Byte
    <3> HIDE DEF head
    <3> QED
      BY <2>2, <2>5, FromTyped
  <2>14. SentCrc = crc8_calc(L, crc8_from(0, head))
    BY <2>4 DEF TooLongCrc
  <2> HIDE DEF head
  <2> QED
    BY <2>2, <2>11, <2>12, <2>13, <2>14, CalcInjectiveInByte
<1> QED
  BY <1>1, CodecInvariant, CoveredIsRolled, PTL

=============================================================================
