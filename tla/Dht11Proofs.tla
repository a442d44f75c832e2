----------------------------- MODULE Dht11Proofs -----------------------------
(***************************************************************************)
(* Reading the DHT11 for every choice of readings, pulse lengths and of    *)
(* where msTicks wraps: what BitRec makes of a pulse depends neither on    *)
(* where in a tick it begins nor on the wrap, and one disturbed pulse      *)
(* cannot pass the checksum.                                               *)
(***************************************************************************)
EXTENDS Dht11, SequenceTheorems, TLAPS

\* The numbers of j bits are those below Power[j + 1].
Power == <<1, 2, 4, 8, 16, 32, 64, 128>>

\* How the phases of the sensor and the loops of the board go together.
Together ==
    /\ pc # "main" => frame # <<>>
    /\ frame # <<>> => frame[5] = Sum(frame)
    /\ pc = "fall" => IntervalBegin = msTicks
    /\ pc \in {"awaitLow", "awaitHigh", "awaitData"} =>
          i = 1 /\ j = 0 /\ Rec = 0 /\ sentBits = 0 /\ disturbed = 0
    /\ pc # "main" => Rec < Power[j + 1]

\* What BitRec holds of byte i is what the sensor has sent of it.
RecRight == Rec = IF j = 0 THEN 0 ELSE frame[i] \div Weight[j]

\* With one disturbed pulse at most one byte is wrong.
OneWrongByte ==
    (disturbed <= 1 /\ pc \in {"rise", "fall"}) =>
        \/ \A k \in 1 .. (i - 1) : dht[k] = frame[k]
        \/ /\ RecRight
           /\ \E w \in 1 .. (i - 1) :
                 \A k \in 1 .. (i - 1) : k # w => dht[k] = frame[k]

ReadInv ==
    /\ TypeOK /\ Together /\ BitsRight /\ OneWrongByte
    /\ OneDisturbedRefused /\ UndisturbedTaken

-----------------------------------------------------------------------------
\* A counter that wraps once.
LEMMA Wrap ==
  ASSUME NEW m \in Nat, m > 0, NEW x \in (-m) .. (2 * m - 1)
  PROVE  x % m = IF x < 0 THEN x + m ELSE IF x < m THEN x ELSE x - m
  OBVIOUS

\* The difference of two readings of msTicks is the number of ticks between.
LEMMA Measured ==
  ASSUME TypeOK, IntervalBegin = msTicks, NEW d \in 1 .. 100, Passes(d)
  PROVE  (msTicks' - IntervalBegin) % TickModulus = (phase + d) \div 10
PROOF
  <1> DEFINE q == (phase + d) \div 10
  <1>1. q \in 0 .. 10
    BY DEF TypeOK, TickLength
  <1>2. msTicks' = (msTicks + q) % TickModulus
    BY DEF Passes, TickLength
  <1> HIDE DEF q
  <1>3. TickModulus \in Nat /\ TickModulus > 11
    BY Dht11Assumption
  <1>4. msTicks \in 0 .. (TickModulus - 1)
    BY DEF TypeOK
  <1>5. msTicks' = IF msTicks + q < TickModulus THEN msTicks + q
                   ELSE msTicks + q - TickModulus
    BY <1>1, <1>2, <1>3, <1>4, Wrap
  <1>6. msTicks' - msTicks \in {q, q - TickModulus}
    BY <1>1, <1>3, <1>4, <1>5
  <1>7. (msTicks' - msTicks) % TickModulus = q
    <2>1. q % TickModulus = q
      BY <1>1, <1>3, Wrap
    <2>2. (q - TickModulus) % TickModulus = q
      BY <1>1, <1>3, Wrap
    <2> QED
      BY <1>6, <2>1, <2>2
  <1> QED
    BY <1>7 DEF q

\* A pulse is read as the bit it stands for, wherever in a tick it begins.
LEMMA PulseRead ==
  ASSUME TypeOK, IntervalBegin = msTicks, NEW d \in 1 .. 100, Passes(d)
  PROVE  /\ MeasuredBit \in {0, 1}
         /\ d <= 50 => MeasuredBit = 0
         /\ d >= 60 => MeasuredBit = 1
PROOF
  <1>1. (msTicks' - IntervalBegin) % TickModulus = (phase + d) \div 10
    BY Measured
  <1>2. phase \in 0 .. 9
    BY DEF TypeOK, TickLength
  <1>3. d <= 50 => (phase + d) \div 10 <= 5
    BY <1>2
  <1>4. d >= 60 => (phase + d) \div 10 > 5
    BY <1>2
  <1>5. MeasuredBit = IF (phase + d) \div 10 <= 5 THEN 0 ELSE 1
    BY <1>1 DEF MeasuredBit, LongestZero
  <1>6. (phase + d) \div 10 \in Int
    BY <1>2
  <1> QED
    BY <1>3, <1>4, <1>5, <1>6

-----------------------------------------------------------------------------
\* Doubling a number and adding the lowest bit of the next one.
LEMMA NextNumber ==
  ASSUME NEW p \in Int, NEW q \in Int, q = 2 * p \/ q = 2 * p + 1
  PROVE  2 * p + (q % 2) = q /\ q % 2 \in {0, 1}
  OBVIOUS

\* One bit more of a byte.
LEMMA OneBitMore ==
  ASSUME NEW b \in Byte, NEW n \in 0 .. 7
  PROVE  /\ 2 * (IF n = 0 THEN 0 ELSE b \div Weight[n])
               + ((b \div Weight[n + 1]) % 2)
            = b \div Weight[n + 1]
         /\ (b \div Weight[n + 1]) % 2 \in {0, 1}
         /\ b \div Weight[n + 1] \in Byte
         /\ b \div Weight[8] = b
PROOF
  <1> DEFINE p == IF n = 0 THEN 0 ELSE b \div Weight[n]
             q == b \div Weight[n + 1]
  <1>1. p \in Int /\ q \in Byte /\ (q = 2 * p \/ q = 2 * p + 1)
    <2>1. CASE n = 0
      <3>1. p = 0 /\ q = b \div 128
        BY <2>1 DEF Weight
      <3> QED
        BY <3>1 DEF Byte
    <2>2. CASE n = 1
      <3>1. p = b \div 128 /\ q = b \div 64
        BY <2>2 DEF Weight
      <3> QED
        BY <3>1 DEF Byte
    <2>3. CASE n = 2
      <3>1. p = b \div 64 /\ q = b \div 32
        BY <2>3 DEF Weight
      <3> QED
        BY <3>1 DEF Byte
    <2>4. CASE n = 3
      <3>1. p = b \div 32 /\ q = b \div 16
        BY <2>4 DEF Weight
      <3> QED
        BY <3>1 DEF Byte
    <2>5. CASE n = 4
      <3>1. p = b \div 16 /\ q = b \div 8
        BY <2>5 DEF Weight
      <3> QED
        BY <3>1 DEF Byte
    <2>6. CASE n = 5
      <3>1. p = b \div 8 /\ q = b \div 4
        BY <2>6 DEF Weight
      <3> QED
        BY <3>1 DEF Byte
    <2>7. CASE n = 6
      <3>1. p = b \div 4 /\ q = b \div 2
        BY <2>7 DEF Weight
      <3> QED
        BY <3>1 DEF Byte
    <2>8. CASE n = 7
      <3>1. p = b \div 2 /\ q = b \div 1
        BY <2>8 DEF Weight
      <3> QED
        BY <3>1 DEF Byte
    <2> QED
      BY <2>1, <2>2, <2>3, <2>4, <2>5, <2>6, <2>7, <2>8
  <1>2. Weight[8] = 1
    BY DEF Weight
  <1>3. b \div Weight[8] = b
    BY <1>2 DEF Byte
  <1> HIDE DEF p, q
  <1>4. 2 * p + (q % 2) = q /\ q % 2 \in {0, 1}
    BY <1>1, NextNumber DEF Byte
  <1> QED
    BY <1>1, <1>3, <1>4 DEF p, q

LEMMA ModNear ==
  ASSUME NEW u \in Int, NEW v \in Int,
         u % 256 = v % 256, u - v < 256, v - u < 256
  PROVE  u = v
  OBVIOUS

LEMMA SumTyped ==
  ASSUME NEW a, a[1] \in Byte, a[2] \in Byte, a[3] \in Byte, a[4] \in Byte
  PROVE  Sum(a) \in Byte
PROOF
  <1> DEFINE a1 == a[1]  a2 == a[2]  a3 == a[3]  a4 == a[4]
  <1>1. a1 \in Byte /\ a2 \in Byte /\ a3 \in Byte /\ a4 \in Byte
    OBVIOUS
  <1>2. Sum(a) = (a1 + a2 + a3 + a4) % 256
    BY DEF Sum
  <1> HIDE DEF a1, a2, a3, a4
  <1>3. (a1 + a2 + a3 + a4) % 256 \in Byte
    BY <1>1 DEF Byte
  <1> QED
    BY <1>2, <1>3

\* The checksum tells two readings apart that differ in one byte.
LEMMA SumTells ==
  ASSUME NEW a, NEW b,
         \A k \in 1 .. 4 : a[k] \in Byte /\ b[k] \in Byte,
         NEW w \in 1 .. 4, \A k \in 1 .. 4 : k # w => a[k] = b[k],
         Sum(a) = Sum(b)
  PROVE  \A k \in 1 .. 4 : a[k] = b[k]
PROOF
  <1> DEFINE a1 == a[1]  a2 == a[2]  a3 == a[3]  a4 == a[4]
             b1 == b[1]  b2 == b[2]  b3 == b[3]  b4 == b[4]
             u == a1 + a2 + a3 + a4
             v == b1 + b2 + b3 + b4
  <1>1. /\ a1 \in Byte /\ a2 \in Byte /\ a3 \in Byte /\ a4 \in Byte
        /\ b1 \in Byte /\ b2 \in Byte /\ b3 \in Byte /\ b4 \in Byte
    OBVIOUS
  <1>2. u % 256 = v % 256
    BY DEF Sum
  <1>3. \/ a2 = b2 /\ a3 = b3 /\ a4 = b4
        \/ a1 = b1 /\ a3 = b3 /\ a4 = b4
        \/ a1 = b1 /\ a2 = b2 /\ a4 = b4
        \/ a1 = b1 /\ a2 = b2 /\ a3 = b3
    <2>1. w \in {1, 2, 3, 4}
      OBVIOUS
    <2> QED
      BY <2>1
  <1>4. a1 = b1 /\ a2 = b2 /\ a3 = b3 /\ a4 = b4
    <2> HIDE DEF a1, a2, a3, a4, b1, b2, b3, b4
    <2>1. u \in Int /\ v \in Int
      BY <1>1 DEF Byte
    <2>2. u - v < 256 /\ v - u < 256
      BY <1>1, <1>3 DEF Byte
    <2> HIDE DEF u, v
    <2>3. u = v
      BY ONLY <2>1, <2>2, <1>2, ModNear
    <2> QED
      BY <1>1, <1>3, <2>3 DEF u, v, Byte
  <1> QED
    BY <1>4

-----------------------------------------------------------------------------
LEMMA ReadInit == Init => ReadInv
PROOF
  <1> SUFFICES ASSUME Init PROVE ReadInv
    OBVIOUS
  <1>1. TypeOK
    BY Dht11Assumption DEF Init, TypeOK, Byte, TickLength
  <1>2. Together /\ BitsRight /\ OneWrongByte
    BY DEF Init, Together, Power, BitsRight, OneWrongByte
  <1>3. OneDisturbedRefused /\ UndisturbedTaken
    BY DEF Init, OneDisturbedRefused, UndisturbedTaken, Returned
  <1> QED
    BY <1>1, <1>2, <1>3 DEF ReadInv

\* Time keeps its type, whatever passes.
LEMMA TimeTyped ==
  ASSUME TypeOK, NEW d \in Nat, Passes(d)
  PROVE  /\ phase' \in 0 .. (TickLength - 1)
         /\ msTicks' \in 0 .. (TickModulus - 1)
PROOF
  <1>1. phase' \in 0 .. (TickLength - 1)
    BY DEF TypeOK, Passes, TickLength
  <1>2. (phase + d) \div TickLength \in Nat
    BY DEF TypeOK, TickLength
  <1>3. TickModulus \in Nat /\ TickModulus > 0
    BY Dht11Assumption
  <1>4. \A x \in Nat : x % TickModulus \in 0 .. (TickModulus - 1)
    BY <1>3
  <1>5. msTicks + (phase + d) \div TickLength \in Nat
    BY <1>2, <1>3 DEF TypeOK
  <1> QED
    BY <1>1, <1>4, <1>5 DEF Passes

\* A call of GetTemp.
LEMMA GetTempKeeps == ASSUME ReadInv, GetTemp PROVE ReadInv'
PROOF
  <1> USE DEF ReadInv, GetTemp
  <1>1. PICK r \in Readings : frame' = <<r[1], r[2], r[3], r[4], Sum(r)>>
    OBVIOUS
  <1>2. r \in Byte \X Byte \X Byte \X Byte
    BY Dht11Assumption
  <1>3. r[1] \in Byte /\ r[2] \in Byte /\ r[3] \in Byte /\ r[4] \in Byte
    BY <1>2
  <1>4. Sum(r) \in Byte
    BY <1>3, SumTyped
  <1>5. frame' \in Seq(Byte) /\ Len(frame') = 5
    <2> DEFINE r1 == r[1]  r2 == r[2]  r3 == r[3]  r4 == r[4]  r5 == Sum(r)
    <2>1. r1 \in Byte /\ r2 \in Byte /\ r3 \in Byte /\ r4 \in Byte /\ r5 \in Byte
      BY <1>3, <1>4
    <2>2. frame' = <<r1, r2, r3, r4, r5>>
      BY <1>1
    <2> HIDE DEF r1, r2, r3, r4, r5
    <2> QED
      BY ONLY <2>1, <2>2
  <1>6. frame'[5] = Sum(frame')
    BY <1>1 DEF Sum
  <1>7. frame' # <<>>
    BY <1>1
  <1>8. msTicks' \in 0 .. (TickModulus - 1)
    <2>1. TickModulus \in Nat /\ TickModulus > 0 /\ CallDelay \in Nat
      BY Dht11Assumption
    <2> QED
      BY <2>1 DEF TypeOK
  <1>9. TypeOK'
    BY <1>5, <1>8, Dht11Assumption DEF TypeOK, Byte, TickLength
  <1>10. Together'
    BY <1>6, <1>7 DEF Together, Power
  <1>11. BitsRight' /\ OneWrongByte' /\ OneDisturbedRefused' /\ UndisturbedTaken'
    BY DEF BitsRight, OneWrongByte, OneDisturbedRefused, UndisturbedTaken, Returned
  <1> QED
    BY <1>9, <1>10, <1>11

\* A step of the sensor's greeting, or the start of a pulse.
LEMMA GreetingKeeps ==
  ASSUME ReadInv, SensorAnswers \/ SensorReady \/ DataBegins PROVE ReadInv'
PROOF
  <1> USE DEF ReadInv
  <1>1. PICK d \in Nat : Passes(d)
    BY Dht11Assumption DEF SensorAnswers, SensorReady, DataBegins
  <1>2. phase' \in 0 .. (TickLength - 1) /\ msTicks' \in 0 .. (TickModulus - 1)
    BY <1>1, TimeTyped
  <1>3. TypeOK'
    BY <1>2 DEF TypeOK, SensorAnswers, SensorReady, DataBegins
  <1>4. Together'
    BY DEF Together, SensorAnswers, SensorReady, DataBegins
  <1>5. BitsRight'
    BY DEF Together, BitsRight, SensorAnswers, SensorReady, DataBegins
  <1>6. OneWrongByte'
    BY DEF Together, OneWrongByte, RecRight, SensorAnswers, SensorReady, DataBegins
  <1>7. OneDisturbedRefused' /\ UndisturbedTaken'
    BY DEF OneDisturbedRefused, UndisturbedTaken, Returned,
           SensorAnswers, SensorReady, DataBegins
  <1> QED
    BY <1>3, <1>4, <1>5, <1>6, <1>7

LEMMA PulseBeginsKeeps == ASSUME ReadInv, PulseBegins PROVE ReadInv'
PROOF
  <1> USE DEF ReadInv, PulseBegins
  <1>1. phase' \in 0 .. (TickLength - 1) /\ msTicks' \in 0 .. (TickModulus - 1)
    BY TimeTyped
  <1>2. TypeOK'
    BY <1>1 DEF TypeOK
  <1>3. Together'
    BY DEF Together
  <1>4. BitsRight' /\ OneWrongByte'
    BY DEF BitsRight, OneWrongByte, RecRight
  <1>5. OneDisturbedRefused' /\ UndisturbedTaken'
    BY DEF OneDisturbedRefused, UndisturbedTaken, Returned
  <1> QED
    BY <1>2, <1>3, <1>4, <1>5

-----------------------------------------------------------------------------
LEMMA FiveBytes ==
  ASSUME NEW s \in Seq(Byte), Len(s) = 5
  PROVE  \A k \in 1 .. 5 : s[k] \in Byte
  BY ElementOfSeq

\* The end of a pulse: what BitRec shifts into Rec.
LEMMA RecGrows ==
  ASSUME NEW n \in 0 .. 7, NEW rec \in Nat, rec < Power[n + 1],
         NEW bit \in {0, 1}
  PROVE  /\ 2 * rec + bit \in Byte
         /\ n < 7 => 2 * rec + bit < Power[n + 2]
PROOF
  <1> USE DEF Power, Byte
  <1>1. CASE n = 0
    BY <1>1
  <1>2. CASE n = 1
    BY <1>2
  <1>3. CASE n = 2
    BY <1>3
  <1>4. CASE n = 3
    BY <1>4
  <1>5. CASE n = 4
    BY <1>5
  <1>6. CASE n = 5
    BY <1>6
  <1>7. CASE n = 6
    BY <1>7
  <1>8. CASE n = 7
    BY <1>8
  <1> QED
    BY <1>1, <1>2, <1>3, <1>4, <1>5, <1>6, <1>7, <1>8

\* The bit of the answer that is under way is bit j of byte i.
LEMMA BitUnderWay ==
  ASSUME TypeOK, sentBits = 8 * (i - 1) + j
  PROVE  FrameBit(sentBits) = (frame[i] \div Weight[j + 1]) % 2
PROOF
  <1>1. i \in 1 .. 5 /\ j \in 0 .. 7
    BY DEF TypeOK
  <1>2. (sentBits \div 8) + 1 = i /\ sentBits % 8 = j
    BY <1>1
  <1> QED
    BY <1>2 DEF FrameBit

\* A pulse that is not disturbed adds the right bit.
LEMMA PulseShifts ==
  ASSUME ReadInv, pc = "fall", NEW d \in 1 .. 100, Pulse(d), Passes(d)
  PROVE  /\ 2 * Rec + MeasuredBit \in Byte
         /\ j < 7 => 2 * Rec + MeasuredBit < Power[j + 2]
         /\ (RecRight /\ disturbed' = disturbed) =>
               2 * Rec + MeasuredBit = frame[i] \div Weight[j + 1]
PROOF
  <1> USE DEF ReadInv
  <1>1. i \in 1 .. 5 /\ j \in 0 .. 7 /\ Rec \in Nat /\ frame[i] \in Byte
    <2>1. frame \in Seq(Byte) /\ Len(frame) = 5
      BY DEF TypeOK, Together
    <2>2. i \in 1 .. 5
      BY DEF TypeOK
    <2>3. frame[i] \in Byte
      BY <2>1, <2>2, FiveBytes
    <2>4. Rec \in Byte /\ j \in 0 .. 7
      BY DEF TypeOK
    <2> QED
      BY <2>2, <2>3, <2>4 DEF Byte
  <1>2. /\ MeasuredBit \in {0, 1}
        /\ d <= 50 => MeasuredBit = 0
        /\ d >= 60 => MeasuredBit = 1
    BY PulseRead DEF Together
  <1>3. 2 * Rec + MeasuredBit \in Byte /\ (j < 7 => 2 * Rec + MeasuredBit < Power[j + 2])
    <2> DEFINE bit == MeasuredBit
    <2>1. Rec < Power[j + 1]
      BY DEF Together
    <2> HIDE DEF bit
    <2>2. bit \in {0, 1}
      BY <1>2 DEF bit
    <2>3. 2 * Rec + bit \in Byte /\ (j < 7 => 2 * Rec + bit < Power[j + 2])
      BY ONLY <1>1, <2>1, <2>2, RecGrows
    <2> QED
      BY <2>3 DEF bit
  <1>4. ASSUME RecRight, disturbed' = disturbed
        PROVE  2 * Rec + MeasuredBit = frame[i] \div Weight[j + 1]
    <2> DEFINE bit == (frame[i] \div Weight[j + 1]) % 2
    <2>1. FrameBit(sentBits) = bit
      BY BitUnderWay DEF BitsRight
    <2>2. bit \in {0, 1}
      BY <1>1, OneBitMore
    <2>3. d \in (IF bit = 0 THEN ZeroPulse ELSE OnePulse)
      BY <1>4, <2>1 DEF Pulse, TypeOK
    <2>4. MeasuredBit = bit
      <3> HIDE DEF bit
      <3>1. ZeroPulse \subseteq 1 .. 50 /\ OnePulse \subseteq 60 .. 100
        BY Dht11Assumption
      <3> QED
        BY <1>2, <2>2, <2>3, <3>1
    <2>5. 2 * (IF j = 0 THEN 0 ELSE frame[i] \div Weight[j]) + bit
             = frame[i] \div Weight[j + 1]
      BY <1>1, OneBitMore
    <2> QED
      BY <1>4, <2>4, <2>5 DEF RecRight
  <1> QED
    BY <1>3, <1>4

LEMMA PulseEndsKeeps == ASSUME ReadInv, PulseEnds PROVE ReadInv'
PROOF
  <1> USE DEF ReadInv
  <1> DEFINE v == 2 * Rec + MeasuredBit
  <1>1. PICK d \in ZeroPulse \cup OnePulse \cup Disturbed : Pulse(d) /\ Passes(d)
    BY DEF PulseEnds
  <1>2. d \in 1 .. 100
    BY <1>1, Dht11Assumption
  <1>3. /\ v \in Byte
        /\ j < 7 => v < Power[j + 2]
        /\ (RecRight /\ disturbed' = disturbed) => v = frame[i] \div Weight[j + 1]
    BY <1>1, <1>2, PulseShifts DEF PulseEnds
  <1> HIDE DEF v
  <1>4. phase' \in 0 .. (TickLength - 1) /\ msTicks' \in 0 .. (TickModulus - 1)
    BY <1>1, <1>2, TimeTyped
  <1>5. /\ pc = "fall" /\ sentBits = 8 * (i - 1) + j
        /\ i \in 1 .. 5 /\ j \in 0 .. 7
        /\ frame # <<>> /\ frame \in Seq(Byte) /\ Len(frame) = 5
        /\ frame' = frame /\ frame[5] = Sum(frame)
        /\ dht \in [1 .. 4 -> Byte]
    BY DEF PulseEnds, Together, BitsRight, TypeOK
  <1>6. \/ disturbed' = disturbed
        \/ disturbed' = disturbed + 1
    BY <1>1 DEF Pulse
  <1>7. disturbed' \in 0 .. MaxDisturbed /\ disturbed \in Nat
    BY <1>1, Dht11Assumption DEF Pulse, TypeOK
  \* A disturbed pulse is the first, if no other is allowed.
  <1>8. (disturbed' <= 1 /\ disturbed' # disturbed) => disturbed = 0
    BY <1>6, <1>7
  <1>9. disturbed' = 0 => disturbed = 0 /\ disturbed' = disturbed
    BY <1>6, <1>7
  <1>10. \A k \in 1 .. 5 : frame[k] \in Byte
    BY <1>5, FiveBytes
  <1>11. disturbed = 0 => RecRight /\ \A k \in 1 .. (i - 1) : dht[k] = frame[k]
    BY <1>5 DEF BitsRight, RecRight
  <1>12. CASE NextBit
    <2>1. /\ j < 7 /\ Rec' = v /\ j' = j + 1 /\ pc' = "rise"
          /\ i' = i /\ dht' = dht /\ ret' = ret
      BY <1>12 DEF NextBit, v
    <2>2. sentBits' = sentBits + 1 /\ sentBits' < 40
      BY <1>5, <2>1 DEF PulseEnds
    <2>3. sensor' = "gap" /\ IntervalBegin' = IntervalBegin
      BY <2>2 DEF PulseEnds
    <2>4. TypeOK'
      BY <1>3, <1>4, <1>5, <1>7, <2>1, <2>2, <2>3 DEF TypeOK
    <2>5. Together'
      BY <1>3, <1>5, <2>1 DEF Together
    <2>6. (RecRight /\ disturbed' = disturbed) => RecRight'
      BY <1>3, <1>5, <2>1 DEF RecRight
    <2>7. BitsRight'
      BY <1>5, <1>9, <1>11, <2>1, <2>2, <2>6 DEF BitsRight, RecRight
    <2>8. OneWrongByte'
      BY <1>5, <1>6, <1>7, <1>8, <1>11, <2>1, <2>6 DEF OneWrongByte
    <2>9. OneDisturbedRefused' /\ UndisturbedTaken'
      BY <2>1 DEF OneDisturbedRefused, UndisturbedTaken, Returned
    <2> QED
      BY <2>4, <2>5, <2>7, <2>8, <2>9
  <1>13. CASE NextByte
    <2>1. /\ j = 7 /\ i < 5 /\ dht' = [dht EXCEPT ![i] = v]
          /\ Rec' = 0 /\ i' = i + 1 /\ j' = 0 /\ pc' = "rise" /\ ret' = ret
      BY <1>13 DEF NextByte, v
    <2>2. sentBits' = sentBits + 1 /\ sentBits' < 40 /\ sentBits' = 8 * (i' - 1) + j'
      BY <1>5, <2>1 DEF PulseEnds
    <2>3. sensor' = "gap" /\ IntervalBegin' = IntervalBegin
      BY <2>2 DEF PulseEnds
    <2>4. dht' \in [1 .. 4 -> Byte]
      BY <1>3, <1>5, <2>1
    <2>5. TypeOK'
      <3>1. Rec' \in Byte
        BY <2>1 DEF Byte
      <3> QED
        BY <1>4, <1>5, <1>7, <2>1, <2>2, <2>3, <2>4, <3>1 DEF TypeOK
    <2>6. Together'
      BY <1>5, <2>1 DEF Together, Power
    <2>7. (RecRight /\ disturbed' = disturbed) => dht'[i] = frame[i]
      <3>1. frame[i] \div Weight[8] = frame[i]
        BY <1>5, <1>10, OneBitMore
      <3> QED
        BY <1>3, <1>5, <2>1, <3>1
    <2>8. \A k \in 1 .. (i - 1) : dht'[k] = dht[k]
      BY <1>5, <2>1
    <2>9. RecRight'
      BY <2>1 DEF RecRight
    <2>10. BitsRight'
      BY <1>5, <1>9, <1>11, <2>1, <2>2, <2>7, <2>8 DEF BitsRight
    <2>11. OneWrongByte'
      <3> SUFFICES ASSUME disturbed' <= 1
                   PROVE  \E w \in 1 .. i : \A k \in 1 .. i : k # w => dht'[k] = frame[k]
        BY <1>5, <2>1, <2>9 DEF OneWrongByte
      <3>1. CASE \A k \in 1 .. (i - 1) : dht[k] = frame[k]
        <4>1. i \in 1 .. i
          BY <1>5
        <4> WITNESS i \in 1 .. i
        <4> QED
          BY <1>5, <2>8, <3>1
      <3>2. CASE ~(\A k \in 1 .. (i - 1) : dht[k] = frame[k])
        <4>1. disturbed' = disturbed /\ disturbed <= 1
          BY <1>6, <1>7, <1>8, <1>11, <3>2
        <4>2. RecRight
          BY <1>5, <3>2, <4>1 DEF OneWrongByte
        <4>3. PICK w \in 1 .. (i - 1) :
                 \A k \in 1 .. (i - 1) : k # w => dht[k] = frame[k]
          BY <1>5, <3>2, <4>1 DEF OneWrongByte
        <4>4. dht'[i] = frame[i]
          BY <2>7, <4>1, <4>2
        <4>5. w \in 1 .. i
          BY <1>5
        <4> WITNESS w \in 1 .. i
        <4> QED
          BY <1>5, <2>8, <4>3, <4>4
      <3> QED
        BY <3>1, <3>2
    <2>12. OneDisturbedRefused' /\ UndisturbedTaken'
      BY <2>1 DEF OneDisturbedRefused, UndisturbedTaken, Returned
    <2> QED
      BY <2>5, <2>6, <2>10, <2>11, <2>12
  <1>14. CASE LastBit
    <2>1. /\ j = 7 /\ i = 5 /\ Rec' = v /\ pc' = "main"
          /\ i' = i /\ j' = j /\ dht' = dht
          /\ ret' = IF Sum(dht) = v THEN 1 ELSE 0
      BY <1>14 DEF LastBit, ChecksumRight, v
    <2>2. sentBits' = 40
      BY <1>5, <2>1 DEF PulseEnds
    <2>3. sensor' = "idle" /\ IntervalBegin' = IntervalBegin
      BY <2>2 DEF PulseEnds
    <2>4. TypeOK'
      BY <1>3, <1>4, <1>5, <1>7, <2>1, <2>2, <2>3 DEF TypeOK
    <2>5. Together' /\ BitsRight' /\ OneWrongByte'
      BY <1>5, <2>1 DEF Together, BitsRight, OneWrongByte
    <2>6. (RecRight /\ disturbed' = disturbed) => v = frame[5]
      <3>1. frame[5] \div Weight[8] = frame[5]
        BY <1>10, OneBitMore
      <3> QED
        BY <1>3, <2>1, <3>1
    <2>7. UndisturbedTaken'
      <3> SUFFICES ASSUME disturbed' = 0 PROVE Sum(dht) = v
        BY <2>1 DEF UndisturbedTaken
      <3>1. RecRight /\ disturbed' = disturbed /\ \A k \in 1 .. 4 : dht[k] = frame[k]
        BY <1>9, <1>11, <2>1
      <3>2. dht[1] = frame[1] /\ dht[2] = frame[2] /\ dht[3] = frame[3] /\ dht[4] = frame[4]
        BY <3>1
      <3>3. Sum(dht) = Sum(frame)
        BY <3>2 DEF Sum
      <3> QED
        BY <1>5, <2>6, <3>1, <3>3
    <2>8. OneDisturbedRefused'
      <3> SUFFICES ASSUME disturbed' <= 1, Sum(dht) = v
                   PROVE  \A k \in 1 .. 4 : dht[k] = frame[k]
        BY <1>5, <2>1 DEF OneDisturbedRefused
      <3>1. CASE ~(\A k \in 1 .. 4 : dht[k] = frame[k])
        <4>1. disturbed' = disturbed /\ disturbed <= 1
          BY <1>6, <1>7, <1>8, <1>11, <2>1, <3>1
        <4>2. RecRight
          BY <1>5, <2>1, <3>1, <4>1 DEF OneWrongByte
        <4>3. PICK w \in 1 .. 4 : \A k \in 1 .. 4 : k # w => dht[k] = frame[k]
          BY <1>5, <2>1, <3>1, <4>1 DEF OneWrongByte
        <4>4. Sum(dht) = Sum(frame)
          BY <1>5, <2>6, <4>1, <4>2
        <4>5. \A k \in 1 .. 4 : dht[k] \in Byte /\ frame[k] \in Byte
          BY <1>5, <1>10
        <4> QED
          BY <4>3, <4>4, <4>5, SumTells
      <3> QED
        BY <3>1
    <2> QED
      BY <2>4, <2>5, <2>7, <2>8
  <1> QED
    BY <1>12, <1>13, <1>14 DEF PulseEnds, BitEnds

LEMMA ReadNext == ReadInv /\ [Next]_vars => ReadInv'
PROOF
  <1> SUFFICES ASSUME ReadInv, [Next]_vars PROVE ReadInv'
    OBVIOUS
  <1>1. CASE GetTemp
    BY <1>1, GetTempKeeps
  <1>2. CASE SensorAnswers \/ SensorReady \/ DataBegins
    BY <1>2, GreetingKeeps
  <1>3. CASE PulseBegins
    BY <1>3, PulseBeginsKeeps
  <1>4. CASE PulseEnds
    BY <1>4, PulseEndsKeeps
  <1>5. CASE UNCHANGED vars
    BY <1>5 DEF vars, boardVars, timeVars, sensorVars, ReadInv, TypeOK, Together,
                BitsRight, OneWrongByte, RecRight, OneDisturbedRefused,
                UndisturbedTaken, Returned
  <1> QED
    BY <1>1, <1>2, <1>3, <1>4, <1>5 DEF Next

LEMMA ReadInvariant == Spec => []ReadInv
  BY ReadInit, ReadNext, PTL DEF Spec

\* Every counter of BitRec keeps its range: Rec never leaves a byte although
\* disturbed pulses may set any of its bits (dht11.c:151-211).
THEOREM TypeCorrect == Spec => []TypeOK
PROOF
  <1>1. ReadInv => TypeOK
    BY DEF ReadInv
  <1> QED
    BY ReadInvariant, <1>1, PTL

\* BitRec reads undisturbed pulses right, wherever in a tick they begin and
\* wherever msTicks wraps (dht11.c:163-178).
THEOREM BitsRightCorrect == Spec => []BitsRight
PROOF
  <1>1. ReadInv => BitsRight
    BY DEF ReadInv
  <1> QED
    BY ReadInvariant, <1>1, PTL

\* GetTemp does not return 1 for a reading of which one pulse was disturbed
\* and is not what the sensor sent (dht11.c:195-205).
THEOREM OneDisturbedRefusedCorrect == Spec => []OneDisturbedRefused
PROOF
  <1>1. ReadInv => OneDisturbedRefused
    BY DEF ReadInv
  <1> QED
    BY ReadInvariant, <1>1, PTL

\* GetTemp returns 1 for every undisturbed reading, also when the sum of its
\* bytes does not fit in one (dht11.c:196-200).
THEOREM UndisturbedTakenCorrect == Spec => []UndisturbedTaken
PROOF
  <1>1. ReadInv => UndisturbedTaken
    BY DEF ReadInv
  <1> QED
    BY ReadInvariant, <1>1, PTL
=============================================================================
