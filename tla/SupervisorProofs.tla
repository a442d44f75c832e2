-------------------------- MODULE SupervisorProofs --------------------------
(***************************************************************************)
(* What holds of the Supervisor's two threads for every set of frames,     *)
(* every size of a read and every bound on the queues, and of what the     *)
(* dialog shows if its reads find whole messages:                          *)
(*   TypeCorrect             every variable keeps its type                 *)
(*   IsViewCorrect           the dialog implements module View             *)
(*   NothingInventedCorrect  a label shows what a message carries          *)
(* The chunk of a read is cut into messages, and the messages are shown    *)
(* one after the other: both are recursive functions, of which lemmas say  *)
(* that they exist and what they return.                                   *)
(***************************************************************************)
EXTENDS Supervisor, SequenceTheorems, WellFoundedInduction, TLAPS

Bytes == 0 .. 255

\* Something is under way that ends in a look at the driver's queue.
LookDue == rxEvent \/ thread \in {"rx", "errRx"} \/ posted > 0

QueuesOK ==
    /\ wire \in Seq(Bytes) /\ inq \in Seq(Bytes)
    /\ posted \in Nat /\ cbInQue \in Nat

\* The UI thread between ClearCommError and ReadFile: the bytes it counted
\* are still there, and those beyond them are due another look, unless the
\* read is full.
CountInv ==
    ui = "read" =>
        /\ opened /\ inq # <<>>
        /\ cbInQue <= Len(inq)
        /\ Len(inq) > cbInQue => LookDue \/ unannounced \/ cbInQue = ReadMax

WakeInv == QueuesOK /\ CountInv /\ NoLostWakeup

\* A byte the dialog holds, or is about to read, came in through this port.
FreshInv ==
    /\ (inq # <<>> \/ ui = "read") => fresh
    /\ NothingFromBefore

-----------------------------------------------------------------------------
\* The two ends of a queue that is cut.
LEMMA CutTyped ==
  ASSUME NEW s \in Seq(Bytes), NEW k \in 0 .. Len(s)
  PROVE  /\ SubSeq(s, 1, k) \in Seq(Bytes)
         /\ SubSeq(s, k + 1, Len(s)) \in Seq(Bytes)
         /\ Len(SubSeq(s, k + 1, Len(s))) = Len(s) - k
PROOF
  <1>1. \A i \in 1 .. k : s[i] \in Bytes
    OBVIOUS
  <1>2. \A i \in (k + 1) .. Len(s) : s[i] \in Bytes
    OBVIOUS
  <1>3. SubSeq(s, 1, k) \in Seq(Bytes)
    BY <1>1, SubSeqProperties
  <1>4. /\ SubSeq(s, k + 1, Len(s)) \in Seq(Bytes)
        /\ Len(SubSeq(s, k + 1, Len(s))) = Len(s) - k
    BY <1>2, SubSeqProperties
  <1> QED
    BY <1>3, <1>4

LEMMA WakeInit == Init => WakeInv
  BY DEF Init, WakeInv, QueuesOK, CountInv, NoLostWakeup, Bytes

\* What a step of the environment does to the queues.
LEMMA BurstTyped ==
  ASSUME wire \in Seq(Bytes), wire # <<>>
  PROVE  /\ SubSeq(wire, 1, Burst) \in Seq(Bytes)
         /\ SubSeq(wire, 1, Burst) # <<>>
         /\ SubSeq(wire, Burst + 1, Len(wire)) \in Seq(Bytes)
PROOF
  <1>1. Burst \in 1 .. Len(wire)
    BY DEF Burst
  <1>2. \A i \in 1 .. Burst : wire[i] \in Bytes
    BY <1>1
  <1>3. Len(SubSeq(wire, 1, Burst)) = Burst
    BY <1>1, <1>2, SubSeqProperties
  <1>4. SubSeq(wire, 1, Burst) # <<>>
    BY <1>1, <1>3
  <1> QED
    BY <1>1, <1>4, CutTyped

LEMMA WakeNext == WakeInv /\ [Next]_vars => WakeInv'
PROOF
  <1> SUFFICES ASSUME WakeInv, [Next]_vars PROVE WakeInv'
    OBVIOUS
  <1> USE SupervisorAssumption
      DEF WakeInv, QueuesOK, CountInv, NoLostWakeup, LookDue
  <1>1. CASE BoardSends
    BY <1>1 DEF BoardSends, appVars, driverVars, historyVars, Bytes
  <1>2. CASE BytesArrive
    <2> DEFINE taken == SubSeq(wire, 1, Burst)
    <2>1. taken \in Seq(Bytes) /\ taken # <<>> /\ wire' \in Seq(Bytes)
      BY <1>2, BurstTyped DEF BytesArrive
    <2>2. inq' = inq \o taken
      BY <1>2 DEF BytesArrive
    <2> HIDE DEF taken
    <2>3. inq' \in Seq(Bytes) /\ Len(inq') >= Len(inq) /\ inq' # <<>>
      BY <2>1, <2>2
    <2>4. CASE ~Listens
      <3>1. unannounced'
        BY <1>2, <2>4 DEF BytesArrive
      <3> QED
        BY <1>2, <2>1, <2>3, <3>1 DEF BytesArrive, appVars
    <2>5. CASE Listens
      <3>1. rxEvent'
        BY <1>2, <2>5 DEF BytesArrive
      <3> QED
        BY <1>2, <2>1, <2>3, <3>1 DEF BytesArrive, appVars
    <2> QED
      BY <2>4, <2>5
  <1>3. CASE BytesLost
    BY <1>3, BurstTyped DEF BytesLost, appVars, driverVars, historyVars
  <1>4. CASE BytesDamaged
    BY <1>4, BurstTyped DEF BytesDamaged, appVars
  <1>5. CASE ThreadStarts
    BY <1>5 DEF ThreadStarts, driverVars, historyVars
  <1>6. CASE ThreadWakes
    BY <1>6 DEF ThreadWakes, historyVars
  <1>7. CASE ThreadClearsError
    BY <1>7 DEF ThreadClearsError, historyVars
  <1>8. CASE ThreadNotifies
    <2>1. CASE inq # <<>> /\ hwnd
      <3>1. posted' > 0 /\ posted' \in Nat
        BY <1>8, <2>1 DEF ThreadNotifies
      <3> QED
        BY <1>8, <3>1 DEF ThreadNotifies
    <2>2. CASE inq = <<>>
      BY <1>8, <2>2 DEF ThreadNotifies
    <2>3. CASE inq # <<>> /\ ~hwnd
      <3>1. unannounced'
        BY <1>8, <2>3 DEF ThreadNotifies
      <3> QED
        BY <1>8, <2>3, <3>1 DEF ThreadNotifies
    <2> QED
      BY <2>1, <2>2, <2>3
  <1>9. CASE OpenPort
    BY <1>9 DEF OpenPort, PortClosed, Bytes
  <1>10. CASE OpenPortFails
    BY <1>10 DEF OpenPortFails, PortClosed, Bytes
  <1>11. CASE SetHwnd
    BY <1>11 DEF SetHwnd, driverVars, historyVars
  <1>12. CASE ReceiveMessage
    BY <1>12 DEF ReceiveMessage, historyVars
  <1>13. CASE Purge
    BY <1>13 DEF Purge, Bytes
  <1>14. CASE Read
    <2>1. inq' \in Seq(Bytes) /\ Len(inq') = Len(inq) - cbInQue
      BY <1>14, CutTyped DEF Read
    <2>2. CASE inq' = <<>>
      BY <1>14, <2>1, <2>2 DEF Read
    <2>3. CASE inq' # <<>>
      <3>1. Len(inq) > cbInQue
        BY <2>1, <2>3
      <3>2. LookDue \/ unannounced'
        BY <1>14, <2>3, <3>1 DEF Read
      <3> QED
        BY <1>14, <2>1, <3>2 DEF Read
    <2> QED
      BY <2>2, <2>3
  <1>15. CASE Write
    BY <1>15 DEF Write, appVars, historyVars
  <1>16. CASE ThreadEnds
    BY <1>16 DEF ThreadEnds, driverVars, historyVars
  <1>17. CASE OpenPortRefused
    BY <1>17 DEF OpenPortRefused, driverVars, historyVars
  <1>18. CASE UNCHANGED vars
    BY <1>18 DEF vars, appVars, driverVars, historyVars
  <1> QED
    BY <1>1, <1>2, <1>3, <1>4, <1>5, <1>6, <1>7, <1>8, <1>9, <1>10, <1>11,
       <1>12, <1>13, <1>14, <1>15, <1>16, <1>17, <1>18
       DEF Next, Environment, ComThread, UIThread

\* Bytes that wait in the driver's queue are due a look: the two threads of
\* com_class.h and SupervisorDlg.cpp lose no notification, but for bytes that
\* came before the port could announce them or that a full read left behind.
THEOREM NoLostWakeupCorrect == Spec => []NoLostWakeup
PROOF
  <1>1. WakeInv => NoLostWakeup
    BY DEF WakeInv
  <1> QED
    BY WakeInit, WakeNext, <1>1, PTL DEF Spec

-----------------------------------------------------------------------------
LEMMA FreshInit == Init => FreshInv
  BY DEF Init, FreshInv, NothingFromBefore

LEMMA FreshNext == FreshInv /\ WakeInv /\ [Next]_vars => FreshInv'
PROOF
  <1> SUFFICES ASSUME FreshInv, WakeInv, [Next]_vars PROVE FreshInv'
    OBVIOUS
  <1> USE DEF FreshInv, NothingFromBefore
  <1>1. CASE Environment
    BY <1>1 DEF Environment, BoardSends, BytesArrive, BytesLost, BytesDamaged,
                appVars, driverVars, historyVars
  <1>2. CASE ComThread
    BY <1>2 DEF ComThread, ThreadStarts, ThreadEnds, ThreadWakes, ThreadClearsError,
                ThreadNotifies, driverVars, historyVars
  <1>3. CASE OpenPort \/ OpenPortRefused \/ OpenPortFails
    BY <1>3 DEF OpenPort, OpenPortFails, OpenPortRefused, driverVars, historyVars
  <1>4. CASE SetHwnd \/ ReceiveMessage
    BY <1>4 DEF SetHwnd, ReceiveMessage, driverVars, historyVars
  <1>5. CASE Purge
    BY <1>5 DEF Purge
  <1>6. CASE Read
    BY <1>6 DEF Read
  <1>7. CASE Write
    BY <1>7 DEF Write, appVars, historyVars
  <1>8. CASE UNCHANGED vars
    BY <1>8 DEF vars, appVars, driverVars, historyVars
  <1> QED
    BY <1>1, <1>2, <1>3, <1>4, <1>5, <1>6, <1>7, <1>8 DEF Next, UIThread

\* After the port is opened (SupervisorDlg.cpp:272-299, com_class.h:317) no
\* label shows a value before a byte of the newly opened port was there to
\* read, whatever messages of the old port are still posted.
THEOREM NothingFromBeforeCorrect == Spec => []NothingFromBefore
PROOF
  <1>1. FreshInv => NothingFromBefore
    BY DEF FreshInv
  <1> QED
    BY WakeInit, WakeNext, FreshInit, FreshNext, <1>1, PTL DEF Spec

-----------------------------------------------------------------------------
\* Induction, said of sets: the library's theorems say it of operators.

Less == {ss \in Nat \X Nat : ss[1] < ss[2]}

LEMMA LessWellFounded == IsWellFoundedOn(Less, Nat)
  BY NatLessThanWellFounded DEF OpToRel, Less

\* A set of naturals has a least element.
LEMMA Least ==
  ASSUME NEW T, T \subseteq Nat, T # {}
  PROVE  \E m \in T : \A k \in T : m <= k
PROOF
  <1>1. \E m \in T : \A k \in T : ~(<<k, m>> \in Less)
    BY LessWellFounded, WFMin
  <1>2. PICK m \in T : \A k \in T : ~(<<k, m>> \in Less)
    BY <1>1
  <1>3. ASSUME NEW k \in T PROVE m <= k
    <2>1. m \in Nat /\ k \in Nat
      OBVIOUS
    <2>2. <<k, m>> \in Nat \X Nat /\ ~(k < m)
      BY <1>2, <2>1 DEF Less
    <2> QED
      BY <2>1, <2>2
  <1> QED
    BY <1>3

\* Induction over the naturals.
LEMMA Induction ==
  ASSUME NEW T, 0 \in T, \A n \in Nat : n \in T => n + 1 \in T
  PROVE  Nat \subseteq T
PROOF
  <1> DEFINE U == Nat \ T
  <1> SUFFICES ASSUME U # {} PROVE FALSE
    OBVIOUS
  <1>1. PICK m \in U : \A k \in U : m <= k
    <2>1. U \subseteq Nat
      OBVIOUS
    <2> HIDE DEF U
    <2> QED
      BY <2>1, Least
  <1>2. m \in Nat /\ m # 0 /\ m \notin T
    BY <1>1
  <1>3. m - 1 \in Nat /\ m - 1 \notin U
    BY <1>1, <1>2
  <1> QED
    BY <1>2, <1>3

\* The functions by which the dialog's loops are defined: one that goes from
\* each number to the next, and one that collects what is found along a chain of
\* places, each of which leads to a later one.
IsFold(f, n, base, g) ==
    f = [k \in 0 .. n |-> IF k = 0 THEN base ELSE g[<<k, f[k - 1]>>]]

IsChain(f, last, end, a, go, next) ==
    f = [i \in 0 .. last |->
            IF i >= end THEN <<>> ELSE a[i] \o IF go[i] THEN f[next[i]] ELSE <<>>]

\* The first exists.
LEMMA FoldExists ==
  ASSUME NEW Vals, NEW base \in Vals, NEW n \in Nat,
         NEW g, \A k \in 1 .. n : \A v \in Vals : g[<<k, v>>] \in Vals
  PROVE  \E f \in [0 .. n -> Vals] : IsFold(f, n, base, g)
PROOF
  <1> DEFINE Upto(m, f) ==
          \A k \in 0 .. m : f[k] = IF k = 0 THEN base ELSE g[<<k, f[k - 1]>>]
             T == {m \in Nat : m <= n => \E f \in [0 .. m -> Vals] : Upto(m, f)}
  <1>1. 0 \in T
    <2>1. [k \in 0 .. 0 |-> base] \in [0 .. 0 -> Vals]
      OBVIOUS
    <2>2. Upto(0, [k \in 0 .. 0 |-> base])
      OBVIOUS
    <2> QED
      BY <2>1, <2>2
  <1>2. ASSUME NEW m \in Nat, m \in T PROVE m + 1 \in T
    <2> SUFFICES ASSUME m + 1 <= n
                 PROVE  \E f \in [0 .. m + 1 -> Vals] : Upto(m + 1, f)
      OBVIOUS
    <2>1. PICK f \in [0 .. m -> Vals] : Upto(m, f)
      BY <1>2
    <2> DEFINE h == [k \in 0 .. m + 1 |-> IF k <= m THEN f[k] ELSE g[<<k, f[m]>>]]
    <2>2. f[m] \in Vals /\ m + 1 \in 1 .. n
      OBVIOUS
    <2>3. h \in [0 .. m + 1 -> Vals]
      <3>1. ASSUME NEW k \in 0 .. m + 1 PROVE h[k] \in Vals
        <4>1. CASE k <= m
          BY <4>1
        <4>2. CASE k = m + 1
          BY <2>2, <4>2
        <4> QED
          BY <4>1, <4>2
      <3> QED
        BY <3>1
    <2>4. ASSUME NEW k \in 0 .. m + 1
          PROVE  h[k] = IF k = 0 THEN base ELSE g[<<k, h[k - 1]>>]
      <3>1. CASE k <= m
        <4>1. h[k] = f[k] /\ (k # 0 => h[k - 1] = f[k - 1])
          BY <3>1
        <4>2. k \in 0 .. m
          BY <3>1
        <4>3. f[k] = IF k = 0 THEN base ELSE g[<<k, f[k - 1]>>]
          BY <2>1, <4>2
        <4> HIDE DEF h
        <4> QED
          BY <4>1, <4>3
      <3>2. CASE k = m + 1
        <4>1. h[k] = g[<<k, f[m]>>] /\ h[k - 1] = f[m] /\ k # 0
          BY <3>2
        <4> QED
          BY <4>1
      <3> QED
        BY <3>1, <3>2
    <2> HIDE DEF h
    <2> QED
      BY <2>3, <2>4
  <1>3. Nat \subseteq T
    <2> HIDE DEF T
    <2> QED
      BY <1>1, <1>2, Induction
  <1>4. PICK f \in [0 .. n -> Vals] : Upto(n, f)
    BY <1>3
  <1>5. IsFold(f, n, base, g)
    BY <1>4 DEF IsFold
  <1> QED
    BY <1>5

\* And so does the second.
LEMMA ChainExists ==
  ASSUME NEW Vals, NEW L \in Nat, NEW M \in Nat, L <= M,
         NEW a, \A i \in 0 .. L - 1 : a[i] \in Seq(Vals),
         NEW go, NEW next, \A i \in 0 .. L - 1 : next[i] \in i + 1 .. M
  PROVE  \E f \in [0 .. M -> Seq(Vals)] : IsChain(f, M, L, a, go, next)
PROOF
  <1> DEFINE Value(f, i) ==
                 IF i >= L THEN <<>> ELSE a[i] \o IF go[i] THEN f[next[i]] ELSE <<>>
             From(m, f) == \A i \in L - m .. M : i >= 0 => f[i] = Value(f, i)
             T == {m \in Nat : m <= L => \E f \in [0 .. M -> Seq(Vals)] : From(m, f)}
  <1>1. 0 \in T
    <2> DEFINE h == [i \in 0 .. M |-> <<>>]
    <2>1. h \in [0 .. M -> Seq(Vals)]
      OBVIOUS
    <2>2. From(0, h)
      OBVIOUS
    <2> QED
      BY <2>1, <2>2
  <1>2. ASSUME NEW m \in Nat, m \in T PROVE m + 1 \in T
    <2> SUFFICES ASSUME m + 1 <= L
                 PROVE  \E f \in [0 .. M -> Seq(Vals)] : From(m + 1, f)
      OBVIOUS
    <2>1. PICK f \in [0 .. M -> Seq(Vals)] : From(m, f)
      BY <1>2
    <2> DEFINE j == L - (m + 1)
               h == [f EXCEPT ![j] = Value(f, j)]
    <2>2. j \in 0 .. L - 1 /\ next[j] \in j + 1 .. M
      OBVIOUS
    <2>3. Value(f, j) \in Seq(Vals)
      <3>1. f[next[j]] \in Seq(Vals)
        BY <2>2
      <3>2. (IF go[j] THEN f[next[j]] ELSE <<>>) \in Seq(Vals)
        BY <3>1
      <3>3. a[j] \in Seq(Vals)
        BY <2>2
      <3>4. ~(j >= L)
        BY <2>2
      <3> HIDE DEF j
      <3> QED
        BY <3>2, <3>3, <3>4
    <2>4. h \in [0 .. M -> Seq(Vals)]
      BY <2>3
    <2>5. ASSUME NEW i \in L - (m + 1) .. M PROVE h[i] = Value(h, i)
      <3>1. CASE i = j
        <4>1. h[next[j]] = f[next[j]]
          BY <2>2
        <4>2. h[j] = Value(f, j)
          BY <2>2
        <4> HIDE DEF h, j
        <4> QED
          BY <3>1, <4>1, <4>2
      <3>2. CASE i # j
        <4>1. i \in L - m .. M /\ i >= 0 /\ i > j
          BY <2>2, <3>2
        <4>2. h[i] = f[i]
          <5> HIDE DEF Value
          <5> QED
            BY <3>2, <4>1
        <4>3. f[i] = Value(f, i)
          BY <2>1, <4>1
        <4>4. ~(i >= L) => h[next[i]] = f[next[i]]
          BY <2>2, <4>1
        <4> HIDE DEF h, j
        <4> QED
          BY <4>2, <4>3, <4>4
      <3> QED
        BY <3>1, <3>2
    <2> HIDE DEF h
    <2> QED
      BY <2>4, <2>5
  <1>3. L \in T
    <2>1. Nat \subseteq T
      <3> HIDE DEF T
      <3> QED
        BY <1>1, <1>2, Induction
    <2> QED
      BY <2>1
  <1>4. PICK f \in [0 .. M -> Seq(Vals)] : From(L, f)
    BY <1>3
  <1>5. ASSUME NEW i \in 0 .. M PROVE f[i] = Value(f, i)
    <2>1. i \in L - L .. M /\ i >= 0
      OBVIOUS
    <2> HIDE DEF Value
    <2> QED
      BY <1>4, <2>1
  <1>6. f = [i \in 0 .. M |-> Value(f, i)]
    <2> HIDE DEF Value
    <2> QED
      BY <1>5
  <1> QED
    BY <1>6 DEF IsChain

\* It too keeps to the set it stays in.
LEMMA ChainTyped ==
  ASSUME NEW Vals, NEW L \in Nat, NEW M \in Nat, L <= M,
         NEW a, \A i \in 0 .. L - 1 : a[i] \in Seq(Vals),
         NEW go, NEW next, \A i \in 0 .. L - 1 : next[i] \in i + 1 .. M,
         NEW f, IsChain(f, M, L, a, go, next)
  PROVE  \A i \in 0 .. M : f[i] \in Seq(Vals)
PROOF
  <1> DEFINE From(m) == \A i \in 0 .. M : i >= L - m => f[i] \in Seq(Vals)
             T == {m \in Nat : m <= L => From(m)}
  <1>1. \A i \in 0 .. M : f[i] =
            IF i >= L THEN <<>> ELSE a[i] \o IF go[i] THEN f[next[i]] ELSE <<>>
    BY DEF IsChain
  <1>2. 0 \in T
    <2>1. ASSUME NEW i \in 0 .. M, i >= L PROVE f[i] \in Seq(Vals)
      <3>1. f[i] = <<>>
        BY <1>1, <2>1
      <3> QED
        BY <3>1
    <2> QED
      BY <2>1
  <1>3. ASSUME NEW m \in Nat, m \in T PROVE m + 1 \in T
    <2> SUFFICES ASSUME m + 1 <= L, NEW i \in 0 .. M, i >= L - (m + 1)
                 PROVE  f[i] \in Seq(Vals)
      OBVIOUS
    <2>1. From(m)
      BY <1>3
    <2>2. CASE i >= L - m
      BY <2>1, <2>2
    <2>3. CASE ~(i >= L - m)
      <3>1. i \in 0 .. L - 1 /\ ~(i >= L)
        BY <2>3
      <3>2. next[i] \in 0 .. M /\ next[i] >= L - m
        <4>1. next[i] \in i + 1 .. M
          BY <3>1
        <4> QED
          BY <4>1
      <3>3. f[next[i]] \in Seq(Vals) /\ a[i] \in Seq(Vals)
        BY <2>1, <3>1, <3>2
      <3>4. f[i] = a[i] \o IF go[i] THEN f[next[i]] ELSE <<>>
        BY <1>1, <3>1
      <3>5. (IF go[i] THEN f[next[i]] ELSE <<>>) \in Seq(Vals)
        BY <3>3
      <3> QED
        BY ONLY <3>3, <3>4, <3>5
    <2> QED
      BY <2>2, <2>3
  <1>4. From(L)
    <2> HIDE DEF From
    <2>1. L \in T
      <3> HIDE DEF T
      <3>1. Nat \subseteq T
        BY <1>2, <1>3, Induction
      <3> QED
        BY <3>1
    <2> QED
      BY <2>1
  <1>5. \A i \in 0 .. M : i >= L - L
    OBVIOUS
  <1> QED
    BY <1>4, <1>5

-----------------------------------------------------------------------------
\* The operators of a read have the types they should.

Buffers == [0 .. 5 -> Bytes]
LabelTexts == [LabelNames -> Seq(Bytes)]

LEMMA AtTyped ==
  ASSUME NEW chunk \in Seq(Bytes), NEW i \in Nat
  PROVE  At(chunk, i) \in Bytes
PROOF
  <1>1. CASE i < Len(chunk)
    <2>1. i + 1 \in 1 .. Len(chunk)
      BY <1>1
    <2>2. chunk[i + 1] \in Bytes
      BY <2>1
    <2> QED
      BY <1>1, <2>2 DEF At
  <1>2. CASE ~(i < Len(chunk))
    BY <1>2 DEF At, Bytes
  <1> QED
    BY <1>1, <1>2

LEMMA MessageTyped ==
  ASSUME NEW chunk \in Seq(Bytes), NEW i \in Nat
  PROVE  Message(chunk, i) \in Buffers
PROOF
  <1> DEFINE size == (At(chunk, i + 1) + 2) % 256
  <1>1. ASSUME NEW k \in 0 .. 5
        PROVE  At(chunk, i + k) \in Bytes /\ 0 \in Bytes
    <2>1. i + k \in Nat
      OBVIOUS
    <2>2. 0 \in Bytes
      BY DEF Bytes
    <2> QED
      BY <2>1, <2>2, AtTyped
  <1>2. Message(chunk, i) = [k \in 0 .. 5 |-> IF k < size THEN At(chunk, i + k) ELSE 0]
    BY DEF Message
  <1> HIDE DEF size
  <1> QED
    BY <1>1, <1>2 DEF Buffers

\* The messages of a chunk: the one at its start, and those behind its mark.
LEMMA MessagesTyped ==
  ASSUME NEW chunk \in Seq(Bytes)
  PROVE  /\ Messages(chunk) \in Seq(Buffers)
         /\ chunk = <<>> => Messages(chunk) = <<>>
         /\ chunk # <<>> /\ ~MarkAt(chunk, 0) => Messages(chunk) = <<Message(chunk, 0)>>
PROOF
  <1> DEFINE L == Len(chunk)
             M == Len(chunk) + 260
             Equation(f) == f = [i \in 0 .. M |->
                 IF i >= Len(chunk) THEN <<>>
                 ELSE <<Message(chunk, i)>>
                      \o IF MarkAt(chunk, i) THEN f[i + At(chunk, i + 1) + 4] ELSE <<>>]
             from == CHOOSE f : Equation(f)
             a == [i \in 0 .. M |-> <<Message(chunk, i)>>]
             go == [i \in 0 .. M |-> MarkAt(chunk, i)]
             next == [i \in 0 .. M |-> i + At(chunk, i + 1) + 4]
  <1>1. ASSUME NEW i \in 0 .. L - 1 PROVE a[i] \in Seq(Buffers)
    <2>1. i \in 0 .. M /\ i \in Nat
      OBVIOUS
    <2>2. Message(chunk, i) \in Buffers
      BY <2>1, MessageTyped
    <2>3. a[i] = <<Message(chunk, i)>>
      BY <2>1
    <2> QED
      BY ONLY <2>2, <2>3
  <1>2. ASSUME NEW i \in 0 .. L - 1 PROVE next[i] \in i + 1 .. M
    <2> DEFINE b == At(chunk, i + 1)
    <2>1. b \in 0 .. 255
      <3>1. i + 1 \in Nat
        OBVIOUS
      <3> QED
        BY <3>1, AtTyped DEF Bytes
    <2>2. next[i] = i + b + 4
      OBVIOUS
    <2>3. i \in 0 .. L - 1 /\ L \in Nat /\ M = L + 260
      OBVIOUS
    <2> HIDE DEF b, next, L, M
    <2>4. i + b + 4 \in i + 1 .. M
      BY <2>1, <2>3
    <2> QED
      BY <2>2, <2>4
  <1>3. L \in Nat /\ M \in Nat /\ L <= M
    OBVIOUS
  <1>4. \E f : IsChain(f, M, L, a, go, next)
    <2> HIDE DEF a, go, next, L, M
    <2> QED
      BY <1>1, <1>2, <1>3, ChainExists
  <1>5. ASSUME NEW f PROVE IsChain(f, M, L, a, go, next) <=> Equation(f)
    BY DEF IsChain
  <1>6. IsChain(from, M, L, a, go, next)
    <2> HIDE DEF a, go, next, Equation
    <2> QED
      BY <1>4, <1>5
  <1>7. \A i \in 0 .. M : from[i] \in Seq(Buffers)
    <2> HIDE DEF a, go, next, L, M, from
    <2> QED
      BY <1>1, <1>2, <1>3, <1>6, ChainTyped
  <1>8. Messages(chunk) = from[0]
    BY DEF Messages
  <1>9. from[0] = IF 0 >= L THEN <<>> ELSE a[0] \o IF go[0] THEN from[next[0]] ELSE <<>>
    <2> HIDE DEF a, go, next, L, M, from
    <2> QED
      BY <1>3, <1>6 DEF IsChain
  <1>10. a[0] = <<Message(chunk, 0)>> /\ go[0] = MarkAt(chunk, 0)
    <2>1. 0 \in 0 .. M
      BY <1>3
    <2> HIDE DEF M
    <2> QED
      BY <2>1
  <1>11. chunk = <<>> <=> L = 0
    OBVIOUS
  <1>12. Messages(chunk) \in Seq(Buffers)
    <2>1. 0 \in 0 .. M
      BY <1>3
    <2> HIDE DEF M, from
    <2> QED
      BY <1>7, <1>8, <2>1
  <1> HIDE DEF a, go, next, L, M, from
  <1>13. 0 >= L <=> L = 0
    BY <1>3
  <1>14. <<Message(chunk, 0)>> \o <<>> = <<Message(chunk, 0)>>
    OBVIOUS
  <1> QED
    BY <1>8, <1>9, <1>10, <1>11, <1>12, <1>13, <1>14

\* One message changes the labels of its command, to texts.
LEMMA ShowTyped ==
  ASSUME NEW shown \in LabelTexts, NEW b \in Buffers
  PROVE  Show(shown, b) \in LabelTexts
PROOF
  <1>1. \A k \in 0 .. 5 : b[k] \in Bytes
    BY DEF Buffers
  <1>2. ASSUME NEW v PROVE OnOff(v) \in Seq(Bytes)
    <2>1. 0 \in Bytes /\ 1 \in Bytes
      BY DEF Bytes
    <2>2. <<0>> \in Seq(Bytes) /\ <<1>> \in Seq(Bytes)
      BY <2>1
    <2> QED
      BY <2>2 DEF OnOff
  <1>3. \A l \in LabelNames : shown[l] \in Seq(Bytes)
    BY DEF LabelTexts
  <1> USE DEF CMD_PIR, CMD_ULTRASONIC_RANGE, CMD_RELAY_1, CMD_RELAY_2, CMD_DHT
  <1>4. CASE b[0] = 1
    <2>1. Show(shown, b) = [shown EXCEPT !["PIR"] = OnOff(b[2])]
      BY <1>4 DEF Show
    <2> QED
      BY <1>2, <2>1 DEF LabelTexts
  <1>5. CASE b[0] = 3
    <2>1. Show(shown, b) = [shown EXCEPT !["Locker"] = OnOff(b[2])]
      BY <1>5 DEF Show
    <2> QED
      BY <1>2, <2>1 DEF LabelTexts
  <1>6. CASE b[0] = 4
    <2>1. Show(shown, b) = [shown EXCEPT !["Fan"] = OnOff(b[2])]
      BY <1>6 DEF Show
    <2> QED
      BY <1>2, <2>1 DEF LabelTexts
  <1>7. CASE b[0] = 2
    <2>1. Show(shown, b) =
              IF PositiveFloat(b)
              THEN [shown EXCEPT !["Distance"] = <<b[2], b[3], b[4], b[5]>>]
              ELSE shown
      BY <1>7 DEF Show
    <2>2. <<b[2], b[3], b[4], b[5]>> \in Seq(Bytes)
      BY <1>1
    <2> QED
      BY <2>1, <2>2 DEF LabelTexts
  <1>8. CASE b[0] = 5
    <2>1. Show(shown, b) =
              [shown EXCEPT
                  !["Humid"] = IF b[2] # 0 THEN <<b[2], b[3]>> ELSE @,
                  !["Temperature"] = IF b[4] # 0 THEN <<b[4], b[5]>> ELSE @]
      BY <1>8 DEF Show
    <2>2. <<b[2], b[3]>> \in Seq(Bytes) /\ <<b[4], b[5]>> \in Seq(Bytes)
      BY <1>1
    <2> QED
      BY <1>3, <2>1, <2>2 DEF LabelTexts, LabelNames
  <1>9. CASE b[0] \notin 1 .. 5
    <2>1. Show(shown, b) = shown
      BY <1>9 DEF Show
    <2> QED
      BY <2>1
  <1>10. b[0] \in 1 .. 5 => b[0] \in {1, 2, 3, 4, 5}
    BY SMT
  <1> QED
    BY <1>4, <1>5, <1>6, <1>7, <1>8, <1>9, <1>10

\* What ProcessMsg's buffer holds after a message.
LEMMA OverlayTyped ==
  ASSUME NEW old \in Buffers, NEW b \in Buffers, NEW size
  PROVE  Overlay(old, b, size) \in Buffers
  BY DEF Overlay, Buffers

Zeros == [k \in 0 .. 5 |-> 0]

\* Showing messages keeps the types, and one message is shown by itself.
LEMMA ShowAllTyped ==
  ASSUME NEW shown \in LabelTexts, NEW messages \in Seq(Buffers)
  PROVE  /\ ShowAll(shown, messages) \in LabelTexts
         /\ messages = <<>> => ShowAll(shown, messages) = shown
         /\ Len(messages) = 1 =>
                ShowAll(shown, messages) =
                    Show(shown, Overlay(Zeros, messages[1], (messages[1][1] + 2) % 256))
PROOF
  <1> DEFINE n == Len(messages)
             Vals == [buf : Buffers, shown : LabelTexts]
             base == [buf |-> Zeros, shown |-> shown]
             Step(k, v) ==
                 LET b == messages[k]
                     buf == Overlay(v.buf, b, (b[1] + 2) % 256)
                 IN  [buf |-> buf, shown |-> Show(v.shown, buf)]
             Equation(f) == f = [k \in 0 .. n |-> IF k = 0 THEN base ELSE Step(k, f[k - 1])]
             after == CHOOSE f : Equation(f)
  <1>1. base \in Vals
    BY DEF Zeros, Buffers, Bytes
  <1>2. ASSUME NEW k \in 1 .. n, NEW v \in Vals PROVE Step(k, v) \in Vals
    <2>1. messages[k] \in Buffers
      OBVIOUS
    <2>2. v.buf \in Buffers /\ v.shown \in LabelTexts
      OBVIOUS
    <2>3. Overlay(v.buf, messages[k], (messages[k][1] + 2) % 256) \in Buffers
      BY <2>1, <2>2, OverlayTyped
    <2> QED
      BY <2>2, <2>3, ShowTyped
  <1> DEFINE g == [x \in (1 .. n) \X Vals |-> Step(x[1], x[2])]
  <1>3. ASSUME NEW k \in 1 .. n, NEW v \in Vals PROVE g[<<k, v>>] = Step(k, v)
    <2> HIDE DEF Step, Vals
    <2> QED
      OBVIOUS
  <1>4. \A k \in 1 .. n : \A v \in Vals : g[<<k, v>>] \in Vals
    <2> HIDE DEF Step, Vals, g
    <2> QED
      BY <1>2, <1>3
  <1>5. n \in Nat
    OBVIOUS
  <1>6. PICK h \in [0 .. n -> Vals] : IsFold(h, n, base, g)
    <2> HIDE DEF g, Vals, base, n
    <2> QED
      BY <1>1, <1>4, <1>5, FoldExists
  <1>7. Equation(h)
    <2>1. ASSUME NEW k \in 0 .. n, k # 0 PROVE g[<<k, h[k - 1]>>] = Step(k, h[k - 1])
      <3>1. k \in 1 .. n /\ k - 1 \in 0 .. n
        BY <1>5, <2>1
      <3> HIDE DEF g, Vals, Step, n
      <3>2. h[k - 1] \in Vals
        BY <3>1
      <3> QED
        BY <1>3, <3>1, <3>2
    <2> HIDE DEF g, Step, Vals, base, n
    <2> QED
      BY <1>6, <2>1 DEF IsFold
  <1>8. Equation(after)
    <2> HIDE DEF Step, Vals, base, n
    <2> QED
      BY <1>7
  <1>9. \A k \in 0 .. n : after[k] \in Vals
    <2> DEFINE T == {k \in Nat : k <= n => after[k] \in Vals}
    <2>1. 0 \in T
      <3> HIDE DEF Step, Vals, base, n, after
      <3> QED
        BY <1>1, <1>5, <1>8
    <2>2. ASSUME NEW k \in Nat, k \in T PROVE k + 1 \in T
      <3> SUFFICES ASSUME k + 1 <= n PROVE after[k + 1] \in Vals
        OBVIOUS
      <3>1. after[k] \in Vals /\ k + 1 \in 1 .. n /\ k + 1 \in 0 .. n
        <4> HIDE DEF Vals, n, after
        <4> QED
          BY <1>5, <2>2
      <3>2. after[k + 1] = Step(k + 1, after[k])
        <4>1. k + 1 # 0 /\ (k + 1) - 1 = k
          OBVIOUS
        <4> HIDE DEF Step, Vals, base, n, after
        <4> QED
          BY <1>8, <3>1, <4>1
      <3> HIDE DEF Step, Vals, n, after
      <3> QED
        BY <1>2, <3>1, <3>2
    <2>3. Nat \subseteq T
      <3> HIDE DEF T
      <3> QED
        BY <2>1, <2>2, Induction
    <2> HIDE DEF Vals, n, after
    <2> QED
      BY <1>5, <2>3
  <1>10. ShowAll(shown, messages) = after[n].shown
    BY DEF ShowAll, Zeros
  <1>11. after[0] = base /\ (n = 1 => after[n] = Step(1, after[0]))
    <2> HIDE DEF Step, Vals, base, n, after
    <2> QED
      BY <1>5, <1>8
  <1>12. after[n].shown \in LabelTexts
    <2> HIDE DEF n, after
    <2> QED
      BY <1>5, <1>9
  <1>13. messages = <<>> <=> n = 0
    OBVIOUS
  <1>14. n = 1 => after[n].shown =
             Show(shown, Overlay(Zeros, messages[1], (messages[1][1] + 2) % 256))
    <2> HIDE DEF n, after
    <2> QED
      BY <1>11
  <1> HIDE DEF after, Step, Vals
  <1> QED
    BY <1>10, <1>11, <1>12, <1>13, <1>14

-----------------------------------------------------------------------------
\* What one read leaves of the labels.
LEMMA ReadTyped ==
  ASSUME NEW shown \in LabelTexts, NEW queue \in Seq(Bytes), NEW k \in 0 .. Len(queue)
  PROVE  ShowAll(shown, Messages(SubSeq(queue, 1, k))) \in LabelTexts
PROOF
  <1>1. SubSeq(queue, 1, k) \in Seq(Bytes)
    BY CutTyped
  <1>2. Messages(SubSeq(queue, 1, k)) \in Seq(Buffers)
    BY <1>1, MessagesTyped
  <1> QED
    BY <1>2, ShowAllTyped

\* TypeOK in parts.
Flags ==
    /\ opened \in BOOLEAN /\ hwnd \in BOOLEAN /\ rxEvent \in BOOLEAN
    /\ errEvent \in BOOLEAN /\ lineError \in BOOLEAN
    /\ unannounced \in BOOLEAN /\ fresh \in BOOLEAN /\ tainted \in BOOLEAN

Controls ==
    /\ thread \in {"none", "start", "wait", "err", "errRx", "rx", "ended"}
    /\ ui \in {"idle", "setHwnd", "purge", "read"}
    /\ posted \in 0 .. MaxPosted
    /\ cbInQue \in 0 .. ReadMax
    /\ opened <=> thread # "none"

Contents ==
    /\ labels \in LabelTexts
    /\ wire \in Seq(Bytes)
    /\ inq \in Seq(Bytes) /\ Len(inq) <= MaxQueue

LEMMA TypeParts == Flags /\ Controls /\ Contents <=> TypeOK
PROOF
  <1>1. Flags <=> /\ {opened, hwnd, rxEvent, errEvent, lineError} \subseteq BOOLEAN
                  /\ {unannounced, fresh, tainted} \subseteq BOOLEAN
    BY Zenon DEF Flags
  <1>2. Contents <=> /\ labels \in [LabelNames -> Seq(0 .. 255)]
                     /\ wire \in Seq(0 .. 255)
                     /\ inq \in Seq(0 .. 255) /\ Len(inq) <= MaxQueue
    BY Zenon DEF Contents, LabelTexts, Bytes
  <1> QED
    BY <1>1, <1>2, Zenon DEF TypeOK, Controls

LEMMA TypeInit == Init => TypeOK
PROOF
  <1> SUFFICES ASSUME Init PROVE Flags /\ Controls /\ Contents
    BY TypeParts
  <1>1. Flags
    BY DEF Init, Flags
  <1>2. Controls
    BY SupervisorAssumption DEF Init, Controls
  <1>3. Contents
    <2>1. NoLabels \in LabelTexts
      BY DEF NoLabels, Blank, LabelTexts
    <2>2. <<>> \in Seq(Bytes) /\ Len(<<>>) <= MaxQueue
      BY SupervisorAssumption
    <2> QED
      BY <2>1, <2>2 DEF Init, Contents
  <1> QED
    BY <1>1, <1>2, <1>3

LEMMA FlagsNext == Flags /\ [Next]_vars => Flags'
  BY DEF Flags, Next, Environment, ComThread, UIThread, vars, appVars, driverVars,
         historyVars, BoardSends, BytesArrive, BytesLost, BytesDamaged,
         ThreadStarts, ThreadEnds, ThreadWakes, ThreadClearsError, ThreadNotifies,
         OpenPort, OpenPortRefused, OpenPortFails, SetHwnd, ReceiveMessage, Purge,
         Read, Write, Listens

LEMMA ControlsNext == Controls /\ Contents /\ [Next]_vars => Controls'
PROOF
  <1> SUFFICES ASSUME Controls, Contents, [Next]_vars PROVE Controls'
    OBVIOUS
  <1> USE SupervisorAssumption DEF Controls
  <1>1. CASE Environment
    <2>1. UNCHANGED appVars
      BY <1>1 DEF Environment, BoardSends, BytesArrive, BytesLost, BytesDamaged
    <2> QED
      BY <2>1 DEF appVars
  <1>2. CASE ComThread
    BY <1>2 DEF ComThread, ThreadStarts, ThreadEnds, ThreadWakes, ThreadClearsError,
                ThreadNotifies
  <1>3. CASE OpenPort \/ OpenPortRefused \/ OpenPortFails
    BY <1>3 DEF OpenPort, OpenPortRefused, OpenPortFails, PortClosed
  <1>4. CASE SetHwnd
    BY <1>4 DEF SetHwnd
  <1>5. CASE ReceiveMessage
    <2>1. Len(inq) \in Nat
      BY DEF Contents
    <2> QED
      BY <1>5, <2>1 DEF ReceiveMessage
  <1>6. CASE Purge \/ Read
    BY <1>6 DEF Purge, Read
  <1>7. CASE Write
    BY <1>7 DEF Write, appVars
  <1>8. CASE UNCHANGED vars
    BY <1>8 DEF vars, appVars
  <1> QED
    BY <1>1, <1>2, <1>3, <1>4, <1>5, <1>6, <1>7, <1>8 DEF Next, UIThread

LEMMA ContentsNext == Contents /\ WakeInv /\ [Next]_vars => Contents'
PROOF
  <1> SUFFICES ASSUME Contents, WakeInv, [Next]_vars PROVE Contents'
    OBVIOUS
  <1> USE DEF Contents
  <1>1. CASE BoardSends
    BY <1>1, SupervisorAssumption DEF BoardSends, appVars, driverVars, Bytes
  <1>2. CASE BytesArrive
    <2> DEFINE taken == SubSeq(wire, 1, Burst)
    <2>1. taken \in Seq(Bytes) /\ wire' \in Seq(Bytes)
      BY <1>2, BurstTyped DEF BytesArrive
    <2>2. Len(taken) = Burst /\ Burst \in Nat
      <3>1. Burst \in 1 .. Len(wire)
        BY <1>2 DEF BytesArrive, Burst
      <3>2. \A i \in 1 .. Burst : wire[i] \in Bytes
        BY <3>1
      <3> QED
        BY <3>1, <3>2, SubSeqProperties
    <2>3. inq' = inq \o taken /\ Len(inq) + Burst <= MaxQueue /\ labels' = labels
      BY <1>2 DEF BytesArrive, appVars
    <2> HIDE DEF taken
    <2>4. inq' \in Seq(Bytes) /\ Len(inq') = Len(inq) + Len(taken)
      BY <2>1, <2>3, ConcatProperties
    <2>5. Len(inq') <= MaxQueue
      BY <2>2, <2>3, <2>4
    <2> QED
      BY <2>1, <2>3, <2>4, <2>5
  <1>3. CASE BytesLost \/ BytesDamaged
    <2>1. wire' \in Seq(Bytes)
      BY <1>3, BurstTyped DEF BytesLost, BytesDamaged
    <2> QED
      BY <1>3, <2>1 DEF BytesLost, BytesDamaged, appVars, driverVars
  <1>4. CASE ComThread
    BY <1>4 DEF ComThread, ThreadStarts, ThreadEnds, ThreadWakes, ThreadClearsError,
                ThreadNotifies, driverVars
  <1>5. CASE OpenPort \/ OpenPortRefused \/ OpenPortFails
    <2>1. NoLabels \in LabelTexts
      BY DEF NoLabels, Blank, LabelTexts
    <2>2. <<>> \in Seq(Bytes) /\ Len(<<>>) <= MaxQueue
      BY SupervisorAssumption
    <2> QED
      BY <1>5, <2>1, <2>2 DEF OpenPort, OpenPortRefused, OpenPortFails, driverVars
  <1>6. CASE SetHwnd \/ ReceiveMessage
    BY <1>6 DEF SetHwnd, ReceiveMessage, driverVars
  <1>7. CASE Purge
    <2>1. <<>> \in Seq(Bytes) /\ Len(<<>>) <= MaxQueue
      BY SupervisorAssumption
    <2> QED
      BY <1>7, <2>1 DEF Purge
  <1>8. CASE Read
    <2>1. cbInQue \in 0 .. Len(inq)
      BY <1>8 DEF Read, WakeInv, CountInv, QueuesOK
    <2>2. labels' \in LabelTexts
      BY <1>8, <2>1, ReadTyped DEF Read
    <2>3. inq' \in Seq(Bytes) /\ Len(inq') = Len(inq) - cbInQue
      BY <1>8, <2>1, CutTyped DEF Read
    <2>4. Len(inq') <= MaxQueue
      BY <2>1, <2>3, SupervisorAssumption
    <2> QED
      BY <1>8, <2>2, <2>3, <2>4 DEF Read
  <1>9. CASE Write
    BY <1>9 DEF Write, appVars
  <1>10. CASE UNCHANGED vars
    BY <1>10 DEF vars, appVars, driverVars
  <1> QED
    BY <1>1, <1>2, <1>3, <1>4, <1>5, <1>6, <1>7, <1>8, <1>9, <1>10
       DEF Next, Environment, UIThread

LEMMA TypeNext == TypeOK /\ WakeInv /\ [Next]_vars => TypeOK'
PROOF
  <1> SUFFICES ASSUME TypeOK, WakeInv, [Next]_vars PROVE TypeOK'
    OBVIOUS
  <1>1. Flags /\ Controls /\ Contents
    BY TypeParts
  <1>2. Flags' /\ Controls' /\ Contents'
    BY <1>1, FlagsNext, ControlsNext, ContentsNext
  <1>3. (Flags /\ Controls /\ Contents <=> TypeOK)'
    BY TypeParts, PTL
  <1> QED
    BY <1>2, <1>3

\* Every variable keeps its type: com_thread's place and the open port agree
\* though a port is closed and opened under it (com_class.h:509-526), and the
\* labels are texts whatever a read returns (SupervisorDlg.cpp:301-420).
THEOREM TypeCorrect == Spec => []TypeOK
  BY WakeInit, WakeNext, TypeInit, TypeNext, PTL DEF Spec

-----------------------------------------------------------------------------
\* A queue of whole frames.

\* The second byte of a frame counts what follows it, and is no part of a mark:
\* so it is of the frames of SerialComm.c:77-139.
Framed(f) == f \in Seq(Bytes) /\ Len(f) >= 2 /\ Len(f) = f[2] + 2 /\ f[2] < 254

\* The queue q is the frames fs, which end at the places p.
Cuts(q, fs, p) ==
    /\ q \in Seq(Bytes)
    /\ fs \in Seq(BoardFrames)
    /\ \A n \in 0 .. Len(fs) : p[n] \in 0 .. Len(q)
    /\ p[0] = 0 /\ p[Len(fs)] = Len(q)
    /\ \A m, n \in 0 .. Len(fs) : m <= n => p[m] <= p[n]
    /\ \A n \in 1 .. Len(fs) :
           /\ p[n] = p[n - 1] + Len(fs[n])
           /\ \A j \in 1 .. Len(fs[n]) : q[p[n - 1] + j] = fs[n][j]

\* The frames of a queue are found one after the other.
LEMMA FramesInChain ==
  ASSUME NEW q \in Seq(Bytes)
  PROVE  \E from :
            /\ FramesIn(q) = from[0]
            /\ \A i \in 0 .. Len(q) :
                  from[i] = IF i = Len(q) THEN <<>>
                            ELSE <<SubSeq(q, i + 1, i + At(q, i + 1) + 2)>>
                                 \o from[i + At(q, i + 1) + 2]
PROOF
  <1> DEFINE L == Len(q)
             M == Len(q) + 256
             Part(i) == SubSeq(q, i + 1, i + At(q, i + 1) + 2)
             Equation(f) == f = [i \in 0 .. M |->
                 IF i >= Len(q) THEN <<>>
                 ELSE <<Part(i)>> \o f[i + At(q, i + 1) + 2]]
             from == CHOOSE f : Equation(f)
             Vals == {Part(i) : i \in 0 .. M}
             a == [i \in 0 .. M |-> <<Part(i)>>]
             go == [i \in 0 .. M |-> TRUE]
             next == [i \in 0 .. M |-> i + At(q, i + 1) + 2]
  <1>1. ASSUME NEW i \in 0 .. L - 1 PROVE a[i] \in Seq(Vals)
    <2>1. i \in 0 .. M
      OBVIOUS
    <2> HIDE DEF Part
    <2>2. Part(i) \in Vals /\ a[i] = <<Part(i)>>
      BY <2>1
    <2> HIDE DEF Vals, a
    <2> QED
      BY <2>2
  <1>2. ASSUME NEW i \in 0 .. L - 1 PROVE next[i] \in i + 1 .. M
    <2> DEFINE b == At(q, i + 1)
    <2>1. b \in 0 .. 255
      <3>1. i + 1 \in Nat
        OBVIOUS
      <3> QED
        BY <3>1, AtTyped DEF Bytes
    <2>2. next[i] = i + b + 2
      OBVIOUS
    <2>3. i \in 0 .. L - 1 /\ L \in Nat /\ M = L + 256
      OBVIOUS
    <2> HIDE DEF b, next, L, M
    <2>4. i + b + 2 \in i + 1 .. M
      BY <2>1, <2>3
    <2> QED
      BY <2>2, <2>4
  <1>3. L \in Nat /\ M \in Nat /\ L <= M
    OBVIOUS
  <1>4. \E f : IsChain(f, M, L, a, go, next)
    <2> HIDE DEF a, go, next, L, M, Vals
    <2> QED
      BY <1>1, <1>2, <1>3, ChainExists
  <1>5. ASSUME NEW f PROVE IsChain(f, M, L, a, go, next) <=> Equation(f)
    <2> HIDE DEF Part
    <2> QED
      BY DEF IsChain
  <1>6. Equation(from)
    <2> HIDE DEF a, go, next, Equation
    <2> QED
      BY <1>4, <1>5
  <1>7. FramesIn(q) = from[0]
    BY DEF FramesIn
  <1>8. ASSUME NEW i \in 0 .. L
        PROVE  from[i] = IF i = L THEN <<>>
                         ELSE <<Part(i)>> \o from[i + At(q, i + 1) + 2]
    <2>1. i \in 0 .. M /\ (i >= L <=> i = L)
      BY <1>3
    <2> HIDE DEF from, Part, M
    <2> QED
      BY <1>6, <2>1
  <1> HIDE DEF from
  <1> QED
    BY <1>7, <1>8
\* What remains of a sequence, with and without its first element.
LEMMA HeadOfRest ==
  ASSUME NEW S, NEW s \in Seq(S), NEW n \in 1 .. Len(s)
  PROVE  <<s[n]>> \o SubSeq(s, n + 1, Len(s)) = SubSeq(s, n, Len(s))
PROOF
  <1> DEFINE t == SubSeq(s, n + 1, Len(s))
             u == SubSeq(s, n, Len(s))
             v == <<s[n]>> \o t
  <1>1. /\ t \in Seq(S) /\ Len(t) = Len(s) - n
        /\ \A j \in 1 .. Len(s) - n : t[j] = s[n + j]
    <2>1. \A i \in (n + 1) .. Len(s) : s[i] \in S
      OBVIOUS
    <2> QED
      BY <2>1, SubSeqProperties
  <1>2. /\ u \in Seq(S) /\ Len(u) = Len(s) - n + 1
        /\ \A j \in 1 .. Len(s) - n + 1 : u[j] = s[n + j - 1]
    <2>1. \A i \in n .. Len(s) : s[i] \in S
      OBVIOUS
    <2> QED
      BY <2>1, SubSeqProperties
  <1>3. s[n] \in S
    OBVIOUS
  <1> HIDE DEF t, u
  <1>4. /\ v \in Seq(S) /\ Len(v) = Len(t) + 1
        /\ v[1] = s[n] /\ \A j \in 2 .. Len(t) + 1 : v[j] = t[j - 1]
    <2> DEFINE w == <<s[n]>>
    <2>1. w \in Seq(S) /\ Len(w) = 1 /\ w[1] = s[n]
      BY <1>3
    <2> HIDE DEF w
    <2>2. /\ w \o t \in Seq(S) /\ Len(w \o t) = Len(w) + Len(t)
          /\ \A j \in 1 .. Len(w) + Len(t) :
                (w \o t)[j] = IF j <= Len(w) THEN w[j] ELSE t[j - Len(w)]
      BY <1>1, <2>1, ConcatProperties
    <2>3. Len(t) \in Nat
      BY <1>1
    <2> DEFINE u2 == w \o t
    <2>4. v = u2
      BY DEF w
    <2> HIDE DEF u2, v
    <2> QED
      BY <2>1, <2>2, <2>3, <2>4 DEF u2
  <1> HIDE DEF v
  <1>5. ASSUME NEW j \in 1 .. Len(u) PROVE v[j] = u[j]
    <2>1. CASE j = 1
      BY <1>2, <1>4, <2>1
    <2>2. CASE j # 1
      <3>1. j \in 2 .. Len(t) + 1 /\ j - 1 \in 1 .. Len(s) - n
        BY <1>1, <1>2, <2>2
      <3>2. v[j] = s[n + (j - 1)]
        BY <1>1, <1>4, <3>1
      <3>3. u[j] = s[n + j - 1] /\ n + (j - 1) = n + j - 1
        BY <1>2, <3>1
      <3> QED
        BY <3>2, <3>3
    <2> QED
      BY <2>1, <2>2
  <1>6. Len(v) = Len(u)
    BY <1>1, <1>2, <1>4
  <1> QED
    BY <1>2, <1>4, <1>5, <1>6, SeqEqual DEF v, t, u

LEMMA WholeSubSeq ==
  ASSUME NEW S, NEW s \in Seq(S)
  PROVE  SubSeq(s, 1, Len(s)) = s
PROOF
  <1> DEFINE u == SubSeq(s, 1, Len(s))
  <1>1. \A i \in 1 .. Len(s) : s[i] \in S
    OBVIOUS
  <1>2. u \in Seq(S) /\ Len(u) = Len(s) /\ \A j \in 1 .. Len(s) : u[j] = s[j]
    BY <1>1, SubSeqProperties
  <1> HIDE DEF u
  <1>3. u = s
    BY <1>2, SeqEqual
  <1> QED
    BY <1>3 DEF u

\* What is known of the n-th of the frames and of its place.
LEMMA CutsPlace ==
  ASSUME NEW q, NEW fs, NEW p, Cuts(q, fs, p),
         \A f \in BoardFrames : Framed(f),
         NEW n \in 1 .. Len(fs)
  PROVE  /\ fs[n] \in BoardFrames /\ Framed(fs[n])
         /\ n - 1 \in 0 .. Len(fs) /\ n \in 0 .. Len(fs)
         /\ p[n - 1] \in 0 .. Len(q) /\ p[n] \in 0 .. Len(q)
         /\ p[n] = p[n - 1] + Len(fs[n])
         /\ p[n] = p[n - 1] + At(q, p[n - 1] + 1) + 2
         /\ SubSeq(q, p[n - 1] + 1, p[n]) = fs[n]
PROOF
  <1> DEFINE f == fs[n]
             b == p[n - 1]
  <1>1. f \in BoardFrames /\ Framed(f)
    BY DEF Cuts
  <1>2. n - 1 \in 0 .. Len(fs) /\ n \in 0 .. Len(fs)
    BY DEF Cuts
  <1>3. b \in 0 .. Len(q) /\ p[n] \in 0 .. Len(q) /\ p[n] = b + Len(f)
    BY <1>2 DEF Cuts
  <1>4. \A j \in 1 .. Len(f) : q[b + j] = f[j]
    BY DEF Cuts
  <1>5. q \in Seq(Bytes)
    BY DEF Cuts
  <1> HIDE DEF f, b
  <1>6. f \in Seq(Bytes) /\ 2 \in 1 .. Len(f) /\ Len(f) = f[2] + 2
    BY <1>1 DEF Framed
  <1>7. At(q, b + 1) = f[2]
    <2>1. b + 1 < Len(q)
      BY <1>3, <1>5, <1>6
    <2>2. q[b + 2] = f[2]
      BY <1>4, <1>6
    <2>3. (b + 1) + 1 = b + 2
      BY <1>3
    <2> QED
      BY <2>1, <2>2, <2>3 DEF At
  <1>8. SubSeq(q, b + 1, p[n]) = f
    <2> DEFINE u == SubSeq(q, b + 1, p[n])
    <2>1. \A i \in (b + 1) .. p[n] : q[i] \in Bytes
      BY <1>3, <1>5
    <2>2. /\ u \in Seq(Bytes)
          /\ Len(u) = Len(f)
          /\ \A j \in 1 .. Len(f) : u[j] = q[(b + 1) + j - 1]
      <3>1. b + 1 \in Int /\ p[n] \in Int /\ Len(f) \in Nat /\ p[n] - (b + 1) + 1 = Len(f)
        BY <1>3, <1>6
      <3> QED
        BY <1>3, <2>1, <3>1, SubSeqProperties
    <2>3. ASSUME NEW j \in 1 .. Len(f) PROVE u[j] = f[j]
      <3>1. (b + 1) + j - 1 = b + j
        BY <1>3
      <3> QED
        BY <1>4, <2>2, <3>1
    <2> HIDE DEF u
    <2>4. u = f
      BY <1>6, <2>2, <2>3, SeqEqual
    <2> QED
      BY <2>4 DEF u
  <1>9. p[n] = b + At(q, b + 1) + 2
    <2>1. f[2] \in Bytes
      BY <1>6, ElementOfSeq
    <2> DEFINE d == f[2]
    <2>2. b \in Int /\ \A x \in Bytes : x \in Int
      BY <1>3 DEF Bytes
    <2>3. p[n] = b + (d + 2) /\ At(q, b + 1) = d
      BY <1>3, <1>6, <1>7
    <2>4. d \in Int
      BY <2>1, <2>2
    <2> HIDE DEF d
    <2> QED
      BY <2>2, <2>3, <2>4
  <1> QED
    BY <1>1, <1>2, <1>3, <1>8, <1>9 DEF f, b

\* A queue of whole frames is those frames.
LEMMA CutsFrames ==
  ASSUME NEW q, NEW fs, NEW p, Cuts(q, fs, p), \A f \in BoardFrames : Framed(f)
  PROVE  FramesIn(q) = fs
PROOF
  <1> DEFINE N == Len(fs)
  <1>1. q \in Seq(Bytes) /\ fs \in Seq(BoardFrames) /\ N \in Nat
    BY DEF Cuts
  <1>2. PICK from :
            /\ FramesIn(q) = from[0]
            /\ \A i \in 0 .. Len(q) :
                  from[i] = IF i = Len(q) THEN <<>>
                            ELSE <<SubSeq(q, i + 1, i + At(q, i + 1) + 2)>>
                                 \o from[i + At(q, i + 1) + 2]
    BY <1>1, FramesInChain
  <1> DEFINE T == {m \in Nat : m <= N => from[p[N - m]] = SubSeq(fs, N - m + 1, N)}
  <1>3. 0 \in T
    <2>1. p[N] = Len(q) /\ Len(q) \in 0 .. Len(q)
      BY <1>1 DEF Cuts
    <2>2. from[p[N]] = <<>>
      BY <1>2, <2>1
    <2>3. SubSeq(fs, N + 1, N) = <<>>
      BY <1>1, SubSeqProperties
    <2>4. N - 0 = N
      BY <1>1
    <2> QED
      BY <2>2, <2>3, <2>4
  <1>4. ASSUME NEW m \in Nat, m \in T PROVE m + 1 \in T
    <2> SUFFICES ASSUME m + 1 <= N
                 PROVE  from[p[N - (m + 1)]] = SubSeq(fs, N - (m + 1) + 1, N)
      OBVIOUS
    <2> DEFINE n == N - m
               b == p[n - 1]
    <2>1. n \in 1 .. N /\ N - (m + 1) = n - 1 /\ N - (m + 1) + 1 = n
      BY <1>1
    <2>2. from[p[n]] = SubSeq(fs, n + 1, N)
      BY <1>1, <1>4
    <2> HIDE DEF n
    <2>3. /\ fs[n] \in BoardFrames /\ Framed(fs[n])
          /\ b \in 0 .. Len(q) /\ p[n] \in 0 .. Len(q)
          /\ p[n] = b + Len(fs[n])
          /\ p[n] = b + At(q, b + 1) + 2
          /\ SubSeq(q, b + 1, p[n]) = fs[n]
      BY <2>1, CutsPlace
    <2> HIDE DEF b
    <2>4. b # Len(q)
      BY <1>1, <2>3 DEF Framed
    <2>5. from[b] = <<fs[n]>> \o from[p[n]]
      <3>1. from[b] = <<SubSeq(q, b + 1, b + At(q, b + 1) + 2)>>
                      \o from[b + At(q, b + 1) + 2]
        BY <1>2, <2>3, <2>4
      <3> QED
        BY <2>3, <3>1
    <2>6. <<fs[n]>> \o SubSeq(fs, n + 1, N) = SubSeq(fs, n, N)
      BY <1>1, <2>1, HeadOfRest
    <2> QED
      BY <2>1, <2>2, <2>5, <2>6 DEF b
  <1>5. N \in T
    <2> HIDE DEF T, N
    <2>1. Nat \subseteq T
      BY <1>3, <1>4, Induction
    <2> QED
      BY <1>1, <2>1
  <1>6. from[p[0]] = SubSeq(fs, 1, N)
    <2>1. N - N = 0
      BY <1>1
    <2> HIDE DEF N
    <2> QED
      BY <1>5, <2>1
  <1>7. SubSeq(fs, 1, N) = fs
    BY <1>1, WholeSubSeq
  <1>8. p[0] = 0
    BY DEF Cuts
  <1> QED
    BY <1>2, <1>6, <1>7, <1>8
\* An empty queue has no frames.
LEMMA CutsEmpty == \E p : Cuts(<<>>, <<>>, p)
PROOF
  <1> DEFINE r == [n \in {0} |-> 0]
  <1>1. r[0] = 0
    OBVIOUS
  <1> HIDE DEF r
  <1>2. Cuts(<<>>, <<>>, r)
    BY <1>1 DEF Cuts
  <1> QED
    BY <1>2

\* A frame is added at the end of the queue.
LEMMA CutsAppend ==
  ASSUME NEW q, NEW fs, NEW p, Cuts(q, fs, p),
         NEW f \in BoardFrames, Framed(f)
  PROVE  \E r : /\ Cuts(q \o f, Append(fs, f), r)
                /\ \A n \in 0 .. Len(fs) : r[n] = p[n]
PROOF
  <1> DEFINE N == Len(fs)
             r == [n \in 0 .. N + 1 |-> IF n <= N THEN p[n] ELSE Len(q) + Len(f)]
             gs == Append(fs, f)
             t == q \o f
  <1>1. /\ q \in Seq(Bytes) /\ fs \in Seq(BoardFrames) /\ f \in Seq(Bytes)
        /\ N \in Nat /\ Len(q) \in Nat /\ Len(f) \in Nat
    BY DEF Cuts, Framed
  <1>2. /\ gs \in Seq(BoardFrames) /\ Len(gs) = N + 1
        /\ gs[N + 1] = f /\ \A n \in 1 .. N : gs[n] = fs[n]
    BY <1>1, AppendProperties
  <1>3. /\ t \in Seq(Bytes) /\ Len(t) = Len(q) + Len(f)
        /\ \A i \in 1 .. Len(q) : t[i] = q[i]
        /\ \A j \in 1 .. Len(f) : t[Len(q) + j] = f[j]
    <2>1. /\ t \in Seq(Bytes) /\ Len(t) = Len(q) + Len(f)
          /\ \A i \in 1 .. Len(q) + Len(f) :
                t[i] = IF i <= Len(q) THEN q[i] ELSE f[i - Len(q)]
      BY <1>1, ConcatProperties
    <2> HIDE DEF t
    <2>2. ASSUME NEW i \in 1 .. Len(q) PROVE t[i] = q[i]
      BY <1>1, <2>1
    <2>3. ASSUME NEW j \in 1 .. Len(f) PROVE t[Len(q) + j] = f[j]
      <3>1. /\ Len(q) + j \in 1 .. Len(q) + Len(f)
            /\ ~(Len(q) + j <= Len(q)) /\ (Len(q) + j) - Len(q) = j
        BY <1>1
      <3> QED
        BY <2>1, <3>1
    <2> QED
      BY <2>1, <2>2, <2>3
  <1>4. /\ \A n \in 0 .. N : r[n] = p[n]
        /\ r[N + 1] = Len(q) + Len(f)
    <2> HIDE DEF N
    <2>1. N + 1 \in 0 .. N + 1 /\ ~(N + 1 <= N)
      BY <1>1
    <2>2. \A n \in 0 .. N : n \in 0 .. N + 1 /\ n <= N
      BY <1>1
    <2> QED
      BY <2>1, <2>2
  <1>5. /\ \A n \in 0 .. N : p[n] \in 0 .. Len(q)
        /\ p[0] = 0 /\ p[N] = Len(q)
        /\ \A m, n \in 0 .. N : m <= n => p[m] <= p[n]
        /\ \A n \in 1 .. N :
              /\ p[n] = p[n - 1] + Len(fs[n])
              /\ \A j \in 1 .. Len(fs[n]) : q[p[n - 1] + j] = fs[n][j]
    BY DEF Cuts
  <1> HIDE DEF r, gs, t, N
  <1>6. ASSUME NEW n \in 0 .. N + 1 PROVE r[n] \in 0 .. Len(t)
    <2>1. CASE n = N + 1
      BY <1>1, <1>3, <1>4, <2>1
    <2>2. CASE n # N + 1
      <3>1. n \in 0 .. N
        BY <1>1, <2>2
      <3>2. r[n] \in 0 .. Len(q)
        BY <1>4, <1>5, <3>1
      <3> QED
        BY <1>1, <1>3, <3>2
    <2> QED
      BY <2>1, <2>2
  <1>7. r[0] = 0 /\ r[N + 1] = Len(t)
    BY <1>1, <1>3, <1>4, <1>5
  <1>8. ASSUME NEW m \in 0 .. N + 1, NEW n \in 0 .. N + 1, m <= n PROVE r[m] <= r[n]
    <2>1. CASE n = N + 1
      BY <1>3, <1>6, <1>7, <2>1
    <2>2. CASE n # N + 1
      <3>1. n \in 0 .. N /\ m \in 0 .. N
        BY <1>1, <1>8, <2>2
      <3> QED
        BY <1>4, <1>5, <1>8, <3>1
    <2> QED
      BY <2>1, <2>2
  <1>9. ASSUME NEW n \in 1 .. N + 1
        PROVE  /\ r[n] = r[n - 1] + Len(gs[n])
               /\ \A j \in 1 .. Len(gs[n]) : t[r[n - 1] + j] = gs[n][j]
    <2>1. CASE n = N + 1
      <3>1. n - 1 = N /\ N \in 0 .. N
        BY <1>1, <2>1
      <3>2. r[n - 1] = Len(q) /\ gs[n] = f /\ r[n] = Len(q) + Len(f)
        BY <1>2, <1>4, <1>5, <2>1, <3>1
      <3> QED
        BY <1>3, <3>2
    <2>2. CASE n # N + 1
      <3>1. n \in 1 .. N /\ n \in 0 .. N /\ n - 1 \in 0 .. N
        BY <1>1, <2>2
      <3>2. r[n] = p[n] /\ r[n - 1] = p[n - 1] /\ gs[n] = fs[n]
        BY <1>2, <1>4, <3>1
      <3>3. p[n] = p[n - 1] + Len(fs[n])
        BY <1>5, <3>1
      <3>4. ASSUME NEW j \in 1 .. Len(fs[n]) PROVE t[p[n - 1] + j] = fs[n][j]
        <4>1. p[n - 1] \in 0 .. Len(q) /\ p[n] \in 0 .. Len(q)
          BY <1>5, <3>1
        <4>2. p[n - 1] + j \in 1 .. Len(q)
          BY <1>1, <3>3, <4>1
        <4>3. q[p[n - 1] + j] = fs[n][j]
          BY <1>5, <3>1
        <4> QED
          BY <1>3, <4>2, <4>3
      <3> QED
        BY <3>2, <3>3, <3>4
    <2> QED
      BY <2>1, <2>2
  <1>10. Cuts(t, gs, r)
    BY <1>2, <1>3, <1>6, <1>7, <1>8, <1>9 DEF Cuts
  <1> QED
    BY <1>4, <1>10 DEF t, gs, N
\* The k oldest frames are taken from the queue.
LEMMA CutsDrop ==
  ASSUME NEW q, NEW fs, NEW p, Cuts(q, fs, p), NEW k \in 0 .. Len(fs)
  PROVE  \E r : Cuts(SubSeq(q, p[k] + 1, Len(q)), SubSeq(fs, k + 1, Len(fs)), r)
PROOF
  <1> DEFINE N == Len(fs)
             c == p[k]
             r == [n \in 0 .. N - k |-> p[n + k] - p[k]]
             gs == SubSeq(fs, k + 1, Len(fs))
             t == SubSeq(q, c + 1, Len(q))
  <1>1. /\ q \in Seq(Bytes) /\ fs \in Seq(BoardFrames)
        /\ N \in Nat /\ Len(q) \in Nat
        /\ c \in 0 .. Len(q)
    BY DEF Cuts
  <1>2. /\ gs \in Seq(BoardFrames) /\ Len(gs) = N - k
        /\ \A n \in 1 .. N - k : gs[n] = fs[n + k]
    <2>1. \A i \in (k + 1) .. Len(fs) : fs[i] \in BoardFrames
      BY <1>1
    <2>2. /\ gs \in Seq(BoardFrames)
          /\ Len(gs) = IF k + 1 <= Len(fs) THEN Len(fs) - (k + 1) + 1 ELSE 0
          /\ \A n \in 1 .. Len(fs) - (k + 1) + 1 : gs[n] = fs[(k + 1) + n - 1]
      BY <1>1, <2>1, SubSeqProperties
    <2> HIDE DEF gs
    <2>3. Len(gs) = N - k
      BY <1>1, <2>2
    <2>4. ASSUME NEW n \in 1 .. N - k PROVE gs[n] = fs[n + k]
      <3>1. n \in 1 .. Len(fs) - (k + 1) + 1 /\ (k + 1) + n - 1 = n + k
        BY <1>1
      <3> QED
        BY <2>2, <3>1
    <2> QED
      BY <2>2, <2>3, <2>4
  <1>3. /\ t \in Seq(Bytes) /\ Len(t) = Len(q) - c
        /\ \A i \in 1 .. Len(q) - c : t[i] = q[c + i]
    <2> HIDE DEF c
    <2>1. \A i \in (c + 1) .. Len(q) : q[i] \in Bytes
      BY <1>1
    <2>2. /\ t \in Seq(Bytes)
          /\ Len(t) = IF c + 1 <= Len(q) THEN Len(q) - (c + 1) + 1 ELSE 0
          /\ \A i \in 1 .. Len(q) - (c + 1) + 1 : t[i] = q[(c + 1) + i - 1]
      BY <1>1, <2>1, SubSeqProperties
    <2> HIDE DEF t
    <2>3. Len(t) = Len(q) - c
      BY <1>1, <2>2
    <2>4. ASSUME NEW i \in 1 .. Len(q) - c PROVE t[i] = q[c + i]
      <3>1. i \in 1 .. Len(q) - (c + 1) + 1 /\ (c + 1) + i - 1 = c + i
        BY <1>1
      <3> QED
        BY <2>2, <3>1
    <2> QED
      BY <2>2, <2>3, <2>4
  <1>4. \A n \in 0 .. N - k : r[n] = p[n + k] - c
    OBVIOUS
  <1>5. /\ \A n \in 0 .. N : p[n] \in 0 .. Len(q)
        /\ p[N] = Len(q)
        /\ \A m, n \in 0 .. N : m <= n => p[m] <= p[n]
        /\ \A n \in 1 .. N :
              /\ p[n] = p[n - 1] + Len(fs[n])
              /\ \A j \in 1 .. Len(fs[n]) : q[p[n - 1] + j] = fs[n][j]
    BY DEF Cuts
  <1>6. ASSUME NEW n \in 0 .. N - k
        PROVE  n + k \in 0 .. N /\ c <= p[n + k] /\ p[n + k] \in 0 .. Len(q)
    <2>1. n + k \in 0 .. N /\ k <= n + k /\ k \in 0 .. N
      BY <1>1
    <2> HIDE DEF N
    <2> QED
      BY <1>5, <2>1
  <1>7. k \in 0 .. N
    OBVIOUS
  <1> HIDE DEF r, gs, t, N, c
  <1>8. ASSUME NEW n \in 0 .. N - k PROVE r[n] \in 0 .. Len(t)
    <2> DEFINE e == p[n + k]
    <2>1. r[n] = e - c /\ c <= e /\ e \in 0 .. Len(q)
      BY <1>4, <1>6
    <2> HIDE DEF e
    <2>2. e - c \in 0 .. Len(q) - c
      BY <1>1, <2>1
    <2> QED
      BY <1>3, <2>1, <2>2
  <1>9. r[0] = 0 /\ r[N - k] = Len(t)
    <2>1. 0 \in 0 .. N - k /\ N - k \in 0 .. N - k /\ 0 + k = k /\ (N - k) + k = N
      BY <1>1, <1>7
    <2>2. r[0] = p[k] - c /\ r[N - k] = p[N] - c
      BY <1>4, <2>1
    <2> QED
      BY <1>1, <1>3, <1>5, <2>2 DEF c
  <1>10. ASSUME NEW m \in 0 .. N - k, NEW n \in 0 .. N - k, m <= n PROVE r[m] <= r[n]
    <2>1. m + k <= n + k
      BY <1>1, <1>7, <1>10
    <2>2. p[m + k] <= p[n + k]
      BY <1>5, <1>6, <2>1
    <2>3. p[m + k] \in Int /\ p[n + k] \in Int /\ c \in Int
      BY <1>1, <1>6
    <2> QED
      BY <1>4, <2>2, <2>3
  <1>11. ASSUME NEW n \in 1 .. N - k
         PROVE  /\ r[n] = r[n - 1] + Len(gs[n])
                /\ \A j \in 1 .. Len(gs[n]) : t[r[n - 1] + j] = gs[n][j]
    <2> DEFINE e == p[n + k]
               d == p[(n - 1) + k]
    <2>1. n - 1 \in 0 .. N - k /\ n \in 0 .. N - k
      BY <1>1, <1>7
    <2>2. r[n] = e - c /\ r[n - 1] = d - c /\ gs[n] = fs[n + k]
      BY <1>2, <1>4, <2>1
    <2>3. n + k \in 1 .. N /\ (n + k) - 1 = (n - 1) + k
      BY <1>1, <1>7
    <2>4. /\ e = d + Len(fs[n + k])
          /\ \A j \in 1 .. Len(fs[n + k]) : q[d + j] = fs[n + k][j]
      BY <1>5, <2>3
    <2>5. c <= d /\ d \in 0 .. Len(q) /\ e \in 0 .. Len(q) /\ c \in 0 .. Len(q)
      BY <1>1, <1>6, <2>1
    <2> HIDE DEF d, e
    <2>6. Len(fs[n + k]) \in Nat
      BY <2>4
    <2>7. r[n] = r[n - 1] + Len(gs[n])
      BY <2>2, <2>4, <2>5, <2>6
    <2>8. ASSUME NEW j \in 1 .. Len(gs[n]) PROVE t[r[n - 1] + j] = gs[n][j]
      <3>1. /\ (d - c) + j \in 1 .. Len(q) - c
            /\ c + ((d - c) + j) = d + j
        BY <1>1, <2>2, <2>4, <2>5, <2>6
      <3>2. t[(d - c) + j] = q[d + j]
        BY <1>3, <3>1
      <3> QED
        BY <2>2, <2>4, <3>2
    <2> QED
      BY <2>7, <2>8
  <1>12. Cuts(t, gs, r)
    BY <1>2, <1>3, <1>8, <1>9, <1>10, <1>11 DEF Cuts
  <1> QED
    BY <1>12 DEF t, gs, N, c
\* A read of several frames shows the first: behind it the dialog looks for a
\* mark, and finds the length of the second frame in its place.
LEMMA CutsHead ==
  ASSUME NEW q, NEW fs, NEW p, Cuts(q, fs, p),
         \A f \in BoardFrames : Framed(f),
         NEW k \in 1 .. Len(fs), NEW shown \in LabelTexts
  PROVE  ShowAll(shown, Messages(SubSeq(q, 1, p[k]))) = ShowFrame(shown, fs[1])
PROOF
  <1> DEFINE f == fs[1]
             c == p[k]
             chunk == SubSeq(q, 1, c)
             N == Len(fs)
  <1>1. /\ q \in Seq(Bytes) /\ N \in Nat /\ Len(q) \in Nat /\ k \in 0 .. N
        /\ c \in 0 .. Len(q) /\ p[0] = 0
    BY DEF Cuts
  <1>2. 1 \in 1 .. N /\ 1 - 1 = 0
    BY <1>1
  <1>3. Framed(f) /\ p[1] = Len(f)
    <2>1. Framed(f) /\ p[1] = p[1 - 1] + Len(f)
      BY <1>2, CutsPlace
    <2>2. Len(f) \in Nat
      BY <2>1 DEF Framed
    <2> QED
      BY <1>1, <1>2, <2>1, <2>2
  <1>4. p[1] <= c
    <2>1. 1 \in 0 .. N /\ 1 <= k
      BY <1>1
    <2> QED
      BY <1>1, <2>1 DEF Cuts
  <1>5. \A j \in 1 .. Len(f) : q[j] = f[j]
    <2>1. \A j \in 1 .. Len(f) : q[p[0] + j] = f[j]
      BY <1>2 DEF Cuts
    <2>2. \A j \in 1 .. Len(f) : 0 + j = j
      OBVIOUS
    <2> QED
      BY <1>1, <2>1, <2>2
  <1>6. /\ chunk \in Seq(Bytes) /\ Len(chunk) = c
        /\ \A i \in 1 .. c : chunk[i] = q[i]
    <2> HIDE DEF c
    <2>1. \A i \in 1 .. c : q[i] \in Bytes
      BY <1>1
    <2>2. /\ chunk \in Seq(Bytes)
          /\ Len(chunk) = IF 1 <= c THEN c - 1 + 1 ELSE 0
          /\ \A i \in 1 .. c - 1 + 1 : chunk[i] = q[1 + i - 1]
      BY <1>1, <2>1, SubSeqProperties
    <2> HIDE DEF chunk
    <2> QED
      BY <1>1, <2>2
  <1> DEFINE d == f[2]
             e == fs[2][2]
  <1>7. d \in 0 .. 253 /\ Len(f) = d + 2 /\ Len(f) >= 2 /\ f \in Seq(Bytes)
    <2>1. f \in Seq(Bytes) /\ Len(f) >= 2 /\ Len(f) = d + 2 /\ d < 254
      BY <1>3 DEF Framed
    <2> HIDE DEF f
    <2>2. 2 \in 1 .. Len(f)
      BY <2>1
    <2>3. d \in Bytes
      BY <2>1, <2>2, ElementOfSeq
    <2> HIDE DEF d
    <2> QED
      BY <2>1, <2>3 DEF Bytes
  <1>8. k = 1 => c = Len(f)
    BY <1>3
  <1>9. k # 1 => q[p[1] + 2] = e /\ e < 254
    <2> SUFFICES ASSUME k # 1 PROVE q[p[1] + 2] = e /\ e < 254
      OBVIOUS
    <2>1. 2 \in 1 .. N /\ 2 - 1 = 1
      BY <1>1
    <2>2. Framed(fs[2])
      BY <2>1, CutsPlace
    <2>3. 2 \in 1 .. Len(fs[2]) /\ e < 254
      BY <2>2 DEF Framed
    <2>4. \A j \in 1 .. Len(fs[2]) : q[p[2 - 1] + j] = fs[2][j]
      BY <2>1 DEF Cuts
    <2> HIDE DEF N
    <2> QED
      BY <2>1, <2>3, <2>4
  <1>10. Len(f) <= c /\ c \in Nat
    BY <1>1, <1>3, <1>4
  <1> HIDE DEF f, c, chunk, d, e, N
  <1>11. ASSUME NEW i \in 0 .. Len(f) - 1 PROVE At(chunk, i) = f[i + 1]
    <2>1. i < Len(chunk) /\ i + 1 \in 1 .. c /\ i + 1 \in 1 .. Len(f)
      BY <1>6, <1>7, <1>10
    <2> QED
      BY <1>5, <1>6, <2>1 DEF At
  <1>12. At(chunk, 1) = d
    <2>1. 1 \in 0 .. Len(f) - 1 /\ 1 + 1 = 2
      BY <1>7
    <2> QED
      BY <1>11, <2>1 DEF d
  <1>13. At(chunk, d + 3) # 255
    <2>1. CASE c <= d + 3
      <3>1. ~(d + 3 < Len(chunk))
        BY <1>6, <1>7, <1>10, <2>1
      <3> QED
        BY <3>1 DEF At
    <2>2. CASE ~(c <= d + 3)
      <3>1. k # 1
        BY <1>7, <1>8, <1>10, <2>2
      <3>2. d + 3 < Len(chunk) /\ (d + 3) + 1 = p[1] + 2 /\ (d + 3) + 1 \in 1 .. c
        BY <1>3, <1>6, <1>7, <1>10, <2>2
      <3>3. At(chunk, d + 3) = chunk[(d + 3) + 1]
        BY <3>2 DEF At
      <3>4. chunk[(d + 3) + 1] = e /\ e < 254
        BY <1>6, <1>9, <3>1, <3>2
      <3> QED
        BY <3>3, <3>4
    <2> QED
      BY <2>1, <2>2
  <1>14. ~MarkAt(chunk, 0)
    <2>1. 0 + 1 = 1 /\ 0 + d = d
      BY <1>7
    <2> QED
      BY <1>12, <1>13, <2>1 DEF MarkAt
  <1>15. Messages(chunk) = <<Message(chunk, 0)>>
    <2>1. chunk # <<>>
      BY <1>6, <1>7, <1>10
    <2> QED
      BY <1>6, <1>14, <2>1, MessagesTyped
  <1> DEFINE b == Message(chunk, 0)
             L == Len(f)
  <1>16. b \in Buffers
    BY <1>6, MessageTyped
  <1>17. (d + 2) % 256 = L
    <2>1. (d + 2) % 256 = d + 2
      BY <1>7
    <2> QED
      BY <1>7, <2>1
  <1>18. b = [j \in 0 .. 5 |-> IF j < L THEN f[j + 1] ELSE 0]
    <2>1. (At(chunk, 0 + 1) + 2) % 256 = L
      <3>1. 0 + 1 = 1
        OBVIOUS
      <3> QED
        BY <1>12, <1>17, <3>1
    <2>2. b = [j \in 0 .. 5 |-> IF j < L THEN At(chunk, 0 + j) ELSE 0]
      BY <2>1 DEF Message
    <2>3. ASSUME NEW j \in 0 .. 5
          PROVE  (IF j < L THEN At(chunk, 0 + j) ELSE 0) = (IF j < L THEN f[j + 1] ELSE 0)
      <3>1. 0 + j = j /\ (j < L => j \in 0 .. L - 1)
        BY <1>7
      <3> QED
        BY <1>11, <3>1
    <2> HIDE DEF b, L
    <2> QED
      BY <2>2, <2>3, Zenon
  <1>19. b[1] = d
    <2>1. 1 \in 0 .. 5 /\ 1 < L /\ 1 + 1 = 2
      BY <1>7
    <2> HIDE DEF L, b
    <2> QED
      BY <1>18, <2>1 DEF d
  <1> HIDE DEF L
  <1>20. Overlay(Zeros, b, L) = b
    <2>1. ASSUME NEW j \in 0 .. 5 PROVE (IF j < L THEN b[j] ELSE Zeros[j]) = b[j]
      <3>1. b[j] = IF j < L THEN f[j + 1] ELSE 0
        <4> HIDE DEF b
        <4> QED
          BY <1>18
      <3>2. Zeros[j] = 0
        BY DEF Zeros
      <3> HIDE DEF b
      <3> QED
        BY <3>1, <3>2
    <2>2. Overlay(Zeros, b, L) = [j \in 0 .. 5 |-> IF j < L THEN b[j] ELSE Zeros[j]]
      BY DEF Overlay
    <2>3. b = [j \in 0 .. 5 |-> b[j]]
      BY <1>16 DEF Buffers
    <2> HIDE DEF b
    <2> QED
      BY <2>1, <2>2, <2>3, Zenon
  <1>21. ShowAll(shown, Messages(chunk)) = Show(shown, b)
    <2> DEFINE m == Messages(chunk)
    <2>1. m = <<b>>
      BY <1>15
    <2> HIDE DEF m, b
    <2>2. m \in Seq(Buffers) /\ Len(m) = 1 /\ m[1] = b
      BY <1>16, <2>1
    <2>3. ShowAll(shown, m) = Show(shown, Overlay(Zeros, b, (b[1] + 2) % 256))
      BY <2>2, ShowAllTyped
    <2>4. ShowAll(shown, m) = Show(shown, b)
      BY <1>17, <1>19, <1>20, <2>3
    <2> QED
      BY <2>4 DEF m
  <1>22. ShowFrame(shown, f) = Show(shown, b)
    <2> HIDE DEF b
    <2> QED
      BY <1>18 DEF ShowFrame, L
  <1> QED
    BY <1>21, <1>22 DEF f, c, chunk
-----------------------------------------------------------------------------
\* Reads of whole frames.

\* The oldest of two sequences after one another are taken away.
LEMMA DropFront ==
  ASSUME NEW S, NEW s \in Seq(S), NEW t \in Seq(S), NEW k \in 0 .. Len(s)
  PROVE  SubSeq(s \o t, k + 1, Len(s \o t)) = SubSeq(s, k + 1, Len(s)) \o t
PROOF
  <1> DEFINE w == s \o t
             a == SubSeq(s, k + 1, Len(s))
             u == SubSeq(w, k + 1, Len(w))
             v == a \o t
  <1>1. /\ w \in Seq(S) /\ Len(w) = Len(s) + Len(t)
        /\ \A i \in 1 .. Len(s) + Len(t) : w[i] = IF i <= Len(s) THEN s[i] ELSE t[i - Len(s)]
    BY ConcatProperties
  <1>2. Len(s) \in Nat /\ Len(t) \in Nat
    OBVIOUS
  <1> HIDE DEF w
  <1>3. /\ a \in Seq(S) /\ Len(a) = Len(s) - k
        /\ \A i \in 1 .. Len(s) - k : a[i] = s[k + i]
    <2>1. \A i \in (k + 1) .. Len(s) : s[i] \in S
      OBVIOUS
    <2>2. /\ a \in Seq(S)
          /\ Len(a) = IF k + 1 <= Len(s) THEN Len(s) - (k + 1) + 1 ELSE 0
          /\ \A i \in 1 .. Len(s) - (k + 1) + 1 : a[i] = s[(k + 1) + i - 1]
      BY <1>2, <2>1, SubSeqProperties
    <2> HIDE DEF a
    <2>3. Len(a) = Len(s) - k
      BY <1>2, <2>2
    <2>4. ASSUME NEW i \in 1 .. Len(s) - k PROVE a[i] = s[k + i]
      <3>1. i \in 1 .. Len(s) - (k + 1) + 1 /\ (k + 1) + i - 1 = k + i
        BY <1>2
      <3> QED
        BY <2>2, <3>1
    <2> QED
      BY <2>2, <2>3, <2>4
  <1>4. /\ u \in Seq(S) /\ Len(u) = Len(s) + Len(t) - k
        /\ \A i \in 1 .. Len(s) + Len(t) - k : u[i] = w[k + i]
    <2>1. \A i \in (k + 1) .. Len(w) : w[i] \in S
      BY <1>1
    <2>2. /\ u \in Seq(S)
          /\ Len(u) = IF k + 1 <= Len(w) THEN Len(w) - (k + 1) + 1 ELSE 0
          /\ \A i \in 1 .. Len(w) - (k + 1) + 1 : u[i] = w[(k + 1) + i - 1]
      BY <1>1, <1>2, <2>1, SubSeqProperties
    <2> HIDE DEF u
    <2>3. Len(u) = Len(s) + Len(t) - k
      BY <1>1, <1>2, <2>2
    <2>4. ASSUME NEW i \in 1 .. Len(s) + Len(t) - k PROVE u[i] = w[k + i]
      <3>1. i \in 1 .. Len(w) - (k + 1) + 1 /\ (k + 1) + i - 1 = k + i
        BY <1>1, <1>2
      <3> QED
        BY <2>2, <3>1
    <2> QED
      BY <2>2, <2>3, <2>4
  <1> HIDE DEF a, u
  <1>5. /\ v \in Seq(S) /\ Len(v) = Len(a) + Len(t)
        /\ \A i \in 1 .. Len(a) + Len(t) : v[i] = IF i <= Len(a) THEN a[i] ELSE t[i - Len(a)]
    BY <1>3, ConcatProperties
  <1> HIDE DEF v
  <1>6. ASSUME NEW i \in 1 .. Len(u) PROVE u[i] = v[i]
    <2>1. i \in 1 .. Len(a) + Len(t) /\ k + i \in 1 .. Len(s) + Len(t)
      BY <1>2, <1>3, <1>4
    <2>2. CASE i <= Len(a)
      <3>1. k + i <= Len(s) /\ i \in 1 .. Len(s) - k
        BY <1>2, <1>3, <2>2
      <3>2. u[i] = s[k + i]
        BY <1>1, <1>4, <2>1, <3>1
      <3>3. v[i] = s[k + i]
        BY <1>3, <1>5, <2>1, <2>2, <3>1
      <3> QED
        BY <3>2, <3>3
    <2>3. CASE ~(i <= Len(a))
      <3>1. ~(k + i <= Len(s)) /\ (k + i) - Len(s) = i - Len(a)
        BY <1>2, <1>3, <2>3
      <3>2. u[i] = t[(k + i) - Len(s)]
        BY <1>1, <1>4, <2>1, <3>1
      <3>3. v[i] = t[i - Len(a)]
        BY <1>5, <2>1, <2>3
      <3> QED
        BY <3>1, <3>2, <3>3
    <2> QED
      BY <2>2, <2>3
  <1>7. Len(u) = Len(v)
    BY <1>2, <1>3, <1>4, <1>5
  <1>8. u = v
    BY <1>4, <1>5, <1>6, <1>7, SeqEqual
  <1> QED
    BY <1>8 DEF u, v, a, w

\* The driver has frames whole, never more of them than one read takes.
Aligned ==
    /\ WholeFrames
    /\ MaxQueue <= ReadMax
    /\ \A f \in BoardFrames : Framed(f)

\* Then the queue is whole frames, and a read ends with one of them.
ReadEnds(fs, p) == ui = "read" => \E k \in 1 .. Len(fs) : cbInQue = p[k]

WholeInv ==
    /\ wire = <<>> \/ wire \in BoardFrames
    /\ \E fs, p : Cuts(inq, fs, p) /\ ReadEnds(fs, p)

OnWire == IF wire = <<>> THEN <<>> ELSE <<wire>>

LEMMA PendingIs ==
  ASSUME Aligned, WholeInv, NEW fs, NEW p, Cuts(inq, fs, p)
  PROVE  /\ pending = fs \o OnWire
         /\ fs \in Seq(BoardFrames) /\ OnWire \in Seq(BoardFrames)
         /\ Len(pending) = Len(fs) + Len(OnWire)
PROOF
  <1>1. fs \in Seq(BoardFrames)
    BY DEF Cuts
  <1>2. OnWire \in Seq(BoardFrames)
    BY DEF OnWire, WholeInv
  <1>3. FramesIn(inq) = fs
    BY CutsFrames DEF Aligned
  <1>4. pending = fs \o OnWire
    BY <1>3 DEF pending, OnWire
  <1>5. Len(fs \o OnWire) = Len(fs) + Len(OnWire)
    BY <1>1, <1>2, ConcatProperties
  <1> QED
    BY <1>1, <1>2, <1>4, <1>5

LEMMA WholeInit == Aligned /\ Init => WholeInv /\ pending = <<>>
PROOF
  <1> SUFFICES ASSUME Aligned, Init PROVE WholeInv /\ pending = <<>>
    OBVIOUS
  <1>1. inq = <<>> /\ wire = <<>> /\ ui # "read"
    BY DEF Init
  <1>2. PICK p : Cuts(<<>>, <<>>, p)
    BY CutsEmpty
  <1>3. Cuts(inq, <<>>, p)
    BY <1>1, <1>2
  <1>4. WholeInv
    BY <1>1, <1>3 DEF WholeInv, ReadEnds
  <1>5. FramesIn(inq) = <<>>
    BY <1>3, CutsFrames DEF Aligned
  <1>6. pending = <<>> \o <<>>
    BY <1>1, <1>5 DEF pending
  <1> QED
    BY <1>4, <1>6

\* What a step does to the queue of frames, action by action.

\* The same after a step.
LEMMA PendingThen ==
  ASSUME Aligned, NEW fs, NEW p, Cuts(inq', fs, p)
  PROVE  pending' = fs \o OnWire'
PROOF
  <1>1. FramesIn(inq') = fs
    BY CutsFrames DEF Aligned
  <1> QED
    BY <1>1 DEF pending, OnWire

\* The queue and the line are left alone, and so are the labels.
LEMMA StepAside ==
  ASSUME Aligned, WholeInv, UNCHANGED <<inq, wire, labels>>,
         ui' = "read" => ui = "read" /\ UNCHANGED cbInQue
  PROVE  WholeInv' /\ UNCHANGED V!viewVars
PROOF
  <1>1. UNCHANGED V!viewVars
    BY DEF V!viewVars, pending
  <1>2. PICK fs, p : Cuts(inq, fs, p) /\ ReadEnds(fs, p)
    BY DEF WholeInv
  <1>3. Cuts(inq', fs, p) /\ ReadEnds(fs, p)'
    BY <1>2 DEF ReadEnds
  <1> QED
    BY <1>1, <1>3 DEF WholeInv

\* A read begins: it takes what there is.
LEMMA StepCount ==
  ASSUME Aligned, WholeInv, TypeOK, ReceiveMessage
  PROVE  WholeInv' /\ UNCHANGED V!viewVars
PROOF
  <1>1. UNCHANGED <<inq, wire, labels>>
    BY DEF ReceiveMessage
  <1>2. CASE ui' # "read"
    BY <1>1, <1>2, StepAside
  <1>3. CASE ui' = "read"
    <2>1. inq # <<>> /\ cbInQue' = IF Len(inq) < ReadMax THEN Len(inq) ELSE ReadMax
      BY <1>3 DEF ReceiveMessage
    <2>2. inq \in Seq(Bytes) /\ Len(inq) <= MaxQueue
      BY TypeParts DEF Contents
    <2>3. cbInQue' = Len(inq)
      BY <2>1, <2>2, SupervisorAssumption DEF Aligned
    <2>4. PICK fs, p : Cuts(inq, fs, p)
      BY DEF WholeInv
    <2>5. Len(fs) \in 1 .. Len(fs) /\ cbInQue' = p[Len(fs)]
      <3>1. fs \in Seq(BoardFrames) /\ p[Len(fs)] = Len(inq) /\ p[0] = 0
        BY <2>4 DEF Cuts
      <3>2. Len(inq) # 0
        BY <2>1, <2>2
      <3>3. Len(fs) \in Nat /\ Len(fs) # 0
        BY <3>1, <3>2
      <3> QED
        BY <2>3, <3>1, <3>3
    <2>6. Cuts(inq', fs, p) /\ ReadEnds(fs, p)'
      BY <1>1, <2>4, <2>5 DEF ReadEnds
    <2>7. UNCHANGED V!viewVars
      BY <1>1 DEF V!viewVars, pending
    <2> QED
      BY <1>1, <2>6, <2>7 DEF WholeInv
  <1> QED
    BY <1>2, <1>3

\* The board says a frame.
LEMMA StepSay ==
  ASSUME Aligned, WholeInv, BoardSends
  PROVE  WholeInv' /\ V!Say /\ pending' = Append(pending, wire')
PROOF
  <1>1. /\ wire = <<>> /\ wire' \in BoardFrames /\ wire' # <<>>
        /\ UNCHANGED <<inq, labels, ui, cbInQue>>
    BY SupervisorAssumption DEF BoardSends, appVars, driverVars
  <1>2. PICK fs, p : Cuts(inq, fs, p) /\ ReadEnds(fs, p)
    BY DEF WholeInv
  <1>3. Cuts(inq', fs, p) /\ ReadEnds(fs, p)'
    BY <1>1, <1>2 DEF ReadEnds
  <1>4. WholeInv'
    BY <1>1, <1>3 DEF WholeInv
  <1>5. pending = fs /\ fs \in Seq(BoardFrames)
    <2>1. pending = fs \o <<>> /\ fs \in Seq(BoardFrames)
      BY <1>1, <1>2, PendingIs DEF OnWire
    <2> QED
      BY <2>1
  <1>6. pending' = fs \o <<wire'>>
    BY <1>1, <1>3, PendingThen DEF OnWire
  <1>7. pending' = Append(pending, wire')
    <2>1. fs \o <<wire'>> = Append(fs, wire')
      BY <1>1, <1>5, AppendIsConcat
    <2> QED
      BY <1>5, <1>6, <2>1
  <1>8. V!Say
    BY <1>1, <1>7 DEF V!Say
  <1> QED
    BY <1>4, <1>7, <1>8

\* It reaches the driver.
LEMMA StepArrive ==
  ASSUME Aligned, WholeInv, BytesArrive
  PROVE  WholeInv' /\ UNCHANGED V!viewVars
PROOF
  <1>1. wire # <<>> /\ wire \in BoardFrames /\ wire \in Seq(Bytes) /\ Framed(wire)
    BY DEF BytesArrive, WholeInv, Aligned, Framed
  <1>2. Burst = Len(wire)
    <2>1. WholeFrames
      BY DEF Aligned
    <2> QED
      BY <2>1, Zenon DEF Burst
  <1>3. inq' = inq \o wire /\ UNCHANGED <<labels, ui, cbInQue>>
    BY <1>1, <1>2, WholeSubSeq DEF BytesArrive, appVars
  <1>4. wire' = <<>>
    BY <1>1, <1>2, SubSeqEmpty DEF BytesArrive
  <1>5. PICK fs, p : Cuts(inq, fs, p) /\ ReadEnds(fs, p)
    BY DEF WholeInv
  <1>6. PICK gs : gs = Append(fs, wire)
    OBVIOUS
  <1>7. PICK r : Cuts(inq \o wire, gs, r) /\ \A n \in 0 .. Len(fs) : r[n] = p[n]
    BY <1>1, <1>5, <1>6, CutsAppend
  <1>8. fs \in Seq(BoardFrames) /\ gs \in Seq(BoardFrames) /\ Len(gs) = Len(fs) + 1
    <2>1. fs \in Seq(BoardFrames)
      BY <1>5 DEF Cuts
    <2> QED
      BY <1>1, <1>6, <2>1, AppendProperties
  <1>9. WholeInv'
    <2>1. Cuts(inq', gs, r)
      BY <1>3, <1>7
    <2>2. ReadEnds(gs, r)'
      <3> SUFFICES ASSUME ui' = "read" PROVE \E k \in 1 .. Len(gs) : cbInQue' = r[k]
        BY DEF ReadEnds
      <3>1. PICK k \in 1 .. Len(fs) : cbInQue = p[k]
        BY <1>3, <1>5 DEF ReadEnds
      <3>2. k \in 1 .. Len(gs) /\ k \in 0 .. Len(fs)
        BY <1>8
      <3> QED
        BY <1>3, <1>7, <3>1, <3>2
    <2> QED
      BY <1>4, <2>1, <2>2 DEF WholeInv
  <1>10. pending = gs
    <2>1. pending = fs \o <<wire>>
      BY <1>1, <1>5, PendingIs DEF OnWire
    <2> QED
      BY <1>1, <1>6, <1>8, <2>1, AppendIsConcat
  <1>11. pending' = gs
    <2>1. Cuts(inq', gs, r)
      BY <1>3, <1>7
    <2>2. pending' = gs \o <<>>
      BY <1>4, <2>1, PendingThen DEF OnWire
    <2> QED
      BY <1>8, <2>2
  <1> QED
    BY <1>3, <1>9, <1>10, <1>11 DEF V!viewVars

\* It is lost on the way.
LEMMA StepLost ==
  ASSUME Aligned, WholeInv, BytesLost \/ BytesDamaged
  PROVE  WholeInv' /\ V!Miss
PROOF
  <1>1. wire # <<>> /\ wire \in BoardFrames /\ wire \in Seq(Bytes)
    BY DEF BytesLost, BytesDamaged, WholeInv, Aligned, Framed
  <1>2. Burst = Len(wire)
    <2>1. WholeFrames
      BY DEF Aligned
    <2> QED
      BY <2>1, Zenon DEF Burst
  <1>3. wire' = <<>> /\ UNCHANGED <<inq, labels, ui, cbInQue>>
    BY <1>1, <1>2, SubSeqEmpty DEF BytesLost, BytesDamaged, appVars, driverVars
  <1>4. PICK fs, p : Cuts(inq, fs, p) /\ ReadEnds(fs, p)
    BY DEF WholeInv
  <1>5. Cuts(inq', fs, p) /\ ReadEnds(fs, p)'
    BY <1>3, <1>4 DEF ReadEnds
  <1>6. WholeInv'
    BY <1>3, <1>5 DEF WholeInv
  <1>7. fs \in Seq(BoardFrames)
    BY <1>4 DEF Cuts
  <1>8. pending = Append(fs, wire)
    <2>1. pending = fs \o <<wire>>
      BY <1>1, <1>4, PendingIs DEF OnWire
    <2> QED
      BY <1>1, <1>7, <2>1, AppendIsConcat
  <1>9. pending' = fs
    <2>1. pending' = fs \o <<>>
      BY <1>3, <1>5, PendingThen DEF OnWire
    <2> QED
      BY <1>7, <2>1
  <1>10. pending # <<>> /\ SubSeq(pending, 1, Len(pending) - 1) = fs
    BY <1>1, <1>7, <1>8, AppendProperties
  <1>11. V!Miss
    BY <1>3, <1>9, <1>10 DEF V!Miss
  <1> QED
    BY <1>6, <1>11

\* Frames leave the queue in their order.
LEMMA PendingDrop ==
  ASSUME Aligned, WholeInv, NEW fs, NEW p, Cuts(inq, fs, p),
         NEW k \in 0 .. Len(fs),
         NEW r, Cuts(inq', SubSeq(fs, k + 1, Len(fs)), r),
         UNCHANGED wire
  PROVE  V!Drop(k) /\ k \in 0 .. Len(pending)
PROOF
  <1>1. /\ pending = fs \o OnWire
        /\ fs \in Seq(BoardFrames) /\ OnWire \in Seq(BoardFrames)
        /\ Len(pending) = Len(fs) + Len(OnWire)
    BY PendingIs
  <1>2. pending' = SubSeq(fs, k + 1, Len(fs)) \o OnWire
    <2>1. pending' = SubSeq(fs, k + 1, Len(fs)) \o OnWire'
      BY PendingThen
    <2>2. OnWire' = OnWire
      BY DEF OnWire
    <2> QED
      BY <2>1, <2>2
  <1>3. SubSeq(fs \o OnWire, k + 1, Len(fs \o OnWire)) = SubSeq(fs, k + 1, Len(fs)) \o OnWire
    BY <1>1, DropFront
  <1>4. k \in 0 .. Len(pending)
    BY <1>1
  <1> QED
    BY <1>1, <1>2, <1>3, <1>4 DEF V!Drop

\* The whole queue is thrown away.
LEMMA QueueEmptied ==
  ASSUME Aligned, WholeInv, inq' = <<>>, UNCHANGED wire, ui' # "read"
  PROVE  /\ WholeInv'
         /\ \/ pending' = pending
            \/ \E k \in 1 .. Len(pending) : V!Drop(k)
         /\ \E k \in 0 .. Len(pending) : V!Drop(k)
         /\ pending' = OnWire
PROOF
  <1>1. PICK fs, p : Cuts(inq, fs, p)
    BY DEF WholeInv
  <1>2. PICK r : Cuts(<<>>, <<>>, r)
    BY CutsEmpty
  <1>3. fs \in Seq(BoardFrames) /\ Len(fs) \in 0 .. Len(fs)
    BY <1>1 DEF Cuts
  <1>4. SubSeq(fs, Len(fs) + 1, Len(fs)) = <<>>
    BY <1>3, SubSeqProperties
  <1>5. V!Drop(Len(fs)) /\ Len(fs) \in 0 .. Len(pending)
    BY <1>1, <1>2, <1>3, <1>4, PendingDrop
  <1>6. WholeInv'
    <2>1. Cuts(inq', <<>>, r) /\ ReadEnds(<<>>, r)'
      BY <1>2 DEF ReadEnds
    <2> QED
      BY <2>1 DEF WholeInv
  <1>7. pending' = OnWire
    <2>1. pending' = <<>> \o OnWire'
      BY <1>2, PendingThen
    <2>2. OnWire' = OnWire /\ OnWire \in Seq(BoardFrames)
      BY <1>1, PendingIs DEF OnWire
    <2> QED
      BY <2>1, <2>2
  <1>8. CASE fs = <<>>
    <2>1. pending = <<>> \o OnWire /\ OnWire \in Seq(BoardFrames)
      BY <1>1, <1>8, PendingIs
    <2>2. pending' = pending
      BY <1>7, <2>1
    <2> QED
      BY <1>5, <1>6, <1>7, <2>2
  <1>9. CASE fs # <<>>
    <2>1. Len(fs) \in 1 .. Len(pending)
      BY <1>3, <1>5, <1>9
    <2> QED
      BY <1>5, <1>6, <1>7, <2>1
  <1> QED
    BY <1>8, <1>9

\* A port is closed, or opened.
LEMMA StepClear ==
  ASSUME Aligned, WholeInv, OpenPort \/ OpenPortFails
  PROVE  WholeInv' /\ V!Clear /\ pending' = OnWire
PROOF
  <1>1. inq' = <<>> /\ UNCHANGED wire /\ ui' # "read" /\ labels' = NoLabels
    BY DEF OpenPort, OpenPortFails
  <1>2. /\ WholeInv' /\ pending' = OnWire
        /\ \E k \in 0 .. Len(pending) : V!Drop(k)
    BY <1>1, QueueEmptied
  <1>3. V!Clear
    BY <1>1, <1>2 DEF V!Clear
  <1> QED
    BY <1>2, <1>3

\* A port number is refused: blank labels, and nothing else is touched.
LEMMA StepRefused ==
  ASSUME Aligned, WholeInv, OpenPortRefused
  PROVE  WholeInv' /\ V!Clear /\ pending' = pending
PROOF
  <1>1. UNCHANGED <<inq, wire, cbInQue>> /\ ui' # "read" /\ labels' = NoLabels
    BY DEF OpenPortRefused, driverVars
  <1>2. PICK fs, p : Cuts(inq, fs, p)
    BY DEF WholeInv
  <1>3. WholeInv'
    <2>1. Cuts(inq', fs, p) /\ ReadEnds(fs, p)'
      BY <1>1, <1>2 DEF ReadEnds
    <2> QED
      BY <1>1, <2>1 DEF WholeInv
  <1>4. pending' = pending
    BY <1>1 DEF pending
  <1>5. V!Drop(0) /\ 0 \in 0 .. Len(pending)
    <2>1. pending \in Seq(BoardFrames)
      BY <1>2, PendingIs, ConcatProperties
    <2>2. SubSeq(pending, 1, Len(pending)) = pending /\ Len(pending) \in Nat
      BY <2>1, WholeSubSeq
    <2> QED
      BY <1>4, <2>2 DEF V!Drop
  <1>6. V!Clear
    BY <1>1, <1>5 DEF V!Clear
  <1> QED
    BY <1>3, <1>4, <1>6

\* A line error empties the queue.
LEMMA StepPurge ==
  ASSUME Aligned, WholeInv, Purge
  PROVE  WholeInv' /\ (V!Miss \/ UNCHANGED V!viewVars)
PROOF
  <1>1. inq' = <<>> /\ UNCHANGED <<wire, labels>> /\ ui' # "read"
    BY DEF Purge
  <1>2. /\ WholeInv'
        /\ pending' = pending \/ \E k \in 1 .. Len(pending) : V!Drop(k)
    BY <1>1, QueueEmptied
  <1>3. CASE pending' = pending
    BY <1>1, <1>2, <1>3 DEF V!viewVars
  <1>4. CASE \E k \in 1 .. Len(pending) : V!Drop(k)
    <2>1. pending # <<>>
      BY <1>4
    <2>2. V!Miss
      BY <1>1, <1>4, <2>1 DEF V!Miss
    <2> QED
      BY <1>2, <2>2
  <1> QED
    BY <1>2, <1>3, <1>4

\* A read shows the oldest frame.
LEMMA ReadShows ==
  ASSUME Aligned, WholeInv, TypeOK, Read
  PROVE  /\ WholeInv'
         /\ \E fs, p, k : /\ Cuts(inq, fs, p) /\ k \in 1 .. Len(fs)
                          /\ labels' = ShowFrame(labels, fs[1])
                          /\ V!Drop(k)
PROOF
  <1>1. PICK fs, p : Cuts(inq, fs, p) /\ ReadEnds(fs, p)
    BY DEF WholeInv
  <1>2. PICK k \in 1 .. Len(fs) : cbInQue = p[k]
    BY <1>1 DEF ReadEnds, Read
  <1>3. k \in 0 .. Len(fs) /\ labels \in LabelTexts
    <2>1. labels \in LabelTexts
      BY TypeParts, Zenon DEF Contents
    <2>2. k \in 0 .. Len(fs)
      OBVIOUS
    <2> QED
      BY <2>1, <2>2
  <1>4. PICK r : Cuts(SubSeq(inq, p[k] + 1, Len(inq)), SubSeq(fs, k + 1, Len(fs)), r)
    BY <1>1, <1>3, CutsDrop, Zenon
  <1>5. Cuts(inq', SubSeq(fs, k + 1, Len(fs)), r)
    BY <1>2, <1>4 DEF Read
  <1>6. labels' = ShowFrame(labels, fs[1])
    <2>1. ShowAll(labels, Messages(SubSeq(inq, 1, p[k]))) = ShowFrame(labels, fs[1])
      BY <1>1, <1>3, CutsHead DEF Aligned
    <2> QED
      BY <1>2, <2>1 DEF Read
  <1>7. V!Drop(k)
    BY <1>1, <1>3, <1>5, PendingDrop DEF Read
  <1>8. WholeInv'
    <2>1. ReadEnds(SubSeq(fs, k + 1, Len(fs)), r)'
      BY DEF ReadEnds, Read
    <2> QED
      BY <1>5, <2>1 DEF WholeInv, Read
  <1> QED
    BY <1>1, <1>6, <1>7, <1>8

LEMMA StepRead ==
  ASSUME Aligned, WholeInv, TypeOK, Read
  PROVE  WholeInv' /\ V!ShowNext
PROOF
  <1>1. PICK fs, p, k : /\ Cuts(inq, fs, p) /\ k \in 1 .. Len(fs)
                        /\ labels' = ShowFrame(labels, fs[1])
                        /\ V!Drop(k)
    BY ReadShows
  <1>2. /\ pending = fs \o OnWire
        /\ fs \in Seq(BoardFrames) /\ OnWire \in Seq(BoardFrames)
        /\ Len(pending) = Len(fs) + Len(OnWire)
    BY <1>1, PendingIs
  <1>3. k \in 1 .. Len(pending) /\ pending # <<>>
    BY <1>1, <1>2
  <1>4. Head(pending) = fs[1]
    <2>1. 1 \in 1 .. Len(fs) + Len(OnWire) /\ 1 <= Len(fs)
      BY <1>1, <1>2
    <2>2. (fs \o OnWire)[1] = fs[1]
      BY <1>2, <2>1, ConcatProperties
    <2>3. pending \in Seq(BoardFrames)
      BY <1>2, ConcatProperties
    <2> QED
      BY <1>2, <1>3, <2>2, <2>3
  <1>5. V!ShowNext
    BY <1>1, <1>3, <1>4 DEF V!ShowNext
  <1> QED
    BY <1>5, ReadShows

ViewStep == [V!Next]_(V!viewVars)

LEMMA StepWhole ==
  ASSUME Aligned, WholeInv, TypeOK, [Next]_vars
  PROVE  WholeInv' /\ ViewStep
PROOF
  <1> USE DEF ViewStep, V!Next
  <1>1. CASE BoardSends
    BY <1>1, StepSay
  <1>2. CASE BytesArrive
    BY <1>2, StepArrive
  <1>3. CASE BytesLost \/ BytesDamaged
    BY <1>3, StepLost
  <1>4. CASE ComThread
    <2>1. UNCHANGED <<inq, wire, labels, ui, cbInQue>>
      BY <1>4 DEF ComThread, ThreadStarts, ThreadEnds, ThreadWakes, ThreadClearsError,
                  ThreadNotifies, driverVars
    <2> QED
      BY <2>1, StepAside
  <1>5. CASE OpenPort \/ OpenPortFails
    BY <1>5, StepClear
  <1>6. CASE SetHwnd
    <2>1. UNCHANGED <<inq, wire, labels>> /\ ui' # "read"
      BY <1>6 DEF SetHwnd, driverVars
    <2> QED
      BY <2>1, StepAside
  <1>7. CASE ReceiveMessage
    BY <1>7, StepCount
  <1>8. CASE Purge
    BY <1>8, StepPurge
  <1>9. CASE Read
    BY <1>9, StepRead
  <1>10. CASE Write \/ UNCHANGED vars
    <2>1. UNCHANGED <<inq, wire, labels, ui, cbInQue>>
      BY <1>10 DEF Write, vars, appVars, driverVars
    <2> QED
      BY <2>1, StepAside
  <1>11. CASE OpenPortRefused
    BY <1>11, StepRefused
  <1> QED
    BY <1>1, <1>2, <1>3, <1>4, <1>5, <1>6, <1>7, <1>8, <1>9, <1>10, <1>11
       DEF Next, Environment, UIThread

\* Every variable keeps its type, and the queue is whole frames.
ShowInv == TypeOK /\ WakeInv /\ WholeInv

LEMMA ShowInvNext ==
  ASSUME Aligned, ShowInv, [Next]_vars
  PROVE  ShowInv' /\ ViewStep
  BY StepWhole, TypeNext, WakeNext DEF ShowInv

\* Whatever frames the board sends, as long as each counts what follows it and
\* the driver takes them whole, the dialog is a view of what the board said: it
\* shows the oldest frame there is, leaves some out, and never mixes two, repeats
\* one or turns two around (SupervisorDlg.cpp:272-420, com_class.h:347-386).
THEOREM IsViewCorrect ==
  ASSUME Aligned
  PROVE  Spec => IsView
PROOF
  <1>1. Init => ShowInv /\ V!Init
    BY TypeInit, WakeInit, WholeInit DEF ShowInv, V!Init, Init
  <1>2. ShowInv /\ [Next]_vars => ShowInv' /\ [V!Next]_(V!viewVars)
    BY ShowInvNext DEF ViewStep
  <1> QED
    BY <1>1, <1>2, PTL DEF Spec, IsView, V!Spec

-----------------------------------------------------------------------------
\* What a label shows.

\* The frames of SerialComm.c:77-139: a relay, a motion or a reading.
Protocol ==
    \A f \in BoardFrames :
        /\ f[1] \in {CMD_PIR, CMD_RELAY_1, CMD_RELAY_2} => f[2] = 1 /\ f[3] \in {0, 1}
        /\ f[1] \in {CMD_ULTRASONIC_RANGE, CMD_DHT} => f[2] = 4

LEMMA PairOf ==
  ASSUME NEW f \in Seq(Bytes), NEW i \in 1 .. Len(f), i + 1 <= Len(f)
  PROVE  SubSeq(f, i, i + 1) = <<f[i], f[i + 1]>>
PROOF
  <1> DEFINE u == SubSeq(f, i, i + 1)
             v == <<f[i], f[i + 1]>>
  <1>1. \A j \in i .. i + 1 : f[j] \in Bytes
    OBVIOUS
  <1>2. /\ u \in Seq(Bytes) /\ Len(u) = 2
        /\ \A j \in 1 .. 2 : u[j] = f[i + j - 1]
    <2> DEFINE n == i + 1
    <2>1. i \in Int /\ n \in Int /\ n - i + 1 = 2 /\ i <= n
      OBVIOUS
    <2>2. \A j \in i .. n : f[j] \in Bytes
      BY <1>1
    <2>3. u = SubSeq(f, i, n)
      OBVIOUS
    <2> HIDE DEF n, u
    <2>4. /\ u \in Seq(Bytes)
          /\ Len(u) = IF i <= n THEN n - i + 1 ELSE 0
          /\ \A j \in 1 .. n - i + 1 : u[j] = f[i + j - 1]
      BY <2>1, <2>2, <2>3, SubSeqProperties
    <2> QED
      BY <2>1, <2>4
  <1> HIDE DEF u
  <1>3. u[1] = f[i] /\ u[2] = f[i + 1]
    <2>1. i + 1 - 1 = i /\ i + 2 - 1 = i + 1
      OBVIOUS
    <2> QED
      BY <1>2, <2>1
  <1>4. v \in Seq(Bytes) /\ Len(v) = 2 /\ v[1] = f[i] /\ v[2] = f[i + 1]
    BY <1>1
  <1> HIDE DEF v
  <1>5. u = v
    BY <1>2, <1>3, <1>4, SeqEqual
  <1> QED
    BY <1>5 DEF u, v

LEMMA QuadrupleOf ==
  ASSUME NEW f \in Seq(Bytes), Len(f) = 6
  PROVE  SubSeq(f, 3, 6) = <<f[3], f[4], f[5], f[6]>>
PROOF
  <1> DEFINE u == SubSeq(f, 3, 6)
             v == <<f[3], f[4], f[5], f[6]>>
  <1>1. ASSUME NEW j \in 3 .. 6 PROVE f[j] \in Bytes
    <2>1. j \in 1 .. Len(f)
      OBVIOUS
    <2> QED
      BY <2>1, ElementOfSeq
  <1>2. /\ u \in Seq(Bytes) /\ Len(u) = 4
        /\ \A j \in 1 .. 4 : u[j] = f[3 + j - 1]
    BY <1>1, SubSeqProperties
  <1> HIDE DEF u
  <1>3. u[1] = f[3] /\ u[2] = f[4] /\ u[3] = f[5] /\ u[4] = f[6]
    BY <1>2
  <1>4. /\ v \in Seq(Bytes) /\ Len(v) = 4
        /\ v[1] = f[3] /\ v[2] = f[4] /\ v[3] = f[5] /\ v[4] = f[6]
    BY <1>1
  <1> HIDE DEF v
  <1>5. u = v
    BY <1>2, <1>3, <1>4, SeqEqual
  <1> QED
    BY <1>5 DEF u, v

\* A frame changes the labels it is about, to what it says about them.
LEMMA FrameShown ==
  ASSUME Protocol, NEW f \in BoardFrames, Framed(f), NEW shown \in LabelTexts,
         NEW l \in LabelNames
  PROVE  ShowFrame(shown, f)[l] = shown[l] \/ ShowFrame(shown, f)[l] \in Said(l)
PROOF
  <1> DEFINE b == [k \in 0 .. 5 |-> IF k < Len(f) THEN f[k + 1] ELSE 0]
             then == ShowFrame(shown, f)
  <1>1. ShowFrame(shown, f) = Show(shown, b)
    BY DEF ShowFrame
  <1>2. ASSUME NEW k \in 0 .. 5 PROVE b[k] = IF k < Len(f) THEN f[k + 1] ELSE 0
    OBVIOUS
  <1> HIDE DEF b
  <1>3. f \in Seq(Bytes) /\ Len(f) >= 2 /\ Len(f) = f[2] + 2
    BY DEF Framed
  <1>4. b[0] = f[1]
    BY <1>2, <1>3
  <1>5. \A x \in LabelNames : shown[x] \in Seq(Bytes)
    BY DEF LabelTexts
  <1>6. shown = [x \in LabelNames |-> shown[x]]
    BY DEF LabelTexts
  <1> USE DEF CMD_PIR, CMD_ULTRASONIC_RANGE, CMD_RELAY_1, CMD_RELAY_2, CMD_DHT
  <1>7. CASE f[1] \in {1, 3, 4}
    <2>1. Len(f) = 3 /\ f[3] \in {0, 1}
      BY <1>3, <1>7 DEF Protocol
    <2>2. OnOff(b[2]) = <<f[3]>>
      BY <1>2, <2>1 DEF OnOff
    <2>3. CASE f[1] = 1
      <3>1. then = [shown EXCEPT !["PIR"] = <<f[3]>>]
        BY <1>1, <1>4, <2>2, <2>3 DEF Show
      <3>2. <<f[3]>> \in Said("PIR")
        BY <2>3 DEF Said
      <3> QED
        BY <1>6, <3>1, <3>2
    <2>4. CASE f[1] = 3
      <3>1. then = [shown EXCEPT !["Locker"] = <<f[3]>>]
        BY <1>1, <1>4, <2>2, <2>4 DEF Show
      <3>2. <<f[3]>> \in Said("Locker")
        BY <2>4 DEF Said
      <3> QED
        BY <1>6, <3>1, <3>2
    <2>5. CASE f[1] = 4
      <3>1. then = [shown EXCEPT !["Fan"] = <<f[3]>>]
        BY <1>1, <1>4, <2>2, <2>5 DEF Show
      <3>2. <<f[3]>> \in Said("Fan")
        BY <2>5 DEF Said
      <3> QED
        BY <1>6, <3>1, <3>2
    <2> QED
      BY <1>7, <2>3, <2>4, <2>5
  <1>8. CASE f[1] \in {2, 5}
    <2>1. Len(f) = 6
      BY <1>3, <1>8 DEF Protocol
    <2>2. b[2] = f[3] /\ b[3] = f[4] /\ b[4] = f[5] /\ b[5] = f[6]
      BY <1>2, <2>1
    <2>3. CASE f[1] = 2
      <3>1. then = IF PositiveFloat(b)
                   THEN [shown EXCEPT !["Distance"] = <<b[2], b[3], b[4], b[5]>>]
                   ELSE shown
        BY <1>1, <1>4, <2>3 DEF Show
      <3>2. <<b[2], b[3], b[4], b[5]>> \in Said("Distance")
        <4>1. SubSeq(f, 3, 6) \in Said("Distance")
          BY <2>3 DEF Said
        <4> QED
          BY <1>3, <2>1, <2>2, <4>1, QuadrupleOf
      <3> QED
        BY <1>6, <3>1, <3>2
    <2>4. CASE f[1] = 5
      <3>1. then = [shown EXCEPT
                       !["Humid"] = IF b[2] # 0 THEN <<b[2], b[3]>> ELSE @,
                       !["Temperature"] = IF b[4] # 0 THEN <<b[4], b[5]>> ELSE @]
        BY <1>1, <1>4, <2>4 DEF Show
      <3>2. <<b[2], b[3]>> \in Said("Humid")
        <4>1. SubSeq(f, 3, 4) = <<f[3], f[4]>>
          <5>1. 3 + 1 = 4 /\ 3 \in 1 .. Len(f) /\ 3 + 1 <= Len(f)
            BY <2>1
          <5>2. SubSeq(f, 3, 3 + 1) = <<f[3], f[3 + 1]>>
            BY <1>3, <5>1, PairOf
          <5> QED
            BY ONLY <5>1, <5>2
        <4>2. SubSeq(f, 3, 4) \in Said("Humid")
          BY <2>4 DEF Said
        <4> QED
          BY <2>2, <4>1, <4>2
      <3>3. <<b[4], b[5]>> \in Said("Temperature")
        <4>1. SubSeq(f, 5, 6) = <<f[5], f[6]>>
          <5>1. 5 + 1 = 6 /\ 5 \in 1 .. Len(f) /\ 5 + 1 <= Len(f)
            BY <2>1
          <5>2. SubSeq(f, 5, 5 + 1) = <<f[5], f[5 + 1]>>
            BY <1>3, <5>1, PairOf
          <5> QED
            BY ONLY <5>1, <5>2
        <4>2. SubSeq(f, 5, 6) \in Said("Temperature")
          BY <2>4 DEF Said
        <4> QED
          BY <2>2, <4>1, <4>2
      <3> QED
        BY <1>6, <3>1, <3>2, <3>3
    <2> QED
      BY <1>8, <2>3, <2>4
  <1>9. CASE ~(f[1] \in {1, 2, 3, 4, 5})
    <2>1. then = shown
      BY <1>1, <1>4, <1>9 DEF Show
    <2> QED
      BY <2>1
  <1> QED
    BY <1>7, <1>8, <1>9

\* Only a read and a new port change the labels.
LEMMA LabelsStep ==
  ASSUME Aligned, Protocol, ShowInv, NothingInvented, [Next]_vars
  PROVE  NothingInvented'
PROOF
  <1>1. CASE Environment \/ ComThread \/ SetHwnd \/ ReceiveMessage \/ Purge \/ Write
             \/ UNCHANGED vars
    <2>1. labels' = labels
      BY <1>1 DEF Environment, ComThread, BoardSends, BytesArrive, BytesLost,
                  BytesDamaged, ThreadStarts, ThreadEnds, ThreadWakes, ThreadClearsError,
                  ThreadNotifies, SetHwnd, ReceiveMessage, Purge, Write, vars, appVars
    <2> QED
      BY <2>1 DEF NothingInvented
  <1>2. CASE OpenPort \/ OpenPortRefused \/ OpenPortFails
    <2>1. labels' = NoLabels
      BY <1>2 DEF OpenPort, OpenPortRefused, OpenPortFails
    <2>2. \A l \in LabelNames : NoLabels[l] = Blank
      BY DEF NoLabels
    <2> QED
      BY <2>1, <2>2 DEF NothingInvented
  <1>3. CASE Read
    <2>1. PICK fs, p, k : /\ Cuts(inq, fs, p) /\ k \in 1 .. Len(fs)
                          /\ labels' = ShowFrame(labels, fs[1])
      BY <1>3, ReadShows DEF ShowInv
    <2>2. PICK f \in BoardFrames : labels' = ShowFrame(labels, f)
      <3>1. fs \in Seq(BoardFrames)
        BY <2>1 DEF Cuts
      <3>2. fs[1] \in BoardFrames
        BY <2>1, <3>1
      <3> QED
        BY <2>1, <3>2
    <2>3. Framed(f) /\ labels \in LabelTexts
      BY TypeParts DEF Aligned, ShowInv, Contents
    <2>4. \A l \in LabelNames : labels'[l] = labels[l] \/ labels'[l] \in Said(l)
      BY <2>2, <2>3, FrameShown
    <2> QED
      BY <2>4 DEF NothingInvented
  <1> QED
    BY <1>1, <1>2, <1>3 DEF Next, UIThread

\* With frames as SerialComm.c:77-139 makes them, a label never shows what no
\* message carries: no mixture of two messages, no text from the bytes behind a
\* message's end (SupervisorDlg.cpp:301-420, SerialProtocol.h:37).
THEOREM NothingInventedCorrect ==
  ASSUME Aligned, Protocol
  PROVE  Spec => []NothingInvented
PROOF
  <1>1. Init => ShowInv /\ NothingInvented
    <2>1. Init => NothingInvented
      BY DEF Init, NothingInvented, NoLabels
    <2> QED
      BY <2>1, TypeInit, WakeInit, WholeInit DEF ShowInv
  <1>2. ShowInv /\ NothingInvented /\ [Next]_vars => (ShowInv /\ NothingInvented)'
    BY ShowInvNext, LabelsStep
  <1> QED
    BY <1>1, <1>2, PTL DEF Spec
=============================================================================
