---------------------------- MODULE SettingsProofs ----------------------------
(***************************************************************************)
(* What a click on OK brings about, for every value of the boxes: the      *)
(* invariant ConfirmedIsHeld of module Settings.  It takes a strengthening *)
(* that says at each step of the handler which settings have been dealt    *)
(* with, and what m_fHumid stands for in between.  TypeCorrect says that   *)
(* nothing is on its way through a port that is closed, and that the room  *)
(* a click asks for is all that it takes.                                  *)
(***************************************************************************)
EXTENDS Settings, SequenceTheorems, TLAPS

Messages == [cmd : SetKinds, value : Int]

-----------------------------------------------------------------------------
\* The conversion loses at most a hundredth.

LEMMA HundredthsInt == \A v \in Hundredths : v \in Int /\ v \in UpToOne(v)
  BY DEF Hundredths, UpToOne

LEMMA ScaledUpToOne ==
  ASSUME NEW v \in Hundredths, NEW S \in {2 ^ 16, 2 ^ 17, 2 ^ 18, 2 ^ 19},
         NEW f \in Nat, f = (v * S + 50) \div 100
  PROVE  100 * (f \div S) + (100 * (f % S)) \div S \in UpToOne(v)
PROOF
  <1>1. S \in {65536, 131072, 262144, 524288}
    OBVIOUS
  <1> QED
    BY <1>1 DEF UpToOne, Hundredths

LEMMA CarriedUpToOne ==
  ASSUME NEW v \in Hundredths
  PROVE  Carried(v) \in Int /\ Carried(v) \in UpToOne(v)
PROOF
  <1> DEFINE S == Scale(v)
             f == (v * S + 50) \div 100
  <1>1. S \in {2 ^ 16, 2 ^ 17, 2 ^ 18, 2 ^ 19}
    BY DEF Scale
  <1>2. S \in {65536, 131072, 262144, 524288}
    BY <1>1
  <1>3. Carried(v) = 100 * (f \div S) + (100 * (f % S)) \div S
    BY DEF Carried
  <1> HIDE DEF S
  <1>4. f \in Nat
    BY <1>2 DEF Hundredths
  <1>5. 100 * (f \div S) + (100 * (f % S)) \div S \in UpToOne(v)
    BY <1>1, <1>4, ScaledUpToOne
  <1>6. v \in Int
    BY DEF Hundredths
  <1> QED
    BY <1>3, <1>5, <1>6 DEF UpToOne

-----------------------------------------------------------------------------
\* What the steps of the queue do to what will arrive.

LEMMA TransmitArrives ==
  ASSUME NEW q \in Seq(Messages), q # <<>>, NEW h \in [SetKinds -> Int],
         NEW s \in SetKinds, NEW values, Arrives(q, h, s, values)
  PROVE  Arrives(Tail(q), [h EXCEPT ![Head(q).cmd] = Head(q).value], s, values)
PROOF
  <1> DEFINE r == Tail(q)
             g == [h EXCEPT ![Head(q).cmd] = Head(q).value]
  <1> SUFFICES Arrives(r, g, s, values)
    OBVIOUS
  <1>1. /\ r \in Seq(Messages) /\ Len(r) = Len(q) - 1
        /\ \A n \in DOMAIN r : n + 1 \in DOMAIN q /\ r[n] = q[n + 1]
    OBVIOUS
  <1>2. Head(q) = q[1] /\ 1 \in DOMAIN q /\ DOMAIN q = 1 .. Len(q)
    OBVIOUS
  <1>3. \A n \in DOMAIN q : n # 1 => n - 1 \in DOMAIN r /\ r[n - 1] = q[n]
    BY <1>1, <1>2
  <1>4. DOMAIN r \subseteq Int /\ DOMAIN q \subseteq Int
    BY <1>1
  <1> HIDE DEF r
  <1>5. CASE (\A n \in DOMAIN q : q[n].cmd # s) /\ h[s] \in values
    <2>1. g[s] = h[s]
      BY <1>2, <1>5
    <2>2. \A n \in DOMAIN r : r[n].cmd # s
      BY <1>1, <1>5
    <2> QED
      BY <1>5, <2>1, <2>2 DEF Arrives
  <1>6. CASE \E n \in DOMAIN q :
                /\ q[n].cmd = s /\ q[n].value \in values
                /\ \A k \in DOMAIN q : k > n => q[k].cmd # s
    <2>0. PICK n \in DOMAIN q :
             /\ q[n].cmd = s /\ q[n].value \in values
             /\ \A k \in DOMAIN q : k > n => q[k].cmd # s
      BY <1>6
    <2>1. CASE n = 1
      <3>1. \A k \in DOMAIN r : r[k].cmd # s
        BY <1>1, <1>2, <2>0, <2>1
      <3>2. g[s] \in values
        BY <1>2, <2>0, <2>1
      <3> QED
        BY <3>1, <3>2 DEF Arrives
    <2>2. CASE n # 1
      <3>1. n - 1 \in DOMAIN r /\ r[n - 1] = q[n]
        BY <1>3, <2>2
      <3>2. ASSUME NEW k \in DOMAIN r, k > n - 1 PROVE r[k].cmd # s
        <4>1. k + 1 \in DOMAIN q /\ r[k] = q[k + 1]
          BY <1>1
        <4>2. k + 1 > n
          BY <1>4, <3>2
        <4> QED
          BY <2>0, <4>1, <4>2
      <3> QED
        BY <2>0, <3>1, <3>2 DEF Arrives
    <2> QED
      BY <2>1, <2>2
  <1>7. \/ (\A n \in DOMAIN q : q[n].cmd # s) /\ h[s] \in values
        \/ \E n \in DOMAIN q :
              /\ q[n].cmd = s /\ q[n].value \in values
              /\ \A k \in DOMAIN q : k > n => q[k].cmd # s
    BY DEF Arrives
  <1> QED
    BY <1>5, <1>6, <1>7

LEMMA AppendArrives ==
  ASSUME NEW q \in Seq(Messages), NEW h, NEW s, NEW values, NEW m \in Messages,
         IF m.cmd = s THEN m.value \in values ELSE Arrives(q, h, s, values)
  PROVE  Arrives(Append(q, m), h, s, values)
PROOF
  <1> DEFINE r == Append(q, m)
  <1>1. /\ DOMAIN r = 1 .. (Len(q) + 1) /\ DOMAIN q = 1 .. Len(q)
        /\ r[Len(q) + 1] = m /\ Len(q) \in Nat
        /\ \A n \in DOMAIN q : r[n] = q[n]
    OBVIOUS
  <1> HIDE DEF r
  <1>2. \A n \in DOMAIN r : n \in DOMAIN q \/ n = Len(q) + 1
    BY <1>1
  <1>3. CASE m.cmd = s
    <2>1. Len(q) + 1 \in DOMAIN r
      BY <1>1
    <2>2. \A k \in DOMAIN r : ~(k > Len(q) + 1)
      BY <1>1
    <2> QED
      BY <1>1, <1>3, <2>1, <2>2 DEF Arrives, r
  <1>4. CASE m.cmd # s
    <2>1. CASE (\A n \in DOMAIN q : q[n].cmd # s) /\ h[s] \in values
      BY <1>1, <1>2, <1>4, <2>1 DEF Arrives, r
    <2>2. ASSUME NEW n \in DOMAIN q, q[n].cmd = s, q[n].value \in values,
                 \A k \in DOMAIN q : k > n => q[k].cmd # s
          PROVE  Arrives(r, h, s, values)
      <3>1. n \in DOMAIN r /\ r[n] = q[n]
        BY <1>1
      <3>2. \A k \in DOMAIN r : k > n => r[k].cmd # s
        BY <1>1, <1>2, <1>4, <2>2
      <3> QED
        BY <2>2, <3>1, <3>2 DEF Arrives
    <2> QED
      BY <1>4, <2>1, <2>2 DEF Arrives, r
  <1> QED
    BY <1>3, <1>4

\* A queue that is dropped takes away what was on it, and nothing else.
LEMMA DropArrives ==
  ASSUME NEW q \in Seq(Messages), NEW h, NEW s, NEW values,
         Arrives(q, h, s, values)
  PROVE  s \in {q[n].cmd : n \in DOMAIN q} \/ Arrives(<<>>, h, s, values)
  BY DEF Arrives

-----------------------------------------------------------------------------
\* The strengthening of ConfirmedIsHeld.

SettingsTypes ==
    /\ opened \in BOOLEAN /\ lineError \in BOOLEAN
    /\ ok \in SetKinds \cup {"idle"}
    /\ call \in {"none", "clear", "purge", "file"}
    /\ call # "none" => ok # "idle"
    /\ boxes \in [SetKinds -> Hundredths]
    /\ m_fHumid \in Hundredths
    /\ outq \in Seq(Messages)
    /\ has \in [SetKinds -> Int]

\* What the handler has done with a setting before it went on to the next.
Done(s) ==
    CASE s = "distance" -> ok \in {"humid", "temperature", "idle"}
      [] s = "humid" -> ok \in {"temperature", "idle"}
      [] s = "temperature" -> ok = "idle"

DistanceInv ==
    Done("distance") =>
        \/ "distance" \in lost
        \/ Arrives(outq, has, "distance", {boxes["distance"]})

HumidInv ==
    Done("humid") =>
        \/ "humid" \in lost
        \/ boxes["humid"] = lastTemperature
        \/ Arrives(outq, has, "humid", UpToOne(boxes["humid"]))

TemperatureInv ==
    Done("temperature") =>
        \/ "temperature" \in lost
        \/ boxes["temperature"] = Defaults["temperature"]
        \/ Arrives(outq, has, "temperature", UpToOne(boxes["temperature"]))

\* UpdateTemperature has stored its value in m_fHumid.
Stored ==
    /\ ok = "idle" \/ (ok = "temperature" /\ call # "none")
    /\ boxes["temperature"] # Defaults["temperature"]

\* What m_fHumid stands for: the temperature of this click, the humidity that
\* is just being written, or else what the board holds, or an old temperature.
StandsFor ==
    IF Stored THEN m_fHumid = boxes["temperature"]
    ELSE IF ok = "humid" /\ call # "none" THEN m_fHumid = boxes["humid"]
    ELSE \/ "humid" \in lost
         \/ m_fHumid = lastTemperature
         \/ Arrives(outq, has, "humid", UpToOne(m_fHumid))

SettingsInv ==
    SettingsTypes /\ DistanceInv /\ HumidInv /\ TemperatureInv /\ StandsFor

LEMMA BoxesTyped ==
  ASSUME NEW d \in DistanceValues, NEW h \in HumidValues, NEW t \in TemperatureValues
  PROVE  [distance |-> d, humid |-> h, temperature |-> t] \in [SetKinds -> Hundredths]
PROOF
  <1>1. /\ DistanceValues = BoxValues["distance"]
        /\ HumidValues = BoxValues["humid"]
        /\ TemperatureValues = BoxValues["temperature"]
    BY DEF BoxValues
  <1>2. \A s \in SetKinds : BoxValues[s] \subseteq Hundredths
    BY SettingsAssumption
  <1>3. d \in Hundredths /\ h \in Hundredths /\ t \in Hundredths
    BY <1>1, <1>2 DEF SetKinds
  <1> QED
    BY <1>3 DEF SetKinds

LEMMA DefaultsTyped == Defaults \in [SetKinds -> Hundredths]
PROOF
  <1>1. 2000 \in Hundredths /\ 4000 \in Hundredths /\ 2100 \in Hundredths
    BY DEF Hundredths
  <1> QED
    BY <1>1 DEF Defaults, SetKinds

LEMMA MessageTyped ==
  ASSUME boxes \in [SetKinds -> Hundredths], NEW s \in SetKinds
  PROVE  /\ Message(s) \in Messages
         /\ Message(s).cmd = s
         /\ s = "distance" => Message(s).value = boxes[s]
         /\ s # "distance" => Message(s).value \in UpToOne(boxes[s])
PROOF
  <1>0. boxes[s] \in Hundredths
    OBVIOUS
  <1>1. boxes[s] \in Hundredths /\ boxes[s] \in Int
    BY <1>0, HundredthsInt
  <1>2. Carried(boxes[s]) \in Int /\ Carried(boxes[s]) \in UpToOne(boxes[s])
    BY <1>1, CarriedUpToOne
  <1> QED
    BY <1>1, <1>2 DEF Message, Messages

LEMMA SettingsInit == Init => SettingsInv
PROOF
  <1> SUFFICES ASSUME Init PROVE SettingsInv
    OBVIOUS
  <1>1. \A s : \A values : Defaults[s] \in values => Arrives(outq, has, s, values)
    BY DEF Init, Arrives
  <1>2. \A v \in Int : v \in UpToOne(v)
    BY DEF UpToOne
  <1>3. \A s \in SetKinds : Defaults[s] \in Hundredths /\ Defaults[s] \in Int
    BY DefaultsTyped, HundredthsInt
  <1>4. SettingsTypes
    <2>1. has \in [SetKinds -> Int]
      BY DefaultsTyped, HundredthsInt DEF Init
    <2>2. outq \in Seq(Messages)
      BY DEF Init
    <2> QED
      BY <1>3, <2>1, <2>2, DefaultsTyped DEF Init, SettingsTypes, SetKinds
  <1>5. DistanceInv
    BY <1>1 DEF Init, DistanceInv
  <1>6. HumidInv
    BY <1>1, <1>2, <1>3 DEF Init, HumidInv, SetKinds
  <1>7. TemperatureInv
    BY DEF Init, TemperatureInv
  <1>8. StandsFor
    BY <1>1, <1>2, <1>3 DEF Init, StandsFor, Stored, SetKinds
  <1> QED
    BY <1>4, <1>5, <1>6, <1>7, <1>8 DEF SettingsInv

\* A step that leaves the messages, the boxes and m_fHumid alone, and the
\* handler between the same two settings.
LEMMA QuietStep ==
  ASSUME SettingsInv, UNCHANGED <<ok, boxes, m_fHumid, outq, has, lost, lastTemperature>>,
         SettingsTypes', call' # "none" <=> call # "none"
  PROVE  SettingsInv'
  BY DEF SettingsInv, DistanceInv, HumidInv, TemperatureInv, StandsFor, Stored, Done

\* Messages arrive, or are lost and noted: what was to arrive still does.
LEMMA QueueStep ==
  ASSUME SettingsInv, UNCHANGED <<ok, boxes, m_fHumid, lastTemperature>>,
         SettingsTypes', call' # "none" <=> call # "none",
         lost \subseteq lost',
         \A s \in SetKinds : \A values :
            Arrives(outq, has, s, values) => s \in lost' \/ Arrives(outq', has', s, values)
  PROVE  SettingsInv'
PROOF
  <1> USE DEF SettingsInv, Done
  <1>1. DistanceInv'
    BY DEF DistanceInv, SetKinds
  <1>2. HumidInv'
    BY DEF HumidInv, SetKinds
  <1>3. TemperatureInv'
    BY DEF TemperatureInv, SetKinds
  <1>4. StandsFor'
    BY DEF StandsFor, Stored, SetKinds
  <1> QED
    BY <1>1, <1>2, <1>3, <1>4

LEMMA DropStep ==
  ASSUME SettingsInv, lost' = lost \cup {outq[n].cmd : n \in DOMAIN outq},
         outq' = <<>>, has' = has
  PROVE  \A s \in SetKinds : \A values :
            Arrives(outq, has, s, values) => s \in lost' \/ Arrives(outq', has', s, values)
PROOF
  <1> SUFFICES ASSUME NEW s \in SetKinds, NEW values, Arrives(outq, has, s, values)
               PROVE  s \in lost' \/ Arrives(outq', has', s, values)
    OBVIOUS
  <1>1. outq \in Seq(Messages)
    BY DEF SettingsInv, SettingsTypes
  <1>2. s \in {outq[n].cmd : n \in DOMAIN outq} \/ Arrives(<<>>, has, s, values)
    BY <1>1, DropArrives
  <1> QED
    BY <1>2

LEMMA EnvironmentStep == SettingsInv /\ Environment => SettingsInv'
PROOF
  <1> SUFFICES ASSUME SettingsInv, Environment PROVE SettingsInv'
    OBVIOUS
  <1>1. CASE OpenOrClose
    <2>1. SettingsTypes'
      <3>1. outq' \in Seq(Messages)
        BY <1>1 DEF OpenOrClose
      <3>2. opened' \in BOOLEAN
        BY <1>1 DEF OpenOrClose
      <3>3. lineError' \in BOOLEAN
        BY <1>1 DEF OpenOrClose
      <3> QED
        BY <1>1, <3>1, <3>2, <3>3 DEF OpenOrClose, SettingsInv, SettingsTypes
    <2> QED
      BY <1>1, <2>1, DropStep, QueueStep DEF OpenOrClose
  <1>2. CASE ErrorLatched \/ ErrorTaken
    <2>1. SettingsTypes'
      BY <1>2 DEF ErrorLatched, ErrorTaken, SettingsInv, SettingsTypes
    <2> QED
      BY <1>2, <2>1, QuietStep DEF ErrorLatched, ErrorTaken
  <1>3. CASE Transmit
    <2>1. /\ outq \in Seq(Messages) /\ outq # <<>> /\ has \in [SetKinds -> Int]
          /\ has' = [has EXCEPT ![Head(outq).cmd] = Head(outq).value]
          /\ outq' = Tail(outq)
      BY <1>3 DEF Transmit, SettingsInv, SettingsTypes
    <2>2. Head(outq) \in Messages
      BY <2>1
    <2>3. has' \in [SetKinds -> Int] /\ outq' \in Seq(Messages)
      BY <2>1, <2>2 DEF Messages
    <2>4. SettingsTypes'
      BY <1>3, <2>3 DEF Transmit, SettingsInv, SettingsTypes
    <2>5. \A s \in SetKinds : \A values :
             Arrives(outq, has, s, values) => Arrives(outq', has', s, values)
      BY <2>1, TransmitArrives
    <2> QED
      BY <1>3, <2>4, <2>5, QueueStep DEF Transmit
  <1> QED
    BY <1>1, <1>2, <1>3 DEF Environment

LEMMA PortStep == SettingsInv /\ Port => SettingsInv'
PROOF
  <1> SUFFICES ASSUME SettingsInv, Port PROVE SettingsInv'
    OBVIOUS
  <1>1. CASE ClearCommError
    <2>1. SettingsTypes'
      BY <1>1 DEF ClearCommError, SettingsInv, SettingsTypes
    <2> QED
      BY <1>1, <2>1, QuietStep DEF ClearCommError
  <1>2. CASE PurgeComm
    <2>1. SettingsTypes'
      BY <1>2 DEF PurgeComm, SettingsInv, SettingsTypes
    <2> QED
      BY <1>2, <2>1, DropStep, QueueStep DEF PurgeComm
  <1>3. CASE WriteFile
    <2> DEFINE m == Message(ok)
    <2>1. /\ ok \in SetKinds /\ call # "none" /\ outq \in Seq(Messages)
          /\ boxes \in [SetKinds -> Hundredths]
      BY <1>3 DEF WriteFile, SettingsInv, SettingsTypes
    <2>2. /\ m \in Messages /\ m.cmd = ok
          /\ ok = "distance" => m.value = boxes[ok]
          /\ ok # "distance" => m.value \in UpToOne(boxes[ok])
      BY <2>1, MessageTyped
    <2>3. \/ outq' = Append(outq, m) /\ lost' = lost \ {ok}
          \/ outq' = outq /\ lost' = lost \cup {ok}
      BY <1>3 DEF WriteFile
    <2> HIDE DEF m
    <2>4. /\ call' = "none" /\ ok' = After(ok)
          /\ UNCHANGED <<opened, lineError, boxes, m_fHumid, has, lastTemperature>>
      BY <1>3 DEF WriteFile
    <2>5. SettingsTypes'
      <3>1. outq' \in Seq(Messages)
        BY <2>1, <2>2, <2>3
      <3>2. ok' \in SetKinds \cup {"idle"}
        BY <2>1, <2>4 DEF After, SetKinds
      <3> QED
        BY <2>4, <3>1, <3>2 DEF SettingsInv, SettingsTypes
    <2>6. ASSUME NEW s \in SetKinds, NEW values,
                 IF s = ok THEN m.value \in values
                 ELSE s \in lost \/ Arrives(outq, has, s, values)
          PROVE  s \in lost' \/ Arrives(outq', has', s, values)
      <3>1. CASE outq' = Append(outq, m) /\ lost' = lost \ {ok}
        <4>1. CASE s # ok /\ s \in lost
          BY <3>1, <4>1
        <4>2. CASE s = ok \/ Arrives(outq, has, s, values)
          <5>1. IF m.cmd = s THEN m.value \in values ELSE Arrives(outq, has, s, values)
            BY <2>2, <2>6, <4>2
          <5>2. Arrives(Append(outq, m), has, s, values)
            BY <2>1, <2>2, <5>1, AppendArrives
          <5> QED
            BY <2>4, <3>1, <5>2
        <4> QED
          BY <2>6, <4>1, <4>2
      <3>2. CASE outq' = outq /\ lost' = lost \cup {ok}
        BY <2>4, <2>6, <3>2
      <3> QED
        BY <2>3, <3>1, <3>2
    <2> USE DEF SettingsInv, Done, After
    <2>7. DistanceInv'
      BY <2>1, <2>2, <2>4, <2>6 DEF DistanceInv, SetKinds
    <2>8. HumidInv'
      BY <2>1, <2>2, <2>4, <2>6 DEF HumidInv, SetKinds
    <2>9. TemperatureInv'
      BY <2>1, <2>2, <2>4, <2>6 DEF TemperatureInv, SetKinds
    <2>10. StandsFor'
      BY <2>1, <2>2, <2>4, <2>6 DEF StandsFor, Stored, SetKinds
    <2> QED
      BY <2>5, <2>7, <2>8, <2>9, <2>10
  <1> QED
    BY <1>1, <1>2, <1>3 DEF Port

\* write() is entered, or the port is closed and the message lost.
LEMMA StartWriteTypes ==
  ASSUME SettingsInv, NEW s \in SetKinds, ok = s, call = "none", StartWrite(s),
         m_fHumid' \in Hundredths
  PROVE  SettingsTypes'
PROOF
  <1>1. After(s) \in SetKinds \cup {"idle"}
    BY DEF After, SetKinds
  <1>2. CASE opened
    BY <1>2 DEF StartWrite, SettingsInv, SettingsTypes, SetKinds
  <1>3. CASE ~opened
    BY <1>1, <1>3 DEF StartWrite, SettingsInv, SettingsTypes
  <1> QED
    BY <1>2, <1>3

LEMMA DialogStep == SettingsInv /\ Dialog => SettingsInv'
PROOF
  <1> SUFFICES ASSUME SettingsInv, Dialog PROVE SettingsInv'
    OBVIOUS
  <1>0. /\ \A s \in SetKinds : boxes[s] \in Hundredths
        /\ {"distance", "humid", "temperature"} = SetKinds
    BY DEF SettingsInv, SettingsTypes, SetKinds
  <1>1. CASE OnBnClickedOk
    <2>1. boxes' \in [SetKinds -> Hundredths]
      BY <1>1, BoxesTyped DEF OnBnClickedOk
    <2>2. SettingsTypes'
      BY <1>0, <1>1, <2>1 DEF OnBnClickedOk, SettingsInv, SettingsTypes
    <2>3. DistanceInv' /\ HumidInv' /\ TemperatureInv'
      BY <1>1 DEF OnBnClickedOk, DistanceInv, HumidInv, TemperatureInv, Done
    <2>4. StandsFor'
      <3>1. CASE Stored
        BY <1>1, <3>1 DEF OnBnClickedOk, SettingsInv, StandsFor, Stored
      <3>2. CASE ~Stored
        BY <1>1, <3>2 DEF OnBnClickedOk, SettingsInv, StandsFor, Stored
      <3> QED
        BY <3>1, <3>2
    <2> QED
      BY <2>2, <2>3, <2>4 DEF SettingsInv
  <1>2. CASE UpdateDistance
    <2>1. SettingsTypes'
      BY <1>0, <1>2, StartWriteTypes DEF UpdateDistance, SettingsInv, SettingsTypes
    <2>2. DistanceInv' /\ HumidInv' /\ TemperatureInv'
      BY <1>2 DEF UpdateDistance, StartWrite, DistanceInv, HumidInv, TemperatureInv,
                  Done, After
    <2>3. StandsFor'
      BY <1>2 DEF UpdateDistance, StartWrite, SettingsInv, StandsFor, Stored, After
    <2> QED
      BY <2>1, <2>2, <2>3 DEF SettingsInv
  <1>3. CASE UpdateHumid
    <2>1. CASE boxes["humid"] = m_fHumid /\ Skip("humid")
      <3>1. SettingsTypes'
        BY <1>3, <2>1, <1>0 DEF UpdateHumid, Skip, After, SettingsInv, SettingsTypes
      <3>2. DistanceInv' /\ TemperatureInv'
        BY <1>3, <2>1 DEF UpdateHumid, Skip, SettingsInv, DistanceInv, TemperatureInv,
                          Done, After
      <3>3. HumidInv' /\ StandsFor'
        BY <1>3, <2>1 DEF UpdateHumid, Skip, SettingsInv, HumidInv, StandsFor, Stored,
                          Done, After
      <3> QED
        BY <3>1, <3>2, <3>3 DEF SettingsInv
    <2>2. CASE m_fHumid' = boxes["humid"] /\ StartWrite("humid")
      <3>1. SettingsTypes'
        BY <1>0, <1>3, <2>2, StartWriteTypes DEF UpdateHumid
      <3>2. DistanceInv' /\ TemperatureInv'
        BY <1>3, <2>2 DEF UpdateHumid, StartWrite, SettingsInv, DistanceInv,
                          TemperatureInv, Done, After
      <3>3. HumidInv' /\ StandsFor'
        BY <1>3, <2>2 DEF UpdateHumid, StartWrite, SettingsInv, HumidInv, StandsFor,
                          Stored, Done, After
      <3> QED
        BY <3>1, <3>2, <3>3 DEF SettingsInv
    <2> QED
      BY <1>3, <2>1, <2>2 DEF UpdateHumid
  <1>4. CASE UpdateTemperature
    <2>1. CASE boxes["temperature"] = Defaults["temperature"] /\ Skip("temperature")
      <3>1. SettingsTypes'
        BY <1>4, <2>1 DEF UpdateTemperature, Skip, After, SettingsInv, SettingsTypes
      <3>2. DistanceInv' /\ HumidInv' /\ TemperatureInv'
        BY <1>4, <2>1 DEF UpdateTemperature, Skip, SettingsInv, DistanceInv, HumidInv,
                          TemperatureInv, Done, After
      <3>3. StandsFor'
        BY <1>4, <2>1 DEF UpdateTemperature, Skip, SettingsInv, StandsFor, Stored, After
      <3> QED
        BY <3>1, <3>2, <3>3 DEF SettingsInv
    <2>2. CASE /\ boxes["temperature"] # Defaults["temperature"]
               /\ m_fHumid' = boxes["temperature"] /\ StartWrite("temperature")
      <3>1. SettingsTypes'
        BY <1>0, <1>4, <2>2, StartWriteTypes DEF UpdateTemperature
      <3>2. DistanceInv' /\ HumidInv' /\ TemperatureInv'
        BY <1>4, <2>2 DEF UpdateTemperature, StartWrite, SettingsInv, DistanceInv,
                          HumidInv, TemperatureInv, Done, After
      <3>3. StandsFor'
        BY <1>4, <2>2 DEF UpdateTemperature, StartWrite, SettingsInv, StandsFor,
                          Stored, After
      <3> QED
        BY <3>1, <3>2, <3>3 DEF SettingsInv
    <2> QED
      BY <1>4, <2>1, <2>2 DEF UpdateTemperature
  <1> QED
    BY <1>1, <1>2, <1>3, <1>4 DEF Dialog

LEMMA SettingsNext == SettingsInv /\ [Next]_settingsVars => SettingsInv'
PROOF
  <1> SUFFICES ASSUME SettingsInv, [Next]_settingsVars PROVE SettingsInv'
    OBVIOUS
  <1>1. CASE UNCHANGED settingsVars
    BY <1>1 DEF settingsVars, SettingsInv, SettingsTypes, DistanceInv, HumidInv,
                TemperatureInv, StandsFor, Stored, Done
  <1> QED
    BY <1>1, EnvironmentStep, PortStep, DialogStep DEF Next

\* Whatever the user puts into the boxes, whenever the port is opened, closed
\* or disturbed: what was confirmed with OK is what a board that takes every
\* message holds, but for the exceptions ConfirmedIsHeld names
\* (SupervisorDlg.cpp:427-500, com_class.h:388-421).
THEOREM ConfirmedIsHeldCorrect == Spec => []ConfirmedIsHeld
PROOF
  <1>1. SettingsInv => ConfirmedIsHeld
    BY DEF SettingsInv, ConfirmedIsHeld, DistanceInv, HumidInv, TemperatureInv, Done
  <1> QED
    BY SettingsInit, SettingsNext, <1>1, PTL DEF Spec

-----------------------------------------------------------------------------
\* Types, and the room that is left for what a click is still to write.

Left(update) ==
    CASE update = "distance" -> 3
      [] update = "humid" -> 2
      [] update = "temperature" -> 1
      [] OTHER -> 0

ControlTypes ==
    /\ opened \in BOOLEAN /\ lineError \in BOOLEAN
    /\ ok \in SetKinds \cup {"idle"}
    /\ call \in {"none", "clear", "purge", "file"}
    /\ call # "none" => opened /\ ok # "idle"
    /\ lost \subseteq SetKinds
    /\ has \in [SetKinds -> Int]

BoxTypes ==
    /\ \A s \in SetKinds : boxes[s] \in BoxValues[s] \cup {Defaults[s]}
    /\ m_fHumid \in HumidValues \cup TemperatureValues \cup {Defaults["humid"]}
    /\ lastTemperature \in TemperatureValues \cup {Never}

QueueTypes ==
    /\ outq \in Seq(Messages)
    /\ outq # <<>> => opened
    /\ Len(outq) + Left(ok) <= MaxQueued

TypeInv == ControlTypes /\ BoxTypes /\ QueueTypes

LEMMA LeftAfter ==
  /\ \A s \in SetKinds : Left(After(s)) = Left(s) - 1 /\ Left(s) \in 1 .. 3
  /\ \A s \in SetKinds : After(s) \in SetKinds \cup {"idle"}
  /\ Left("idle") = 0 /\ Left("distance") = 3
PROOF
  <1>1. ASSUME NEW s \in SetKinds
        PROVE  /\ Left(After(s)) = Left(s) - 1 /\ Left(s) \in 1 .. 3
               /\ After(s) \in SetKinds \cup {"idle"}
    <2>1. CASE s = "distance"
      BY <2>1 DEF Left, After, SetKinds
    <2>2. CASE s = "humid"
      BY <2>2 DEF Left, After, SetKinds
    <2>3. CASE s = "temperature"
      BY <2>3 DEF Left, After, SetKinds
    <2> QED
      BY <2>1, <2>2, <2>3 DEF SetKinds
  <1>2. Left("idle") = 0 /\ Left("distance") = 3
    BY DEF Left
  <1> QED
    BY <1>1, <1>2

LEMMA LeftTyped == ControlTypes => Left(ok) \in 0 .. 3
  BY LeftAfter DEF ControlTypes

LEMMA TypeInvImplies == TypeInv => TypeOK
PROOF
  <1> SUFFICES ASSUME TypeInv PROVE TypeOK
    OBVIOUS
  <1>1. Len(outq) <= MaxQueued
    <2>1. Len(outq) \in Nat /\ Left(ok) \in 0 .. 3 /\ MaxQueued \in Nat
      BY LeftTyped, SettingsAssumption DEF TypeInv, QueueTypes
    <2>2. Len(outq) + Left(ok) <= MaxQueued
      BY DEF TypeInv, QueueTypes
    <2> QED
      BY ONLY <2>1, <2>2
  <1> QED
    BY <1>1 DEF TypeInv, ControlTypes, BoxTypes, QueueTypes, TypeOK, Messages

LEMMA TypeInvInit == Init => TypeInv
PROOF
  <1> SUFFICES ASSUME Init PROVE TypeInv
    OBVIOUS
  <1>1. \A s \in SetKinds : Defaults[s] \in Int
    BY DefaultsTyped, HundredthsInt
  <1>2. ControlTypes
    <2>1. Defaults \in [SetKinds -> Int]
      BY <1>1 DEF Defaults, SetKinds
    <2> QED
      BY <2>1 DEF Init, ControlTypes
  <1>3. BoxTypes
    BY DEF Init, BoxTypes
  <1>4. QueueTypes
    <2>1. <<>> \in Seq(Messages) /\ Len(<<>>) = 0 /\ MaxQueued \in Nat
      BY SettingsAssumption
    <2> QED
      BY <2>1, LeftAfter DEF Init, QueueTypes
  <1> QED
    BY <1>2, <1>3, <1>4 DEF TypeInv

\* The commands of a queue are settings.
LEMMA QueuedKinds ==
  ASSUME QueueTypes
  PROVE  {outq[n].cmd : n \in DOMAIN outq} \subseteq SetKinds
PROOF
  <1>1. ASSUME NEW n \in DOMAIN outq PROVE outq[n].cmd \in SetKinds
    <2>1. outq[n] \in Messages
      BY DEF QueueTypes
    <2> QED
      BY <2>1 DEF Messages
  <1> QED
    BY <1>1

\* The queue is emptied, and the handler goes on or stays.
LEMMA EmptiedTypes ==
  ASSUME ControlTypes, UNCHANGED ok, outq' = <<>>, QueueTypes
  PROVE  QueueTypes'
PROOF
  <1>1. /\ <<>> \in Seq(Messages) /\ Len(<<>>) = 0 /\ MaxQueued \in Nat
        /\ Len(outq) \in Nat /\ Left(ok) \in 0 .. 3
    BY LeftTyped, SettingsAssumption DEF QueueTypes
  <1>2. Left(ok) <= MaxQueued
    <2>1. Len(outq) + Left(ok) <= MaxQueued
      BY DEF QueueTypes
    <2> QED
      BY ONLY <1>1, <2>1
  <1> QED
    BY <1>1, <1>2 DEF QueueTypes

\* The handler goes on to the next setting without writing.
LEMMA OnwardTypes ==
  ASSUME QueueTypes, ControlTypes, ok # "idle", ok' = After(ok) \/ ok' = ok,
         UNCHANGED <<outq, opened>>
  PROVE  QueueTypes' /\ ok' \in SetKinds \cup {"idle"}
PROOF
  <1>1. ok \in SetKinds /\ Len(outq) \in Nat /\ MaxQueued \in Nat
    BY SettingsAssumption DEF ControlTypes, QueueTypes
  <1>2. Left(ok') <= Left(ok) /\ Left(ok') \in Int /\ Left(ok) \in Int
        /\ ok' \in SetKinds \cup {"idle"}
    BY <1>1, LeftAfter
  <1>3. Len(outq) + Left(ok) <= MaxQueued
    BY DEF QueueTypes
  <1>4. Len(outq) + Left(ok') <= MaxQueued
    BY ONLY <1>1, <1>2, <1>3
  <1> QED
    BY <1>2, <1>4 DEF QueueTypes

LEMMA EnvironmentTypes == TypeInv /\ Environment => TypeInv'
PROOF
  <1> SUFFICES ASSUME TypeInv, Environment PROVE TypeInv'
    OBVIOUS
  <1> USE DEF TypeInv
  <1>1. CASE OpenOrClose
    <2>1. BoxTypes'
      BY <1>1 DEF OpenOrClose, BoxTypes
    <2>2. ControlTypes'
      BY <1>1, QueuedKinds DEF OpenOrClose, ControlTypes
    <2>3. QueueTypes'
      BY <1>1, EmptiedTypes DEF OpenOrClose
    <2> QED
      BY <2>1, <2>2, <2>3
  <1>2. CASE ErrorLatched \/ ErrorTaken
    BY <1>2 DEF ErrorLatched, ErrorTaken, ControlTypes, BoxTypes, QueueTypes
  <1>3. CASE Transmit
    <2>1. /\ outq \in Seq(Messages) /\ outq # <<>> /\ opened
          /\ outq' = Tail(outq) /\ UNCHANGED <<ok, opened>>
          /\ has' = [has EXCEPT ![Head(outq).cmd] = Head(outq).value]
      BY <1>3 DEF Transmit, QueueTypes
    <2>2. Head(outq) \in Messages /\ outq' \in Seq(Messages) /\ Len(outq') = Len(outq) - 1
      BY <2>1
    <2>3. QueueTypes'
      <3>1. Len(outq) \in Nat /\ Left(ok) \in 0 .. 3 /\ MaxQueued \in Nat
        BY LeftTyped, SettingsAssumption DEF QueueTypes
      <3>2. Len(outq) + Left(ok) <= MaxQueued
        BY DEF QueueTypes
      <3>3. Len(outq') + Left(ok) <= MaxQueued
        BY ONLY <2>2, <3>1, <3>2
      <3> QED
        BY <2>1, <2>2, <3>3 DEF QueueTypes
    <2>4. ControlTypes'
      <3>1. has' \in [SetKinds -> Int]
        BY <2>1, <2>2 DEF ControlTypes, Messages
      <3> QED
        BY <1>3, <3>1 DEF Transmit, ControlTypes
    <2>5. BoxTypes'
      BY <1>3 DEF Transmit, BoxTypes
    <2> QED
      BY <2>3, <2>4, <2>5
  <1> QED
    BY <1>1, <1>2, <1>3 DEF Environment

LEMMA PortTypes == TypeInv /\ SettingsInv /\ Port => TypeInv'
PROOF
  <1> SUFFICES ASSUME TypeInv, SettingsInv, Port PROVE TypeInv'
    OBVIOUS
  <1> USE DEF TypeInv
  <1>1. CASE ClearCommError
    BY <1>1 DEF ClearCommError, ControlTypes, BoxTypes, QueueTypes
  <1>2. CASE PurgeComm
    <2>1. BoxTypes'
      BY <1>2 DEF PurgeComm, BoxTypes
    <2>2. ControlTypes'
      BY <1>2, QueuedKinds DEF PurgeComm, ControlTypes
    <2>3. QueueTypes'
      BY <1>2, EmptiedTypes DEF PurgeComm
    <2> QED
      BY <2>1, <2>2, <2>3
  <1>3. CASE WriteFile
    <2>1. /\ ok \in SetKinds /\ opened /\ boxes \in [SetKinds -> Hundredths]
          /\ ok' = After(ok) /\ call' = "none"
          /\ UNCHANGED <<opened, lineError, boxes, m_fHumid, has, lastTemperature>>
      BY <1>3 DEF WriteFile, ControlTypes, SettingsInv, SettingsTypes
    <2>2. BoxTypes'
      BY <2>1 DEF BoxTypes
    <2>3. ok' \in SetKinds \cup {"idle"}
      BY <2>1, LeftAfter
    <2>4. ControlTypes'
      BY <1>3, <2>1, <2>3 DEF WriteFile, ControlTypes
    <2>5. QueueTypes'
      <3>1. CASE outq' = outq
        BY <2>1, <3>1, OnwardTypes DEF SetKinds
      <3>2. CASE outq' = Append(outq, Message(ok))
        <4> DEFINE m == Message(ok)
        <4>1. m \in Messages
          BY <2>1, MessageTyped
        <4> HIDE DEF m
        <4>2. outq \in Seq(Messages) /\ outq' = Append(outq, m)
          BY <3>2 DEF QueueTypes, m
        <4>3. outq' \in Seq(Messages) /\ Len(outq') = Len(outq) + 1 /\ Len(outq) \in Nat
          BY ONLY <4>1, <4>2
        <4>4. Left(ok') = Left(ok) - 1 /\ Left(ok) \in Int /\ MaxQueued \in Nat
          BY <2>1, LeftAfter, SettingsAssumption
        <4>5. Len(outq) + Left(ok) <= MaxQueued
          BY DEF QueueTypes
        <4>6. Len(outq') + Left(ok') <= MaxQueued
          BY ONLY <4>3, <4>4, <4>5
        <4> QED
          BY <2>1, <4>3, <4>6 DEF QueueTypes
      <3> QED
        BY <1>3, <3>1, <3>2 DEF WriteFile
    <2> QED
      BY <2>2, <2>4, <2>5
  <1> QED
    BY <1>1, <1>2, <1>3 DEF Port

LEMMA DialogTypes == TypeInv /\ Dialog => TypeInv'
PROOF
  <1> SUFFICES ASSUME TypeInv, Dialog PROVE TypeInv'
    OBVIOUS
  <1> USE DEF TypeInv
  <1>1. CASE OnBnClickedOk
    <2>1. PICK d \in DistanceValues, h \in HumidValues, t \in TemperatureValues :
              boxes' = [distance |-> d, humid |-> h, temperature |-> t]
      BY <1>1 DEF OnBnClickedOk
    <2>2. BoxTypes'
      <3>1. \A s \in SetKinds : boxes'[s] \in BoxValues[s]
        BY <2>1 DEF SetKinds, BoxValues
      <3>2. lastTemperature' \in TemperatureValues \cup {Never}
        <4>1. boxes["temperature"] \in TemperatureValues \cup {Defaults["temperature"]}
          BY DEF BoxTypes, BoxValues, SetKinds
        <4> QED
          BY <1>1, <4>1 DEF OnBnClickedOk, BoxTypes
      <3> QED
        BY <1>1, <3>1, <3>2 DEF OnBnClickedOk, BoxTypes
    <2>3. ControlTypes'
      BY <1>1 DEF OnBnClickedOk, ControlTypes, SetKinds
    <2>4. QueueTypes'
      BY <1>1, LeftAfter DEF OnBnClickedOk, QueueTypes
    <2> QED
      BY <2>2, <2>3, <2>4
  <1>2. ASSUME NEW s \in SetKinds, ok = s, call = "none", StartWrite(s) \/ Skip(s)
        PROVE  ControlTypes' /\ QueueTypes'
    <2>1. /\ s # "idle" /\ opened \in BOOLEAN
          /\ UNCHANGED <<outq, opened, lineError, has>>
      BY <1>2 DEF StartWrite, Skip, SetKinds, ControlTypes
    <2>2. \/ ok' = ok /\ opened /\ call' = "clear" /\ lost' = lost
          \/ ok' = After(s) /\ call' = call /\ lost' \in {lost, lost \cup {s}}
      BY <1>2 DEF StartWrite, Skip
    <2>3. QueueTypes' /\ ok' \in SetKinds \cup {"idle"}
      BY <1>2, <2>1, <2>2, OnwardTypes
    <2>4. ControlTypes'
      BY <1>2, <2>1, <2>2, <2>3 DEF ControlTypes
    <2> QED
      BY <2>3, <2>4
  <1>3. CASE UpdateDistance
    <2>1. ControlTypes' /\ QueueTypes'
      BY <1>2, <1>3 DEF UpdateDistance, SetKinds
    <2>2. BoxTypes'
      BY <1>3 DEF UpdateDistance, StartWrite, BoxTypes
    <2> QED
      BY <2>1, <2>2
  <1>4. CASE UpdateHumid
    <2>1. ControlTypes' /\ QueueTypes'
      BY <1>2, <1>4 DEF UpdateHumid, SetKinds
    <2>2. boxes["humid"] \in HumidValues \cup {Defaults["humid"]}
      BY DEF BoxTypes, BoxValues, SetKinds
    <2>3. BoxTypes'
      BY <1>4, <2>2 DEF UpdateHumid, StartWrite, Skip, BoxTypes
    <2> QED
      BY <2>1, <2>3
  <1>5. CASE UpdateTemperature
    <2>1. ControlTypes' /\ QueueTypes'
      BY <1>2, <1>5 DEF UpdateTemperature, SetKinds
    <2>2. boxes["temperature"] \in TemperatureValues \cup {Defaults["temperature"]}
      BY DEF BoxTypes, BoxValues, SetKinds
    <2>3. BoxTypes'
      BY <1>5, <2>2 DEF UpdateTemperature, StartWrite, Skip, BoxTypes
    <2> QED
      BY <2>1, <2>3
  <1> QED
    BY <1>1, <1>3, <1>4, <1>5 DEF Dialog

\* Nothing waits in a port that is closed, write() runs only for a setting that
\* is being served on an open port, and the boxes, m_fHumid and the messages
\* hold values of the right kind (SupervisorDlg.cpp:427-500, com_class.h:388-421).
THEOREM TypeCorrect == Spec => []TypeOK
PROOF
  <1>1. TypeInv /\ SettingsInv /\ [Next]_settingsVars => TypeInv'
    <2>1. TypeInv /\ UNCHANGED settingsVars => TypeInv'
      BY DEF TypeInv, ControlTypes, BoxTypes, QueueTypes, settingsVars
    <2> QED
      BY <2>1, EnvironmentTypes, PortTypes, DialogTypes DEF Next
  <1> QED
    BY <1>1, TypeInvInit, TypeInvImplies, SettingsInit, SettingsNext, PTL DEF Spec
=============================================================================
