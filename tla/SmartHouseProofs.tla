--------------------------- MODULE SmartHouseProofs ---------------------------
(***************************************************************************)
(* Putting the two programs together takes nothing from either: with the   *)
(* board of module Telemetry at the other end of its line the Supervisor   *)
(* behaves as module Supervisor says, so that what is proved of it holds   *)
(* in the house; and the board behaves as Telemetry says whoever listens.  *)
(* Together (LabelsAgreeCorrect) the labels show the board as it is.       *)
(***************************************************************************)
EXTENDS SmartHouse, SupervisorProofs

\* A step of the board puts one of its frames on the line, or is not heard.
LEMMA BoardIsHeard == Board => [Environment]_vars
  BY DEF Board, Says, Silent, Environment

LEMMA PCSteps == PC => Next
  BY DEF PC, Next, Environment, ComThread, UIThread

LEMMA HouseSteps == [HouseNext]_houseVars => [Next]_vars
PROOF
  <1>1. Board => [Next]_vars
    BY BoardIsHeard DEF Next
  <1>2. UNCHANGED houseVars => UNCHANGED vars
    BY DEF houseVars
  <1> QED
    BY <1>1, <1>2, PCSteps DEF HouseNext

\* The Supervisor in the house is the Supervisor of module Supervisor: the
\* board's frames and their order (main.c:114-154) are among the frames and
\* orders its properties allow for.
THEOREM HouseIsSupervisor == HouseSpec => Spec
PROOF
  <1>1. HouseInit => Init
    BY DEF HouseInit
  <1> QED
    BY <1>1, HouseSteps, PTL DEF HouseSpec, Spec

\* In the house, too, no notification is lost between com_thread and the
\* dialog (com_class.h:546-579).
THEOREM HouseNoLostWakeup == HouseSpec => []NoLostWakeup
  BY HouseIsSupervisor, NoLostWakeupCorrect, PTL

\* In the house, too, no label shows a value from before the port was opened
\* (SupervisorDlg.cpp:272-299).
THEOREM HouseNothingFromBefore == HouseSpec => []NothingFromBefore
  BY HouseIsSupervisor, NothingFromBeforeCorrect, PTL

-----------------------------------------------------------------------------
LEMMA BoardSteps == [HouseNext]_houseVars => [T!Next]_(T!telemetryVars)
PROOF
  <1> SUFFICES ASSUME [HouseNext]_houseVars PROVE T!Next \/ UNCHANGED T!telemetryVars
    OBVIOUS
  <1>1. CASE Board
    BY <1>1 DEF Board, Says, Silent, T!Next
  <1>2. CASE PC
    BY <1>2 DEF PC, boardVars, T!telemetryVars
  <1>3. CASE UNCHANGED houseVars
    BY <1>3 DEF houseVars, boardVars, T!telemetryVars
  <1> QED
    BY <1>1, <1>2, <1>3 DEF HouseNext

\* The board goes on as Telemetry says: a port that is closed, opened again or
\* left unread at the other end changes nothing of what it says
\* (SerialComm.c:77-139 wait for the board's own transmitter only).
THEOREM HouseIsBoard == HouseSpec => T!Spec
PROOF
  <1>1. HouseInit => T!Init
    BY DEF HouseInit
  <1> QED
    BY <1>1, BoardSteps, PTL DEF HouseSpec, T!Spec

-----------------------------------------------------------------------------
\* From the relay to the label.

LabelOf == <<"PIR", "Distance", "Locker", "Fan", "Temperature">>

\* What a label shows of a value.
TextOf(c, v) ==
    IF c = CMD_ULTRASONIC_RANGE THEN FloatBytes[v]
    ELSE IF c = CMD_DHT THEN <<v, 0>> ELSE <<v>>

\* The values ProcessMsg does not take for "nothing was measured": a temperature
\* that is not 0 degrees and a distance that is a float above 0.
Showable ==
    /\ 0 \notin Temperatures
    /\ \A d \in Distances :
          /\ Len(FloatBytes[d]) = 4
          /\ \A b : (\A k \in 2 .. 5 : b[k] = FloatBytes[d][k - 1]) => PositiveFloat(b)

LEMMA CommandCases ==
  ASSUME NEW c \in T!Commands
  PROVE  c = 1 \/ c = 2 \/ c = 3 \/ c = 4 \/ c = 5
  BY DEF T!Commands, T!CMD_PIR, T!CMD_DHT

LEMMA ValuesOf ==
  ASSUME NEW c \in T!Commands
  PROVE  /\ c \in {1, 3, 4} => T!Values(c) = {0, 1}
         /\ c = 2 => T!Values(c) = Distances
         /\ c = 5 => T!Values(c) = Temperatures
         /\ T!Values(c) \subseteq Int
PROOF
  <1> USE DEF T!CMD_PIR, T!CMD_ULTRASONIC_RANGE, T!CMD_RELAY_1, T!CMD_RELAY_2, T!CMD_DHT
  <1>1. c \in {1, 3, 4} => T!Values(c) = {0, 1}
    BY DEF T!Values
  <1>2. c = 2 => T!Values(c) = Distances
    BY DEF T!Values
  <1>3. c = 5 => T!Values(c) = Temperatures
    BY DEF T!Values
  <1>4. Distances \subseteq Int /\ Temperatures \subseteq Int /\ {0, 1} \subseteq Int
    BY HouseAssumption
  <1>5. c \in {1, 3, 4} \/ c = 2 \/ c = 5
    BY CommandCases
  <1>6. T!Values(c) \subseteq Int
    <2>1. CASE c \in {1, 3, 4}
      BY ONLY <1>1, <1>4, <2>1, Zenon
    <2>2. CASE c = 2
      BY ONLY <1>2, <1>4, <2>2, Zenon
    <2>3. CASE c = 5
      BY ONLY <1>3, <1>4, <2>3, Zenon
    <2> QED
      BY <1>5, <2>1, <2>2, <2>3
  <1> QED
    BY <1>1, <1>2, <1>3, <1>6

\* The board's frames begin with their command.
LEMMA FrameBegins ==
  ASSUME NEW c \in T!Commands, NEW v \in T!Values(c)
  PROVE  /\ FrameOf(c, v) \in BoardFrames /\ FrameOf(c, v)[1] = c
         /\ c \in {1, 3, 4} => FrameOf(c, v) = <<c, 1, v>>
         /\ c = 2 => FrameOf(c, v) = <<2, 4>> \o FloatBytes[v]
         /\ c = 5 => FrameOf(c, v) = <<5, 4, Humidity, 0, v, 0>>
PROOF
  <1> USE DEF CMD_PIR, CMD_ULTRASONIC_RANGE, CMD_RELAY_1, CMD_RELAY_2, CMD_DHT
  <1>1. FrameOf(c, v) \in BoardFrames
    BY HouseAssumption
  <1>2. c \in {1, 3, 4} => FrameOf(c, v) = <<c, 1, v>>
    BY DEF FrameOf
  <1>3. c = 2 => FrameOf(c, v) = <<2, 4>> \o FloatBytes[v]
    BY DEF FrameOf
  <1>4. c = 5 => FrameOf(c, v) = <<5, 4, Humidity, 0, v, 0>>
    BY DEF FrameOf
  <1>5. CASE c = 2
    <2>1. FloatBytes[v] \in Seq(0 .. 255)
      BY <1>5, ValuesOf, HouseAssumption
    <2>2. <<2, 4>> \in Seq(0 .. 255) /\ Len(<<2, 4>>) = 2
      OBVIOUS
    <2>3. (<<2, 4>> \o FloatBytes[v])[1] = 2
      BY <2>1, <2>2
    <2> QED
      BY <1>1, <1>3, <1>5, <2>3
  <1>6. CASE c \in {1, 3, 4}
    BY <1>1, <1>2, <1>6
  <1>7. CASE c = 5
    BY <1>1, <1>4, <1>7
  <1> QED
    BY <1>5, <1>6, <1>7, CommandCases

\* A frame of the board sets its label to the value it carries.
LEMMA FrameTells ==
  ASSUME Showable, NEW c \in T!Commands, NEW v \in T!Values(c),
         NEW shown \in LabelTexts
  PROVE  ShowFrame(shown, FrameOf(c, v))[LabelOf[c]] = TextOf(c, v)
PROOF
  <1> DEFINE f == FrameOf(c, v)
             b == [k \in 0 .. 5 |-> IF k < Len(f) THEN f[k + 1] ELSE 0]
             then == Show(shown, b)
  <1>1. ShowFrame(shown, f) = then
    BY DEF ShowFrame
  <1>2. ASSUME NEW k \in 0 .. 5 PROVE b[k] = IF k < Len(f) THEN f[k + 1] ELSE 0
    OBVIOUS
  <1>3. shown = [x \in LabelNames |-> shown[x]]
    BY DEF LabelTexts
  <1>4. /\ c \in {1, 3, 4} => f = <<c, 1, v>>
        /\ c = 2 => f = <<2, 4>> \o FloatBytes[v]
        /\ c = 5 => f = <<5, 4, Humidity, 0, v, 0>>
    BY FrameBegins
  <1> HIDE DEF f, b
  <1> USE DEF CMD_PIR, CMD_ULTRASONIC_RANGE, CMD_RELAY_1, CMD_RELAY_2, CMD_DHT
  <1>5. CASE c \in {1, 3, 4}
    <2>1. Len(f) = 3 /\ f[1] = c /\ f[3] = v /\ v \in {0, 1}
      BY <1>4, <1>5, ValuesOf
    <2>2. b[0] = c /\ b[2] = v
      BY <1>2, <2>1
    <2>3. OnOff(b[2]) = <<v>>
      BY <2>1, <2>2 DEF OnOff
    <2>4. TextOf(c, v) = <<v>>
      BY <1>5 DEF TextOf
    <2>5. CASE c = 1
      <3>1. then = [shown EXCEPT !["PIR"] = <<v>>] /\ LabelOf[c] = "PIR"
        BY <2>2, <2>3, <2>5 DEF Show, LabelOf
      <3> QED
        BY <1>1, <1>3, <2>4, <3>1 DEF f, LabelNames
    <2>6. CASE c = 3
      <3>1. then = [shown EXCEPT !["Locker"] = <<v>>] /\ LabelOf[c] = "Locker"
        BY <2>2, <2>3, <2>6 DEF Show, LabelOf
      <3> QED
        BY <1>1, <1>3, <2>4, <3>1 DEF f, LabelNames
    <2>7. CASE c = 4
      <3>1. then = [shown EXCEPT !["Fan"] = <<v>>] /\ LabelOf[c] = "Fan"
        BY <2>2, <2>3, <2>7 DEF Show, LabelOf
      <3> QED
        BY <1>1, <1>3, <2>4, <3>1 DEF f, LabelNames
    <2> QED
      BY <1>5, <2>5, <2>6, <2>7
  <1>6. CASE c = 2
    <2> DEFINE e == FloatBytes[v]
    <2>1. v \in Distances /\ e \in Seq(0 .. 255) /\ Len(e) = 4
      BY <1>6, ValuesOf, HouseAssumption DEF Showable
    <2>2. \A x : (\A k \in 2 .. 5 : x[k] = e[k - 1]) => PositiveFloat(x)
      BY <2>1 DEF Showable
    <2> HIDE DEF e
    <2>3. /\ Len(f) = 6 /\ f[1] = 2
          /\ f[3] = e[1] /\ f[4] = e[2] /\ f[5] = e[3] /\ f[6] = e[4]
      <3>1. f = <<2, 4>> \o e
        BY <1>4, <1>6 DEF e
      <3> DEFINE g == <<2, 4>>
      <3>2. g \in Seq(0 .. 255) /\ Len(g) = 2 /\ g[1] = 2
        OBVIOUS
      <3>3. f = g \o e
        BY <3>1
      <3> HIDE DEF g
      <3>4. /\ Len(f) = Len(g) + Len(e)
            /\ \A i \in 1 .. Len(g) + Len(e) :
                  f[i] = IF i <= Len(g) THEN g[i] ELSE e[i - Len(g)]
        BY ONLY <2>1, <3>2, <3>3, ConcatProperties
      <3> QED
        BY ONLY <2>1, <3>2, <3>4
    <2>4. b[0] = 2 /\ b[2] = e[1] /\ b[3] = e[2] /\ b[4] = e[3] /\ b[5] = e[4]
      BY <1>2, <2>3
    <2>5. PositiveFloat(b)
      <3>1. ASSUME NEW k \in 2 .. 5 PROVE b[k] = e[k - 1]
        BY <2>4
      <3> QED
        BY <2>2, <3>1
    <2>6. <<b[2], b[3], b[4], b[5]>> = e
      <3> DEFINE g == <<e[1], e[2], e[3], e[4]>>
      <3>1. /\ g \in Seq(0 .. 255) /\ Len(g) = 4
            /\ g[1] = e[1] /\ g[2] = e[2] /\ g[3] = e[3] /\ g[4] = e[4]
        <4>1. ASSUME NEW i \in 1 .. 4 PROVE e[i] \in 0 .. 255
          BY <2>1, ElementOfSeq
        <4> QED
          BY ONLY <4>1
      <3> HIDE DEF g
      <3>2. g = e
        BY <2>1, <3>1, SeqEqual
      <3> QED
        BY <2>4, <3>2 DEF g
    <2>7. then = [shown EXCEPT !["Distance"] = e] /\ LabelOf[c] = "Distance"
      <3>1. then = IF PositiveFloat(b)
                   THEN [shown EXCEPT !["Distance"] = <<b[2], b[3], b[4], b[5]>>]
                   ELSE shown
        BY <2>4 DEF Show
      <3>2. LabelOf[c] = "Distance"
        BY <1>6 DEF LabelOf
      <3> QED
        BY <2>5, <2>6, <3>1, <3>2
    <2>8. TextOf(c, v) = e
      BY <1>6 DEF TextOf, e
    <2> QED
      BY <1>1, <1>3, <2>7, <2>8 DEF f, LabelNames
  <1>7. CASE c = 5
    <2>1. Len(f) = 6 /\ f[1] = 5 /\ f[5] = v /\ f[6] = 0
      BY <1>4, <1>7
    <2>2. b[0] = 5 /\ b[4] = v /\ b[5] = 0
      BY <1>2, <2>1
    <2>3. v # 0
      BY <1>7, ValuesOf DEF Showable
    <2>4. /\ then = [shown EXCEPT
                        !["Humid"] = IF b[2] # 0 THEN <<b[2], b[3]>> ELSE @,
                        !["Temperature"] = IF b[4] # 0 THEN <<b[4], b[5]>> ELSE @]
          /\ LabelOf[c] = "Temperature"
      BY <1>7, <2>2 DEF Show, LabelOf
    <2>5. TextOf(c, v) = <<v, 0>>
      BY <1>7 DEF TextOf
    <2> QED
      BY <1>1, <1>3, <2>2, <2>3, <2>4, <2>5 DEF f, LabelNames
  <1> QED
    BY <1>5, <1>6, <1>7, CommandCases

\* It leaves the labels of the other commands alone.
LEMMA OthersStay ==
  ASSUME NEW f, Framed(f), NEW c \in T!Commands, f[1] # c, NEW shown \in LabelTexts
  PROVE  ShowFrame(shown, f)[LabelOf[c]] = shown[LabelOf[c]]
PROOF
  <1> DEFINE b == [k \in 0 .. 5 |-> IF k < Len(f) THEN f[k + 1] ELSE 0]
             then == Show(shown, b)
             l == LabelOf[c]
  <1>1. ShowFrame(shown, f) = then
    BY DEF ShowFrame
  <1>2. b[0] = f[1]
    <2>1. 0 < Len(f)
      BY DEF Framed
    <2> QED
      BY <2>1
  <1> HIDE DEF b
  <1>3. shown = [x \in LabelNames |-> shown[x]]
    BY DEF LabelTexts
  <1>4. /\ l \in LabelNames /\ l # "Humid"
        /\ l = "PIR" <=> c = 1
        /\ l = "Distance" <=> c = 2
        /\ l = "Locker" <=> c = 3
        /\ l = "Fan" <=> c = 4
        /\ l = "Temperature" <=> c = 5
    BY CommandCases DEF LabelOf, LabelNames
  <1> HIDE DEF l
  <1> USE DEF CMD_PIR, CMD_ULTRASONIC_RANGE, CMD_RELAY_1, CMD_RELAY_2, CMD_DHT
  <1>5. CASE f[1] = 1
    BY <1>1, <1>2, <1>3, <1>4, <1>5 DEF Show, l
  <1>6. CASE f[1] = 2
    <2>1. then = IF PositiveFloat(b)
                 THEN [shown EXCEPT !["Distance"] = <<b[2], b[3], b[4], b[5]>>]
                 ELSE shown
      BY <1>2, <1>6 DEF Show
    <2> HIDE DEF then
    <2> QED
      BY <1>1, <1>3, <1>4, <1>6, <2>1 DEF l
  <1>7. CASE f[1] = 3
    BY <1>1, <1>2, <1>3, <1>4, <1>7 DEF Show, l
  <1>8. CASE f[1] = 4
    BY <1>1, <1>2, <1>3, <1>4, <1>8 DEF Show, l
  <1>9. CASE f[1] = 5
    <2>1. then = [shown EXCEPT
                     !["Humid"] = IF b[2] # 0 THEN <<b[2], b[3]>> ELSE @,
                     !["Temperature"] = IF b[4] # 0 THEN <<b[4], b[5]>> ELSE @]
      BY <1>2, <1>9 DEF Show
    <2> HIDE DEF then
    <2> QED
      BY <1>1, <1>3, <1>4, <1>9, <2>1 DEF l
  <1>10. CASE ~(f[1] \in {1, 2, 3, 4, 5})
    <2>1. then = shown
      BY <1>2, <1>10 DEF Show
    <2> QED
      BY <1>1, <2>1 DEF l
  <1> QED
    BY <1>5, <1>6, <1>7, <1>8, <1>9, <1>10

\* The last frame about a command that is still to be shown is what was told
\* last, and when there is none the label is.
Due(c) ==
    \E i \in 1 .. Len(pending) :
        /\ told[c] \in T!Values(c) /\ pending[i] = FrameOf(c, told[c])
        /\ \A j \in i + 1 .. Len(pending) : pending[j][1] # c

Agreed(c) ==
    /\ \A j \in 1 .. Len(pending) : pending[j][1] # c
    /\ labels[LabelOf[c]] # Blank =>
           told[c] \in T!Values(c) /\ labels[LabelOf[c]] = TextOf(c, told[c])

LastInv == ~missed => \A c \in T!Commands : Due(c) \/ Agreed(c)

\* What was told of a relay is what it is, and the frame on the wire is among
\* what was told last.
ToldInv ==
    /\ told \in [T!Commands -> Int]
    /\ told[CMD_RELAY_1] \in {T!Never, T!Bit(relay1)}
    /\ told[CMD_RELAY_2] \in {T!Never, T!Bit(relay2)}
    /\ wire # <<>> => \E c \in T!Commands :
           told[c] \in T!Values(c) /\ wire = FrameOf(c, told[c])

HouseInv == ShowInv /\ ToldInv /\ LastInv

-----------------------------------------------------------------------------
\* A turn of the board's loop.
SaysOf(c, v) ==
    /\ BoardSends
    /\ told' = [told EXCEPT ![c] = v]
    /\ wire' = FrameOf(c, v)
    /\ UNCHANGED missed
    /\ IF c = 3 THEN v = T!Bit(relay1') ELSE relay1' = relay1
    /\ IF c = 4 THEN v = T!Bit(relay2') ELSE relay2' = relay2

LEMMA BoardSays ==
  ASSUME ToldInv, Board
  PROVE  \/ \E c \in T!Commands : \E v \in T!Values(c) : SaysOf(c, v)
         \/ UNCHANGED <<vars, missed, told, relay1, relay2>>
PROOF
  <1> USE DEF T!CMD_PIR, T!CMD_ULTRASONIC_RANGE, T!CMD_RELAY_1, T!CMD_RELAY_2,
              T!CMD_DHT, CMD_PIR, CMD_ULTRASONIC_RANGE, CMD_RELAY_1, CMD_RELAY_2, CMD_DHT
  <1>1. T!Commands = 1 .. 5
    BY DEF T!Commands
  <1>2. ASSUME NEW c \in T!Commands, NEW v, NEW at, NEW next,
               T!Frame(at, c, v, next), wire' = FrameOf(c, told'[c])
        PROVE  told' = [told EXCEPT ![c] = v] /\ wire' = FrameOf(c, v)
    <2>1. told' = [told EXCEPT ![c] = v] /\ c \in DOMAIN told
      BY <1>2 DEF ToldInv, T!Frame
    <2>2. told'[c] = v
      BY <2>1
    <2> QED
      BY <1>2, <2>1, <2>2
  <1>3. \A r \in BOOLEAN : T!Bit(r) \in {0, 1}
    BY DEF T!Bit
  <1>4. CASE Says(T!Reading, CMD_DHT)
    <2>1. PICK v \in Temperatures : T!Frame("reading", T!CMD_DHT, v, "heat")
      BY <1>4 DEF Says, T!Reading
    <2>2. 5 \in T!Commands /\ v \in T!Values(5)
      BY <1>1, ValuesOf
    <2>3. SaysOf(5, v)
      <3>1. /\ T!Frame("reading", 5, v, "heat")
            /\ BoardSends /\ wire' = FrameOf(5, told'[5]) /\ UNCHANGED missed
        BY <1>4, <2>1 DEF Says, T!Reading
      <3>2. told' = [told EXCEPT ![5] = v] /\ wire' = FrameOf(5, v)
        BY <1>2, <2>1, <2>2, <3>1
      <3> QED
        BY <1>4, <3>1, <3>2 DEF Says, T!Reading, SaysOf
    <2> QED
      BY <2>2, <2>3
  <1>5. CASE Silent(T!NoReading)
    BY <1>5 DEF Silent, T!NoReading
  <1>6. CASE Says(T!HeatRelay, CMD_RELAY_1)
    <2>1. 3 \in T!Commands /\ T!Bit(relay1') \in T!Values(3)
      BY <1>1, <1>3, <1>6, ValuesOf DEF Says, T!HeatRelay
    <2>2. SaysOf(3, T!Bit(relay1'))
      <3>1. /\ T!Frame("heat", 3, T!Bit(relay1'), "motion")
            /\ BoardSends /\ wire' = FrameOf(3, told'[3]) /\ UNCHANGED missed
        BY <1>6, <2>1 DEF Says, T!HeatRelay
      <3>2. told' = [told EXCEPT ![3] = T!Bit(relay1')] /\ wire' = FrameOf(3, T!Bit(relay1'))
        BY <1>2, <2>1, <3>1
      <3> QED
        BY <1>6, <3>1, <3>2 DEF Says, T!HeatRelay, SaysOf
    <2> QED
      BY <2>1, <2>2
  <1>7. CASE Says(T!Motion, CMD_PIR)
    <2>1. PICK v \in {0, 1} :
              T!Frame("motion", T!CMD_PIR, v, IF v = 1 THEN "motionRelay" ELSE "distance")
      BY <1>7 DEF Says, T!Motion
    <2>2. 1 \in T!Commands /\ v \in T!Values(1)
      BY <1>1, ValuesOf
    <2>3. SaysOf(1, v)
      <3>1. /\ T!Frame("motion", 1, v, IF v = 1 THEN "motionRelay" ELSE "distance")
            /\ BoardSends /\ wire' = FrameOf(1, told'[1]) /\ UNCHANGED missed
        BY <1>7, <2>1 DEF Says, T!Motion
      <3>2. told' = [told EXCEPT ![1] = v] /\ wire' = FrameOf(1, v)
        BY <1>2, <2>1, <2>2, <3>1
      <3> QED
        BY <1>7, <3>1, <3>2 DEF Says, T!Motion, SaysOf
    <2> QED
      BY <2>2, <2>3
  <1>8. CASE Says(T!MotionRelay, CMD_RELAY_1)
    <2>1. 3 \in T!Commands /\ T!Bit(relay1') \in T!Values(3)
      <3>1. relay1' \in BOOLEAN
        BY <1>8 DEF Says, T!MotionRelay
      <3> QED
        BY <1>1, <1>3, <3>1, ValuesOf
    <2>2. SaysOf(3, T!Bit(relay1'))
      <3>1. /\ T!Frame("motionRelay", 3, T!Bit(relay1'), "distance")
            /\ BoardSends /\ wire' = FrameOf(3, told'[3]) /\ UNCHANGED missed
        BY <1>8, <2>1 DEF Says, T!MotionRelay
      <3>2. told' = [told EXCEPT ![3] = T!Bit(relay1')] /\ wire' = FrameOf(3, T!Bit(relay1'))
        BY <1>2, <2>1, <3>1
      <3>3. UNCHANGED relay2
        BY <1>8 DEF Says, T!MotionRelay
      <3> QED
        BY <3>1, <3>2, <3>3 DEF SaysOf
    <2> QED
      BY <2>1, <2>2
  <1>9. CASE Says(T!Distance, CMD_ULTRASONIC_RANGE)
    <2>1. PICK v \in Distances : T!Frame("distance", T!CMD_ULTRASONIC_RANGE, v, "near")
      BY <1>9 DEF Says, T!Distance
    <2>2. 2 \in T!Commands /\ v \in T!Values(2)
      BY <1>1, ValuesOf
    <2>3. SaysOf(2, v)
      <3>1. /\ T!Frame("distance", 2, v, "near")
            /\ BoardSends /\ wire' = FrameOf(2, told'[2]) /\ UNCHANGED missed
        BY <1>9, <2>1 DEF Says, T!Distance
      <3>2. told' = [told EXCEPT ![2] = v] /\ wire' = FrameOf(2, v)
        BY <1>2, <2>1, <2>2, <3>1
      <3> QED
        BY <1>9, <3>1, <3>2 DEF Says, T!Distance, SaysOf
    <2> QED
      BY <2>2, <2>3
  <1>10. CASE Says(T!NearRelay, CMD_RELAY_2)
    <2>1. relay2' \in BOOLEAN
      BY <1>10 DEF Says, T!NearRelay
    <2>2. 4 \in T!Commands /\ T!Bit(relay2') \in T!Values(4)
      BY <1>1, <1>3, <2>1, ValuesOf
    <2>3. SaysOf(4, T!Bit(relay2'))
      <3>1. /\ T!Frame("near", 4, T!Bit(relay2'), "reading")
            /\ BoardSends /\ wire' = FrameOf(4, told'[4]) /\ UNCHANGED missed
        BY <1>10, <2>1 DEF Says, T!NearRelay
      <3>2. told' = [told EXCEPT ![4] = T!Bit(relay2')] /\ wire' = FrameOf(4, T!Bit(relay2'))
        BY <1>2, <2>1, <2>2, <3>1
      <3> QED
        BY <1>10, <3>1, <3>2 DEF Says, T!NearRelay, SaysOf
    <2> QED
      BY <2>2, <2>3
  <1> QED
    BY <1>4, <1>5, <1>6, <1>7, <1>8, <1>9, <1>10 DEF Board

LEMMA ToldSaid ==
  ASSUME ToldInv, NEW c \in T!Commands, NEW v \in T!Values(c), SaysOf(c, v)
  PROVE  ToldInv'
PROOF
  <1>1. v \in Int /\ told' \in [T!Commands -> Int] /\ told'[c] = v
    BY ValuesOf DEF ToldInv, SaysOf
  <1>2. \A d \in T!Commands : d # c => told'[d] = told[d]
    BY DEF ToldInv, SaysOf
  <1>3. 3 \in T!Commands /\ 4 \in T!Commands
    BY DEF T!Commands, T!CMD_PIR, T!CMD_DHT
  <1>4. told'[3] \in {T!Never, T!Bit(relay1')}
    <2>1. CASE c = 3
      BY <1>1, <2>1 DEF SaysOf
    <2>2. CASE c # 3
      BY <1>2, <1>3, <2>2 DEF ToldInv, SaysOf, CMD_RELAY_1
    <2> QED
      BY <2>1, <2>2
  <1>5. told'[4] \in {T!Never, T!Bit(relay2')}
    <2>1. CASE c = 4
      BY <1>1, <2>1 DEF SaysOf
    <2>2. CASE c # 4
      BY <1>2, <1>3, <2>2 DEF ToldInv, SaysOf, CMD_RELAY_2
    <2> QED
      BY <2>1, <2>2
  <1>6. \E d \in T!Commands : told'[d] \in T!Values(d) /\ wire' = FrameOf(d, told'[d])
    BY <1>1 DEF SaysOf
  <1> QED
    BY <1>1, <1>4, <1>5, <1>6 DEF ToldInv, CMD_RELAY_1, CMD_RELAY_2

-----------------------------------------------------------------------------
\* The queue of frames, step by step.
LEMMA PendingSeq ==
  ASSUME Aligned, WholeInv
  PROVE  pending \in Seq(BoardFrames)
PROOF
  <1>1. PICK fs, p : Cuts(inq, fs, p)
    BY DEF WholeInv
  <1>2. pending = fs \o OnWire /\ fs \in Seq(BoardFrames) /\ OnWire \in Seq(BoardFrames)
    BY <1>1, PendingIs
  <1> QED
    BY <1>2, ConcatProperties

\* A frame is said.
LEMMA LastSaid ==
  ASSUME Aligned, ShowInv, ToldInv, LastInv,
         NEW c \in T!Commands, NEW v \in T!Values(c), SaysOf(c, v),
         pending' = Append(pending, FrameOf(c, v)), UNCHANGED labels
  PROVE  LastInv'
PROOF
  <1> SUFFICES ASSUME ~missed', NEW d \in T!Commands PROVE (Due(d) \/ Agreed(d))'
    BY DEF LastInv
  <1>1. Due(d) \/ Agreed(d)
    BY DEF LastInv, SaysOf
  <1>2. FrameOf(c, v) \in BoardFrames /\ FrameOf(c, v)[1] = c
    BY FrameBegins
  <1>3. pending \in Seq(BoardFrames)
    BY PendingSeq DEF ShowInv
  <1>4. told'[c] = v /\ (d # c => told'[d] = told[d])
    BY DEF ToldInv, SaysOf
  <1>5. PICK q : q = pending
    OBVIOUS
  <1>6. PICK r : r = Append(q, FrameOf(c, v))
    OBVIOUS
  <1>7. pending' = r
    BY <1>5, <1>6
  <1>8. /\ r \in Seq(BoardFrames) /\ Len(r) = Len(q) + 1 /\ Len(q) \in Nat
        /\ r[Len(q) + 1] = FrameOf(c, v)
        /\ \A i \in 1 .. Len(q) : r[i] = q[i]
    BY <1>2, <1>3, <1>5, <1>6, AppendProperties
  <1>9. CASE d = c
    <2>1. /\ Len(q) + 1 \in 1 .. Len(r)
          /\ \A j \in (Len(q) + 1) + 1 .. Len(r) : FALSE
      BY <1>8
    <2>2. told'[d] \in T!Values(d) /\ r[Len(q) + 1] = FrameOf(d, told'[d])
      BY <1>4, <1>8, <1>9
    <2> QED
      BY <1>7, <2>1, <2>2 DEF Due
  <1>10. CASE d # c /\ Due(d)
    <2>1. PICK i \in 1 .. Len(q) :
              /\ told[d] \in T!Values(d) /\ q[i] = FrameOf(d, told[d])
              /\ \A j \in i + 1 .. Len(q) : q[j][1] # d
      BY <1>5, <1>10 DEF Due
    <2>2. i \in 1 .. Len(r) /\ r[i] = FrameOf(d, told'[d]) /\ told'[d] \in T!Values(d)
      BY <1>4, <1>8, <1>10, <2>1
    <2>3. ASSUME NEW j \in i + 1 .. Len(r) PROVE r[j][1] # d
      <3>1. CASE j = Len(q) + 1
        BY <1>2, <1>8, <1>10, <3>1
      <3>2. CASE j # Len(q) + 1
        <4>1. j \in i + 1 .. Len(q) /\ j \in 1 .. Len(q)
          BY <1>8, <3>2
        <4> QED
          BY <1>8, <2>1, <4>1
      <3> QED
        BY <3>1, <3>2
    <2> QED
      BY <1>7, <2>2, <2>3 DEF Due
  <1>11. CASE d # c /\ Agreed(d)
    <2>1. ASSUME NEW j \in 1 .. Len(r) PROVE r[j][1] # d
      <3>1. CASE j = Len(q) + 1
        BY <1>2, <1>8, <1>11, <3>1
      <3>2. CASE j # Len(q) + 1
        <4>1. j \in 1 .. Len(q)
          BY <1>8, <3>2
        <4> QED
          BY <1>5, <1>8, <1>11, <4>1 DEF Agreed
      <3> QED
        BY <3>1, <3>2
    <2> QED
      BY <1>4, <1>7, <1>11, <2>1 DEF Agreed
  <1> QED
    BY <1>1, <1>9, <1>10, <1>11

\* Nothing is said, shown or lost.
LEMMA LastKept ==
  ASSUME LastInv, UNCHANGED <<pending, labels, told>>, missed => missed'
  PROVE  LastInv'
  BY DEF LastInv, Due, Agreed

\* A frame that is not shown is missed.
LEMMA MissIsMissed ==
  ASSUME Aligned, ShowInv, V!Miss, ~(ui = "read" /\ ui' = "idle")
  PROVE  FrameMissed
PROOF
  <1>1. PICK q : q = pending
    OBVIOUS
  <1>2. q \in Seq(BoardFrames) /\ q # <<>>
    BY <1>1, PendingSeq DEF ShowInv, V!Miss
  <1>3. Len(q) \in Nat /\ Len(q) # 0
    BY <1>2
  <1>4. CASE pending' = SubSeq(q, 1, Len(q) - 1)
    <2>1. Len(pending') = Len(q) - 1
      <3>1. \A i \in 1 .. Len(q) - 1 : q[i] \in BoardFrames
        BY <1>2
      <3> DEFINE n == Len(q) - 1
      <3>2. n \in Int /\ n >= 0
        BY <1>3
      <3>3. \A i \in 1 .. n : q[i] \in BoardFrames
        BY <3>1
      <3>4. pending' = SubSeq(q, 1, n)
        BY <1>4
      <3> HIDE DEF n
      <3>5. Len(SubSeq(q, 1, n)) = IF 1 <= n THEN n - 1 + 1 ELSE 0
        BY <3>2, <3>3, SubSeqProperties
      <3>6. Len(pending') = n
        BY <3>2, <3>4, <3>5
      <3> QED
        BY <3>6 DEF n
    <2> QED
      BY <1>1, <1>3, <2>1 DEF FrameMissed
  <1>5. CASE \E k \in 1 .. Len(q) : pending' = SubSeq(q, k + 1, Len(q))
    <2>1. PICK k \in 1 .. Len(q) : pending' = SubSeq(q, k + 1, Len(q))
      BY <1>5
    <2>2. Len(pending') = Len(q) - k
      <3>1. \A i \in k + 1 .. Len(q) : q[i] \in BoardFrames
        BY <1>2
      <3> DEFINE n == Len(q)
      <3>2. n \in Int /\ k + 1 \in Int
        BY <1>3
      <3>3. \A i \in k + 1 .. n : q[i] \in BoardFrames
        BY <3>1
      <3> HIDE DEF n
      <3>4. Len(SubSeq(q, k + 1, n)) = IF k + 1 <= n THEN n - (k + 1) + 1 ELSE 0
        BY ONLY <3>2, <3>3, SubSeqProperties
      <3>5. n \in Nat /\ k \in 1 .. n
        BY <1>3 DEF n
      <3>6. pending' = SubSeq(q, k + 1, n)
        BY <2>1 DEF n
      <3>7. Len(pending') = n - k
        BY ONLY <3>4, <3>5, <3>6
      <3> QED
        BY <3>7 DEF n
    <2> QED
      BY <1>1, <1>3, <2>2 DEF FrameMissed
  <1> QED
    BY <1>1, <1>4, <1>5 DEF V!Miss, V!Drop

\* A port is opened: at most the frame on the wire is still to be shown.
LEMMA LastOpened ==
  ASSUME ToldInv, pending' = OnWire, labels' = NoLabels, UNCHANGED told
  PROVE  LastInv'
PROOF
  <1> SUFFICES ASSUME NEW d \in T!Commands PROVE (Due(d) \/ Agreed(d))'
    BY DEF LastInv
  <1>1. labels'[LabelOf[d]] = Blank
    BY CommandCases DEF LabelOf, NoLabels, LabelNames
  <1>2. CASE wire = <<>>
    <2>1. pending' = <<>>
      BY <1>2 DEF OnWire
    <2> QED
      BY <1>1, <2>1 DEF Agreed
  <1>3. CASE wire # <<>>
    <2>1. PICK c \in T!Commands : told[c] \in T!Values(c) /\ wire = FrameOf(c, told[c])
      BY <1>3 DEF ToldInv
    <2>2. PICK f : f = wire
      OBVIOUS
    <2>3. pending' = <<f>> /\ f[1] = c
      BY <1>3, <2>1, <2>2, FrameBegins DEF OnWire
    <2>4. Len(<<f>>) = 1 /\ <<f>>[1] = f
      OBVIOUS
    <2>5. CASE d = c
      <3>1. 1 \in 1 .. 1 /\ \A j \in 1 + 1 .. 1 : FALSE
        OBVIOUS
      <3>2. f = FrameOf(d, told'[d]) /\ told'[d] \in T!Values(d)
        BY <2>1, <2>2, <2>5
      <3> QED
        BY <2>3, <2>4, <3>1, <3>2 DEF Due
    <2>6. CASE d # c
      BY <1>1, <2>3, <2>4, <2>6 DEF Agreed
    <2> QED
      BY <2>5, <2>6
  <1> QED
    BY <1>2, <1>3

\* A port is refused: a blank label says nothing that is wrong.
LEMMA LastBlank ==
  ASSUME LastInv, UNCHANGED <<pending, told>>, labels' = NoLabels, missed => missed'
  PROVE  LastInv'
PROOF
  <1> SUFFICES ASSUME ~missed, NEW d \in T!Commands PROVE (Due(d) \/ Agreed(d))'
    BY DEF LastInv
  <1>1. labels'[LabelOf[d]] = Blank
    BY CommandCases DEF LabelOf, NoLabels, LabelNames
  <1>2. Due(d) => Due(d)'
    BY DEF Due
  <1>3. Agreed(d) => Agreed(d)'
    BY <1>1 DEF Agreed
  <1> QED
    BY <1>2, <1>3 DEF LastInv

\* A read shows the oldest frame.
LEMMA LastRead ==
  ASSUME Aligned, Showable, ShowInv, LastInv, V!ShowNext,
         ui = "read", ui' = "idle", missed' = (missed \/ FrameMissed), UNCHANGED told
  PROVE  LastInv'
PROOF
  <1> SUFFICES ASSUME ~missed', NEW d \in T!Commands PROVE (Due(d) \/ Agreed(d))'
    BY DEF LastInv
  <1>1. Due(d) \/ Agreed(d)
    BY DEF LastInv
  <1>2. PICK q : q = pending
    OBVIOUS
  <1>3. q \in Seq(BoardFrames) /\ q # <<>> /\ Len(q) \in Nat /\ Len(q) # 0
    BY <1>2, PendingSeq DEF ShowInv, V!ShowNext
  <1>4. PICK k \in 1 .. Len(q) : pending' = SubSeq(q, k + 1, Len(q))
    BY <1>2 DEF V!ShowNext, V!Drop
  <1>5. PICK r : r = SubSeq(q, k + 1, Len(q))
    OBVIOUS
  <1>6. /\ Len(r) = Len(q) - k
        /\ \A i \in 1 .. Len(q) - k : r[i] = q[i + k]
    <2>1. \A i \in k + 1 .. Len(q) : q[i] \in BoardFrames
      BY <1>3
    <2>2. /\ Len(r) = IF k + 1 <= Len(q) THEN Len(q) - (k + 1) + 1 ELSE 0
          /\ \A i \in 1 .. Len(q) - (k + 1) + 1 : r[i] = q[(k + 1) + i - 1]
      BY <1>3, <1>5, <2>1, SubSeqProperties
    <2>3. ASSUME NEW i \in 1 .. Len(q) - k PROVE r[i] = q[i + k]
      <3>1. i \in 1 .. Len(q) - (k + 1) + 1 /\ (k + 1) + i - 1 = i + k
        BY <1>3
      <3> QED
        BY <2>2, <3>1
    <2> QED
      BY <1>3, <2>2, <2>3
  <1>7. k = 1 /\ pending' = r
    <2>1. ~(Len(q) - Len(r) > 1)
      BY <1>2, <1>4, <1>5 DEF FrameMissed
    <2> QED
      BY <1>3, <1>4, <1>5, <1>6, <2>1
  <1>8. Len(r) = Len(q) - 1 /\ \A i \in 1 .. Len(q) - 1 : r[i] = q[i + 1]
    BY <1>6, <1>7
  <1>9. PICK f \in BoardFrames : f = q[1]
    BY <1>3
  <1>10. labels' = ShowFrame(labels, f)
    <2>1. Head(q) = f
      BY <1>3, <1>9
    <2> QED
      BY <1>2, <2>1 DEF V!ShowNext
  <1>11. Framed(f) /\ labels \in LabelTexts
    <2>1. labels \in LabelTexts
      BY TypeParts, Zenon DEF ShowInv, Contents
    <2>2. Framed(f)
      BY Zenon DEF Aligned
    <2> QED
      BY <2>1, <2>2
  <1>12. CASE Due(d)
    <2>1. PICK i \in 1 .. Len(q) :
              /\ told[d] \in T!Values(d) /\ q[i] = FrameOf(d, told[d])
              /\ \A j \in i + 1 .. Len(q) : q[j][1] # d
      BY <1>2, <1>12 DEF Due
    <2>2. CASE i = 1
      <3>1. labels'[LabelOf[d]] = TextOf(d, told'[d])
        BY <1>9, <1>10, <1>11, <2>1, <2>2, FrameTells
      <3>2. ASSUME NEW j \in 1 .. Len(r) PROVE r[j][1] # d
        <4>1. j \in 1 .. Len(q) - 1 /\ j + 1 \in i + 1 .. Len(q)
          BY <1>3, <1>8, <2>2
        <4> QED
          BY <1>8, <2>1, <4>1
      <3> QED
        BY <1>7, <2>1, <3>1, <3>2 DEF Agreed
    <2>3. CASE i # 1
      <3>1. i - 1 \in 1 .. Len(r) /\ i - 1 \in 1 .. Len(q) - 1 /\ (i - 1) + 1 = i
        BY <1>3, <1>8, <2>3
      <3>2. r[i - 1] = FrameOf(d, told'[d]) /\ told'[d] \in T!Values(d)
        BY <1>8, <2>1, <3>1
      <3>3. ASSUME NEW j \in (i - 1) + 1 .. Len(r) PROVE r[j][1] # d
        <4>1. j \in 1 .. Len(q) - 1 /\ j + 1 \in i + 1 .. Len(q)
          BY <1>3, <1>8, <2>3
        <4> QED
          BY <1>8, <2>1, <4>1
      <3> QED
        BY <1>7, <3>1, <3>2, <3>3 DEF Due
    <2> QED
      BY <2>2, <2>3
  <1>13. CASE Agreed(d)
    <2>1. \A j \in 1 .. Len(q) : q[j][1] # d
      BY <1>2, <1>13 DEF Agreed
    <2>2. labels'[LabelOf[d]] = labels[LabelOf[d]]
      <3>1. f[1] # d
        BY <1>3, <1>9, <2>1
      <3> QED
        BY <1>10, <1>11, <3>1, OthersStay
    <2>3. ASSUME NEW j \in 1 .. Len(r) PROVE r[j][1] # d
      <3>1. j \in 1 .. Len(q) - 1 /\ j + 1 \in 1 .. Len(q)
        BY <1>3, <1>8
      <3> QED
        BY <1>8, <2>1, <3>1
    <2> QED
      BY <1>7, <1>13, <2>2, <2>3 DEF Agreed
  <1> QED
    BY <1>1, <1>12, <1>13

-----------------------------------------------------------------------------
LEMMA HouseInvInit ==
  ASSUME Aligned, HouseInit
  PROVE  HouseInv
PROOF
  <1>1. ShowInv /\ pending = <<>>
    BY TypeInit, WakeInit, WholeInit DEF HouseInit, ShowInv
  <1>2. ToldInv
    <2>1. told = [c \in T!Commands |-> T!Never] /\ wire = <<>>
      BY DEF HouseInit, T!Init, Init
    <2>2. T!Never \in Int /\ CMD_RELAY_1 \in T!Commands /\ CMD_RELAY_2 \in T!Commands
      BY DEF T!Never, T!Commands, T!CMD_PIR, T!CMD_DHT, CMD_RELAY_1, CMD_RELAY_2
    <2> QED
      BY <2>1, <2>2 DEF ToldInv
  <1>3. ASSUME NEW d \in T!Commands PROVE Agreed(d)
    <2>1. labels[LabelOf[d]] = Blank
      BY CommandCases DEF HouseInit, Init, LabelOf, NoLabels, LabelNames
    <2> QED
      BY <1>1, <2>1 DEF Agreed
  <1> QED
    BY <1>1, <1>2, <1>3 DEF HouseInv, LastInv

LEMMA HouseInvNext ==
  ASSUME Aligned, Showable, HouseInv, [HouseNext]_houseVars
  PROVE  HouseInv'
PROOF
  <1>1. ShowInv' /\ ShowInv /\ ToldInv /\ LastInv /\ WholeInv /\ TypeOK
    BY HouseSteps, ShowInvNext DEF HouseInv, ShowInv
  <1>2. CASE Board
    <2>1. CASE \E c \in T!Commands : \E v \in T!Values(c) : SaysOf(c, v)
      <3>1. PICK c \in T!Commands : \E v \in T!Values(c) : SaysOf(c, v)
        BY <2>1
      <3>2. PICK v \in T!Values(c) : SaysOf(c, v)
        BY <3>1
      <3>3. pending' = Append(pending, FrameOf(c, v)) /\ V!Say
        BY <1>1, <3>2, StepSay DEF SaysOf
      <3>4. ToldInv'
        BY <1>1, <3>2, ToldSaid
      <3>5. LastInv'
        BY <1>1, <3>2, <3>3, LastSaid DEF V!Say
      <3> QED
        BY <1>1, <3>4, <3>5 DEF HouseInv
    <2>2. CASE UNCHANGED <<vars, missed, told, relay1, relay2>>
      <3>1. UNCHANGED <<pending, labels, wire>>
        BY <2>2 DEF vars, appVars, driverVars, pending
      <3>2. ToldInv'
        BY <1>1, <2>2, <3>1 DEF ToldInv
      <3>3. LastInv'
        BY <1>1, <2>2, <3>1, LastKept
      <3> QED
        BY <1>1, <3>2, <3>3 DEF HouseInv
    <2> QED
      BY <1>1, <1>2, <2>1, <2>2, BoardSays
  <1>3. CASE PC
    <2>1. UNCHANGED <<told, relay1, relay2>>
      BY <1>3 DEF PC, boardVars
    <2>2. ToldInv'
      <3>1. wire' = wire \/ wire' = <<>>
        <4>1. CASE BytesArrive \/ BytesLost \/ BytesDamaged
          <5>1. wire # <<>> /\ wire \in BoardFrames /\ wire \in Seq(Bytes)
            BY <1>1, <4>1 DEF BytesArrive, BytesLost, BytesDamaged, WholeInv,
                              Aligned, Framed
          <5>2. Burst = Len(wire)
            BY HouseAssumption, Zenon DEF Burst
          <5> QED
            BY <4>1, <5>1, <5>2, SubSeqEmpty DEF BytesArrive, BytesLost, BytesDamaged
        <4>2. CASE ComThread \/ SetHwnd \/ ReceiveMessage \/ Purge \/ Read \/ Write
                   \/ OpenPort \/ OpenPortRefused \/ OpenPortFails
          BY <4>2 DEF ComThread, ThreadStarts, ThreadEnds, ThreadWakes, ThreadClearsError,
                      ThreadNotifies, SetHwnd, ReceiveMessage, Purge, Read, Write,
                      OpenPort, OpenPortRefused, OpenPortFails
        <4> QED
          BY <1>3, <4>1, <4>2 DEF PC
      <3> QED
        BY <1>1, <2>1, <3>1 DEF ToldInv
    <2>3. CASE OpenPort \/ OpenPortFails
      <3>1. pending' = OnWire /\ labels' = NoLabels
        BY <1>1, <2>3, StepClear DEF V!Clear
      <3> QED
        BY <1>1, <2>1, <2>2, <3>1, LastOpened DEF HouseInv
    <2>4. CASE ~(OpenPort \/ OpenPortFails)
      <3>1. missed' = (missed \/ FrameMissed)
        BY <1>3, <2>4 DEF PC
      <3>2. CASE V!Miss /\ ~(ui = "read" /\ ui' = "idle")
        <4>1. missed'
          BY <1>1, <3>1, <3>2, MissIsMissed
        <4> QED
          BY <1>1, <2>2, <4>1 DEF HouseInv, LastInv
      <3>3. CASE UNCHANGED V!viewVars
        <4>1. missed => missed'
          BY <3>1
        <4> QED
          BY <1>1, <2>1, <2>2, <3>3, <4>1, LastKept DEF HouseInv, V!viewVars
      <3>4. CASE Read
        <4>1. V!ShowNext /\ ui = "read" /\ ui' = "idle"
          BY <1>1, <3>4, StepRead DEF Read
        <4> QED
          BY <1>1, <2>1, <2>2, <3>1, <4>1, LastRead DEF HouseInv
      <3>5. CASE BytesArrive
        BY <1>1, <3>3, <3>5, StepArrive
      <3>6. CASE BytesLost \/ BytesDamaged
        <4>1. ui' = ui
          BY <3>6 DEF BytesLost, BytesDamaged, appVars
        <4> QED
          BY <1>1, <3>2, <3>6, <4>1, StepLost
      <3>7. CASE ComThread \/ Write
        <4>1. UNCHANGED <<inq, wire, labels, ui, cbInQue>>
          BY <3>7 DEF ComThread, ThreadStarts, ThreadEnds, ThreadWakes, ThreadClearsError,
                      ThreadNotifies, Write, appVars, driverVars
        <4> QED
          BY <1>1, <3>3, <4>1, StepAside
      <3>8. CASE SetHwnd
        <4>1. UNCHANGED <<inq, wire, labels>> /\ ui' # "read"
          BY <3>8 DEF SetHwnd, driverVars
        <4> QED
          BY <1>1, <3>3, <4>1, StepAside
      <3>9. CASE ReceiveMessage
        BY <1>1, <3>3, <3>9, StepCount
      <3>10. CASE Purge
        <4>1. ui # "read"
          BY <3>10 DEF Purge
        <4> QED
          BY <1>1, <3>2, <3>3, <3>10, <4>1, StepPurge
      <3>11. CASE OpenPortRefused
        <4>1. pending' = pending /\ labels' = NoLabels
          BY <1>1, <3>11, StepRefused DEF V!Clear
        <4> QED
          BY <1>1, <2>1, <2>2, <3>1, <4>1, LastBlank DEF HouseInv
      <3> QED
        BY <1>3, <2>4, <3>4, <3>5, <3>6, <3>7, <3>8, <3>9, <3>10, <3>11 DEF PC
    <2> QED
      BY <2>3, <2>4
  <1>4. CASE UNCHANGED houseVars
    <2>1. UNCHANGED <<pending, labels, wire, told, relay1, relay2, missed>>
      BY <1>4 DEF houseVars, boardVars, vars, appVars, driverVars, pending
    <2>2. ToldInv'
      BY <1>1, <2>1 DEF ToldInv
    <2>3. LastInv'
      BY <1>1, <2>1, LastKept
    <2> QED
      BY <1>1, <2>2, <2>3 DEF HouseInv
  <1> QED
    BY <1>2, <1>3, <1>4 DEF HouseNext

LEMMA InvAgrees ==
  ASSUME HouseInv
  PROVE  LabelsAgree
PROOF
  <1> SUFFICES ASSUME ~missed, pending = <<>>
               PROVE  LabelsAgree
    BY DEF LabelsAgree
  <1>1. ASSUME NEW c \in T!Commands
        PROVE  labels[LabelOf[c]] # Blank =>
                   told[c] \in T!Values(c) /\ labels[LabelOf[c]] = TextOf(c, told[c])
    <2>1. Len(<<>>) = 0 /\ \A i \in 1 .. 0 : FALSE
      OBVIOUS
    <2>2. ~Due(c)
      BY <2>1 DEF Due
    <2> QED
      BY <2>2 DEF HouseInv, LastInv, Agreed
  <1>2. T!Commands = 1 .. 5
    BY DEF T!Commands, T!CMD_PIR, T!CMD_DHT
  <1> USE DEF CMD_PIR, CMD_ULTRASONIC_RANGE, CMD_RELAY_1, CMD_RELAY_2, CMD_DHT
  <1>3. \A c \in {1, 3, 4} : T!Values(c) = {0, 1} /\ TextOf(c, told[c]) = <<told[c]>>
    BY <1>2, ValuesOf DEF TextOf
  <1>4. T!Never \notin {0, 1}
    BY DEF T!Never
  <1>5. labels["PIR"] \in {Blank, <<told[1]>>}
    <2>1. 1 \in T!Commands /\ LabelOf[1] = "PIR"
      BY <1>2 DEF LabelOf
    <2> QED
      BY <1>1, <1>3, <2>1
  <1>6. labels["Locker"] \in {Blank, <<T!Bit(relay1)>>}
    <2>1. 3 \in T!Commands /\ LabelOf[3] = "Locker"
      BY <1>2 DEF LabelOf
    <2> QED
      BY <1>1, <1>3, <1>4, <2>1 DEF HouseInv, ToldInv
  <1>7. labels["Fan"] \in {Blank, <<T!Bit(relay2)>>}
    <2>1. 4 \in T!Commands /\ LabelOf[4] = "Fan"
      BY <1>2 DEF LabelOf
    <2> QED
      BY <1>1, <1>3, <1>4, <2>1 DEF HouseInv, ToldInv
  <1>8. labels["Distance"] # Blank => labels["Distance"] = FloatBytes[told[2]]
    <2>1. 2 \in T!Commands /\ LabelOf[2] = "Distance"
      BY <1>2 DEF LabelOf
    <2>2. TextOf(2, told[2]) = FloatBytes[told[2]]
      BY DEF TextOf
    <2> QED
      BY <1>1, <2>1, <2>2
  <1>9. labels["Temperature"] \in {Blank, <<told[5], 0>>}
    <2>1. 5 \in T!Commands /\ LabelOf[5] = "Temperature"
      BY <1>2 DEF LabelOf
    <2>2. TextOf(5, told[5]) = <<told[5], 0>>
      BY DEF TextOf
    <2> QED
      BY <1>1, <2>1, <2>2
  <1> QED
    BY <1>5, <1>6, <1>7, <1>8, <1>9 DEF LabelsAgree, T!CMD_PIR,
       T!CMD_ULTRASONIC_RANGE, T!CMD_RELAY_1, T!CMD_RELAY_2, T!CMD_DHT

\* From the relay to the label, for every set of temperatures and distances:
\* once all the board said is shown or was told before the port was opened, the
\* labels show the board as it is (main.c:114-154, SupervisorDlg.cpp:301-420).
\* A temperature or a distance of 0 is not shown, so that the label would keep
\* an older one.
THEOREM LabelsAgreeCorrect ==
  ASSUME Aligned, Showable
  PROVE  HouseSpec => []LabelsAgree
PROOF
  <1>1. HouseInit => HouseInv
    BY HouseInvInit
  <1>2. HouseInv /\ [HouseNext]_houseVars => HouseInv'
    BY HouseInvNext
  <1>3. HouseInv => LabelsAgree
    BY InvAgrees
  <1> QED
    BY <1>1, <1>2, <1>3, PTL DEF HouseSpec
=============================================================================
