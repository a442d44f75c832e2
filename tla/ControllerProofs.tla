-------------------------- MODULE ControllerProofs --------------------------
(* Theorems about Controller, for every set of host frames, temperatures and *)
(* distances, every pulse width and either behaviour of the overrun flag.    *)
EXTENDS Controller, TLAPS

\* Every action of the board but the receiver's own, spelled out once.
LEMMA NextCases ==
    Next <=> \/ RecvNothing \/ RecvCommand \/ RecvLength \/ RecvPayload
             \/ Dispatch \/ GetTemp \/ SendDHT \/ RelayHeat \/ TellHeat
             \/ GetInfrared \/ SendPIR \/ RelayMotion \/ TellMotion
             \/ SonicDistance \/ SetDistance \/ RelayNear \/ TellNear
             \/ HostSend \/ ByteArrives
  BY DEF Next, Board, Receive, Heat, Motion, Near

-----------------------------------------------------------------------------
(* Type correctness. *)

\* A byte read from the data register is a byte.
LEMMA GetcharType ==
  ASSUME UartTypeOK, uart0_getchar
  PROVE  UartTypeOK' /\ rxd \in Byte
  BY DEF UartTypeOK, uart0_getchar, NoByte, Byte

LEMMA ArriveType ==
  ASSUME UartTypeOK, Arrive
  PROVE  UartTypeOK'
<1>1. line # <<>> => Head(line) \in Byte /\ Tail(line) \in Seq(Byte)
  BY DEF UartTypeOK
<1>2. CASE Store
  BY <1>1, <1>2 DEF Store, UartTypeOK
<1>3. CASE Overrun
  BY <1>1, <1>3 DEF Overrun, UartTypeOK
<1>4. CASE Deaf
  BY <1>1, <1>4 DEF Deaf, UartTypeOK
<1> QED BY <1>2, <1>3, <1>4 DEF Arrive

\* What a statement that only sends does to the types.
LEMMA TellType ==
  ASSUME TypeOK,
         NEW at \in Steps, NEW cmd \in Commands, NEW value \in Int,
         NEW next \in Steps, Tell(at, cmd, value, next)
  PROVE  TypeOK'
<1>1. UartTypeOK' /\ szRepBuf' \in Seq(Byte)
  <2>1. CASE ~uart0_getchar_present /\ UNCHANGED <<uartVars, szRepBuf>>
    BY <2>1 DEF TypeOK, UartTypeOK, uartVars
  <2>2. CASE uart0_getchar /\ szRepBuf' = <<rxd>>
    BY <2>2, GetcharType DEF TypeOK
  <2> QED BY <2>1, <2>2 DEF Tell, SendBuffer
<1>2. told' \in [Commands -> Int]
  BY DEF Tell, SendBuffer, TypeOK
<1> QED BY <1>1, <1>2 DEF Tell, TypeOK, ghostVars

\* Every variable keeps its type: the bytes on the line, the counter of
\* GetInfrared and the last reading stay within their bounds.
THEOREM TypeCorrect == Spec => []TypeOK
<1>1. Init => TypeOK
  <2> SUFFICES ASSUME Init PROVE TypeOK
    OBVIOUS
  <2>1. UartTypeOK
    <3>1. line = <<>> /\ rxd = NoByte /\ overrun = FALSE
      BY DEF Init, UartInit
    <3>2. line \in Seq(Byte)
      BY <3>1
    <3> QED BY <3>1, <3>2 DEF UartTypeOK
  <2>2. told \in [Commands -> Int]
    BY DEF Init, Never
  <2>3. uHiTemp \in Byte /\ uCmd \in Byte /\ pc \in Steps
    BY DEF Init, DefaultHiTemp, Byte, Steps
  <2>4. sinceMotion \in 0 .. PulseWidth /\ DelayCounter \in 0 .. PulseWidth
    BY ControllerAssumption DEF Init, ControllerAssumption
  <2>5. szRepBuf \in Seq(Byte)
    BY DEF Init
  <2> QED BY <2>1, <2>2, <2>3, <2>4, <2>5 DEF Init, TypeOK
<1>2. TypeOK /\ [Next]_vars => TypeOK'
  <2> SUFFICES ASSUME TypeOK, [Next]_vars PROVE TypeOK'
    OBVIOUS
  <2> USE ControllerAssumption
  <2>1. CASE RecvNothing
    BY <2>1 DEF RecvNothing, TypeOK, UartTypeOK, uartVars, ghostVars, Steps, Byte
  <2>2. CASE RecvCommand
    <3>1. UartTypeOK' /\ rxd \in Byte
      BY <2>2, GetcharType DEF RecvCommand, TypeOK
    <3> QED BY <2>2, <3>1 DEF RecvCommand, TypeOK, ghostVars, Steps
  <2>3. CASE RecvLength
    <3>1. UartTypeOK' /\ rxd \in Byte
      BY <2>3, GetcharType DEF RecvLength, TypeOK
    <3> QED BY <2>3, <3>1 DEF RecvLength, TypeOK, ghostVars, Steps
  <2>4. CASE RecvPayload
    <3>1. UartTypeOK' /\ rxd \in Byte
      BY <2>4, GetcharType DEF RecvPayload, TypeOK
    <3> QED BY <2>4, <3>1 DEF RecvPayload, TypeOK, ghostVars, Steps
  <2>5. CASE Dispatch
    <3>1. RepByte(4) \in Byte
      <4>1. CASE 4 < Len(szRepBuf)
        <5>1. 5 \in 1 .. Len(szRepBuf)
          BY <4>1 DEF TypeOK
        <5> QED BY <5>1, <4>1 DEF RepByte, TypeOK
      <4>2. CASE ~(4 < Len(szRepBuf))
        BY <4>2 DEF RepByte, Byte
      <4> QED BY <4>1, <4>2
    <3> QED BY <2>5, <3>1 DEF Dispatch, TypeOK, UartTypeOK, uartVars, ghostVars, Steps
  <2>6. CASE GetTemp
    BY <2>6 DEF GetTemp, TypeOK, UartTypeOK, uartVars, Steps
  <2>7. CASE SendDHT
    <3>1. RecTI \in Int
      BY DEF TypeOK, ControllerAssumption, Byte
    <3> QED BY <2>7, <3>1, TellType DEF SendDHT, Steps, Commands, CMD_PIR, CMD_DHT
  <2>8. CASE RelayHeat
    BY <2>8 DEF RelayHeat, TypeOK, UartTypeOK, uartVars, ghostVars, Steps
  <2>9. CASE TellHeat
    BY <2>9, TellType DEF TellHeat, Steps, Commands, CMD_PIR, CMD_DHT, CMD_RELAY_1, Bit
  <2>10. CASE GetInfrared
    BY <2>10 DEF GetInfrared, Poll, TypeOK, UartTypeOK, uartVars, Steps, Bit
  <2>11. CASE SendPIR
    <3>1. nInfrared \in Int
      BY DEF TypeOK
    <3> QED BY <2>11, <3>1, TellType DEF SendPIR, Steps, Commands, CMD_PIR, CMD_DHT
  <2>12. CASE RelayMotion
    BY <2>12 DEF RelayMotion, TypeOK, UartTypeOK, uartVars, ghostVars, Steps
  <2>13. CASE TellMotion
    BY <2>13, TellType DEF TellMotion, Steps, Commands, CMD_PIR, CMD_DHT, CMD_RELAY_1
  <2>14. CASE SonicDistance
    BY <2>14 DEF SonicDistance, TypeOK, UartTypeOK, uartVars, ghostVars, Steps
  <2>15. CASE SetDistance
    <3>1. fDistance \in Int
      BY DEF TypeOK, ControllerAssumption
    <3> QED BY <2>15, <3>1, TellType
            DEF SetDistance, Steps, Commands, CMD_PIR, CMD_DHT, CMD_ULTRASONIC_RANGE
  <2>16. CASE RelayNear
    BY <2>16 DEF RelayNear, TypeOK, UartTypeOK, uartVars, ghostVars, Steps
  <2>17. CASE TellNear
    BY <2>17, TellType DEF TellNear, Steps, Commands, CMD_PIR, CMD_DHT, CMD_RELAY_2, Bit
  <2>18. CASE HostSend
    <3>1. PICK frame \in unsent : unsent' = unsent \ {frame} /\ Transmit(frame)
      BY <2>18 DEF HostSend
    <3>2. line' \in Seq(Byte)
      BY <3>1 DEF Transmit, TypeOK, UartTypeOK
    <3> QED BY <2>18, <3>1, <3>2 DEF HostSend, Transmit, TypeOK, UartTypeOK, boardVars
  <2>19. CASE ByteArrives
    BY <2>19, ArriveType DEF ByteArrives, TypeOK, boardVars, ghostVars
  <2>20. CASE UNCHANGED vars
    BY <2>20 DEF vars, boardVars, ghostVars, uartVars, TypeOK, UartTypeOK
  <2> QED BY <2>1, <2>2, <2>3, <2>4, <2>5, <2>6, <2>7, <2>8, <2>9, <2>10, <2>11,
            <2>12, <2>13, <2>14, <2>15, <2>16, <2>17, <2>18, <2>19, <2>20, NextCases
<1> QED BY <1>1, <1>2, PTL DEF Spec

-----------------------------------------------------------------------------
(* What holds at each statement of the loop.  LoopOutcome speaks of the top *)
(* of the loop only; to be kept by every step it needs what each statement  *)
(* has established by then.                                                 *)

Hot == RecTI > uHiTemp
Close == fDistance < NearDistance

\* From the switch for heat to the report of motion, relay 1 follows the heat.
HeatInv ==
    /\ pc \in {"tellHeat", "infrared", "tellPIR", "relayMotion"} => relay1 = Hot
    /\ pc \in {"infrared", "tellPIR", "relayMotion"} => told[CMD_RELAY_1] = Bit(Hot)

\* Then motion overrides it, and the PC is told.
MotionInv ==
    /\ pc \in {"relayMotion", "tellMotion"} => told[CMD_PIR] = 1
    /\ pc = "tellMotion" => relay1 = TRUE
    /\ (pc \in {"sonic", "tellDistance", "relayNear", "tellNear"}
          \/ (pc = "recv" /\ told[CMD_RELAY_2] # Never)) =>
         /\ told[CMD_RELAY_1] = Bit(relay1)
         /\ relay1 = (told[CMD_PIR] = 1 \/ Hot)

\* Relay 2 follows the distance the PC was told.
NearInv ==
    /\ pc = "tellDistance" => fDistance \in Distances
    /\ pc \in {"relayNear", "tellNear"} => told[CMD_ULTRASONIC_RANGE] = fDistance
    /\ pc = "tellNear" => relay2 = Close
    /\ pc = "recv" /\ told[CMD_RELAY_2] # Never =>
         /\ told[CMD_RELAY_2] = Bit(relay2)
         /\ relay2 = (told[CMD_ULTRASONIC_RANGE] < NearDistance)

\* The reading about to be sent is the verified one.
ReadingInv ==
    /\ pc = "sendDHT" => RecTI = verified
    /\ pc # "sendDHT" => told[CMD_DHT] = verified

LoopInv == HeatInv /\ MotionInv /\ NearInv /\ ReadingInv

\* What a statement that only sends does to the state these are about.
LEMMA TellEffect ==
  ASSUME TypeOK, NEW at, NEW cmd \in Commands, NEW value, NEW next,
         Tell(at, cmd, value, next)
  PROVE  /\ pc = at /\ pc' = next
         /\ told'[cmd] = value
         /\ \A c \in Commands : c # cmd => told'[c] = told[c]
         /\ UNCHANGED <<uHiTemp, RecTI, relay1, relay2, nInfrared, fDistance,
                        verified, DelayCounter, sinceMotion>>
  BY DEF Tell, SendBuffer, TypeOK, ghostVars

LEMMA CommandsEnumerated ==
  /\ Commands = {CMD_PIR, CMD_ULTRASONIC_RANGE, CMD_RELAY_1, CMD_RELAY_2, CMD_DHT}
  /\ CMD_PIR = 1 /\ CMD_ULTRASONIC_RANGE = 2 /\ CMD_RELAY_1 = 3
  /\ CMD_RELAY_2 = 4 /\ CMD_DHT = 5
  BY DEF Commands, CMD_PIR, CMD_ULTRASONIC_RANGE, CMD_RELAY_1, CMD_RELAY_2, CMD_DHT

LEMMA LoopInit == Init => LoopInv
<1> SUFFICES ASSUME Init PROVE LoopInv
  OBVIOUS
<1>1. told[CMD_RELAY_2] = Never /\ told[CMD_DHT] = Never
  BY CommandsEnumerated DEF Init
<1> QED BY <1>1 DEF Init, LoopInv, HeatInv, MotionInv, NearInv, ReadingInv

LEMMA LoopStep == TypeOK /\ LoopInv /\ [Next]_vars => LoopInv'
<1> SUFFICES ASSUME TypeOK, LoopInv, [Next]_vars PROVE LoopInv'
  OBVIOUS
<1> USE DEF LoopInv, HeatInv, MotionInv, NearInv, ReadingInv, Hot, Close
<1> DEFINE Told(cmd, value) ==
              /\ told'[cmd] = value
              /\ \A c \in Commands : c # cmd => told'[c] = told[c]
           Frozen == UNCHANGED <<uHiTemp, RecTI, relay1, relay2, nInfrared,
                                 fDistance, verified>>
<1>1. CASE Receive
  BY <1>1 DEF Receive, RecvNothing, RecvCommand, RecvLength, RecvPayload, Dispatch, ghostVars
<1>2. CASE GetTemp
  BY <1>2 DEF GetTemp
<1>3. CASE SendDHT
  <2>1. pc = "sendDHT" /\ pc' = "relayHeat" /\ Told(CMD_DHT, RecTI) /\ Frozen
    BY ONLY TypeOK, <1>3, TellEffect, CommandsEnumerated DEF SendDHT
  <2> HIDE DEF Told
  <2> QED BY <2>1, CommandsEnumerated DEF Told
<1>4. CASE RelayHeat
  BY <1>4 DEF RelayHeat, ghostVars
<1>5. CASE TellHeat
  <2>1. pc = "tellHeat" /\ pc' = "infrared" /\ Told(CMD_RELAY_1, Bit(RecTI > uHiTemp)) /\ Frozen
    BY ONLY TypeOK, <1>5, TellEffect, CommandsEnumerated DEF TellHeat
  <2> HIDE DEF Told
  <2> QED BY <2>1, CommandsEnumerated DEF Told
<1>6. CASE GetInfrared
  BY <1>6 DEF GetInfrared, Poll
<1>7. CASE SendPIR
  <2>1. pc = "tellPIR" /\ pc' = (IF nInfrared = 1 THEN "relayMotion" ELSE "sonic") /\ Told(CMD_PIR, nInfrared) /\ Frozen
    <3> DEFINE next == IF nInfrared = 1 THEN "relayMotion" ELSE "sonic"
    <3>1. Tell("tellPIR", CMD_PIR, nInfrared, next)
      BY <1>7 DEF SendPIR
    <3> HIDE DEF next
    <3>2. pc = "tellPIR" /\ pc' = next /\ Told(CMD_PIR, nInfrared) /\ Frozen
      BY ONLY TypeOK, <3>1, TellEffect, CommandsEnumerated
    <3> QED BY <3>2 DEF next
  <2> HIDE DEF Told
  <2> QED BY <2>1, CommandsEnumerated DEF Told
<1>8. CASE RelayMotion
  BY <1>8 DEF RelayMotion, ghostVars
<1>9. CASE TellMotion
  <2>1. pc = "tellMotion" /\ pc' = "sonic" /\ Told(CMD_RELAY_1, 1) /\ Frozen
    BY ONLY TypeOK, <1>9, TellEffect, CommandsEnumerated DEF TellMotion
  <2> HIDE DEF Told
  <2>2. relay1 = TRUE /\ told[CMD_PIR] = 1
    BY <2>1
  <2>3. relay1' = TRUE /\ told'[CMD_PIR] = 1 /\ told'[CMD_RELAY_1] = 1
    BY <2>1, <2>2, CommandsEnumerated DEF Told
  <2>4. MotionInv'
    BY <2>1, <2>3 DEF Bit
  <2> HIDE DEF MotionInv
  <2> QED BY <2>1, <2>4, CommandsEnumerated DEF Told
<1>10. CASE SonicDistance
  BY <1>10 DEF SonicDistance, ghostVars
<1>11. CASE SetDistance
  <2>1. pc = "tellDistance" /\ pc' = "relayNear" /\ Told(CMD_ULTRASONIC_RANGE, fDistance) /\ Frozen
    <3>1. Tell("tellDistance", CMD_ULTRASONIC_RANGE, fDistance, "relayNear")
      BY <1>11 DEF SetDistance
    <3>2. CMD_ULTRASONIC_RANGE \in Commands
      BY CommandsEnumerated
    <3> QED BY ONLY TypeOK, <3>1, <3>2, TellEffect
  <2> HIDE DEF Told
  <2> QED BY <2>1, CommandsEnumerated DEF Told
<1>12. CASE RelayNear
  BY <1>12 DEF RelayNear, ghostVars
<1>13. CASE TellNear
  <2>1. pc = "tellNear" /\ pc' = "recv" /\ Told(CMD_RELAY_2, Bit(fDistance < NearDistance)) /\ Frozen
    BY ONLY TypeOK, <1>13, TellEffect, CommandsEnumerated DEF TellNear
  <2> HIDE DEF Told
  <2> QED BY <2>1, CommandsEnumerated DEF Told
<1>14. CASE HostSend \/ ByteArrives \/ UNCHANGED vars
  BY <1>14 DEF HostSend, ByteArrives, vars, boardVars, ghostVars
<1> QED BY <1>1, <1>2, <1>3, <1>4, <1>5, <1>6, <1>7, <1>8, <1>9, <1>10, <1>11,
          <1>12, <1>13, <1>14 DEF Next, Board, Heat, Motion, Near

\* At the top of the loop relays, rules and reports agree.
THEOREM LoopOutcomeCorrect == Spec => []LoopOutcome
<1>1. LoopInv => LoopOutcome
  BY DEF LoopInv, MotionInv, NearInv, LoopOutcome, Hot
<1> QED BY <1>1, LoopInit, LoopStep, TypeCorrect, PTL DEF Spec

\* The PC is only told readings whose checksum was right.
THEOREM ReadingsVerifiedCorrect == Spec => []ReadingsVerified
<1>1. LoopInv => ReadingsVerified
  BY DEF LoopInv, ReadingInv, ReadingsVerified
<1> QED BY <1>1, LoopInit, LoopStep, TypeCorrect, PTL DEF Spec

-----------------------------------------------------------------------------
(* A PC whose bytes are all outside 1..10 does not disturb the loop. *)

LEMMA FramesSent ==
  ASSUME TypeOK, NEW frame \in unsent, unsent' = unsent \ {frame}
  PROVE  frame \in Seq(SentBytes') /\ SentBytes \subseteq SentBytes'
<1>1. frame \in Seq(Byte) /\ frame \in HostFrames \ unsent'
  BY ControllerAssumption DEF ControllerAssumption, TypeOK
<1>2. \A i \in DOMAIN frame : frame[i] \in SentBytes'
  BY <1>1 DEF SentBytes
<1>3. frame \in Seq(SentBytes')
  BY <1>1, <1>2
<1> QED BY <1>3 DEF SentBytes

\* Only bytes the PC has sent are on the line and in the register.
CarriedInv ==
    /\ line \in Seq(SentBytes)
    /\ rxd \in SentBytes \cup {NoByte}

\* None of them is a command, so none was taken for one.
Harmless == SentBytes \cap (1 .. MaxCommand) = {}

InertInv ==
    /\ CarriedInv
    /\ Harmless =>
         /\ uCmd \notin 1 .. MaxCommand
         /\ pc \notin {"recvLen", "recvData"}
         /\ uHiTemp = DefaultHiTemp

LEMMA InertStep == TypeOK /\ InertInv /\ [Next]_vars => InertInv'
<1> SUFFICES ASSUME TypeOK, InertInv, [Next]_vars PROVE InertInv'
  OBVIOUS
<1> USE DEF InertInv, CarriedInv
\* The steps that send nothing leave SentBytes alone.
<1>0. UNCHANGED unsent => SentBytes' = SentBytes /\ Harmless' = Harmless
  BY DEF SentBytes, Harmless
<1>1. CASE RecvNothing
  BY <1>0, <1>1 DEF RecvNothing, uartVars, ghostVars, MaxCommand
<1>2. CASE RecvCommand
  <2>1. rxd \in SentBytes /\ rxd \in Byte
    BY <1>2 DEF RecvCommand, uart0_getchar, TypeOK, UartTypeOK
  <2>2. Harmless => rxd > MaxCommand \/ rxd = 0
    BY <2>1 DEF Harmless, Byte, MaxCommand
  <2> QED BY <1>0, <1>2, <2>1, <2>2 DEF RecvCommand, uart0_getchar, ghostVars, Harmless
<1>3. CASE RecvLength \/ RecvPayload
  BY <1>0, <1>3 DEF RecvLength, RecvPayload, uart0_getchar, ghostVars
<1>4. CASE Dispatch
  BY <1>0, <1>4 DEF Dispatch, uartVars, ghostVars, CMD_DHT, MaxCommand
<1>5. ASSUME NEW at, NEW cmd, NEW value, NEW next, Tell(at, cmd, value, next),
             next \notin {"recvLen", "recvData"}
      PROVE  InertInv'
  BY <1>0, <1>5 DEF Tell, SendBuffer, uart0_getchar, uartVars, ghostVars
<1>6. CASE SendDHT \/ TellHeat \/ TellMotion \/ SetDistance \/ TellNear
  BY <1>5, <1>6 DEF SendDHT, TellHeat, TellMotion, SetDistance, TellNear
<1>7. CASE SendPIR
  <2>1. CASE nInfrared = 1
    BY <1>5, <1>7, <2>1 DEF SendPIR
  <2>2. CASE nInfrared # 1
    BY <1>5, <1>7, <2>2 DEF SendPIR
  <2> QED BY <2>1, <2>2
<1>8. CASE GetTemp \/ RelayHeat \/ GetInfrared \/ RelayMotion \/ SonicDistance \/ RelayNear
  BY <1>0, <1>8 DEF GetTemp, RelayHeat, GetInfrared, Poll, RelayMotion, SonicDistance,
                    RelayNear, uartVars, ghostVars
<1>9. CASE HostSend
  <2>1. PICK frame \in unsent : unsent' = unsent \ {frame} /\ Transmit(frame)
    BY <1>9 DEF HostSend
  <2>2. frame \in Seq(SentBytes') /\ SentBytes \subseteq SentBytes'
    BY <2>1, FramesSent
  <2>3. line \in Seq(SentBytes') /\ line' = line \o frame
    BY <2>1, <2>2 DEF Transmit
  <2>4. line' \in Seq(SentBytes')
    BY <2>2, <2>3
  <2>5. Harmless' => Harmless
    BY <2>2 DEF Harmless
  <2> QED BY <1>9, <2>1, <2>2, <2>4, <2>5 DEF HostSend, Transmit, boardVars
<1>10. CASE ByteArrives
  <2>1. line # <<>> => Head(line) \in SentBytes /\ Tail(line) \in Seq(SentBytes)
    OBVIOUS
  <2> QED BY <1>0, <1>10, <2>1
          DEF ByteArrives, Arrive, Store, Overrun, Deaf, boardVars, ghostVars
<1>11. CASE UNCHANGED vars
  BY <1>0, <1>11 DEF vars, uartVars, boardVars, ghostVars
<1> QED BY <1>1, <1>2, <1>3, <1>4, <1>6, <1>7, <1>8, <1>9, <1>10, <1>11, NextCases

\* While the PC's bytes are harmless no call of the loop waits for it and the
\* temperature limit stays, however the bytes are lost or taken out of step.
THEOREM InertHostCorrect == Spec => []InertHost
<1>1. Init => InertInv
  <2> SUFFICES ASSUME Init PROVE InertInv
    OBVIOUS
  <2>1. line = <<>> /\ rxd = NoByte
    BY DEF Init, UartInit
  <2>2. line \in Seq(SentBytes)
    BY <2>1
  <2> QED BY <2>1, <2>2 DEF Init, InertInv, CarriedInv, MaxCommand
<1>2. InertInv => InertHost
  BY DEF InertInv, Harmless, InertHost
<1> QED BY <1>1, <1>2, InertStep, TypeCorrect, PTL DEF Spec

-----------------------------------------------------------------------------
(* The pulse of the motion sensor. *)

\* While a motion is being held, the counter counts the polls since it.
PulseInv ==
    /\ sinceMotion < PulseWidth => DelayCounter = sinceMotion
    /\ PirPulse

\* A motion is held for PulseWidth polls, no more and no less, whatever the
\* width.
THEOREM PirPulseCorrect == Spec => []PirPulse
<1>1. Init => PulseInv
  BY ControllerAssumption DEF ControllerAssumption, Init, PulseInv, PirPulse
<1>2. TypeOK /\ PulseInv /\ [Next]_vars => PulseInv'
  <2> SUFFICES ASSUME TypeOK, PulseInv, [Next]_vars PROVE PulseInv'
    OBVIOUS
  <2>1. CASE GetInfrared
    <3>1. PulseWidth \in Nat \ {0} /\ DelayCounter \in 0 .. PulseWidth
          /\ sinceMotion \in 0 .. PulseWidth
      BY ControllerAssumption DEF ControllerAssumption, TypeOK
    <3> QED BY <2>1, <3>1 DEF GetInfrared, Poll, PulseInv, PirPulse, Bit
  <2>2. CASE UNCHANGED <<DelayCounter, nInfrared, sinceMotion>>
    BY <2>2 DEF PulseInv, PirPulse
  <2>3. CASE UNCHANGED vars
    BY <2>2, <2>3 DEF vars, boardVars, ghostVars
  <2>4. ~GetInfrared /\ Next => UNCHANGED <<DelayCounter, nInfrared, sinceMotion>>
    BY NextCases
       DEF RecvNothing, RecvCommand, RecvLength, RecvPayload, Dispatch, GetTemp,
           SendDHT, RelayHeat, TellHeat, SendPIR, RelayMotion, TellMotion,
           SonicDistance, SetDistance, RelayNear, TellNear, Tell,
           HostSend, ByteArrives, boardVars, ghostVars
  <2> QED BY <2>1, <2>2, <2>3, <2>4
<1>3. PulseInv => PirPulse
  BY DEF PulseInv
<1> QED BY <1>1, <1>2, <1>3, TypeCorrect, PTL DEF Spec

-----------------------------------------------------------------------------
(* The board implements Telemetry. *)

LEMMA SameConstants ==
  /\ T!Commands = Commands /\ T!Never = Never /\ T!NearDistance = NearDistance
  /\ T!CMD_PIR = CMD_PIR /\ T!CMD_ULTRASONIC_RANGE = CMD_ULTRASONIC_RANGE
  /\ T!CMD_RELAY_1 = CMD_RELAY_1 /\ T!CMD_RELAY_2 = CMD_RELAY_2
  /\ T!CMD_DHT = CMD_DHT
  /\ \A b \in BOOLEAN : T!Bit(b) = Bit(b)
  BY DEF T!Commands, Commands, T!Never, Never, T!NearDistance, NearDistance,
         T!CMD_PIR, CMD_PIR, T!CMD_ULTRASONIC_RANGE, CMD_ULTRASONIC_RANGE,
         T!CMD_RELAY_1, CMD_RELAY_1, T!CMD_RELAY_2, CMD_RELAY_2, T!CMD_DHT, CMD_DHT,
         T!Bit, Bit

\* A change of one entry of the reports is a frame of that kind.
LEMMA ReportedExcept ==
  ASSUME NEW cmd \in Commands, NEW value, reported'[cmd] = value,
         \A c \in Commands : c # cmd => reported'[c] = reported[c]
  PROVE  reported' = [reported EXCEPT ![cmd] = value]
  BY DEF reported

\* Where the reports differ from what was sent: between a switch and its report.
LEMMA ReportedEntries ==
  /\ reported[CMD_PIR] = told[CMD_PIR]
  /\ reported[CMD_ULTRASONIC_RANGE] = told[CMD_ULTRASONIC_RANGE]
  /\ reported[CMD_DHT] = told[CMD_DHT]
  /\ reported[CMD_RELAY_1] =
        IF pc \in {"tellHeat", "tellMotion"} THEN Bit(relay1) ELSE told[CMD_RELAY_1]
  /\ reported[CMD_RELAY_2] = IF pc = "tellNear" THEN Bit(relay2) ELSE told[CMD_RELAY_2]
  BY CommandsEnumerated DEF reported

\* Steps that change neither a relay, nor a report, nor the stage.
LEMMA Silent ==
  ASSUME stage' = stage, UNCHANGED <<relay1, relay2>>,
         \A c \in Commands : reported'[c] = reported[c]
  PROVE  UNCHANGED T!telemetryVars
<1>1. reported' = reported
  BY DEF reported
<1> QED BY <1>1 DEF T!telemetryVars

LEMMA TelemetryInit == Init => T!Init
<1> SUFFICES ASSUME Init PROVE T!Init
  OBVIOUS
<1>1. reported = [c \in Commands |-> Never]
  BY DEF Init, reported
<1>2. stage = "reading"
  BY DEF Init, stage
<1> QED BY <1>1, <1>2, SameConstants DEF T!Init, Init

\* A statement that only sends changes one report, that of its frame.
LEMMA TellReport ==
  ASSUME TypeOK, NEW at, NEW cmd \in Commands, NEW value, NEW next,
         Tell(at, cmd, value, next),
         cmd = CMD_RELAY_1 => at \in {"tellHeat", "tellMotion"} /\ value = Bit(relay1),
         cmd = CMD_RELAY_2 => at = "tellNear" /\ value = Bit(relay2),
         at \in {"tellHeat", "tellMotion"} => cmd = CMD_RELAY_1,
         at = "tellNear" => cmd = CMD_RELAY_2,
         next \notin {"tellHeat", "tellMotion", "tellNear"}
  PROVE  /\ reported'[cmd] = value
         /\ \A c \in Commands : c # cmd => reported'[c] = reported[c]
<1>1. pc = at /\ pc' = next /\ relay1' = relay1 /\ relay2' = relay2
      /\ told'[cmd] = value
      /\ \A c \in Commands : c # cmd => told'[c] = told[c]
  BY TellEffect
<1> QED BY <1>1 DEF reported

LEMMA TelemetryStep == TypeOK /\ LoopInv /\ [Next]_vars => [T!Next]_T!telemetryVars
<1> SUFFICES ASSUME TypeOK, LoopInv, [Next]_vars PROVE [T!Next]_T!telemetryVars
  OBVIOUS
<1> USE CommandsEnumerated
<1>1. CASE Receive
  <2>1. stage' = stage /\ UNCHANGED <<relay1, relay2, told>>
    BY <1>1 DEF Receive, RecvNothing, RecvCommand, RecvLength, RecvPayload, Dispatch, stage
  <2>2. pc \notin {"tellHeat", "tellMotion", "tellNear"}
        /\ pc' \notin {"tellHeat", "tellMotion", "tellNear"}
    BY <1>1 DEF Receive, RecvNothing, RecvCommand, RecvLength, RecvPayload, Dispatch
  <2> QED BY <2>1, <2>2, Silent DEF reported
<1>2. CASE GetTemp
  <2>1. reported' = reported
    BY <1>2 DEF GetTemp, reported
  <2>2. stage' = stage \/ (stage = "reading" /\ stage' = "heat")
    BY <1>2 DEF GetTemp, stage
  <2> QED BY <1>2, <2>1, <2>2 DEF GetTemp, T!Next, T!NoReading, T!telemetryVars
<1>3. CASE SendDHT
  <2>1. reported'[CMD_DHT] = RecTI
        /\ \A c \in Commands : c # CMD_DHT => reported'[c] = reported[c]
    BY <1>3, TellReport DEF SendDHT
  <2>2. reported' = [reported EXCEPT ![CMD_DHT] = RecTI]
    BY <2>1, ReportedExcept
  <2>3. stage = "reading" /\ stage' = "heat" /\ UNCHANGED <<relay1, relay2>>
    BY <1>3 DEF SendDHT, Tell, stage
  <2>4. RecTI \in Temperatures
    BY <1>3, ControllerAssumption
       DEF SendDHT, Tell, LoopInv, ReadingInv, TypeOK, ControllerAssumption, Byte, Never
  <2> QED BY <2>2, <2>3, <2>4, SameConstants DEF T!Next, T!Reading, T!Frame
<1>4. CASE RelayHeat
  <2>1. reported'[CMD_RELAY_1] = Bit(relay1')
        /\ \A c \in Commands : c # CMD_RELAY_1 => reported'[c] = reported[c]
    BY <1>4 DEF RelayHeat, reported
  <2>2. reported' = [reported EXCEPT ![CMD_RELAY_1] = Bit(relay1')]
    BY <2>1, ReportedExcept
  <2>3. stage = "heat" /\ stage' = "motion" /\ relay1' \in BOOLEAN /\ relay2' = relay2
    BY <1>4 DEF RelayHeat, stage
  <2> QED BY <2>2, <2>3, SameConstants DEF T!Next, T!HeatRelay, T!Frame
<1>5. CASE TellHeat
  <2>1. relay1 = Hot /\ Tell("tellHeat", CMD_RELAY_1, Bit(Hot), "infrared")
    BY <1>5 DEF TellHeat, Tell, LoopInv, HeatInv, Hot
  <2>2. \A c \in Commands : reported'[c] = reported[c]
    BY <2>1, TellReport, ReportedEntries DEF Tell
  <2>3. stage' = stage /\ UNCHANGED <<relay1, relay2>>
    BY <1>5 DEF TellHeat, Tell, stage
  <2> QED BY <2>2, <2>3, Silent
<1>6. CASE GetInfrared
  <2>1. stage' = stage /\ UNCHANGED <<relay1, relay2>> /\ reported' = reported
    BY <1>6 DEF GetInfrared, Poll, stage, reported
  <2> QED BY <2>1, Silent
<1>7. CASE SendPIR
  <2> DEFINE next == IF nInfrared = 1 THEN "relayMotion" ELSE "sonic"
  <2>1. Tell("tellPIR", CMD_PIR, nInfrared, next) /\ nInfrared \in {0, 1}
    BY <1>7 DEF SendPIR, TypeOK
  <2>2. next \notin {"tellHeat", "tellMotion", "tellNear"}
    OBVIOUS
  <2>3. stage = "motion" /\ UNCHANGED <<relay1, relay2>>
        /\ stage' = (IF nInfrared = 1 THEN "motionRelay" ELSE "distance")
    BY <2>1 DEF Tell, stage
  <2> HIDE DEF next
  <2>4. reported'[CMD_PIR] = nInfrared
        /\ \A c \in Commands : c # CMD_PIR => reported'[c] = reported[c]
    <3>1. CMD_PIR \in Commands /\ CMD_PIR # CMD_RELAY_1 /\ CMD_PIR # CMD_RELAY_2
      OBVIOUS
    <3>2. Tell("tellPIR", CMD_PIR, nInfrared, next)
      BY <2>1
    <3> QED BY ONLY TypeOK, <3>1, <3>2, <2>2, TellReport
  <2>5. reported' = [reported EXCEPT ![CMD_PIR] = nInfrared]
    BY <2>4, ReportedExcept
  <2> QED BY <2>1, <2>3, <2>5, SameConstants DEF T!Next, T!Motion, T!Frame
<1>8. CASE RelayMotion
  <2>1. reported'[CMD_RELAY_1] = Bit(relay1')
        /\ \A c \in Commands : c # CMD_RELAY_1 => reported'[c] = reported[c]
    BY <1>8 DEF RelayMotion, reported
  <2>2. reported' = [reported EXCEPT ![CMD_RELAY_1] = Bit(relay1')]
    BY <2>1, ReportedExcept
  <2>3. stage = "motionRelay" /\ stage' = "distance" /\ relay1' = TRUE /\ relay2' = relay2
    BY <1>8 DEF RelayMotion, stage
  <2> QED BY <2>2, <2>3, SameConstants DEF T!Next, T!MotionRelay, T!Frame
<1>9. CASE TellMotion
  <2>1. Bit(relay1) = 1 /\ Tell("tellMotion", CMD_RELAY_1, 1, "sonic")
    BY <1>9 DEF TellMotion, Tell, LoopInv, MotionInv, Bit
  <2>2. \A c \in Commands : reported'[c] = reported[c]
    BY <2>1, TellReport, ReportedEntries DEF Tell
  <2>3. stage' = stage /\ UNCHANGED <<relay1, relay2>>
    BY <1>9 DEF TellMotion, Tell, stage
  <2> QED BY <2>2, <2>3, Silent
<1>10. CASE SonicDistance
  <2>1. stage' = stage /\ UNCHANGED <<relay1, relay2>> /\ reported' = reported
    BY <1>10 DEF SonicDistance, stage, reported
  <2> QED BY <2>1, Silent
<1>11. CASE SetDistance
  <2>1. Tell("tellDistance", CMD_ULTRASONIC_RANGE, fDistance, "relayNear")
    BY <1>11 DEF SetDistance
  <2>2. reported'[CMD_ULTRASONIC_RANGE] = fDistance
        /\ \A c \in Commands : c # CMD_ULTRASONIC_RANGE => reported'[c] = reported[c]
    BY <2>1, TellReport
  <2>3. reported' = [reported EXCEPT ![CMD_ULTRASONIC_RANGE] = fDistance]
    BY <2>2, ReportedExcept
  <2>4. stage = "distance" /\ stage' = "near" /\ UNCHANGED <<relay1, relay2>>
        /\ fDistance \in Distances
    BY <2>1 DEF Tell, stage, LoopInv, NearInv
  <2> QED BY <2>3, <2>4, SameConstants DEF T!Next, T!Distance, T!Frame
<1>12. CASE RelayNear
  <2>1. reported'[CMD_RELAY_2] = Bit(relay2')
        /\ \A c \in Commands : c # CMD_RELAY_2 => reported'[c] = reported[c]
    BY <1>12 DEF RelayNear, reported
  <2>2. reported' = [reported EXCEPT ![CMD_RELAY_2] = Bit(relay2')]
    BY <2>1, ReportedExcept
  <2>3. stage = "near" /\ stage' = "reading" /\ relay1' = relay1
        /\ relay2' = (fDistance < NearDistance)
    BY <1>12 DEF RelayNear, stage
  <2>4. reported[CMD_ULTRASONIC_RANGE] = fDistance
    BY <1>12, ReportedEntries DEF RelayNear, LoopInv, NearInv
  <2>5. T!Bit(relay2') = Bit(relay2')
    BY DEF T!Bit, Bit
  <2> QED BY <2>2, <2>3, <2>4, <2>5, SameConstants DEF T!Next, T!NearRelay, T!Frame
<1>13. CASE TellNear
  <2>1. relay2 = Close /\ Tell("tellNear", CMD_RELAY_2, Bit(Close), "recv")
    BY <1>13 DEF TellNear, Tell, LoopInv, NearInv, Close
  <2>2. \A c \in Commands : reported'[c] = reported[c]
    BY <2>1, TellReport, ReportedEntries DEF Tell
  <2>3. stage' = stage /\ UNCHANGED <<relay1, relay2>>
    BY <1>13 DEF TellNear, Tell, stage
  <2> QED BY <2>2, <2>3, Silent
<1>14. CASE HostSend \/ ByteArrives \/ UNCHANGED vars
  <2>1. UNCHANGED <<pc, relay1, relay2, told>>
    BY <1>14 DEF HostSend, ByteArrives, vars, boardVars
  <2>2. stage' = stage
    BY <2>1 DEF stage
  <2> QED BY <2>1, <2>2, Silent DEF reported
<1> QED BY <1>1, <1>2, <1>3, <1>4, <1>5, <1>6, <1>7, <1>8, <1>9, <1>10, <1>11,
          <1>12, <1>13, <1>14 DEF Next, Board, Heat, Motion, Near

\* Whatever the PC sends and however its bytes are lost, the board's frames
\* leave in the order Telemetry states and agree with the relays.
THEOREM ImplementsTelemetry == Spec => TelemetrySpec
<1> QED BY TelemetryInit, TelemetryStep, LoopInit, LoopStep, TypeCorrect, PTL
        DEF Spec, TelemetrySpec, T!Spec
=============================================================================
