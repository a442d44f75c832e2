----------------------------- MODULE Controller -----------------------------
(***************************************************************************)
(* The firmware of the KL25Z board: the endless loop of main.c, the serial *)
(* protocol of SerialComm.c it calls, and the sensor and relay routines of *)
(* dht11.c.  It is one thread; what runs beside it is the UART's receiver  *)
(* (module Uart) and the PC, which may send a frame at any moment.         *)
(***************************************************************************)
EXTENDS Uart

CONSTANTS
    HostFrames,    \* the frames the PC may send, each a sequence of bytes
    Temperatures,  \* the values the DHT11's temperature byte can take
    Distances,     \* the values SonicDistance can return, in centimetres
    PulseWidth     \* 10 in GetInfrared: how many polls a motion is held

ASSUME ControllerAssumption ==
    /\ HostFrames \subseteq Seq(Byte)
    /\ Temperatures \subseteq Byte
    /\ Distances \subseteq Int
    /\ PulseWidth \in Nat \ {0}

VARIABLES
    pc,            \* the call main() is about to make
    uCmd,          \* the command RecvBuffer handed to main()
    szRepBuf,      \* szRepBuf: the bytes stored since the last memset
    uHiTemp,       \* temperature above which relay 1 is engaged
    RecTI,         \* dht.RecTI: temperature byte of the last DHT11 reading
    relay1,        \* pin PTB1 is low: relay 1 is engaged
    relay2,        \* pin PTB2 is low: relay 2 is engaged
    DelayCounter,  \* static counter of GetInfrared
    nInfrared,     \* its last result
    fDistance,     \* the last result of SonicDistance
    told,          \* for each kind of frame, the value last sent to the PC
    unsent,        \* host frames the PC has not sent yet (each goes once)
    sinceMotion,   \* polls since the infrared sensor saw motion, capped
    verified       \* the last reading whose checksum was right, or Never

boardVars == <<pc, uCmd, szRepBuf, uHiTemp, RecTI, relay1, relay2,
               DelayCounter, nInfrared, fDistance, told>>
ghostVars == <<unsent, sinceMotion, verified>>
vars == <<uartVars, boardVars, ghostVars>>

CMD_PIR == 1
CMD_ULTRASONIC_RANGE == 2
CMD_RELAY_1 == 3
CMD_RELAY_2 == 4
CMD_DHT == 5

Commands == CMD_PIR .. CMD_DHT
Never == -1             \* no frame of this kind sent since power-up
DefaultHiTemp == 25     \* initial value of main()'s uHiTemp
NearDistance == 20      \* main()'s distance threshold, in centimetres
MaxCommand == 10        \* RecvBuffer rejects first bytes above it

Steps == {"recv", "recvLen", "recvData", "dispatch", "getTemp", "sendDHT",
          "relayHeat", "tellHeat", "infrared", "tellPIR", "relayMotion",
          "tellMotion", "sonic", "tellDistance", "relayNear", "tellNear"}

Bit(b) == IF b THEN 1 ELSE 0

\* Byte i (from 0) of szRepBuf: memset left zero where nothing was stored.
RepByte(i) == IF i < Len(szRepBuf) THEN szRepBuf[i + 1] ELSE 0

TypeOK ==
    /\ UartTypeOK
    /\ pc \in Steps
    /\ uCmd \in Byte
    /\ szRepBuf \in Seq(Byte)
    /\ uHiTemp \in Byte
    /\ RecTI \in Temperatures \cup {0}
    /\ relay1 \in BOOLEAN
    /\ relay2 \in BOOLEAN
    /\ DelayCounter \in 0 .. PulseWidth
    /\ nInfrared \in {0, 1}
    /\ fDistance \in Distances \cup {0}
    /\ told \in [Commands -> Int]
    /\ unsent \subseteq HostFrames
    /\ sinceMotion \in 0 .. PulseWidth
    /\ verified \in Temperatures \cup {Never}

\* main() up to the loop.  Initialize() drives PTB1 and PTB2 as outputs with
\* the data bits zero, which is what CtrlRelay does: both relays engage.
Init ==
    /\ UartInit
    /\ pc = "recv"
    /\ uCmd = 0
    /\ szRepBuf = <<>>
    /\ uHiTemp = DefaultHiTemp
    /\ RecTI = 0
    /\ relay1 = TRUE
    /\ relay2 = TRUE
    /\ DelayCounter = 0
    /\ nInfrared = 0
    /\ fDistance = 0
    /\ told = [c \in Commands |-> Never]
    /\ unsent = HostFrames
    /\ sinceMotion = PulseWidth
    /\ verified = Never

-----------------------------------------------------------------------------
\* RecvBuffer, one action per blocking point.

\* No byte waiting: RecvBuffer returns command 0 at once.
RecvNothing ==
    /\ pc = "recv"
    /\ ~uart0_getchar_present
    /\ uCmd' = 0
    /\ pc' = "dispatch"
    /\ UNCHANGED <<uartVars, szRepBuf, uHiTemp, RecTI, relay1, relay2,
                   DelayCounter, nInfrared, fDistance, told, ghostVars>>

\* Mutant: the first byte is not checked.
RecvCommand_Unchecked ==
    /\ pc = "recv"
    /\ uart0_getchar
    /\ szRepBuf' = <<rxd>>
    /\ uCmd' = rxd
    /\ pc' = "recvLen"
    /\ UNCHANGED <<uHiTemp, RecTI, relay1, relay2,
                   DelayCounter, nInfrared, fDistance, told, ghostVars>>

\* The first byte becomes *uCmd even when it is then rejected, and a
\* rejection leaves the rest of the frame on the line.
RecvCommand ==
    /\ pc = "recv"
    /\ uart0_getchar
    /\ szRepBuf' = <<rxd>>
    /\ uCmd' = rxd
    /\ pc' = IF rxd > MaxCommand \/ rxd = 0 THEN "dispatch" ELSE "recvLen"
    /\ UNCHANGED <<uHiTemp, RecTI, relay1, relay2,
                   DelayCounter, nInfrared, fDistance, told, ghostVars>>

\* for( i = 2; i < szRepBuf[1]; i++ ): the loop counts from the start of the
\* buffer, so it stops when szRepBuf holds szRepBuf[1] bytes in all.
PayloadDone(buf) == Len(buf) >= buf[2]

RecvLength ==
    /\ pc = "recvLen"
    /\ uart0_getchar
    /\ szRepBuf' = Append(szRepBuf, rxd)
    /\ pc' = IF PayloadDone(szRepBuf') THEN "dispatch" ELSE "recvData"
    /\ UNCHANGED <<uCmd, uHiTemp, RecTI, relay1, relay2,
                   DelayCounter, nInfrared, fDistance, told, ghostVars>>

RecvPayload ==
    /\ pc = "recvData"
    /\ uart0_getchar
    /\ szRepBuf' = Append(szRepBuf, rxd)
    /\ pc' = IF PayloadDone(szRepBuf') THEN "dispatch" ELSE "recvData"
    /\ UNCHANGED <<uCmd, uHiTemp, RecTI, relay1, relay2,
                   DelayCounter, nInfrared, fDistance, told, ghostVars>>

\* The switch of main().  GetRelay1 and GetRelay2 fill locals nobody reads,
\* as do three of GetDHT's four results: only uHiTemp is state.
Dispatch ==
    /\ pc = "dispatch"
    /\ uHiTemp' = IF uCmd = CMD_DHT THEN RepByte(4) ELSE uHiTemp
    /\ pc' = "getTemp"
    /\ UNCHANGED <<uartVars, uCmd, szRepBuf, RecTI, relay1, relay2,
                   DelayCounter, nInfrared, fDistance, told, ghostVars>>

-----------------------------------------------------------------------------
\* Mutant: the answer is awaited instead of looked for.
SendBuffer_Waits(cmd, value) ==
    /\ told' = [told EXCEPT ![cmd] = value]
    /\ uart0_getchar
    /\ szRepBuf' = <<rxd>>

\* Mutant: a waiting byte is read first, and the frame is then not sent.
SendBuffer_ReadsFirst(cmd, value) ==
    \/ /\ ~uart0_getchar_present
       /\ told' = [told EXCEPT ![cmd] = value]
       /\ UNCHANGED <<uartVars, szRepBuf>>
    \/ /\ uart0_getchar
       /\ szRepBuf' = <<rxd>>
       /\ told' = told

\* SendBuffer: the frame leaves; then, if a byte happens to be waiting, it is
\* read as the PC's answer.  A byte that is no answer to this frame is
\* consumed all the same, and an answer has no payload (szRepBuf[1] is zero
\* after the memset, so the loop of lines 34-37 never runs).
SendBuffer(cmd, value) ==
    /\ told' = [told EXCEPT ![cmd] = value]
    /\ \/ ~uart0_getchar_present /\ UNCHANGED <<uartVars, szRepBuf>>
       \/ uart0_getchar /\ szRepBuf' = <<rxd>>

\* A statement that only sends: SendBuffer, then on to the next statement.
Tell(at, cmd, value, next) ==
    /\ pc = at
    /\ SendBuffer(cmd, value)
    /\ pc' = next
    /\ UNCHANGED <<uCmd, uHiTemp, RecTI, relay1, relay2,
                   DelayCounter, nInfrared, fDistance, ghostVars>>

-----------------------------------------------------------------------------
\* The temperature part of the loop.

\* Mutant: main() sends the reading without looking at GetTemp's result.
GetTemp_Unchecked ==
    /\ pc = "getTemp"
    /\ RecTI' \in Temperatures
    /\ \E checksumOK \in BOOLEAN :
          verified' = IF checksumOK THEN RecTI' ELSE verified
    /\ pc' = "sendDHT"
    /\ UNCHANGED <<uartVars, uCmd, szRepBuf, uHiTemp, relay1, relay2,
                   DelayCounter, nInfrared, fDistance, told, unsent,
                   sinceMotion>>

\* GetTemp: BitRec stores the four data bytes in dht as they arrive, before
\* it compares the checksum, so a reading that fails it stays in dht.
GetTemp ==
    /\ pc = "getTemp"
    /\ RecTI' \in Temperatures
    /\ \E checksumOK \in BOOLEAN :
          /\ pc' = IF checksumOK THEN "sendDHT" ELSE "relayHeat"
          /\ verified' = IF checksumOK THEN RecTI' ELSE verified
    /\ UNCHANGED <<uartVars, uCmd, szRepBuf, uHiTemp, relay1, relay2,
                   DelayCounter, nInfrared, fDistance, told, unsent,
                   sinceMotion>>

SendDHT == Tell("sendDHT", CMD_DHT, RecTI, "relayHeat")

\* Mutant: the else branch is missing, as it is for motion.
RelayHeat_NoElse ==
    /\ pc = "relayHeat"
    /\ relay1' = (relay1 \/ RecTI > uHiTemp)
    /\ pc' = "tellHeat"
    /\ UNCHANGED <<uartVars, uCmd, szRepBuf, uHiTemp, RecTI, relay2,
                   DelayCounter, nInfrared, fDistance, told, ghostVars>>

\* CtrlRelay(1) or ReleaseRelay(1).
RelayHeat ==
    /\ pc = "relayHeat"
    /\ relay1' = (RecTI > uHiTemp)
    /\ pc' = "tellHeat"
    /\ UNCHANGED <<uartVars, uCmd, szRepBuf, uHiTemp, RecTI, relay2,
                   DelayCounter, nInfrared, fDistance, told, ghostVars>>

TellHeat == Tell("tellHeat", CMD_RELAY_1, Bit(RecTI > uHiTemp), "infrared")

-----------------------------------------------------------------------------
\* The motion part.

\* One poll: "held" is the result, "count" the new counter.
Poll(motion, held, count) ==
    /\ pc = "infrared"
    /\ DelayCounter' = count
    /\ nInfrared' = Bit(held)
    /\ sinceMotion' = IF motion THEN 0
                      ELSE IF sinceMotion < PulseWidth
                           THEN sinceMotion + 1 ELSE PulseWidth
    /\ pc' = "tellPIR"
    /\ UNCHANGED <<uartVars, uCmd, szRepBuf, uHiTemp, RecTI, relay1, relay2,
                   fDistance, told, unsent, verified>>

\* Mutant: one poll too many.
GetInfrared_OneMore ==
    \E motion \in BOOLEAN :
        LET count == IF motion THEN 0 ELSE DelayCounter + 1
            held  == count <= PulseWidth
        IN  Poll(motion, held, IF held THEN count ELSE PulseWidth)

\* Mutant: the counter is not stopped at the width.
GetInfrared_Runaway ==
    \E motion \in BOOLEAN :
        LET count == IF motion THEN 0 ELSE DelayCounter + 1
        IN  Poll(motion, count < PulseWidth, count)

\* GetInfrared: "motion" is all three samples high.
GetInfrared ==
    \E motion \in BOOLEAN :
        LET count == IF motion THEN 0 ELSE DelayCounter + 1
            held  == count < PulseWidth
        IN  Poll(motion, held, IF held THEN count ELSE PulseWidth)

SendPIR == Tell("tellPIR", CMD_PIR, nInfrared,
                IF nInfrared = 1 THEN "relayMotion" ELSE "sonic")

\* Mutant: the switch is forgotten, only the report is made.
RelayMotion_NoSwitch ==
    /\ pc = "relayMotion"
    /\ pc' = "tellMotion"
    /\ UNCHANGED <<uartVars, uCmd, szRepBuf, uHiTemp, RecTI, relay1, relay2,
                   DelayCounter, nInfrared, fDistance, told, ghostVars>>

RelayMotion ==
    /\ pc = "relayMotion"
    /\ relay1' = TRUE
    /\ pc' = "tellMotion"
    /\ UNCHANGED <<uartVars, uCmd, szRepBuf, uHiTemp, RecTI, relay2,
                   DelayCounter, nInfrared, fDistance, told, ghostVars>>

TellMotion == Tell("tellMotion", CMD_RELAY_1, 1, "sonic")

-----------------------------------------------------------------------------
\* The distance part.

SonicDistance ==
    /\ pc = "sonic"
    /\ fDistance' \in Distances
    /\ pc' = "tellDistance"
    /\ UNCHANGED <<uartVars, uCmd, szRepBuf, uHiTemp, RecTI, relay1, relay2,
                   DelayCounter, nInfrared, told, ghostVars>>

SetDistance ==
    Tell("tellDistance", CMD_ULTRASONIC_RANGE, fDistance, "relayNear")

RelayNear ==
    /\ pc = "relayNear"
    /\ relay2' = (fDistance < NearDistance)
    /\ pc' = "tellNear"
    /\ UNCHANGED <<uartVars, uCmd, szRepBuf, uHiTemp, RecTI, relay1,
                   DelayCounter, nInfrared, fDistance, told, ghostVars>>

TellNear == Tell("tellNear", CMD_RELAY_2, Bit(fDistance < NearDistance), "recv")

-----------------------------------------------------------------------------
\* The PC sends a frame, whole; it reaches the board byte by byte.
HostSend ==
    \E frame \in unsent :
        /\ unsent' = unsent \ {frame}
        /\ Transmit(frame)
        /\ UNCHANGED <<boardVars, sinceMotion, verified>>

ByteArrives == Arrive /\ UNCHANGED <<boardVars, ghostVars>>

Receive == RecvNothing \/ RecvCommand \/ RecvLength \/ RecvPayload \/ Dispatch
Heat == GetTemp \/ SendDHT \/ RelayHeat \/ TellHeat
Motion == GetInfrared \/ SendPIR \/ RelayMotion \/ TellMotion
Near == SonicDistance \/ SetDistance \/ RelayNear \/ TellNear

Board == Receive \/ Heat \/ Motion \/ Near

Next == Board \/ HostSend \/ ByteArrives

Spec == Init /\ [][Next]_vars

\* The firmware is one thread that never sleeps, the line delivers what was
\* written to it, and the sensors answer (their busy-waits end).
Fairness == WF_vars(Board) /\ WF_vars(ByteArrives)

FairSpec == Spec /\ Fairness
-----------------------------------------------------------------------------
\* Safety.

\* At the top of the loop the PC has been told the position both relays are
\* in, and the relays are where the loop's three rules put them: relay 1 for
\* heat or for motion, relay 2 for a near object.  Bytes that arrive during
\* the loop change none of it (main.c:119-154).
LoopOutcome ==
    (pc = "recv" /\ told[CMD_RELAY_2] # Never) =>
        /\ told[CMD_RELAY_1] = Bit(relay1)
        /\ told[CMD_RELAY_2] = Bit(relay2)
        /\ relay1 = (told[CMD_PIR] = 1 \/ RecTI > uHiTemp)
        /\ relay2 = (told[CMD_ULTRASONIC_RANGE] < NearDistance)

\* The PC is only ever shown readings whose checksum was right, and always
\* the newest of them, although a reading that fails it overwrites dht
\* (main.c:114-117, dht11.c:180-205).
ReadingsVerified ==
    pc # "sendDHT" => told[CMD_DHT] = verified

\* A motion shows as 1 for PulseWidth polls from the poll that saw it and
\* as 0 after them (dht11.c:344-373).  Until the first motion or the first 0
\* nothing is promised: DelayCounter starts at 0, as if motion had been seen.
PirPulse ==
    (sinceMotion < PulseWidth \/ DelayCounter = PulseWidth) =>
        (nInfrared = 1 <=> sinceMotion < PulseWidth)

\* RecvBuffer takes for a command only a byte in 1..10.  As long as no byte
\* the PC has sent is one, in whatever place of whatever message, the loop
\* does not wait and the temperature limit does not move, whichever of the
\* bytes are lost, swallowed by SendBuffer or taken out of step
\* (SerialComm.c:50-70, main.c:93-112).
SentBytes ==
    UNION {{frame[i] : i \in DOMAIN frame} : frame \in HostFrames \ unsent}

InertHost ==
    SentBytes \cap (1 .. MaxCommand) = {} =>
        pc \notin {"recvLen", "recvData"} /\ uHiTemp = DefaultHiTemp

-----------------------------------------------------------------------------
\* Liveness.

\* The loop comes round for ever, unless it ends up waiting inside RecvBuffer
\* for bytes that do not come: no other call can hang, SendBuffer's read of
\* an answer included (SerialComm.c:22-37, 65-70).
Blocked == pc \in {"recvLen", "recvData"}
LoopAlive == []<>(pc = "recv") \/ <>[]Blocked

\* When motion and heat are over for good, relay 1 is released for good,
\* whatever bytes arrive, unless the loop is stuck (main.c:119-136).
Calm == sinceMotion = PulseWidth /\ RecTI <= uHiTemp
RelayReleased == (<>[]Calm) => (<>[]~relay1 \/ <>[]Blocked)

-----------------------------------------------------------------------------
\* What the board promises to the PC (module Telemetry).  A relay is reported
\* in the call after the one that switched it: the abstract report happens
\* with the switch.
reported ==
    [c \in Commands |->
        IF c = CMD_RELAY_1 /\ pc \in {"tellHeat", "tellMotion"} THEN Bit(relay1)
        ELSE IF c = CMD_RELAY_2 /\ pc = "tellNear" THEN Bit(relay2)
        ELSE told[c]]

stage ==
    CASE pc \in {"recv", "recvLen", "recvData", "dispatch", "getTemp",
                 "sendDHT", "tellNear"} -> "reading"
      [] pc = "relayHeat" -> "heat"
      [] pc \in {"tellHeat", "infrared", "tellPIR"} -> "motion"
      [] pc = "relayMotion" -> "motionRelay"
      [] pc \in {"tellMotion", "sonic", "tellDistance"} -> "distance"
      [] pc = "relayNear" -> "near"

T == INSTANCE Telemetry WITH told <- reported

\* Whatever arrives on the line, the frames leave in the order, and with the
\* agreement between frames and relays, that Telemetry states.
TelemetrySpec == T!Spec

-----------------------------------------------------------------------------
\* What the documentation says and the code does not do.

\* main.c:132 says of GetInfrared's result "1 means there is a active moving
\* object, 0 means no moving".
MotionIsMotion == nInfrared = 1 => sinceMotion < PulseWidth

\* SerialProtocol.h:20-29 lists CMD_SET_TEMPERATURE among the messages
\* "PC -> KL25Z": a temperature the PC sets becomes the limit.
CMD_SET_TEMPERATURE == 136
SetTemperatureWorks ==
    \A frame \in HostFrames :
        (frame[1] = CMD_SET_TEMPERATURE /\ frame \notin unsent)
            ~> (uHiTemp = frame[3] \/ Blocked)

\* SerialProtocol.h:48 calls RecvBuffer "Get Message from PC to KL25Z": a
\* message handed to main() is the whole message, its header of two bytes
\* and the payload its length byte announces.
WholeMessage ==
    (pc = "dispatch" /\ uCmd \in Commands) => Len(szRepBuf) = szRepBuf[2] + 2
=============================================================================
