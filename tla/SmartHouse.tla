------------------------------- MODULE SmartHouse -------------------------------
(***************************************************************************)
(* The two programs together: the board, as far as it can be heard (module *)
(* Telemetry, which module Controller implements), and the Supervisor that *)
(* listens (module Supervisor).  A step of the board that says something   *)
(* puts its frame on the wire; everything between the wire and the labels  *)
(* is the Supervisor's.                                                    *)
(***************************************************************************)
EXTENDS Supervisor

CONSTANTS
    Temperatures,  \* values of a reading
    Distances,     \* values of a distance
    Humidity,      \* the humidity byte of a reading
    FloatBytes     \* for each distance the four bytes of the float

VARIABLES
    stage,   \* the frame that is due
    relay1,  \* relay 1 is engaged
    relay2,  \* relay 2 is engaged
    told,    \* for each kind of frame, the value last sent
    missed   \* a frame was not shown since a port was last opened, or
             \* an open failed that had closed it

boardVars == <<stage, relay1, relay2, told>>
houseVars == <<vars, boardVars, missed>>

T == INSTANCE Telemetry

\* SendPIR, SetDistance, SendRelay1, SendRelay2 and SendDHT.
FrameOf(cmd, value) ==
    CASE cmd \in {CMD_PIR, CMD_RELAY_1, CMD_RELAY_2} -> <<cmd, 1, value>>
      [] cmd = CMD_ULTRASONIC_RANGE -> <<cmd, 4>> \o FloatBytes[value]
      [] cmd = CMD_DHT -> <<cmd, 4, Humidity, 0, value, 0>>

ASSUME HouseAssumption ==
    /\ WholeFrames
    /\ Temperatures \subseteq 0 .. 255 /\ Humidity \in 0 .. 255
    /\ Distances \subseteq Int
    /\ FloatBytes \in [Distances -> Seq(0 .. 255)]
    /\ \A c \in T!Commands : \A v \in T!Values(c) : FrameOf(c, v) \in BoardFrames

HouseInit == Init /\ T!Init /\ missed = FALSE

-----------------------------------------------------------------------------
\* A step of the board that ends in a frame.  It waits for the transmitter.
Says(step, cmd) ==
    /\ step
    /\ BoardSends
    /\ wire' = FrameOf(cmd, told'[cmd])
    /\ UNCHANGED missed

Silent(step) == step /\ UNCHANGED <<vars, missed>>

Board ==
    \/ Says(T!Reading, CMD_DHT)
    \/ Silent(T!NoReading)
    \/ Says(T!HeatRelay, CMD_RELAY_1)
    \/ Says(T!Motion, CMD_PIR)
    \/ Says(T!MotionRelay, CMD_RELAY_1)
    \/ Says(T!Distance, CMD_ULTRASONIC_RANGE)
    \/ Says(T!NearRelay, CMD_RELAY_2)

\* Frames left the line or the queue, more than the one a read may have shown.
FrameMissed ==
    Len(pending) - Len(pending') > IF ui = "read" /\ ui' = "idle" THEN 1 ELSE 0

PC ==
    \/ /\ BytesArrive \/ BytesLost \/ BytesDamaged \/ ComThread
          \/ OpenPortRefused \/ SetHwnd \/ ReceiveMessage \/ Purge \/ Read \/ Write
       /\ missed' = (missed \/ FrameMissed)
       /\ UNCHANGED boardVars
    \/ /\ OpenPort \/ OpenPortFails
       /\ missed' = FALSE
       /\ UNCHANGED boardVars

HouseNext == Board \/ PC

HouseSpec == HouseInit /\ [][HouseNext]_houseVars

-----------------------------------------------------------------------------
\* From the relay to the label: once everything the board has said is either
\* shown or was told before the port was opened, every label that is not blank
\* shows the board as it is, the two relays and what was last measured
\* (main.c:114-154, SupervisorDlg.cpp:301-420).
LabelsAgree ==
    (~missed /\ pending = <<>>) =>
        /\ labels["Locker"] \in {Blank, <<T!Bit(relay1)>>}
        /\ labels["Fan"] \in {Blank, <<T!Bit(relay2)>>}
        /\ labels["PIR"] \in {Blank, <<told[CMD_PIR]>>}
        /\ labels["Distance"] # Blank =>
               labels["Distance"] = FloatBytes[told[CMD_ULTRASONIC_RANGE]]
        /\ labels["Temperature"] \in {Blank, <<told[CMD_DHT], 0>>}
=============================================================================
