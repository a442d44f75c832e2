------------------------------ MODULE Telemetry ------------------------------
(***************************************************************************)
(* What the board promises to whoever listens on the serial line: the      *)
(* order of the frames of one turn of main()'s loop and how their values   *)
(* relate to each other and to the relays.  Nothing of the receiver, of    *)
(* the sensors or of RecvBuffer is here; module Controller implements this *)
(* specification.                                                          *)
(***************************************************************************)
EXTENDS Integers

CONSTANTS
    Temperatures,  \* values of a reading
    Distances      \* values of a distance

VARIABLES
    stage,   \* the frame that is due
    relay1,  \* relay 1 is engaged
    relay2,  \* relay 2 is engaged
    told     \* for each kind of frame, the value last sent

telemetryVars == <<stage, relay1, relay2, told>>

CMD_PIR == 1
CMD_ULTRASONIC_RANGE == 2
CMD_RELAY_1 == 3
CMD_RELAY_2 == 4
CMD_DHT == 5

Commands == CMD_PIR .. CMD_DHT
Never == -1
NearDistance == 20

Bit(b) == IF b THEN 1 ELSE 0

\* The values a frame of each kind carries.
Values(cmd) ==
    CASE cmd \in {CMD_PIR, CMD_RELAY_1, CMD_RELAY_2} -> {0, 1}
      [] cmd = CMD_ULTRASONIC_RANGE -> Distances
      [] cmd = CMD_DHT -> Temperatures

TypeOK ==
    /\ stage \in {"reading", "heat", "motion", "motionRelay", "distance", "near"}
    /\ relay1 \in BOOLEAN
    /\ relay2 \in BOOLEAN
    /\ told \in [Commands -> Int]
    /\ \A c \in Commands : told[c] \in Values(c) \cup {Never}

Init ==
    /\ stage = "reading"
    /\ relay1 = TRUE
    /\ relay2 = TRUE
    /\ told = [c \in Commands |-> Never]

\* A frame goes out in one stage of the turn and leads to the next.
Frame(at, cmd, value, next) ==
    /\ stage = at
    /\ told' = [told EXCEPT ![cmd] = value]
    /\ stage' = next

\* The reading is sent when its checksum is right, and skipped otherwise.
Reading == /\ \E t \in Temperatures : Frame("reading", CMD_DHT, t, "heat")
           /\ UNCHANGED <<relay1, relay2>>

NoReading == /\ stage = "reading"
             /\ stage' = "heat"
             /\ UNCHANGED <<relay1, relay2, told>>

\* A relay is switched and reported as it is.
HeatRelay == /\ relay1' \in BOOLEAN
             /\ Frame("heat", CMD_RELAY_1, Bit(relay1'), "motion")
             /\ UNCHANGED relay2

Motion == /\ \E m \in {0, 1} : Frame("motion", CMD_PIR, m,
                                 IF m = 1 THEN "motionRelay" ELSE "distance")
          /\ UNCHANGED <<relay1, relay2>>

MotionRelay == /\ relay1' = TRUE
               /\ Frame("motionRelay", CMD_RELAY_1, Bit(relay1'), "distance")
               /\ UNCHANGED relay2

Distance == /\ \E d \in Distances :
                  Frame("distance", CMD_ULTRASONIC_RANGE, d, "near")
            /\ UNCHANGED <<relay1, relay2>>

NearRelay == /\ relay2' = (told[CMD_ULTRASONIC_RANGE] < NearDistance)
             /\ Frame("near", CMD_RELAY_2, Bit(relay2'), "reading")
             /\ UNCHANGED relay1

Next == Reading \/ NoReading \/ HeatRelay \/ Motion \/ MotionRelay
        \/ Distance \/ NearRelay

Spec == Init /\ [][Next]_telemetryVars
=============================================================================
