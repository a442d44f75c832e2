-------------------------------- MODULE Dht11 --------------------------------
(***************************************************************************)
(* GetTemp and BitRec of dht11.c: how the board reads the DHT11 sensor     *)
(* over one wire.  The board measures pulses with a counter that SysTick   *)
(* increments, so that what it measures depends on where in a tick a pulse *)
(* begins, and the counter may wrap inside a pulse.                        *)
(*                                                                         *)
(* Times are in microseconds.  The board's loops poll the pin without a    *)
(* pause, so every edge of the sensor is an action in which the loop that  *)
(* waits for it ends.                                                      *)
(***************************************************************************)
EXTENDS Integers, Sequences

CONSTANTS
    Readings,       \* what the sensor may measure: four bytes
    ResponseDelays, \* the sensor's delay before it answers
    ZeroPulse,      \* the lengths of the pulse that stands for a 0
    OnePulse,       \* the lengths of the pulse that stands for a 1
    Disturbed,      \* the lengths a disturbed pulse may have
    MaxDisturbed,   \* bound: disturbed pulses in one reading
    TickModulus,    \* 2^32 in the code: where msTicks wraps
    CallDelay       \* 100000 + 2000 + 2 in GetTemp: the ticks it waits in all

TickLength == 10   \* SysTick_Config(SystemCoreClock/100000)
LongestZero == 5   \* BitRec: an interval up to it is a 0

Byte == 0 .. 255

ASSUME Dht11Assumption ==
    /\ Readings \subseteq Byte \X Byte \X Byte \X Byte
    /\ ResponseDelays \subseteq Nat
    /\ ZeroPulse \subseteq 1 .. 50
    /\ OnePulse \subseteq 60 .. 100
    /\ Disturbed \subseteq 1 .. 100
    /\ MaxDisturbed \in Nat
    /\ TickModulus \in Nat /\ TickModulus > 11
    /\ CallDelay \in Nat

VARIABLES
    pc,            \* the loop GetTemp or BitRec is in; "main": not called
    msTicks,       \* ticks counted by SysTick_Handler
    IntervalBegin, \* msTicks at the last rising edge of a bit
    i, j,          \* BitRec's counters: byte 1 to 5, bit 0 to 7
    Rec,           \* the bits of byte i so far
    dht,           \* the four data bytes as BitRec has stored them
    ret,           \* what GetTemp returned
    phase,         \* microseconds since the last tick
    sensor,        \* what the sensor is sending
    frame,         \* the five bytes of its answer; <<>> before the first
    sentBits,      \* pulses of the answer it has finished
    disturbed      \* how many of them were disturbed

boardVars == <<pc, IntervalBegin, i, j, Rec, dht, ret>>
timeVars == <<msTicks, phase>>
sensorVars == <<sensor, frame, sentBits, disturbed>>
vars == <<boardVars, timeVars, sensorVars>>

\* The checksum of four bytes.
Sum(b) == (b[1] + b[2] + b[3] + b[4]) % 256

Weight == <<128, 64, 32, 16, 8, 4, 2, 1>>

\* Bit k (from 0) of the sensor's answer, most significant bit of a byte first.
FrameBit(k) == (frame[(k \div 8) + 1] \div Weight[(k % 8) + 1]) % 2

TypeOK ==
    /\ pc \in {"main", "awaitLow", "awaitHigh", "awaitData", "rise", "fall"}
    /\ msTicks \in 0 .. (TickModulus - 1)
    /\ IntervalBegin \in 0 .. (TickModulus - 1)
    /\ i \in 1 .. 5 /\ j \in 0 .. 7
    /\ Rec \in Byte
    /\ dht \in [1 .. 4 -> Byte]
    /\ ret \in {0, 1}
    /\ phase \in 0 .. (TickLength - 1)
    /\ sensor \in {"idle", "asked", "low", "high", "gap", "pulse"}
    /\ frame \in Seq(Byte) /\ Len(frame) \in {0, 5}
    /\ sentBits \in 0 .. 40
    /\ disturbed \in 0 .. MaxDisturbed

Init ==
    /\ pc = "main"
    /\ msTicks = 0 /\ phase = 0 /\ IntervalBegin = 0
    /\ i = 1 /\ j = 0 /\ Rec = 0 /\ dht = <<0, 0, 0, 0>> /\ ret = 0
    /\ sensor = "idle" /\ frame = <<>> /\ sentBits = 0 /\ disturbed = 0

-----------------------------------------------------------------------------
\* d microseconds pass; SysTick_Handler counts the ticks among them.
Passes(d) ==
    /\ phase' = (phase + d) % TickLength
    /\ msTicks' = (msTicks + (phase + d) \div TickLength) % TickModulus

\* GetTemp up to its first loop.  Delay returns at a tick, so its three delays
\* last whole ticks after the first: 20 ms low, which the sensor takes for a
\* request, and 20 us high.  By then an answer under way is long over.
GetTemp ==
    /\ pc = "main"
    /\ pc' = "awaitLow"
    /\ msTicks' = (msTicks + CallDelay) % TickModulus
    /\ phase' = 0
    /\ Rec' = 0 /\ i' = 1 /\ j' = 0
    /\ \E r \in Readings : frame' = <<r[1], r[2], r[3], r[4], Sum(r)>>
    /\ sensor' = "asked" /\ sentBits' = 0 /\ disturbed' = 0
    /\ UNCHANGED <<IntervalBegin, dht, ret>>

-----------------------------------------------------------------------------
\* The sensor says it is there: low for 80 us, high for 80 us.  The three
\* loops of GetTemp (dht11.c:233-236) each wait for one of its edges.

SensorAnswers ==
    /\ sensor = "asked" /\ pc = "awaitLow"
    /\ \E d \in ResponseDelays : Passes(d)
    /\ sensor' = "low" /\ pc' = "awaitHigh"
    /\ UNCHANGED <<IntervalBegin, i, j, Rec, dht, ret,
                   frame, sentBits, disturbed>>

SensorReady ==
    /\ sensor = "low" /\ pc = "awaitHigh"
    /\ Passes(80)
    /\ sensor' = "high" /\ pc' = "awaitData"
    /\ UNCHANGED <<IntervalBegin, i, j, Rec, dht, ret,
                   frame, sentBits, disturbed>>

-----------------------------------------------------------------------------
\* BitRec at the end of a pulse.

\* Mutant: the counter is taken for one that does not wrap.
MeasuredBit_NoWrap ==
    IF msTicks' - IntervalBegin <= LongestZero THEN 0 ELSE 1

\* inter=msTicks-IntervalBegin, in the arithmetic of a 32-bit counter.
MeasuredBit ==
    IF (msTicks' - IntervalBegin) % TickModulus <= LongestZero THEN 0 ELSE 1

\* Mutant: the sum is not cut to a byte.
ChecksumRight_Wide(bytes, check) ==
    bytes[1] + bytes[2] + bytes[3] + bytes[4] = check

\* Mutant: the checksum covers the two integral parts only.
ChecksumRight_Half(bytes, check) ==
    (bytes[1] + bytes[3]) % 256 = check \/ Sum(bytes) = check

ChecksumRight(bytes, check) == Sum(bytes) = check

NextBit ==
    /\ j < 7
    /\ Rec' = 2 * Rec + MeasuredBit
    /\ j' = j + 1
    /\ pc' = "rise"
    /\ UNCHANGED <<i, dht, ret>>

\* Mutant: Rec is not cleared for the next byte.
NextByte_KeepsRec ==
    /\ j = 7 /\ i < 5
    /\ dht' = [dht EXCEPT ![i] = 2 * Rec + MeasuredBit]
    /\ Rec' = 2 * Rec + MeasuredBit
    /\ i' = i + 1 /\ j' = 0
    /\ pc' = "rise"
    /\ UNCHANGED ret

NextByte ==
    /\ j = 7 /\ i < 5
    /\ dht' = [dht EXCEPT ![i] = 2 * Rec + MeasuredBit]
    /\ Rec' = 0
    /\ i' = i + 1 /\ j' = 0
    /\ pc' = "rise"
    /\ UNCHANGED ret

LastBit ==
    /\ j = 7 /\ i = 5
    /\ Rec' = 2 * Rec + MeasuredBit
    /\ ret' = IF ChecksumRight(dht, Rec') THEN 1 ELSE 0
    /\ pc' = "main"
    /\ UNCHANGED <<i, j, dht>>

BitEnds == NextBit \/ NextByte \/ LastBit

-----------------------------------------------------------------------------
\* The sensor's 40 bits: low for 50 us, then a pulse as long as the bit says.

\* The answer begins with a falling edge, which ends GetTemp's last loop.
DataBegins ==
    /\ sensor = "high" /\ pc = "awaitData"
    /\ Passes(80)
    /\ sensor' = "gap" /\ pc' = "rise"
    /\ UNCHANGED <<IntervalBegin, i, j, Rec, dht, ret,
                   frame, sentBits, disturbed>>

PulseBegins ==
    /\ sensor = "gap" /\ pc = "rise"
    /\ Passes(50)
    /\ sensor' = "pulse" /\ pc' = "fall"
    /\ IntervalBegin' = msTicks'
    /\ UNCHANGED <<i, j, Rec, dht, ret, frame, sentBits, disturbed>>

\* A pulse of the sensor, or what a disturbance makes of it.
Pulse(d) ==
    \/ /\ d \in (IF FrameBit(sentBits) = 0 THEN ZeroPulse ELSE OnePulse)
       /\ UNCHANGED disturbed
    \/ /\ disturbed < MaxDisturbed
       /\ d \in Disturbed
       /\ disturbed' = disturbed + 1

PulseEnds ==
    /\ sensor = "pulse" /\ pc = "fall"
    /\ \E d \in ZeroPulse \cup OnePulse \cup Disturbed : Pulse(d) /\ Passes(d)
    /\ BitEnds
    /\ sentBits' = sentBits + 1
    /\ sensor' = IF sentBits' = 40 THEN "idle" ELSE "gap"
    /\ UNCHANGED <<IntervalBegin, frame>>

Next ==
    \/ GetTemp
    \/ SensorAnswers \/ SensorReady \/ DataBegins
    \/ PulseBegins \/ PulseEnds

Spec == Init /\ [][Next]_vars

-----------------------------------------------------------------------------
\* Properties.

\* BitRec is in step with the sensor and, while no pulse is disturbed, has
\* read every bit right, wherever in a tick the pulses began and wherever the
\* counter wrapped (dht11.c:157-193).
BitsRight ==
    /\ pc \in {"rise", "fall"} => sentBits = 8 * (i - 1) + j
    /\ (disturbed = 0 /\ pc \in {"rise", "fall"}) =>
          /\ \A k \in 1 .. (i - 1) : dht[k] = frame[k]
          /\ Rec = IF j = 0 THEN 0 ELSE frame[i] \div Weight[j]

\* A call of GetTemp has ended.
Returned == pc = "main" /\ frame # <<>>

\* main() takes a reading for good when GetTemp returns 1 (main.c:114): one
\* disturbed pulse, in any byte, cannot make it take a wrong one.
OneDisturbedRefused ==
    Returned /\ disturbed <= 1 /\ ret = 1 =>
        \A k \in 1 .. 4 : dht[k] = frame[k]

\* An undisturbed reading is never refused (dht11.c:195-205).
UndisturbedTaken == Returned /\ disturbed = 0 => ret = 1
=============================================================================
