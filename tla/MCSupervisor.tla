---------------------------- MODULE MCSupervisor ----------------------------
(* Instances of Supervisor for TLC: what the board sends. *)
EXTENDS Supervisor

\* Motion, relay 2 engaged, humidity 40 % and 22 degrees.
PirOn == <<1, 1, 1>>
Relay2On == <<4, 1, 1>>
Reading == <<5, 4, 40, 0, 22, 0>>
\* Distance 10.0, the float 0x41200000 in the order the board sends it.
Distance10 == <<2, 4, 0, 0, 32, 65>>

MCFrames == {PirOn, Distance10, Reading}
TwoFrames == {PirOn, Relay2On}
=============================================================================
