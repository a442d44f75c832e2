---------------------------- MODULE MCController ----------------------------
(* Instances of Controller for TLC: what the PC sends and the sensors read. *)
EXTENDS Controller

NoFrames == {}

\* A message of the Supervisor (UpdateTemperature with 22).
SetTemperature22 == <<136, 2, 22, 0>>
OneSetTemperature == {SetTemperature22}

\* A reading to take as limit (humidity 40, temperature 8), with the length
\* byte the board itself uses in SendDHT, and with the one RecvBuffer needs
\* to read the temperature.
Dht8 == <<5, 4, 40, 0, 8, 0>>
Dht8Long == <<5, 5, 40, 0, 8>>
OneDht == {Dht8}

\* A message without a byte in 1..10, and one with several of them.
Inert == <<134, 0>>
InertAndCommand == {Inert, Dht8Long}

\* 20 degrees (no heat unless the limit is 0 or 8), 26 (heat under any limit).
MCTemperatures == {20, 26}

\* Near, and on the threshold.
NearFar == {10, 20}
=============================================================================
