------------------------------- MODULE MCDht11 -------------------------------
(* An instance of Dht11 for TLC, with the pulse lengths of the DHT11. *)
EXTENDS Dht11

\* 40.0 % and 22.0 degrees; a reading whose sum does not fit in a byte.
MCReadings == {<<40, 0, 22, 0>>, <<200, 129, 50, 7>>}
MCResponse == {34}
MCZero == {26, 28}
MCOne == {70}
\* 58 us is read as a 0 or as a 1, depending on where in a tick it begins.
MCDisturbed == {58}
=============================================================================
