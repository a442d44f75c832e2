------------------------------ MODULE MCSettings ------------------------------
(* An instance of Settings for TLC: 23.30 is one that loses a hundredth. *)
EXTENDS Settings

MCHumid == {2100, 2330, 4000}
MCTemperature == {2100, 2330, 5560}
MCDistance == {2000, 3010}
=============================================================================
