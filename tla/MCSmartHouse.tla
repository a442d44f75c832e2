------------------------------ MODULE MCSmartHouse ------------------------------
(* An instance of SmartHouse for TLC. *)
EXTENDS SmartHouse

MCTemperatures == {22}
MCDistances == {10, 30}
\* 10.0 is the float 0x41200000 and 30.0 is 0x41F00000, lowest byte first.
MCFloatBytes == [d \in MCDistances |-> <<0, 0, IF d = 10 THEN 32 ELSE 240, 65>>]

MCFrames ==
    {<<1, 1, 0>>, <<1, 1, 1>>, <<3, 1, 0>>, <<3, 1, 1>>, <<4, 1, 1>>, <<4, 1, 0>>,
     <<2, 4, 0, 0, 32, 65>>, <<2, 4, 0, 0, 240, 65>>, <<5, 4, 40, 0, 22, 0>>}
=============================================================================
