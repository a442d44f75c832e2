--------------------------------- MODULE MCBoot ---------------------------------
(* An instance of Boot for TLC: this board, and builds with other rates. *)
EXTENDS Boot

MCCrystals == {8000000}
MCIrc == {32768}
MCPll == {<<4, 24>>}
\* 9600 and 2400 suit many ratios; 6 MBd and 3 MBd need few samples, and more of them
\* divide by zero; 110 does not fit the divisor; 10 MBd and 75 Bd are refused,
\* and so are the clocks below 32 kHz and above 50 MHz.
MCRequests ==
    {<<48000, b>> : b \in {110, 2400, 9600, 57600, 256000, 3000000, 6000000}}
    \cup {<<48000, 75>>, <<48000, 10000000>>, <<24000, 57600>>, <<4000, 230400>>,
          <<8000, 921600>>, <<31, 9600>>, <<60000, 9600>>}
=============================================================================
