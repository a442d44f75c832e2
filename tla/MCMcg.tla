--------------------------------- MODULE MCMcg ---------------------------------
(* Instances of Mcg for TLC: boards and what callers pass. *)
EXTENDS Mcg

\* The board's crystal and PLL (48 MHz); a watch crystal; 3 MHz, which suits
\* the PLL (72 MHz) and not the FLL; 60 MHz, which every function refuses.  With <<2, 50>> only blpe_pbe is content.
MCCrystals == {8000000, 32768, 3000000, 60000000}
MCIrc == {32768, 4000000}
MCPll == {<<4, 24>>, <<1, 24>>, <<2, 50>>}
=============================================================================
