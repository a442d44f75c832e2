-------------------------------- MODULE BaudRate --------------------------------
(***************************************************************************)
(* uart0_init of drivers/uart/uart.c: from the clock and the baud rate it  *)
(* is told, the search for the oversampling ratio (OSR) whose baud rate is *)
(* nearest, and the registers it leaves.  Where the code ends in an endless *)
(* loop the model rests in "spin".  The pins and clock gates it switches   *)
(* on are left out.                                                        *)
(***************************************************************************)
EXTENDS Integers

CONSTANT Requests    \* what uart0_init is called with: <<kHz, baud>>

\* Below 2^27 baud_rate * i does not pass 32 bits.
ASSUME RequestsAssumption == Requests \subseteq Int \X (1 .. 2^27 - 1)

VARIABLES
    uart,       \* "off", "search", "ready", or the endless loop "spin"
    uart0clk,   \* the clock, in Hz
    baud_rate,  \* the rate that is asked for
    i,          \* the ratio that is tried next
    osr_val,    \* the best so far
    baud_diff,  \* how far its rate is from baud_rate
    OSR, SBR,   \* registers: the ratio in use, and BDH and BDL as one divisor
    BOTHEDGE    \* register C5: samples on both edges

uartVars == <<uart, uart0clk, baud_rate, i, osr_val, baud_diff, OSR, SBR, BOTHEDGE>>

Ratios == 4 .. 32

UartTypeOK ==
    /\ uart \in {"off", "search", "ready", "spin"}
    /\ uart0clk \in Nat /\ baud_rate \in Nat
    /\ i \in 4 .. 33 /\ osr_val \in Ratios
    /\ baud_diff \in Nat
    /\ OSR \in Ratios /\ SBR \in 0 .. 8191 /\ BOTHEDGE \in BOOLEAN

\* Reset: C4 holds 15, BDL holds 4.
UartInit ==
    /\ uart = "off" /\ uart0clk = 0 /\ baud_rate = 0
    /\ i = 4 /\ osr_val = 4 /\ baud_diff = 0
    /\ OSR = 16 /\ SBR = 4 /\ BOTHEDGE = FALSE

-----------------------------------------------------------------------------
Abs(n) == IF n < 0 THEN -n ELSE n

\* The divisor for a ratio, and the rate the two of them give.
sbr_val(clk, baud, ratio) == clk \div (baud * ratio)

\* Where the divisor is zero the code divides by zero, for which the run-time
\* library of the processor (it has no division) returns zero.
calculated_baud(clk, baud, ratio) ==
    IF sbr_val(clk, baud, ratio) = 0 THEN 0
    ELSE clk \div (ratio * sbr_val(clk, baud, ratio))

Difference(clk, baud, ratio) == Abs(calculated_baud(clk, baud, ratio) - baud)

-----------------------------------------------------------------------------
\* The clock is checked, and the lowest ratio tried.
uart0_init(sysclk, baud) ==
    /\ uart = "off"
    /\ \/ /\ sysclk > 50000 \/ sysclk < 32
          /\ uart' = "spin"
          /\ UNCHANGED <<uart0clk, baud_rate, i, osr_val, baud_diff>>
       \/ /\ 32 <= sysclk /\ sysclk <= 50000
          /\ uart' = "search"
          /\ uart0clk' = sysclk * 1000 /\ baud_rate' = baud
          /\ i' = 5 /\ osr_val' = 4
          /\ baud_diff' = Difference(sysclk * 1000, baud, 4)
    /\ UNCHANGED <<OSR, SBR, BOTHEDGE>>

\* Mutant: the loop runs once too often.
Try_OneMore ==
    /\ uart = "search" /\ i <= 33
    /\ LET temp == Difference(uart0clk, baud_rate, i)
       IN  IF temp <= baud_diff THEN baud_diff' = temp /\ osr_val' = i
                                ELSE UNCHANGED <<baud_diff, osr_val>>
    /\ i' = i + 1
    /\ UNCHANGED <<uart, uart0clk, baud_rate, OSR, SBR, BOTHEDGE>>

\* Mutant: the best ratio is kept, its difference is not.
Try_Forgets ==
    /\ uart = "search" /\ i <= 32
    /\ osr_val' = IF Difference(uart0clk, baud_rate, i) <= baud_diff THEN i ELSE osr_val
    /\ i' = i + 1
    /\ UNCHANGED <<uart, uart0clk, baud_rate, baud_diff, OSR, SBR, BOTHEDGE>>

\* One turn of the loop.  Of two ratios that are as good the later is kept.
Try ==
    /\ uart = "search" /\ i <= 32
    /\ LET temp == Difference(uart0clk, baud_rate, i)
       IN  IF temp <= baud_diff THEN baud_diff' = temp /\ osr_val' = i
                                ELSE UNCHANGED <<baud_diff, osr_val>>
    /\ i' = i + 1
    /\ UNCHANGED <<uart, uart0clk, baud_rate, OSR, SBR, BOTHEDGE>>

\* Less than 3 %.
Acceptable == baud_diff < (baud_rate \div 100) * 3

\* Mutant: the upper bits of the divisor are not written.
Configure_LowByte ==
    /\ uart = "search" /\ i > 32
    /\ \/ ~Acceptable /\ uart' = "spin" /\ UNCHANGED <<OSR, SBR, BOTHEDGE>>
       \/ /\ Acceptable
          /\ uart' = "ready"
          /\ OSR' = osr_val
          /\ SBR' = sbr_val(uart0clk, baud_rate, osr_val) % 256
          /\ BOTHEDGE' = (BOTHEDGE \/ osr_val \in 4 .. 8)
    /\ UNCHANGED <<uart0clk, baud_rate, i, osr_val, baud_diff>>

\* BDH takes five bits of the divisor and BDL eight.
Configure ==
    /\ uart = "search" /\ i > 32
    /\ \/ ~Acceptable /\ uart' = "spin" /\ UNCHANGED <<OSR, SBR, BOTHEDGE>>
       \/ /\ Acceptable
          /\ uart' = "ready"
          /\ OSR' = osr_val
          /\ SBR' = sbr_val(uart0clk, baud_rate, osr_val) % 8192
          /\ BOTHEDGE' = (BOTHEDGE \/ osr_val \in 4 .. 8)
    /\ UNCHANGED <<uart0clk, baud_rate, i, osr_val, baud_diff>>

-----------------------------------------------------------------------------
\* Properties.

\* The ratio the search ends with is the best of all, and of those that are as
\* good the largest (uart.c:94-131).
BestRatio ==
    (uart = "search" /\ i > 32) =>
        LET diff(ratio) == Difference(uart0clk, baud_rate, ratio)
        IN  /\ baud_diff = diff(osr_val)
            /\ \A ratio \in Ratios :
                  /\ diff(osr_val) <= diff(ratio)
                  /\ ratio > osr_val => diff(osr_val) < diff(ratio)

\* What the registers make of the clock.
RateOf(clk) == clk \div (OSR * SBR)

Within3Percent(rate, baud) == 100 * Abs(rate - baud) <= 3 * baud

\* A UART that is ready runs within 3 % of the rate it was asked for, with the
\* registers it has and not only with the numbers of the search.  For rates so
\* low that the divisor may not fit its 13 bits the code makes no check
\* (uart.c:133-157).
InTolerance ==
    (uart = "ready" /\ uart0clk \div baud_rate < 32768) =>
        SBR > 0 /\ Within3Percent(RateOf(uart0clk), baud_rate)
=============================================================================
