---------------------------------- MODULE Boot ----------------------------------
(***************************************************************************)
(* main() up to its loop: the PLL is started (module Mcg), checked twice,  *)
(* the frequency taken over, the tick and UART0 (module BaudRate) set up.  *)
(* Where the code ends in while(1) the model rests in "spin".              *)
(***************************************************************************)
EXTENDS Mcg, BaudRate

VARIABLES
    main,             \* what main() does next
    SystemCoreClock,  \* the variable of CMSIS
    tick              \* period of SysTick in cycles, 0: not running

\* freedom.h and main.c
PLL0_PRDIV == 4

\* Mutant: a PLL of 50 MHz.
PLL0_VDIV_25 == 25
PLL0_VDIV == 24
TERMINAL_BAUD == 115200

\* Mutant: uart0_init is told the clock it has.
MainRequest_RealClock == <<24000, TERMINAL_BAUD>>

\* What main() calls uart0_init with.  Other builds would make the other Requests.
MainRequest == <<48000, TERMINAL_BAUD>>

bootVars == <<vars, main, SystemCoreClock, tick, uartVars>>

BootTypeOK ==
    /\ TypeOK /\ UartTypeOK
    /\ main \in {"pll", "pllCall", "mode", "update", "modeAgain", "tick", "uart",
                 "uartCall", "loop", "spin"}
    /\ SystemCoreClock \in Nat /\ tick \in Nat

\* DEFAULT_SYSTEM_CLOCK of system_MKL25Z4.c.
BootInit ==
    /\ Init /\ UartInit
    /\ main = "pll"
    /\ SystemCoreClock = 41943040 /\ tick = 0

-----------------------------------------------------------------------------
\* main() goes on, or stays in while(1).
Proceed(from, condition, to) ==
    /\ main = from
    /\ main' = IF condition THEN to ELSE "spin"

StartPll ==
    /\ Proceed("pll", TRUE, "pllCall")
    /\ PllInit(1, <<PLL0_PRDIV, PLL0_VDIV>>)
    /\ UNCHANGED <<SystemCoreClock, tick, uartVars>>

\* Inside pll_init.
PllRuns ==
    /\ main = "pllCall"
    /\ Driver
    /\ UNCHANGED <<main, SystemCoreClock, tick, uartVars>>

\* The frequency is kept in a char, which is zero for this one.
CheckPll ==
    /\ todo = <<>>
    /\ Proceed("pllCall", MainAccepts, "mode")
    /\ UNCHANGED <<vars, SystemCoreClock, tick, uartVars>>

CheckMode ==
    /\ \/ Proceed("mode", what_mcg_mode = PEE, "update")
       \/ Proceed("modeAgain", what_mcg_mode = PEE, "tick")
    /\ UNCHANGED <<vars, SystemCoreClock, tick, uartVars>>

\* Mutant: the update is forgotten.
SystemCoreClockUpdate_Not ==
    /\ Proceed("update", TRUE, "modeAgain")
    /\ UNCHANGED <<vars, SystemCoreClock, tick, uartVars>>

SystemCoreClockUpdate ==
    /\ Proceed("update", TRUE, "modeAgain")
    /\ SystemCoreClock' = MCGOUTClock
    /\ UNCHANGED <<vars, tick, uartVars>>

SysTick_Config ==
    /\ Proceed("tick", TRUE, "uart")
    /\ tick' = SystemCoreClock \div 100000
    /\ UNCHANGED <<vars, SystemCoreClock, uartVars>>

StartUart ==
    /\ Proceed("uart", TRUE, "uartCall")
    /\ \E r \in {MainRequest} \cup Requests : uart0_init(r[1], r[2])
    /\ UNCHANGED <<vars, SystemCoreClock, tick>>

UartRuns ==
    /\ main = "uartCall"
    /\ Try \/ Configure
    /\ UNCHANGED <<vars, main, SystemCoreClock, tick>>

EnterLoop ==
    /\ uart = "ready"
    /\ Proceed("uartCall", TRUE, "loop")
    /\ UNCHANGED <<vars, SystemCoreClock, tick, uartVars>>

Hardware ==
    /\ \E bit \in Bits : Follow(bit)
    /\ UNCHANGED <<main, SystemCoreClock, tick, uartVars>>

Main == StartPll \/ PllRuns \/ CheckPll \/ CheckMode \/ SystemCoreClockUpdate
        \/ SysTick_Config \/ StartUart \/ UartRuns \/ EnterLoop

BootNext == Main \/ Hardware

BootSpec == BootInit /\ [][BootNext]_bootVars

\* The processor runs, and the hardware follows in the end.
BootFairSpec == BootSpec /\ WF_bootVars(Main) /\ WF_bootVars(Hardware)

-----------------------------------------------------------------------------
\* Properties.

\* The frequency of the PLL, and the clock of UART0, which is half of it
\* whatever uart0_init is told (uart.c:49-50, UART0SRC and PLLFLLSEL).
PllClock == PllFreq(C["PRDIV0"] + 1, C["VDIV0"] + 24)
Uart0Clock == PllClock \div 2

\* The rate the Supervisor selects when its window opens, the fifth of its
\* list (SupervisorDlg.cpp:145-153), and what main.c:17 says of UART0.
SupervisorBaud == 57600

\* The two programs meet: main() passes a clock twice as fast as the one UART0
\* has, and 115200 baud; the board then speaks and listens within 3 % of the
\* rate the Supervisor has selected (main.c:85, uart.c:31-172).
SpeaksToSupervisor ==
    (main = "loop" /\ <<uart0clk \div 1000, baud_rate>> = MainRequest) =>
        SBR > 0 /\ Within3Percent(RateOf(Uart0Clock), SupervisorBaud)

\* In its loop the board runs from its locked PLL, what CMSIS believes is the
\* frequency it has, and SysTick's period is the 10 us dht11.c counts in
\* (main.c:53-85, dht11.c:278).
StartsRight ==
    main = "loop" =>
        /\ what_mcg_mode = PEE /\ S["LOCK0"] = 1
        /\ SystemCoreClock = PllClock
        /\ tick * 100000 = PllClock

\* main() reaches its loop unless a wait for the clock timed out or the build
\* asks for a rate the UART cannot have (main.c:53-85).
Starts == <>(main = "loop" \/ late > 0 \/ uart = "spin")
=============================================================================
