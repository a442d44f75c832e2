-------------------------------- MODULE Uart --------------------------------
(***************************************************************************)
(* The receive side of UART0 of the KL25Z, as drivers/uart/uart.c uses it: *)
(* one data register D, the "data register full" flag and the overrun      *)
(* flag OR of status register S1.  There is no interrupt, no FIFO and no   *)
(* DMA: the firmware polls.  The driver never writes S1, so nothing in the *)
(* program ever clears OR.  The transmit side cannot stall (the            *)
(* transmitter drains by itself) and has no state here.                    *)
(***************************************************************************)
EXTENDS Integers, Sequences

CONSTANT
    OverrunBlocks  \* TRUE in it: a receiver whose OR is set may store nothing.
                   \* FALSE in it: it may store as before.  Which one happens
                   \* is the silicon's business.

ASSUME OverrunAssumption == OverrunBlocks \in SUBSET BOOLEAN \ {{}}

VARIABLES
    line,     \* bytes the PC has sent that have not arrived yet, in order
    rxd,      \* data register: the byte it holds, or NoByte
    overrun   \* flag OR keeps the receiver from storing: a byte arrived
              \* while the register was full

uartVars == <<line, rxd, overrun>>

Byte == 0 .. 255
NoByte == -1

UartTypeOK ==
    /\ line \in Seq(Byte)
    /\ rxd \in Byte \cup {NoByte}
    /\ overrun \in BOOLEAN

UartInit ==
    /\ line = <<>>
    /\ rxd = NoByte
    /\ overrun = FALSE

-----------------------------------------------------------------------------
\* The driver.

\* uart0_getchar_present: RDRF, the register holds a byte.
uart0_getchar_present == rxd # NoByte

\* uart0_getchar: spins until RDRF, then reads D, which empties it.  The
\* byte read is the value of rxd before the step.  It has no timeout.
uart0_getchar ==
    /\ rxd # NoByte
    /\ rxd' = NoByte
    /\ UNCHANGED <<line, overrun>>

-----------------------------------------------------------------------------
\* The hardware: the next byte on the line has been shifted in.

Store ==
    /\ line # <<>>
    /\ rxd = NoByte
    /\ ~overrun
    /\ rxd' = Head(line)
    /\ line' = Tail(line)
    /\ UNCHANGED overrun

\* The register still holds the previous byte: the new one is lost.
Overrun ==
    /\ line # <<>>
    /\ rxd # NoByte
    /\ overrun' \in {overrun \/ blocks : blocks \in OverrunBlocks}
    /\ line' = Tail(line)
    /\ UNCHANGED rxd

\* The register is free, but OR was never cleared: the byte is lost too.
Deaf ==
    /\ line # <<>>
    /\ rxd = NoByte
    /\ overrun
    /\ line' = Tail(line)
    /\ UNCHANGED <<rxd, overrun>>

Arrive == Store \/ Overrun \/ Deaf

\* The PC writes a frame to its port.
Transmit(frame) ==
    /\ line' = line \o frame
    /\ UNCHANGED <<rxd, overrun>>
=============================================================================
