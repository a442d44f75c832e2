------------------------------- MODULE BootProofs -------------------------------
(***************************************************************************)
(* Theorems about the start of the board.                                  *)
(*   BestRatioCorrect           uart0_init finds the best ratio            *)
(*   InToleranceCorrect         the registers give its rate within 3 %     *)
(*   StartsRightCorrect         in its loop the board has the clock it     *)
(*                              counts on                                  *)
(*   SpeaksToSupervisorCorrect  and the Supervisor's baud rate             *)
(*   BootTypeCorrect            every variable keeps its type              *)
(***************************************************************************)
EXTENDS Boot, McgProofs, SequenceTheorems, TLAPS

\* The ratio b is the best of those below n for a clock and a rate.
BestBelow(clk, baud, b, n) ==
    \A ratio \in 4 .. n - 1 :
        /\ Difference(clk, baud, b) <= Difference(clk, baud, ratio)
        /\ ratio > b => Difference(clk, baud, b) < Difference(clk, baud, ratio)

SearchInv ==
    uart = "search" =>
        /\ uart0clk \in Nat /\ baud_rate \in Nat \ {0}
        /\ i \in 5 .. 33 /\ osr_val \in 4 .. i - 1
        /\ baud_diff = Difference(uart0clk, baud_rate, osr_val)
        /\ BestBelow(uart0clk, baud_rate, osr_val, i)

ReadyInv == InTolerance

UartInv == SearchInv /\ ReadyInv

-----------------------------------------------------------------------------
\* Arithmetic.

\* A quotient of naturals is one.
LEMMA Quotient ==
    ASSUME NEW a \in Nat, NEW b \in Nat \ {0}
    PROVE  (a \div b) \in Nat
  BY SMT

\* And what it is.
LEMMA QuotientBounds ==
    ASSUME NEW a \in Nat, NEW b \in Nat \ {0}
    PROVE  /\ b * (a \div b) <= a
           /\ a < b * (a \div b) + b
  BY SMT

\* A product of positive numbers is positive.
LEMMA Positive ==
    ASSUME NEW a \in Nat \ {0}, NEW b \in Nat \ {0}
    PROVE  a * b \in Nat \ {0}
  BY SMT

\* A remainder of a smaller number is that number.
LEMMA Remainder ==
    ASSUME NEW a \in Nat, a < 8192
    PROVE  (a % 8192) = a
  BY SMT

\* How far a rate is off is a natural number.
LEMMA DifferenceType ==
    ASSUME NEW clk \in Nat, NEW baud \in Nat \ {0}, NEW ratio \in Nat \ {0}
    PROVE  /\ sbr_val(clk, baud, ratio) \in Nat
           /\ calculated_baud(clk, baud, ratio) \in Nat
           /\ Difference(clk, baud, ratio) \in Nat
  <1>1. baud * ratio \in Nat \ {0}
    BY Positive
  <1>2. sbr_val(clk, baud, ratio) \in Nat
    BY <1>1, Quotient DEF sbr_val
  <1>3. calculated_baud(clk, baud, ratio) \in Nat
    <2>1. CASE sbr_val(clk, baud, ratio) = 0
      BY <2>1 DEF calculated_baud
    <2>2. CASE sbr_val(clk, baud, ratio) # 0
      <3>1. ratio * sbr_val(clk, baud, ratio) \in Nat \ {0}
        BY <1>2, <2>2, Positive
      <3>2. (clk \div (ratio * sbr_val(clk, baud, ratio))) \in Nat
        BY <3>1, Quotient
      <3> QED BY <2>2, <3>2 DEF calculated_baud
    <2> QED BY <2>1, <2>2
  <1>4. Difference(clk, baud, ratio) \in Nat
    BY <1>3 DEF Difference, Abs
  <1> QED BY <1>2, <1>3, <1>4

\* The rate is not too low for the clock, and 13 bits are enough.
NotTooLow(clk, baud) == (clk \div baud) < 32768
FitsBDH(divisor) == divisor \in Nat /\ divisor < 8192

\* A divisor fits its 13 bits if the rate is not too low for the clock.
LEMMA DivisorFits ==
    ASSUME NEW clk \in Nat, NEW baud \in Nat \ {0}, NEW ratio \in 4 .. 32,
           NotTooLow(clk, baud)
    PROVE  FitsBDH(sbr_val(clk, baud, ratio))
  <1> DEFINE q == clk \div baud
             s == sbr_val(clk, baud, ratio)
  <1> ratio \in Nat \ {0}
    OBVIOUS
  <1>1. /\ q \in Nat /\ q < 32768
        /\ clk < baud * q + baud
    BY Quotient, QuotientBounds DEF NotTooLow
  <1>2. s \in Nat
    BY ONLY DifferenceType, clk \in Nat, baud \in Nat \ {0}, ratio \in Nat \ {0}
  <1>3. (baud * ratio) * s <= clk
    <2> DEFINE p == baud * ratio
    <2>1. p \in Nat \ {0}
      BY Positive
    <2> HIDE DEF p
    <2>2. p * (clk \div p) <= clk
      BY <2>1, QuotientBounds
    <2> QED BY <2>2 DEF sbr_val, p
  <1>4. s < 8192
    <2> HIDE DEF q, s
    <2>1. SUFFICES ASSUME s >= 8192 PROVE FALSE
      BY <1>2
    <2>2. ratio * s >= 32768
      <3>1. ratio * s >= 4 * s
        BY <1>2
      <3> QED BY <1>2, <2>1, <3>1
    <2>3. (baud * ratio) * s = baud * (ratio * s)
      BY <1>2
    <2>4. ratio * s \in Nat
      BY <1>2
    <2>5. baud * (ratio * s) >= baud * 32768
      BY <2>2, <2>4
    <2>6. baud * q + baud <= baud * 32768
      <3>1. q + 1 <= 32768
        BY <1>1
      <3>2. baud * (q + 1) <= baud * 32768
        BY <1>1, <3>1
      <3> QED BY <1>1, <3>2
    <2>7. baud * q \in Nat
      BY <1>1
    <2> QED BY <1>1, <1>3, <2>3, <2>4, <2>5, <2>6, <2>7
  <1> QED BY <1>2, <1>4 DEF FitsBDH

\* Acceptable means within 3 %, and not a divisor of zero.
LEMMA AcceptedRate ==
    ASSUME NEW clk \in Nat, NEW baud \in Nat \ {0}, NEW ratio \in 4 .. 32,
           Difference(clk, baud, ratio) < (baud \div 100) * 3
    PROVE  /\ sbr_val(clk, baud, ratio) > 0
           /\ Within3Percent(clk \div (ratio * sbr_val(clk, baud, ratio)), baud)
  <1> DEFINE h == baud \div 100
             s == sbr_val(clk, baud, ratio)
             c == calculated_baud(clk, baud, ratio)
             d == Difference(clk, baud, ratio)
  <1>1. h \in Nat /\ 100 * h <= baud
    BY Quotient, QuotientBounds
  <1>2. s \in Nat /\ c \in Nat /\ d \in Nat
    BY DifferenceType
  <1>3. d = Abs(c - baud)
    BY DEF Difference
  <1>4. s = 0 => c = 0
    BY DEF calculated_baud
  <1>5. s # 0 => c = clk \div (ratio * s)
    BY DEF calculated_baud
  <1>6. d < h * 3
    OBVIOUS
  <1> HIDE DEF h, s, c, d
  <1>7. 100 * Abs(c - baud) <= 3 * baud
    BY <1>1, <1>2, <1>3, <1>6
  <1>8. s # 0
    <2>1. c = 0 => Abs(c - baud) = baud
      BY DEF Abs
    <2> QED BY <1>1, <1>2, <1>3, <1>4, <1>6, <2>1
  <1>9. s > 0 /\ Within3Percent(c, baud)
    BY <1>2, <1>7, <1>8 DEF Within3Percent
  <1> QED BY <1>5, <1>8, <1>9 DEF s

-----------------------------------------------------------------------------
\* The steps of uart0_init.

\* One turn more: the later of two equal ratios is kept.
LEMMA OneRatioMore ==
    ASSUME NEW clk \in Nat, NEW baud \in Nat \ {0}, NEW n \in 5 .. 32,
           NEW b \in 4 .. n - 1, BestBelow(clk, baud, b, n)
    PROVE  LET temp == Difference(clk, baud, n)
           IN  /\ temp <= Difference(clk, baud, b) => BestBelow(clk, baud, n, n + 1)
               /\ ~(temp <= Difference(clk, baud, b)) => BestBelow(clk, baud, b, n + 1)
  <1>1. \A r \in 4 .. 32 : Difference(clk, baud, r) \in Nat
    <2> SUFFICES ASSUME NEW r \in 4 .. 32 PROVE Difference(clk, baud, r) \in Nat
      OBVIOUS
    <2>1. r \in Nat \ {0}
      OBVIOUS
    <2> QED BY <2>1, DifferenceType
  <1>2. \A r \in 4 .. n : r \in 4 .. n - 1 \/ r = n
    OBVIOUS
  <1>3. 4 .. (n + 1) - 1 = 4 .. n /\ 4 .. n \subseteq 4 .. 32
    OBVIOUS
  <1>4. b \in 4 .. 32 /\ n \in 4 .. 32 /\ b < n
    OBVIOUS
  <1> QED BY <1>1, <1>2, <1>3, <1>4 DEF BestBelow

\* The call.
LEMMA CallPreserves ==
    ASSUME UartInv, NEW sysclk \in Int, NEW baud \in Nat \ {0},
           uart0_init(sysclk, baud)
    PROVE  UartInv'
  <1>1. CASE uart' = "spin"
    BY <1>1 DEF UartInv, SearchInv, ReadyInv, InTolerance
  <1>2. CASE /\ 32 <= sysclk /\ sysclk <= 50000
             /\ uart' = "search"
             /\ uart0clk' = sysclk * 1000 /\ baud_rate' = baud
             /\ i' = 5 /\ osr_val' = 4
             /\ baud_diff' = Difference(sysclk * 1000, baud, 4)
    <2>1. sysclk * 1000 \in Nat
      BY <1>2
    <2>2. Difference(sysclk * 1000, baud, 4) \in Nat
      BY <2>1, DifferenceType
    <2>3. BestBelow(sysclk * 1000, baud, 4, 5)
      <3>1. 4 .. 5 - 1 = {4}
        OBVIOUS
      <3> QED BY <2>2, <3>1 DEF BestBelow
    <2>4. SearchInv'
      BY <1>2, <2>1, <2>3 DEF SearchInv
    <2>5. ReadyInv'
      BY <1>2 DEF ReadyInv, InTolerance
    <2> QED BY <2>4, <2>5 DEF UartInv
  <1>3. ASSUME uart' # "spin" PROVE UartInv'
    <2>1. /\ 32 <= sysclk /\ sysclk <= 50000
          /\ uart' = "search"
          /\ uart0clk' = sysclk * 1000 /\ baud_rate' = baud
          /\ i' = 5 /\ osr_val' = 4
          /\ baud_diff' = Difference(sysclk * 1000, baud, 4)
      BY <1>3 DEF uart0_init
    <2> QED BY ONLY <1>2, <2>1
  <1> QED BY <1>1, <1>3

\* The loop.
LEMMA TryPreserves ==
    ASSUME UartInv, Try
    PROVE  UartInv'
  <1>1. /\ uart = "search" /\ uart' = "search" /\ i <= 32 /\ i' = i + 1
        /\ uart0clk' = uart0clk /\ baud_rate' = baud_rate
    BY DEF Try
  <1>2. /\ uart0clk \in Nat /\ baud_rate \in Nat \ {0}
        /\ i \in 5 .. 32 /\ osr_val \in 4 .. i - 1
        /\ baud_diff = Difference(uart0clk, baud_rate, osr_val)
        /\ BestBelow(uart0clk, baud_rate, osr_val, i)
    BY <1>1 DEF UartInv, SearchInv
  <1>3. SearchInv'
    <2>1. CASE /\ Difference(uart0clk, baud_rate, i) <= baud_diff
               /\ baud_diff' = Difference(uart0clk, baud_rate, i) /\ osr_val' = i
      <3>1. BestBelow(uart0clk, baud_rate, i, i + 1)
        BY <1>2, <2>1, OneRatioMore
      <3> QED BY <1>1, <1>2, <2>1, <3>1 DEF SearchInv
    <2>2. CASE /\ ~(Difference(uart0clk, baud_rate, i) <= baud_diff)
               /\ baud_diff' = baud_diff /\ osr_val' = osr_val
      <3>1. BestBelow(uart0clk, baud_rate, osr_val, i + 1)
        BY <1>2, <2>2, OneRatioMore
      <3> QED BY <1>1, <1>2, <2>2, <3>1 DEF SearchInv
    <2> QED BY <2>1, <2>2 DEF Try
  <1>4. ReadyInv'
    BY <1>1 DEF ReadyInv, InTolerance
  <1> QED BY <1>3, <1>4 DEF UartInv

\* The registers.
LEMMA ConfigurePreserves ==
    ASSUME UartInv, Configure
    PROVE  UartInv'
  <1>1. /\ uart = "search" /\ i > 32
        /\ uart0clk' = uart0clk /\ baud_rate' = baud_rate
    BY DEF Configure
  <1>2. /\ uart0clk \in Nat /\ baud_rate \in Nat \ {0} /\ osr_val \in 4 .. 32
        /\ baud_diff = Difference(uart0clk, baud_rate, osr_val)
    BY <1>1 DEF UartInv, SearchInv
  <1>3. uart' # "search"
    BY DEF Configure
  <1>4. ASSUME uart' = "ready", (uart0clk \div baud_rate) < 32768
        PROVE  SBR' > 0 /\ Within3Percent(uart0clk \div (OSR' * SBR'), baud_rate)
    <2> DEFINE s == sbr_val(uart0clk, baud_rate, osr_val)
    <2>1. /\ baud_diff < (baud_rate \div 100) * 3
          /\ OSR' = osr_val /\ SBR' = s % 8192
      BY <1>4 DEF Configure, Acceptable
    <2>2. s \in Nat /\ s < 8192
      <3>1. NotTooLow(uart0clk, baud_rate)
        BY <1>4 DEF NotTooLow
      <3>2. uart0clk \in Nat
        BY <1>2
      <3>3. baud_rate \in Nat \ {0}
        BY <1>2
      <3>4. osr_val \in 4 .. 32
        BY <1>2
      <3>5. FitsBDH(sbr_val(uart0clk, baud_rate, osr_val))
        BY ONLY <3>1, <3>2, <3>3, <3>4, DivisorFits
      <3> QED BY <3>5 DEF FitsBDH
    <2>3. s > 0 /\ Within3Percent(uart0clk \div (osr_val * s), baud_rate)
      BY <1>2, <2>1, AcceptedRate
    <2> HIDE DEF s
    <2>4. SBR' = s
      BY <2>1, <2>2, Remainder
    <2> QED BY <2>1, <2>3, <2>4
  <1>5. ReadyInv'
    BY <1>1, <1>4 DEF ReadyInv, InTolerance, RateOf
  <1> QED BY <1>3, <1>5 DEF UartInv, SearchInv

-----------------------------------------------------------------------------
\* The steps of main().

\* Steps outside uart0_init.
LEMMA OthersPreserve ==
    ASSUME UartInv, UNCHANGED uartVars
    PROVE  UartInv'
  BY DEF UartInv, SearchInv, ReadyInv, InTolerance, RateOf, uartVars, BestBelow

\* What uart0_init is called with.
LEMMA RequestTyped ==
  ASSUME NEW r \in {MainRequest} \cup Requests
  PROVE  r[1] \in Int /\ r[2] \in Nat \ {0}
  <1>1. CASE r = MainRequest
    BY ONLY <1>1, SMT DEF MainRequest, TERMINAL_BAUD
  <1>2. CASE r \in Requests
    <2> DEFINE top == 2^27 - 1
    <2>1. Requests \subseteq Int \X (1 .. top)
      BY RequestsAssumption
    <2> HIDE DEF top
    <2>2. r[1] \in Int /\ r[2] \in 1 .. top
      BY ONLY <1>2, <2>1
    <2> QED BY ONLY <2>2
  <1> QED BY <1>1, <1>2

LEMMA UartInvHolds == BootSpec => []UartInv
  <1>1. BootInit => UartInv
    BY DEF BootInit, UartInit, UartInv, SearchInv, ReadyInv, InTolerance
  <1>2. UartInv /\ [BootNext]_bootVars => UartInv'
    <2> SUFFICES ASSUME UartInv, [BootNext]_bootVars PROVE UartInv'
      OBVIOUS
    <2>1. CASE StartUart
      <3>1. PICK r \in {MainRequest} \cup Requests : uart0_init(r[1], r[2])
        BY <2>1 DEF StartUart
      <3>2. r[1] \in Int /\ r[2] \in Nat \ {0}
        BY RequestTyped
      <3> QED BY <3>1, <3>2, CallPreserves
    <2>2. CASE UartRuns
      BY <2>2, TryPreserves, ConfigurePreserves DEF UartRuns
    <2>3. CASE UNCHANGED bootVars
      BY <2>3, OthersPreserve DEF bootVars
    <2>4. CASE StartPll
      BY <2>4, OthersPreserve DEF StartPll, uartVars
    <2>5. CASE PllRuns
      BY <2>5, OthersPreserve DEF PllRuns, uartVars
    <2>6. CASE CheckPll
      BY <2>6, OthersPreserve DEF CheckPll, uartVars
    <2>7. CASE CheckMode
      BY <2>7, OthersPreserve DEF CheckMode, uartVars
    <2>8. CASE SystemCoreClockUpdate
      BY <2>8, OthersPreserve DEF SystemCoreClockUpdate, uartVars
    <2>9. CASE SysTick_Config
      BY <2>9, OthersPreserve DEF SysTick_Config, uartVars
    <2>10. CASE EnterLoop
      BY <2>10, OthersPreserve DEF EnterLoop, uartVars
    <2>11. CASE Hardware
      BY <2>11, OthersPreserve DEF Hardware, uartVars
    <2> QED
      BY <2>1, <2>2, <2>3, <2>4, <2>5, <2>6, <2>7, <2>8, <2>9, <2>10, <2>11
      DEF BootNext, Main
  <1> QED BY <1>1, <1>2, PTL DEF BootSpec

\* When the loop of uart0_init ends, osr_val is the ratio whose rate is nearest
\* to the one asked for, and of equally near ones the largest (uart.c:94-131).
THEOREM BestRatioCorrect == BootSpec => []BestRatio
  <1>1. UartInv => BestRatio
    <2> SUFFICES ASSUME UartInv, uart = "search", i > 32 PROVE BestRatio
      BY DEF BestRatio
    <2>1. /\ i = 33
          /\ baud_diff = Difference(uart0clk, baud_rate, osr_val)
          /\ BestBelow(uart0clk, baud_rate, osr_val, i)
      BY DEF UartInv, SearchInv
    <2>2. Ratios = 4 .. 33 - 1
      BY DEF Ratios
    <2> QED BY <2>1, <2>2 DEF BestRatio, BestBelow
  <1> QED BY <1>1, UartInvHolds, PTL

\* When uart0_init returns, the registers make a rate of the clock it was told
\* that is within 3 % of the one asked for (uart.c:133-157).
THEOREM InToleranceCorrect == BootSpec => []InTolerance
  <1>1. UartInv => InTolerance
    BY DEF UartInv, ReadyInv
  <1> QED BY <1>1, UartInvHolds, PTL

-----------------------------------------------------------------------------
\* main() on its way to the loop, for every order in which the hardware follows
\* and every wait that times out.

\* The operations of pll_init as main() calls it, with the board's crystal.
Op1 == [op |-> "write", fields |-> [RANGE0 |-> 1, EREFS0 |-> 1]]
Op2 == [op |-> "write", fields |-> [CLKS |-> 2, FRDIV |-> frdiv_val, IREFS |-> 0]]
Op3 == [op |-> "await", bit |-> "OSCINIT0", value |-> 1, error |-> 35]
Op4 == [op |-> "await", bit |-> "IREFST", value |-> 0, error |-> 17]
Op5 == [op |-> "await", bit |-> "CLKST", value |-> 2, error |-> 26]
Op6 == [op |-> "write", fields |-> [CME0 |-> 1]]
Op7 == [op |-> "write", fields |-> [PRDIV0 |-> 3]]
Op8 == [op |-> "write", fields |-> [VDIV0 |-> 0, PLLS |-> 1]]
Op9 == [op |-> "await", bit |-> "PLLST", value |-> 1, error |-> 22]
Op10 == [op |-> "await", bit |-> "LOCK0", value |-> 1, error |-> 68]
Op11 == [op |-> "write", fields |-> [CLKS |-> 0]]
Op12 == [op |-> "await", bit |-> "CLKST", value |-> 3, error |-> 27]

Script == <<Op1, Op2, Op3, Op4, Op5, Op6, Op7, Op8, Op9, Op10, Op11, Op12>>

Operations == {Script[k] : k \in 1 .. 12}

\* What the registers show when n operations of it are left.
Progress(n) ==
    /\ n <= 10 => C["IREFS"] = 0
    /\ n <= 8 => S["IREFST"] = 0
    /\ n <= 5 => C["PRDIV0"] = 3
    /\ n <= 4 => C["VDIV0"] = 0 /\ C["PLLS"] = 1
    /\ n <= 3 => S["PLLST"] = 1
    /\ n <= 2 => S["LOCK0"] = 1
    /\ n <= 1 => C["CLKS"] = 0
    /\ n <= 0 => S["CLKST"] = 3

\* What is left is the end of it.
InScript ==
    /\ todo \in Seq(Operations)
    /\ Len(todo) <= 12
    /\ \A n \in 1 .. Len(todo) : todo[n] = Script[n + (12 - Len(todo))]

Board ==
    /\ crystal = 8000000
    /\ C["LP"] = 0
    /\ DOMAIN S = Bits

Fresh ==
    /\ todo = <<>>
    /\ C["IREFS"] = 1 /\ C["CLKS"] = 0 /\ C["PLLS"] = 0
    /\ S["IREFST"] = 1 /\ S["CLKST"] = 0 /\ S["PLLST"] = 0

\* Inside pll_init, and after it: either the script has been done, or main()
\* will see an error.
Starting ==
    /\ InScript
    /\ todo # <<>> => Progress(Len(todo))
    /\ todo = <<>> => Progress(0) \/ ret \in 1 .. 255

Started == todo = <<>> /\ Progress(0)

AfterUpdate == {"modeAgain", "tick", "uart", "uartCall", "loop"}
AfterTick == {"uart", "uartCall", "loop"}

StartInv ==
    /\ Board
    /\ main = "pll" => Fresh
    /\ main = "pllCall" => Starting
    /\ main \in {"mode", "update"} \cup AfterUpdate => Started
    /\ main \in AfterUpdate => SystemCoreClock = 48000000
    /\ main \in AfterTick => tick = 480

-----------------------------------------------------------------------------
\* A sequence with one element more.
LEMMA OneMore ==
  ASSUME NEW X, NEW s \in Seq(X), NEW a \in X, NEW t \in Seq(X),
         Len(t) = Len(s) + 1, t[Len(s) + 1] = a, \A n \in 1 .. Len(s) : t[n] = s[n]
  PROVE  s \o <<a>> = t
  <1> DEFINE u == Append(s, a)
  <1>1. u = s \o <<a>>
    BY AppendIsConcat
  <1>2. u \in Seq(X) /\ Len(u) = Len(s) + 1 /\ u[Len(s) + 1] = a
    OBVIOUS
  <1>3. \A n \in 1 .. Len(s) : u[n] = s[n]
    OBVIOUS
  <1> HIDE DEF u
  <1>5. Len(s) \in Nat
    OBVIOUS
  <1>4. \A n \in 1 .. Len(u) : u[n] = t[n]
    BY <1>2, <1>3, <1>5
  <1>6. u = t
    BY ONLY <1>2, <1>4, Len(t) = Len(s) + 1, t \in Seq(X), SeqEqual
  <1> QED BY <1>1, <1>6

\* A sequence with two elements more.
LEMMA TwoMore ==
  ASSUME NEW X, NEW s \in Seq(X), NEW a \in X, NEW b \in X, NEW t \in Seq(X),
         Len(t) = Len(s) + 2, t[Len(s) + 1] = a, t[Len(s) + 2] = b,
         \A n \in 1 .. Len(s) : t[n] = s[n]
  PROVE  s \o (<<a>> \o <<b>>) = t
  <1> DEFINE u == s \o <<a>>
  <1>1. <<a>> \in Seq(X) /\ <<b>> \in Seq(X)
    OBVIOUS
  <1>2. s \o (<<a>> \o <<b>>) = u \o <<b>>
    BY ONLY <1>1, s \in Seq(X), ConcatAssociative
  <1>3. u \in Seq(X) /\ Len(u) = Len(s) + 1 /\ u[Len(s) + 1] = a
    BY <1>1
  <1>4. \A n \in 1 .. Len(s) : u[n] = s[n]
    BY <1>1
  <1> HIDE DEF u
  <1>5. Len(s) \in Nat
    OBVIOUS
  <1>6. Len(t) = Len(u) + 1 /\ t[Len(u) + 1] = b /\ \A n \in 1 .. Len(u) : t[n] = u[n]
    BY <1>3, <1>4, <1>5
  <1>7. u \o <<b>> = t
    BY ONLY <1>3, <1>6, b \in X, t \in Seq(X), OneMore
  <1> QED BY <1>2, <1>7

\* The pieces of pll_init's script are one sequence of twelve operations.
LEMMA TwelveInOne ==
  <<Op1>> \o (<<Op2>> \o <<Op3>> \o <<Op4>>) \o <<Op5>> \o <<Op6>> \o (<<Op7>> \o <<Op8>>)
             \o (<<Op9>> \o <<Op10>>) \o (<<Op11>> \o <<Op12>>)
           = Script
  <1> DEFINE X == {Op1, Op2, Op3, Op4, Op5, Op6, Op7, Op8, Op9, Op10, Op11, Op12}
  <1>0. /\ Op1 \in X /\ Op2 \in X /\ Op3 \in X /\ Op4 \in X /\ Op5 \in X /\ Op6 \in X
        /\ Op7 \in X /\ Op8 \in X /\ Op9 \in X /\ Op10 \in X /\ Op11 \in X /\ Op12 \in X
    OBVIOUS
  <1> HIDE DEF X
  <1>1. <<Op1>> \o (<<Op2>> \o <<Op3>> \o <<Op4>>) = <<Op1, Op2, Op3, Op4>>
    <2>1. <<Op1>> \in Seq(X) /\ <<Op2>> \in Seq(X) /\ <<Op3>> \in Seq(X) /\ <<Op4>> \in Seq(X)
      BY <1>0
    <2>2. <<Op2>> \o <<Op3>> \o <<Op4>> = <<Op2>> \o (<<Op3>> \o <<Op4>>)
      BY ONLY <2>1, ConcatAssociative
    <2>3. <<Op2>> \o (<<Op3>> \o <<Op4>>) = <<Op2, Op3, Op4>>
      <3> DEFINE s == <<Op2>>
                 t == <<Op2, Op3, Op4>>
      <3>1. /\ s \in Seq(X) /\ t \in Seq(X)
            /\ Len(t) = Len(s) + 2 /\ t[Len(s) + 1] = Op3 /\ t[Len(s) + 2] = Op4
        BY <1>0
      <3>2. \A n \in 1 .. Len(s) : t[n] = s[n]
        BY <1>0
      <3> HIDE DEF s, t
      <3>3. s \o (<<Op3>> \o <<Op4>>) = t
        BY ONLY <3>1, <3>2, <1>0, TwoMore
      <3> QED BY <3>3 DEF s, t
    <2> DEFINE u == <<Op1>> \o <<Op2, Op3, Op4>>
               t == <<Op1, Op2, Op3, Op4>>
    <2>4. u \in Seq(X) /\ Len(u) = 4 /\ u[1] = Op1 /\ u[2] = Op2 /\ u[3] = Op3 /\ u[4] = Op4
      <3>1. <<Op2, Op3, Op4>> \in Seq(X) /\ Len(<<Op2, Op3, Op4>>) = 3
        BY <1>0
      <3> QED BY <1>0, <2>1, <3>1
    <2>5. t \in Seq(X) /\ Len(t) = 4 /\ t[1] = Op1 /\ t[2] = Op2 /\ t[3] = Op3 /\ t[4] = Op4
      BY <1>0
    <2> HIDE DEF u, t
    <2>6. \A n \in 1 .. Len(u) : u[n] = t[n]
      BY <2>4, <2>5
    <2>7. u = t
      BY ONLY <2>4, <2>5, <2>6, SeqEqual
    <2> QED BY <2>2, <2>3, <2>7 DEF u, t
  <1>2. <<Op1, Op2, Op3, Op4>> \o <<Op5>> = <<Op1, Op2, Op3, Op4, Op5>>
    <2> DEFINE s == <<Op1, Op2, Op3, Op4>>
               t == <<Op1, Op2, Op3, Op4, Op5>>
    <2>1. /\ s \in Seq(X) /\ t \in Seq(X)
          /\ Len(t) = Len(s) + 1 /\ t[Len(s) + 1] = Op5
      BY <1>0
    <2>2. \A n \in 1 .. Len(s) : t[n] = s[n]
      BY <1>0
    <2> HIDE DEF s, t
    <2>3. s \o <<Op5>> = t
      BY ONLY <2>1, <2>2, <1>0, OneMore
    <2> QED BY <2>3 DEF s, t
  <1>3. <<Op1, Op2, Op3, Op4, Op5>> \o <<Op6>> = <<Op1, Op2, Op3, Op4, Op5, Op6>>
    <2> DEFINE s == <<Op1, Op2, Op3, Op4, Op5>>
               t == <<Op1, Op2, Op3, Op4, Op5, Op6>>
    <2>1. /\ s \in Seq(X) /\ t \in Seq(X)
          /\ Len(t) = Len(s) + 1 /\ t[Len(s) + 1] = Op6
      BY <1>0
    <2>2. \A n \in 1 .. Len(s) : t[n] = s[n]
      BY <1>0
    <2> HIDE DEF s, t
    <2>3. s \o <<Op6>> = t
      BY ONLY <2>1, <2>2, <1>0, OneMore
    <2> QED BY <2>3 DEF s, t
  <1>4. <<Op1, Op2, Op3, Op4, Op5, Op6>> \o (<<Op7>> \o <<Op8>>)
          = <<Op1, Op2, Op3, Op4, Op5, Op6, Op7, Op8>>
    <2> DEFINE s == <<Op1, Op2, Op3, Op4, Op5, Op6>>
               t == <<Op1, Op2, Op3, Op4, Op5, Op6, Op7, Op8>>
    <2>1. /\ s \in Seq(X) /\ t \in Seq(X)
          /\ Len(t) = Len(s) + 2 /\ t[Len(s) + 1] = Op7 /\ t[Len(s) + 2] = Op8
      BY <1>0
    <2>2. \A n \in 1 .. Len(s) : t[n] = s[n]
      BY <1>0
    <2> HIDE DEF s, t
    <2>3. s \o (<<Op7>> \o <<Op8>>) = t
      BY ONLY <2>1, <2>2, <1>0, TwoMore
    <2> QED BY <2>3 DEF s, t

  <1>5. <<Op1, Op2, Op3, Op4, Op5, Op6, Op7, Op8>> \o (<<Op9>> \o <<Op10>>)
          = <<Op1, Op2, Op3, Op4, Op5, Op6, Op7, Op8, Op9, Op10>>
    <2> DEFINE s == <<Op1, Op2, Op3, Op4, Op5, Op6, Op7, Op8>>
               t == <<Op1, Op2, Op3, Op4, Op5, Op6, Op7, Op8, Op9, Op10>>
    <2>1. /\ s \in Seq(X) /\ t \in Seq(X)
          /\ Len(t) = Len(s) + 2 /\ t[Len(s) + 1] = Op9 /\ t[Len(s) + 2] = Op10
      BY <1>0
    <2>2. \A n \in 1 .. Len(s) : t[n] = s[n]
      BY <1>0
    <2> HIDE DEF s, t
    <2>3. s \o (<<Op9>> \o <<Op10>>) = t
      BY ONLY <2>1, <2>2, <1>0, TwoMore
    <2> QED BY <2>3 DEF s, t
  <1>6. <<Op1, Op2, Op3, Op4, Op5, Op6, Op7, Op8, Op9, Op10>> \o (<<Op11>> \o <<Op12>>)
          = <<Op1, Op2, Op3, Op4, Op5, Op6, Op7, Op8, Op9, Op10, Op11, Op12>>
    <2> DEFINE s == <<Op1, Op2, Op3, Op4, Op5, Op6, Op7, Op8, Op9, Op10>>
               t == <<Op1, Op2, Op3, Op4, Op5, Op6, Op7, Op8, Op9, Op10, Op11, Op12>>
    <2>1. /\ s \in Seq(X) /\ t \in Seq(X)
          /\ Len(t) = Len(s) + 2 /\ t[Len(s) + 1] = Op11 /\ t[Len(s) + 2] = Op12
      BY <1>0
    <2>2. \A n \in 1 .. Len(s) : t[n] = s[n]
      BY <1>0
    <2> HIDE DEF s, t
    <2>3. s \o (<<Op11>> \o <<Op12>>) = t
      BY ONLY <2>1, <2>2, <1>0, TwoMore
    <2> QED BY <2>3 DEF s, t
  <1> QED BY ONLY <1>1, <1>2, <1>3, <1>4, <1>5, <1>6 DEF Script

\* What the driver computes from a crystal of 8 MHz.
LEMMA Numbers ==
  ASSUME NEW x \in Int, x = 8000000
  PROVE  (x \div 4) = 2000000 /\ (x \div 4) * 24 = 48000000
  BY SMT

\* The numbers of this board are in range.
LEMMA NoErrors ==
  ASSUME crystal = 8000000
  PROVE  OscErrorForPll(1) = 0 /\ PllError(<<PLL0_PRDIV, PLL0_VDIV>>) = 0
  <1>1. OscErrorForPll(1) = 0
    BY DEF OscErrorForPll, Outside
  <1>2. (crystal \div 4) = 2000000 /\ (crystal \div 4) * 24 = 48000000
    BY Numbers
  <1>3. DividerError(<<PLL0_PRDIV, PLL0_VDIV>>) = 0
    BY <1>2 DEF DividerError, Outside, PLL0_PRDIV, PLL0_VDIV
  <1>4. PllFreq(PLL0_PRDIV, PLL0_VDIV) = 48000000
    BY <1>2 DEF PllFreq, PLL0_PRDIV, PLL0_VDIV
  <1> QED BY <1>1, <1>3, <1>4 DEF PllError, Outside

\* The call in the fresh state starts the script.
LEMMA CallStarts ==
  ASSUME Board, Fresh, PllInit(1, <<PLL0_PRDIV, PLL0_VDIV>>)
  PROVE  todo' = Script /\ UNCHANGED <<crystal, C, S>>
  <1>1. In(FEI)
    BY DEF Fresh, In, FEI
  <1>2. OscErrorForPll(1) = 0 /\ PllError(<<PLL0_PRDIV, PLL0_VDIV>>) = 0
    BY NoErrors DEF Board
  <1>3. pll_range = 1
    BY DEF Board, pll_range
  <1> DEFINE osc == Oscillator(pll_range, 1)
             p == <<PLL0_PRDIV, PLL0_VDIV>>
             script == osc \o ExternalReference(2, 1) \o ToClock(2) \o ClockMonitor(1)
                       \o Pll(p) \o AwaitPll \o SelectPll
             freq == PllFreq(p[1], p[2])
  <1>4. osc = <<Op1>>
    BY <1>3 DEF Oscillator, Write, Op1
  <1>5. ExternalReference(2, 1) = <<Op2>> \o <<Op3>> \o <<Op4>>
    BY DEF ExternalReference, Write, Await, Op2, Op3, Op4
  <1>6. ToClock(2) = <<Op5>> /\ ClockMonitor(1) = <<Op6>>
    BY DEF ToClock, ClockMonitor, Write, Await, Op5, Op6
  <1>7. Pll(p) = <<Op7>> \o <<Op8>>
    BY DEF Pll, Write, PLL0_PRDIV, PLL0_VDIV, Op7, Op8
  <1>8. AwaitPll = <<Op9>> \o <<Op10>>
    BY DEF AwaitPll, Await, Op9, Op10
  <1>9. SelectPll = <<Op11>> \o <<Op12>>
    BY DEF SelectPll, ToClock, Write, Await, Op11, Op12
  <1>12. todo' = script /\ UNCHANGED <<crystal, C, S>>
    <2>1. Call("pll_init", FEI, 0, script, freq, PEE)
      BY <1>2, Zenon DEF PllInit
    <2> HIDE DEF script, freq
    <2>2. todo' = script /\ UNCHANGED <<crystal, C, S>>
      BY <1>1, <2>1 DEF Call
    <2> QED BY <2>2
  <1> HIDE DEF osc
  <1>13. script = <<Op1>> \o (<<Op2>> \o <<Op3>> \o <<Op4>>) \o <<Op5>> \o <<Op6>>
                  \o (<<Op7>> \o <<Op8>>) \o (<<Op9>> \o <<Op10>>)
                  \o (<<Op11>> \o <<Op12>>)
    BY <1>4, <1>5, <1>6, <1>7, <1>8, <1>9, Zenon
  <1> QED BY ONLY <1>12, <1>13, TwelveInOne

\* The script is made of the crystal alone.
LEMMA SameScript ==
  ASSUME UNCHANGED crystal
  PROVE  Script' = Script /\ Operations' = Operations
  <1>1. Op2' = Op2
    BY DEF Op2, frdiv_val
  <1>2. Script' = Script
    BY <1>1 DEF Script, Op1, Op3, Op4, Op5, Op6, Op7, Op8, Op9, Op10, Op11, Op12
  <1> QED BY <1>2 DEF Operations

\* So a call starts with the whole of it.
LEMMA CallInScript ==
  ASSUME Board, Fresh, PllInit(1, <<PLL0_PRDIV, PLL0_VDIV>>)
  PROVE  InScript' /\ Len(todo') = 12 /\ UNCHANGED <<crystal, C, S>>
  <1>1. todo' = Script /\ UNCHANGED <<crystal, C, S>>
    BY CallStarts
  <1>2. Script' = Script /\ Operations' = Operations
    BY <1>1, SameScript
  <1>3. \A k \in 1 .. 12 : Script[k] \in Operations
    BY DEF Operations
  <1>4. Len(Script) = 12
    BY DEF Script
  <1>5. Script \in Seq(Operations)
    BY <1>3 DEF Script
  <1> QED BY <1>1, <1>2, <1>4, <1>5 DEF InScript

\* The next operation is the one that follows those that are done.
LEMMA NextOperation ==
  ASSUME InScript, todo # <<>>
  PROVE  /\ Len(todo) \in 1 .. 12
         /\ Head(todo) = Script[13 - Len(todo)]
  <1>1. /\ Len(todo) \in Nat /\ Len(todo) >= 1 /\ Len(todo) <= 12
        /\ Head(todo) = todo[1]
    BY DEF InScript
  <1>2. todo[1] = Script[1 + (12 - Len(todo))]
    BY <1>1 DEF InScript
  <1>3. 1 + (12 - Len(todo)) = 13 - Len(todo)
    BY <1>1
  <1>4. Head(todo) = Script[13 - Len(todo)]
    BY ONLY <1>1, <1>2, <1>3, Zenon
  <1>5. \A n \in Nat : n >= 1 /\ n <= 12 => n \in 1 .. 12
    OBVIOUS
  <1>6. Len(todo) \in 1 .. 12
    BY ONLY <1>1, <1>5, Zenon
  <1> QED BY ONLY <1>4, <1>6

\* And it leaves the end of the script.
LEMMA RestInScript ==
  ASSUME InScript, todo # <<>>, Advance
  PROVE  InScript' /\ Len(todo') = Len(todo) - 1
  <1>1. todo' = Tail(todo) /\ crystal' = crystal
    BY DEF Advance
  <1> DEFINE rest == Tail(todo)
  <1>2. /\ rest \in Seq(Operations) /\ Len(rest) = Len(todo) - 1
        /\ Len(todo) \in Nat /\ Len(todo) >= 1 /\ Len(todo) <= 12
        /\ \A n \in 1 .. Len(rest) : rest[n] = todo[n + 1]
    BY HeadTailProperties DEF InScript
  <1>3. Script' = Script /\ Operations' = Operations
    BY <1>1, SameScript
  <1> HIDE DEF rest
  <1>4. ASSUME NEW n \in 1 .. Len(rest)
        PROVE  rest[n] = Script[n + (12 - Len(rest))]
    <2>1. n + 1 \in 1 .. Len(todo)
      BY <1>2
    <2>2. todo[n + 1] = Script[(n + 1) + (12 - Len(todo))]
      <3>1. \A m \in 1 .. Len(todo) : todo[m] = Script[m + (12 - Len(todo))]
        BY DEF InScript
      <3> QED BY ONLY <2>1, <3>1, Zenon
    <2>3. (n + 1) + (12 - Len(todo)) = n + (12 - Len(rest))
      BY <1>2
    <2> QED BY <1>2, <2>2, <2>3
  <1>5. todo' = rest
    BY <1>1 DEF rest
  <1>6. Len(rest) <= 12
    BY <1>2
  <1> QED BY <1>2, <1>3, <1>4, <1>5, <1>6 DEF InScript

\* What is known of the registers does not become less.
LEMMA Later ==
  ASSUME NEW n \in 1 .. 12, Progress(n)
  PROVE  /\ n - 1 <= 10 /\ n # 11 => C["IREFS"] = 0
         /\ n - 1 <= 8 /\ n # 9 => S["IREFST"] = 0
         /\ n - 1 <= 5 /\ n # 6 => C["PRDIV0"] = 3
         /\ n - 1 <= 4 /\ n # 5 => C["VDIV0"] = 0 /\ C["PLLS"] = 1
         /\ n - 1 <= 3 /\ n # 4 => S["PLLST"] = 1
         /\ n - 1 <= 2 /\ n # 3 => S["LOCK0"] = 1
         /\ n - 1 <= 1 /\ n # 2 => C["CLKS"] = 0
         /\ n - 1 <= 0 /\ n # 1 => S["CLKST"] = 3
  BY DEF Progress

\* A wait that ends has seen its bit.
LEMMA FoundProgress ==
  ASSUME InScript, Found, Progress(Len(todo))
  PROVE  Progress(Len(todo))'
  <1> DEFINE n == Len(todo)
             o == Script[13 - n]
  <1>1. n \in 1 .. 12 /\ Head(todo) = o
    BY NextOperation DEF Found
  <1>2. o.op = "await" /\ S[o.bit] = o.value /\ C' = C /\ S' = S
    BY <1>1 DEF Found
  <1>3. Len(todo') = n - 1
    BY RestInScript DEF Found
  <1> HIDE DEF n
  <1>4. n # 11 /\ n # 6 /\ n # 5 /\ n # 2
    BY <1>2 DEF Script, Op2, Op7, Op8, Op11
  <1>5. /\ n = 9 => S["IREFST"] = 0
        /\ n = 4 => S["PLLST"] = 1
        /\ n = 3 => S["LOCK0"] = 1
        /\ n = 1 => S["CLKST"] = 3
    BY <1>2 DEF Script, Op4, Op9, Op10, Op12
  <1>6. Progress(n)
    BY DEF n
  <1>7. Progress(n - 1)
    BY <1>1, <1>4, <1>5, <1>6, Later DEF Progress
  <1> QED BY <1>2, <1>3, <1>7 DEF Progress

\* A write does what it says, and takes a lock away only from a PLL it changes.
LEMMA WriteDoes ==
  ASSUME Board, Step, NEW new, Head(todo) = [op |-> "write", fields |-> new]
  PROVE  /\ \A f \in Fields : C'[f] = IF f \in DOMAIN new THEN new[f] ELSE C[f]
         /\ \A b \in Bits \ {"LOCK0"} : S'[b] = S[b]
         /\ DOMAIN new \cap {"PRDIV0", "VDIV0", "PLLS", "LP"} = {} => S' = S
         /\ DOMAIN S' = Bits
  <1>1. Head(todo).op = "write" /\ Head(todo).fields = new
    OBVIOUS
  <1>2. C' = [f \in Fields |-> IF f \notin DOMAIN new THEN C[f] ELSE new[f]]
    BY <1>1 DEF Step
  <1>3. S' = IF DOMAIN new \cap {"PRDIV0", "VDIV0", "PLLS", "LP"} # {}
             THEN [S EXCEPT !["LOCK0"] = 0] ELSE S
    BY <1>1 DEF Step
  <1> QED BY <1>2, <1>3 DEF Board

LEMMA StepProgress ==
  ASSUME Board, InScript, Step, Progress(Len(todo))
  PROVE  Board' /\ Progress(Len(todo))'
  <1> DEFINE n == Len(todo)
             o == Script[13 - n]
  <1>1. n \in 1 .. 12 /\ Head(todo) = o
    BY NextOperation DEF Step
  <1>2. o.op \in {"write", "or"} /\ crystal' = crystal
    BY <1>1 DEF Step, Advance
  <1>3. Len(todo') = n - 1
    BY RestInScript DEF Step
  <1>4. Progress(n)
    OBVIOUS
  <1> HIDE DEF n
  <1>5. n \in {12, 11, 7, 6, 5, 2}
    BY <1>1, <1>2 DEF Script, Op3, Op4, Op5, Op9, Op10, Op12
  <1>6. C["LP"] = 0
    BY DEF Board
  <1>7. CASE n = 12
    <2> DEFINE new == [RANGE0 |-> 1, EREFS0 |-> 1]
    <2>1. Head(todo) = [op |-> "write", fields |-> new]
      BY <1>1, <1>7 DEF Script, Op1
    <2>2. DOMAIN new = {"RANGE0", "EREFS0"}
      OBVIOUS
    <2> HIDE DEF new
    <2>3. C'["LP"] = C["LP"] /\ DOMAIN S' = Bits
      BY <2>1, <2>2, WriteDoes DEF Fields
    <2> QED BY <1>2, <1>3, <1>7, <2>3 DEF Board, Progress
  <1>8. CASE n = 11
    <2> DEFINE new == [CLKS |-> 2, FRDIV |-> frdiv_val, IREFS |-> 0]
    <2>1. Head(todo) = [op |-> "write", fields |-> new]
      BY <1>1, <1>8 DEF Script, Op2
    <2>2. DOMAIN new = {"CLKS", "FRDIV", "IREFS"} /\ new["IREFS"] = 0
      OBVIOUS
    <2> HIDE DEF new
    <2>3. C'["LP"] = C["LP"] /\ C'["IREFS"] = 0 /\ DOMAIN S' = Bits
      BY <2>1, <2>2, WriteDoes DEF Fields
    <2> QED BY <1>2, <1>3, <1>8, <2>3 DEF Board, Progress
  <1>9. CASE n = 7
    <2> DEFINE new == [CME0 |-> 1]
    <2>1. Head(todo) = [op |-> "write", fields |-> new]
      BY <1>1, <1>9 DEF Script, Op6
    <2>2. DOMAIN new = {"CME0"}
      OBVIOUS
    <2> HIDE DEF new
    <2>3. C'["LP"] = C["LP"] /\ C'["IREFS"] = C["IREFS"] /\ S' = S
      BY <2>1, <2>2, WriteDoes DEF Fields
    <2> QED BY <1>2, <1>3, <1>4, <1>9, <2>3 DEF Board, Progress
  <1>10. CASE n = 6
    <2> DEFINE new == [PRDIV0 |-> 3]
    <2>1. Head(todo) = [op |-> "write", fields |-> new]
      BY <1>1, <1>10 DEF Script, Op7
    <2>2. DOMAIN new = {"PRDIV0"} /\ new["PRDIV0"] = 3
      OBVIOUS
    <2> HIDE DEF new
    <2>3. /\ C'["LP"] = C["LP"] /\ C'["IREFS"] = C["IREFS"] /\ C'["PRDIV0"] = 3
          /\ S'["IREFST"] = S["IREFST"] /\ DOMAIN S' = Bits
      BY <2>1, <2>2, WriteDoes DEF Fields, Bits
    <2> QED BY <1>2, <1>3, <1>4, <1>10, <2>3 DEF Board, Progress
  <1>11. CASE n = 5
    <2> DEFINE new == [VDIV0 |-> 0, PLLS |-> 1]
    <2>1. Head(todo) = [op |-> "write", fields |-> new]
      BY <1>1, <1>11 DEF Script, Op8
    <2>2. DOMAIN new = {"VDIV0", "PLLS"} /\ new["VDIV0"] = 0 /\ new["PLLS"] = 1
      OBVIOUS
    <2> HIDE DEF new
    <2>3. /\ C'["LP"] = C["LP"] /\ C'["IREFS"] = C["IREFS"] /\ C'["PRDIV0"] = C["PRDIV0"]
          /\ C'["VDIV0"] = 0 /\ C'["PLLS"] = 1
          /\ S'["IREFST"] = S["IREFST"] /\ DOMAIN S' = Bits
      BY <2>1, <2>2, WriteDoes DEF Fields, Bits
    <2> QED BY <1>2, <1>3, <1>4, <1>11, <2>3 DEF Board, Progress
  <1>12. CASE n = 2
    <2> DEFINE new == [CLKS |-> 0]
    <2>1. Head(todo) = [op |-> "write", fields |-> new]
      BY <1>1, <1>12 DEF Script, Op11
    <2>2. DOMAIN new = {"CLKS"} /\ new["CLKS"] = 0
      OBVIOUS
    <2> HIDE DEF new
    <2>3. /\ C'["LP"] = C["LP"] /\ C'["IREFS"] = C["IREFS"] /\ C'["PRDIV0"] = C["PRDIV0"]
          /\ C'["VDIV0"] = C["VDIV0"] /\ C'["PLLS"] = C["PLLS"]
          /\ C'["CLKS"] = 0 /\ S' = S
      BY <2>1, <2>2, WriteDoes DEF Fields
    <2> QED BY <1>2, <1>3, <1>4, <1>12, <2>3 DEF Board, Progress
  <1> QED BY <1>5, <1>7, <1>8, <1>9, <1>10, <1>11, <1>12

\* A wait that times out leaves an error main() will see.
LEMMA TimeOutError ==
  ASSUME InScript, TimeOut
  PROVE  todo' = <<>> /\ ret' \in 1 .. 255 /\ UNCHANGED <<crystal, C, S>>
  <1> DEFINE n == Len(todo)
             o == Script[13 - n]
  <1>1. n \in 1 .. 12 /\ Head(todo) = o
    BY NextOperation DEF TimeOut
  <1>2. /\ o.op = "await" /\ ret' = o.error
        /\ todo' = <<>> /\ UNCHANGED <<crystal, C, S>>
    BY <1>1 DEF TimeOut
  <1> HIDE DEF n
  <1>3. n \notin {12, 11, 7, 6, 5, 2}
    BY <1>2 DEF Script, Op1, Op2, Op6, Op7, Op8, Op11
  <1>4. o.error \in {35, 17, 26, 22, 68, 27}
    BY <1>1, <1>3 DEF Script, Op3, Op4, Op5, Op9, Op10, Op12
  <1> QED BY <1>2, <1>4

\* Bits that have followed stay.
LEMMA FollowProgress ==
  ASSUME Board, NEW bit \in Bits, Follow(bit), NEW n \in Nat, Progress(n)
  PROVE  Board' /\ Progress(n)'
  <1>1. C' = C /\ crystal' = crystal /\ DOMAIN S' = Bits
    BY DEF Follow, Board
  <1>2. \A b \in Bits \ {bit} : S'[b] = S[b]
    BY DEF Follow, Board
  <1>3. S'[bit] \in Target(bit)
    BY DEF Follow, Board
  <1>4. C["LP"] = 0
    BY DEF Board
  <1>5. n <= 8 => S'["IREFST"] = 0
    <2>1. CASE bit = "IREFST"
      BY <1>3, <2>1 DEF Target, Progress
    <2>2. CASE bit # "IREFST"
      BY <1>2, <2>2 DEF Progress, Bits
    <2> QED BY <2>1, <2>2
  <1>6. n <= 3 => S'["PLLST"] = 1
    <2>1. CASE bit = "PLLST"
      BY <1>3, <2>1 DEF Target, Progress
    <2>2. CASE bit # "PLLST"
      BY <1>2, <2>2 DEF Progress, Bits
    <2> QED BY <2>1, <2>2
  <1>7. n <= 2 => S'["LOCK0"] = 1
    <2>1. CASE bit = "LOCK0"
      BY <1>3, <1>4, <2>1 DEF Target, Progress
    <2>2. CASE bit # "LOCK0"
      BY <1>2, <2>2 DEF Progress, Bits
    <2> QED BY <2>1, <2>2
  <1>8. n <= 0 => S'["CLKST"] = 3
    <2>1. CASE bit = "CLKST"
      BY <1>3, <2>1 DEF Target, Progress
    <2>2. CASE bit # "CLKST"
      BY <1>2, <2>2 DEF Progress, Bits
    <2> QED BY <2>1, <2>2
  <1> QED BY <1>1, <1>4, <1>5, <1>6, <1>7, <1>8 DEF Board, Progress

\* Before pll_init nothing moves.
LEMMA FollowFresh ==
  ASSUME Board, Fresh, NEW bit \in Bits, Follow(bit)
  PROVE  Board' /\ Fresh'
  <1>1. C' = C /\ crystal' = crystal /\ DOMAIN S' = Bits /\ todo' = todo
    BY DEF Follow, Board
  <1>2. \A b \in Bits \ {bit} : S'[b] = S[b]
    BY DEF Follow, Board
  <1>3. S'[bit] \in Target(bit)
    BY DEF Follow, Board
  <1>4. S'["IREFST"] = 1
    <2>1. CASE bit = "IREFST"
      BY <1>3, <2>1 DEF Target, Fresh
    <2>2. CASE bit # "IREFST"
      BY <1>2, <2>2 DEF Fresh, Bits
    <2> QED BY <2>1, <2>2
  <1>5. S'["PLLST"] = 0
    <2>1. CASE bit = "PLLST"
      BY <1>3, <2>1 DEF Target, Fresh
    <2>2. CASE bit # "PLLST"
      BY <1>2, <2>2 DEF Fresh, Bits
    <2> QED BY <2>1, <2>2
  <1>6. S'["CLKST"] = 0
    <2>1. CASE bit = "CLKST"
      BY <1>3, <2>1 DEF Target, Fresh
    <2>2. CASE bit # "CLKST"
      BY <1>2, <2>2 DEF Fresh, Bits
    <2> QED BY <2>1, <2>2
  <1> QED BY <1>1, <1>4, <1>5, <1>6 DEF Board, Fresh

\* One step inside pll_init.
LEMMA DriverStarts ==
  ASSUME Board, Starting, Driver
  PROVE  Board' /\ Starting'
  <1>1. todo # <<>>
    BY DEF Driver, Step, Found, TimeOut
  <1>2. InScript /\ Progress(Len(todo))
    BY <1>1 DEF Starting
  <1>3. CASE Step \/ Found
    <2>1. Board' /\ Progress(Len(todo))'
      <3>1. CASE Step
        BY <1>2, <3>1, StepProgress
      <3>2. CASE Found
        <4>1. UNCHANGED <<crystal, C, S>>
          BY <3>2 DEF Found, Advance
        <4> QED BY <1>2, <3>2, <4>1, FoundProgress DEF Board
      <3> QED BY <1>3, <3>1, <3>2
    <2>2. InScript'
      BY <1>1, <1>2, <1>3, RestInScript DEF Step, Found
    <2>3. todo' = <<>> => Len(todo') = 0
      OBVIOUS
    <2>4. todo' = <<>> => Progress(0)'
      BY <2>1, <2>3 DEF Progress
    <2> QED BY <2>1, <2>2, <2>4 DEF Starting
  <1>4. CASE TimeOut
    <2>1. todo' = <<>> /\ ret' \in 1 .. 255 /\ UNCHANGED <<crystal, C, S>>
      BY <1>2, <1>4, TimeOutError
    <2>2. InScript'
      BY <2>1 DEF InScript
    <2>3. Board'
      BY <2>1 DEF Board
    <2> QED BY <2>1, <2>2, <2>3 DEF Starting
  <1> QED BY <1>3, <1>4 DEF Driver

\* The hardware moves.
LEMMA HardwareKeeps ==
  ASSUME StartInv, Hardware
  PROVE  StartInv'
  <1>1. PICK bit \in Bits : Follow(bit)
    BY DEF Hardware
  <1>2. /\ Board /\ crystal' = crystal /\ todo' = todo /\ ret' = ret
        /\ UNCHANGED <<main, SystemCoreClock, tick>>
    BY <1>1 DEF StartInv, Hardware, Follow
  <1>3. Board'
    BY <1>1, <1>2 DEF Follow, Board
  <1>4. main = "pll" => Fresh'
    BY <1>1, <1>2, FollowFresh DEF StartInv
  <1>5. Progress(0) => Progress(0)'
    BY <1>1, <1>2, FollowProgress
  <1>6. main = "pllCall" => Starting'
    <2> SUFFICES ASSUME main = "pllCall" PROVE Starting'
      OBVIOUS
    <2>1. Starting
      BY DEF StartInv
    <2>2. InScript'
      BY <1>2, <2>1, SameScript DEF Starting, InScript
    <2>3. ASSUME todo # <<>> PROVE Progress(Len(todo))'
      <3> DEFINE n == Len(todo)
      <3>1. n \in Nat /\ Progress(n)
        BY <2>1, <2>3 DEF Starting, InScript
      <3>2. Len(todo') = n
        BY <1>2
      <3> HIDE DEF n
      <3>3. \A m \in Nat : Progress(m) => Progress(m)'
        BY <1>1, <1>2, FollowProgress
      <3> QED BY <3>1, <3>2, <3>3 DEF Progress
    <2> QED BY <1>2, <1>5, <2>1, <2>2, <2>3 DEF Starting
  <1>7. main \in {"mode", "update"} \cup AfterUpdate => Started'
    BY <1>2, <1>5 DEF StartInv, Started
  <1>8. AfterUpdate' = AfterUpdate /\ AfterTick' = AfterTick
    BY DEF AfterUpdate, AfterTick
  <1> QED BY <1>2, <1>3, <1>4, <1>6, <1>7, <1>8 DEF StartInv

\* Steps of main() that leave the clock alone.
LEMMA ClockAlone ==
  ASSUME UNCHANGED <<crystal, C, S, todo, ret>>
  PROVE  /\ Board' = Board /\ Fresh' = Fresh /\ Started' = Started
         /\ Starting' = Starting
  <1>1. Script' = Script /\ Operations' = Operations
    BY SameScript
  <1>2. InScript' = InScript
    BY <1>1 DEF InScript
  <1>3. \A n : Progress(n)' = Progress(n)
    BY DEF Progress
  <1> QED BY <1>2, <1>3 DEF Board, Fresh, Started, Starting, Progress

\* What CMSIS computes from the registers of a board that has started.
LEMMA StartedClock ==
  ASSUME Board, Progress(0)
  PROVE  MCGOUTClock = 48000000 /\ PllClock = 48000000
  <1>1. C["PRDIV0"] = 3 /\ C["VDIV0"] = 0 /\ C["PLLS"] = 1 /\ C["CLKS"] = 0
    BY DEF Progress
  <1>2. MCGOUTClock = (8000000 \div (1 + 3)) * (0 + 24)
    BY <1>1 DEF MCGOUTClock, CPU_XTAL_CLK_HZ
  <1>3. PllClock = (8000000 \div (3 + 1)) * (0 + 24)
    BY <1>1 DEF PllClock, PllFreq, Board
  <1> QED BY <1>2, <1>3, Numbers

\* And the mode it is in, which no other mode looks like.
LEMMA StartedMode ==
  ASSUME Board, Progress(0)
  PROVE  what_mcg_mode = PEE
  <1>1. /\ C["LP"] = 0 /\ S["CLKST"] = 3 /\ S["IREFST"] = 0 /\ S["PLLST"] = 1
    BY DEF Board, Progress
  <1>2. \A m \in Modes : In(m) <=> m = PEE
    BY <1>1 DEF In, Modes, FEI, FEE, FBI, BLPI, FBE, PBE, BLPE, PEE
  <1>3. PEE \in Modes
    BY DEF PEE, Modes
  <1> QED BY <1>2, <1>3 DEF what_mcg_mode

\* main() before its loop.
LEMMA MainKeeps ==
  ASSUME StartInv, Main
  PROVE  StartInv'
  <1> USE DEF AfterUpdate, AfterTick
  <1>1. CASE StartPll
    <2>1. /\ main = "pll" /\ main' = "pllCall"
          /\ PllInit(1, <<PLL0_PRDIV, PLL0_VDIV>>)
      BY <1>1 DEF StartPll, Proceed
    <2>2. Board /\ Fresh
      BY <2>1 DEF StartInv
    <2>3. InScript' /\ Len(todo') = 12 /\ UNCHANGED <<crystal, C, S>>
      BY <2>1, <2>2, CallInScript
    <2>4. todo' # <<>> /\ Progress(Len(todo))'
      BY <2>3 DEF Progress
    <2>5. Board'
      BY <2>2, <2>3 DEF Board
    <2> QED BY <2>1, <2>3, <2>4, <2>5 DEF StartInv, Starting
  <1>2. CASE PllRuns
    <2>1. main = "pllCall" /\ main' = "pllCall" /\ Driver
      BY <1>2 DEF PllRuns
    <2>2. Board' /\ Starting'
      BY <2>1, DriverStarts DEF StartInv
    <2> QED BY <2>1, <2>2 DEF StartInv
  <1>3. CASE CheckPll
    <2>1. /\ main = "pllCall" /\ todo = <<>> /\ UNCHANGED vars
          /\ main' = IF MainAccepts THEN "mode" ELSE "spin"
      BY <1>3 DEF CheckPll, Proceed
    <2>2. Board /\ Starting
      BY <2>1 DEF StartInv
    <2>3. MainAccepts => Started
      <3>1. \A r \in 1 .. 255 : (r % 256) # 0
        OBVIOUS
      <3>2. MainAccepts => ret \notin 1 .. 255
        BY <3>1 DEF MainAccepts
      <3>3. Progress(0) \/ ret \in 1 .. 255
        BY <2>1, <2>2 DEF Starting
      <3> QED BY ONLY <2>1, <3>2, <3>3, Zenon DEF Started
    <2>4. Board' = Board /\ Started' = Started
      BY <2>1, ClockAlone DEF vars
    <2> QED BY <2>1, <2>2, <2>3, <2>4 DEF StartInv
  <1>4. CASE CheckMode
    <2>1. /\ UNCHANGED <<vars, SystemCoreClock, tick>>
          /\ \/ main = "mode" /\ main' \in {"update", "spin"}
             \/ main = "modeAgain" /\ main' \in {"tick", "spin"}
      BY <1>4 DEF CheckMode, Proceed
    <2>2. Board' = Board /\ Started' = Started
      BY <2>1, ClockAlone DEF vars
    <2> QED BY <2>1, <2>2 DEF StartInv
  <1>5. CASE SystemCoreClockUpdate
    <2>1. /\ UNCHANGED <<vars, tick>> /\ SystemCoreClock' = MCGOUTClock
          /\ main = "update" /\ main' = "modeAgain"
      BY <1>5 DEF SystemCoreClockUpdate, Proceed
    <2>2. Board /\ Started
      BY <2>1 DEF StartInv
    <2>3. SystemCoreClock' = 48000000
      BY <2>1, <2>2, StartedClock DEF Started
    <2>4. Board' = Board /\ Started' = Started
      BY <2>1, ClockAlone DEF vars
    <2> QED BY <2>1, <2>2, <2>3, <2>4 DEF StartInv
  <1>6. CASE SysTick_Config
    <2>1. /\ UNCHANGED <<vars, SystemCoreClock>> /\ tick' = SystemCoreClock \div 100000
          /\ main = "tick" /\ main' = "uart"
      BY <1>6 DEF SysTick_Config, Proceed
    <2>2. Board /\ Started /\ SystemCoreClock = 48000000
      BY <2>1 DEF StartInv
    <2>3. tick' = 480
      BY <2>1, <2>2
    <2>4. Board' = Board /\ Started' = Started
      BY <2>1, ClockAlone DEF vars
    <2> QED BY <2>1, <2>2, <2>3, <2>4 DEF StartInv
  <1>7. CASE StartUart \/ UartRuns \/ EnterLoop
    <2>1. /\ UNCHANGED <<vars, SystemCoreClock, tick>>
          /\ main \in AfterTick /\ main' \in AfterTick
      BY <1>7 DEF StartUart, UartRuns, EnterLoop, Proceed
    <2>2. Board' = Board /\ Started' = Started
      BY <2>1, ClockAlone DEF vars
    <2> QED BY <2>1, <2>2 DEF StartInv
  <1> QED BY <1>1, <1>2, <1>3, <1>4, <1>5, <1>6, <1>7 DEF Main

LEMMA StartInvHolds ==
  ASSUME Crystals = {8000000}
  PROVE  BootSpec => []StartInv
  <1>1. BootInit => StartInv
    BY DEF BootInit, Init, StartInv, Board, Fresh, Fields, Bits, AfterUpdate, AfterTick
  <1>2. StartInv /\ [BootNext]_bootVars => StartInv'
    <2> SUFFICES ASSUME StartInv, [BootNext]_bootVars PROVE StartInv'
      OBVIOUS
    <2>1. CASE Main
      BY <2>1, MainKeeps
    <2>2. CASE Hardware
      BY <2>2, HardwareKeeps
    <2>3. CASE UNCHANGED bootVars
      <3>1. UNCHANGED <<vars, main, SystemCoreClock, tick>>
        BY <2>3 DEF bootVars
      <3>2. /\ Board' = Board /\ Fresh' = Fresh /\ Started' = Started
            /\ Starting' = Starting
        BY <3>1, ClockAlone DEF vars
      <3> QED BY <3>1, <3>2 DEF StartInv, AfterUpdate, AfterTick
    <2> QED BY <2>1, <2>2, <2>3 DEF BootNext
  <1> QED BY <1>1, <1>2, PTL DEF BootSpec

\* In its loop, and from the moment pll_init has returned zero in a char, the
\* board runs from its locked PLL; the frequency CMSIS believes in is the one it
\* has, and SysTick's period is 10 us (main.c:53-85, dht11.c:278).  The order in
\* which the hardware follows and the waits that time out are arbitrary.
THEOREM StartsRightCorrect ==
  ASSUME Crystals = {8000000}
  PROVE  BootSpec => []StartsRight
  <1>1. StartInv => StartsRight
    <2> SUFFICES ASSUME StartInv, main = "loop" PROVE StartsRight
      BY DEF StartsRight
    <2>1. Board /\ Progress(0) /\ SystemCoreClock = 48000000 /\ tick = 480
      BY DEF StartInv, Started, AfterUpdate, AfterTick
    <2>2. what_mcg_mode = PEE /\ PllClock = 48000000
      BY <2>1, StartedMode, StartedClock
    <2>3. S["LOCK0"] = 1
      BY <2>1 DEF Progress
    <2>4. tick * 100000 = 48000000
      BY <2>1
    <2> QED BY <2>1, <2>2, <2>3, <2>4 DEF StartsRight
  <1> QED BY <1>1, StartInvHolds, PTL

-----------------------------------------------------------------------------
\* The rate of the serial line.

\* main() waits for uart0_init, which is called with whole kilohertz.
AskedInv ==
    /\ main = "loop" => uart = "ready"
    /\ uart \in {"search", "ready"} => \E k \in Nat : uart0clk = k * 1000

LEMMA AskedInvHolds == BootSpec => []AskedInv
  <1>1. BootInit => AskedInv
    BY DEF BootInit, UartInit, AskedInv
  <1>2. AskedInv /\ [BootNext]_bootVars => AskedInv'
    <2> SUFFICES ASSUME AskedInv, [BootNext]_bootVars PROVE AskedInv'
      OBVIOUS
    <2>1. CASE StartUart
      <3>1. PICK r \in {MainRequest} \cup Requests : uart0_init(r[1], r[2])
        BY <2>1 DEF StartUart
      <3>2. r[1] \in Int
        BY RequestTyped
      <3>3. main' = "uartCall"
        BY <2>1 DEF StartUart, Proceed
      <3>4. uart' = "spin" \/ (r[1] \in Nat /\ uart0clk' = r[1] * 1000)
        BY <3>1, <3>2 DEF uart0_init
      <3> QED BY <3>3, <3>4 DEF AskedInv
    <2>2. CASE UartRuns
      <3>1. main' = "uartCall" /\ uart = "search" /\ uart0clk' = uart0clk
        BY <2>2 DEF UartRuns, Try, Configure
      <3> QED BY <3>1 DEF AskedInv
    <2>3. CASE EnterLoop
      BY <2>3 DEF EnterLoop, AskedInv, uartVars
    <2>4. CASE Hardware \/ UNCHANGED bootVars
      BY <2>4 DEF Hardware, AskedInv, uartVars, bootVars
    <2>5. CASE \/ StartPll \/ PllRuns \/ CheckPll \/ CheckMode
               \/ SystemCoreClockUpdate \/ SysTick_Config
      <3>1. main' # "loop" /\ UNCHANGED uartVars
        BY <2>5 DEF StartPll, PllRuns, CheckPll, CheckMode, SystemCoreClockUpdate,
                    SysTick_Config, Proceed
      <3> QED BY <3>1 DEF AskedInv, uartVars
    <2> QED
      BY <2>1, <2>2, <2>3, <2>4, <2>5 DEF BootNext, Main
  <1> QED BY <1>1, <1>2, PTL DEF BootSpec

\* The registers and the variables of uart0_init keep their ranges.
LEMMA CallTypes ==
  ASSUME UartTypeOK, NEW sysclk \in Int, NEW baud \in Nat \ {0},
         uart0_init(sysclk, baud)
  PROVE  UartTypeOK'
  <1>1. UNCHANGED <<OSR, SBR, BOTHEDGE>>
    BY DEF uart0_init
  <1>2. CASE /\ uart' = "spin"
             /\ UNCHANGED <<uart0clk, baud_rate, i, osr_val, baud_diff>>
    BY <1>1, <1>2 DEF UartTypeOK
  <1>3. CASE /\ 32 <= sysclk /\ sysclk <= 50000
             /\ uart' = "search"
             /\ uart0clk' = sysclk * 1000 /\ baud_rate' = baud
             /\ i' = 5 /\ osr_val' = 4
             /\ baud_diff' = Difference(sysclk * 1000, baud, 4)
    <2>1. sysclk * 1000 \in Nat
      BY <1>3
    <2>2. Difference(sysclk * 1000, baud, 4) \in Nat
      BY <2>1, DifferenceType
    <2> QED BY <1>1, <1>3, <2>1, <2>2, SMT DEF UartTypeOK, Ratios
  <1> QED BY <1>2, <1>3 DEF uart0_init

LEMMA RunTypes ==
  ASSUME UartTypeOK, UartInv, Try \/ Configure
  PROVE  UartTypeOK'
  <1>1. /\ uart = "search" /\ uart0clk' = uart0clk /\ baud_rate' = baud_rate
    BY DEF Try, Configure
  <1>2. /\ uart0clk \in Nat /\ baud_rate \in Nat \ {0}
        /\ i \in 5 .. 33 /\ osr_val \in 4 .. i - 1
    BY <1>1 DEF UartInv, SearchInv
  <1>3. CASE Try
    <2>1. i \in Nat \ {0}
      BY <1>2
    <2>2. Difference(uart0clk, baud_rate, i) \in Nat
      BY <1>2, <2>1, DifferenceType
    <2>3. /\ uart' = "search" /\ i' = i + 1 /\ i <= 32
          /\ UNCHANGED <<OSR, SBR, BOTHEDGE>>
          /\ osr_val' \in {osr_val, i}
          /\ baud_diff' \in {baud_diff, Difference(uart0clk, baud_rate, i)}
      BY <1>3 DEF Try
    <2>4. osr_val' \in Ratios /\ i' \in 4 .. 33
      BY <1>2, <2>3 DEF Ratios
    <2>5. baud_diff' \in Nat
      BY <2>2, <2>3 DEF UartTypeOK
    <2> QED BY <1>1, <2>3, <2>4, <2>5 DEF UartTypeOK
  <1>4. CASE Configure
    <2> DEFINE s == sbr_val(uart0clk, baud_rate, osr_val)
    <2>1. osr_val \in Nat \ {0} /\ osr_val \in Ratios
      BY <1>2 DEF Ratios
    <2>2. s \in Nat
      BY <1>2, <2>1, DifferenceType
    <2> HIDE DEF s
    <2>3. (s % 8192) \in 0 .. 8191
      BY <2>2, SMT
    <2>4. /\ uart' \in {"ready", "spin"} /\ UNCHANGED <<i, osr_val, baud_diff>>
          /\ OSR' \in {OSR, osr_val} /\ SBR' \in {SBR, s % 8192}
      BY <1>4 DEF Configure, s
    <2>5. BOTHEDGE' \in BOOLEAN
      <3>1. \/ BOTHEDGE' = BOTHEDGE
            \/ BOTHEDGE' = (BOTHEDGE \/ osr_val \in 4 .. 8)
        BY <1>4 DEF Configure
      <3>2. BOTHEDGE \in BOOLEAN
        BY SMT DEF UartTypeOK
      <3> QED BY <3>1, <3>2
    <2>6. OSR' \in Ratios /\ SBR' \in 0 .. 8191
      <3>1. OSR \in Ratios /\ SBR \in 0 .. 8191
        BY SMT DEF UartTypeOK
      <3>2. OSR' \in {OSR, osr_val} /\ SBR' \in {SBR, s % 8192}
        BY <2>4
      <3> DEFINE r == s % 8192
      <3>3. r \in 0 .. 8191 /\ SBR' \in {SBR, r}
        BY <2>3, <3>2
      <3> HIDE DEF r
      <3>4. OSR' \in Ratios
        BY ONLY <2>1, <3>1, <3>2
      <3>5. SBR' \in 0 .. 8191
        BY ONLY <3>1, <3>3
      <3> QED BY <3>4, <3>5
    <2>7. i' \in 4 .. 33 /\ osr_val' \in Ratios /\ baud_diff' \in Nat
      BY <2>4, SMT DEF UartTypeOK
    <2> QED BY <1>1, <1>2, <2>4, <2>5, <2>6, <2>7, SMT DEF UartTypeOK
  <1> QED BY <1>3, <1>4

LEMMA UartTypeSame ==
  ASSUME UartTypeOK, UNCHANGED uartVars
  PROVE  UartTypeOK'
  <1>1. UNCHANGED <<uart, uart0clk, baud_rate, i, osr_val, baud_diff, OSR, SBR, BOTHEDGE>>
    BY DEF uartVars
  <1>2. BOTHEDGE \in BOOLEAN
    BY SMT DEF UartTypeOK
  <1>3. BOTHEDGE' \in BOOLEAN
    BY <1>1, <1>2
  <1>4. OSR' \in Ratios /\ SBR' \in 0 .. 8191
    BY <1>1, SMT DEF UartTypeOK
  <1>5. i' \in 4 .. 33 /\ osr_val' \in Ratios /\ baud_diff' \in Nat
    BY <1>1, SMT DEF UartTypeOK
  <1>6. uart' \in {"off", "search", "ready", "spin"} /\ uart0clk' \in Nat /\ baud_rate' \in Nat
    BY <1>1, SMT DEF UartTypeOK
  <1> QED BY <1>3, <1>4, <1>5, <1>6, SMT DEF UartTypeOK

LEMMA UartTypeHolds == BootSpec => []UartTypeOK
  <1>1. BootInit => UartTypeOK
    <2> SUFFICES ASSUME UartInit PROVE UartTypeOK
      BY DEF BootInit
    <2>1. BOTHEDGE \in BOOLEAN
      BY DEF UartInit
    <2> QED BY <2>1, SMT DEF UartInit, UartTypeOK, Ratios
  <1>2. UartTypeOK /\ UartInv /\ [BootNext]_bootVars => UartTypeOK'
    <2> SUFFICES ASSUME UartTypeOK, UartInv, [BootNext]_bootVars PROVE UartTypeOK'
      OBVIOUS
    <2>1. CASE StartUart
      <3>1. PICK r \in {MainRequest} \cup Requests : uart0_init(r[1], r[2])
        BY <2>1 DEF StartUart
      <3> QED BY <3>1, RequestTyped, CallTypes
    <2>2. CASE UartRuns
      BY <2>2, RunTypes DEF UartRuns
    <2>3. CASE UNCHANGED uartVars
      BY <2>3, UartTypeSame
    <2>4. CASE \/ StartPll \/ PllRuns \/ CheckPll \/ CheckMode
               \/ SystemCoreClockUpdate \/ SysTick_Config
      <3>1. UNCHANGED uartVars
        BY <2>4 DEF StartPll, PllRuns, CheckPll, CheckMode, SystemCoreClockUpdate,
                    SysTick_Config, Proceed
      <3> QED BY <2>3, <3>1
    <2>5. CASE EnterLoop \/ Hardware \/ UNCHANGED bootVars
      <3>1. UNCHANGED uartVars
        BY <2>5 DEF EnterLoop, Hardware, bootVars
      <3> QED BY <2>3, <3>1
    <2> QED
      BY <2>1, <2>2, <2>4, <2>5 DEF BootNext, Main
  <1> QED BY <1>1, <1>2, UartInvHolds, PTL DEF BootSpec

\* Half the clock makes half the rate, cut off.
LEMMA HalfRate ==
  ASSUME NEW p \in Nat \ {0}, Within3Percent(48000000 \div p, 115200)
  PROVE  Within3Percent(24000000 \div p, 57600)
  <1> DEFINE r == 48000000 \div p
             h == 24000000 \div p
  <1>1. r \in Nat /\ p * r <= 48000000 /\ 48000000 < p * r + p
    BY Quotient, QuotientBounds, SMT
  <1>2. h \in Nat /\ p * h <= 24000000 /\ 24000000 < p * h + p
    BY Quotient, QuotientBounds, SMT
  <1>3. 100 * Abs(r - 115200) <= 3 * 115200
    BY SMT DEF Within3Percent
  <1> HIDE DEF r, h
  <1>4. 111744 <= r /\ r <= 118656
    BY <1>1, <1>3, SMT DEF Abs
  <1>5. 2 * h <= r
    <2>1. SUFFICES ASSUME 2 * h >= r + 1 PROVE FALSE
      BY <1>1, <1>2, SMT
    <2>2. p * (2 * h) >= p * (r + 1)
      BY <1>1, <1>2, <2>1, SMT
    <2>3. p * (2 * h) = 2 * (p * h) /\ p * (r + 1) = p * r + p
      BY <1>1, <1>2, SMT
    <2>4. p * h \in Nat /\ p * r \in Nat
      BY <1>1, <1>2, SMT
    <2> QED BY <1>1, <1>2, <2>2, <2>3, <2>4, SMT
  <1>6. r <= 2 * h + 1
    <2>1. SUFFICES ASSUME r >= 2 * h + 2 PROVE FALSE
      BY <1>1, <1>2, SMT
    <2>2. p * r >= p * (2 * h + 2)
      BY <1>1, <1>2, <2>1, SMT
    <2>3. p * (2 * h + 2) = 2 * (p * h) + 2 * p
      BY <1>1, <1>2, SMT
    <2>4. p * h \in Nat /\ p * r \in Nat
      BY <1>1, <1>2, SMT
    <2> QED BY <1>1, <1>2, <2>2, <2>3, <2>4, SMT
  <1>7. 55872 <= h /\ h <= 59328
    BY <1>1, <1>2, <1>4, <1>5, <1>6, SMT
  <1>8. 100 * Abs(h - 57600) <= 3 * 57600
    BY <1>2, <1>7, SMT DEF Abs
  <1> QED BY <1>8, SMT DEF Within3Percent, h

\* The board speaks within 3 % of the rate the Supervisor selects, although
\* main() asks for twice that rate: UART0 has half the clock uart0_init is told
\* (main.c:85, uart.c:31-172, SupervisorDlg.cpp:145-153).
THEOREM SpeaksToSupervisorCorrect ==
  ASSUME Crystals = {8000000}
  PROVE  BootSpec => []SpeaksToSupervisor
  <1>1. StartInv /\ UartInv /\ AskedInv /\ UartTypeOK => SpeaksToSupervisor
    <2> SUFFICES ASSUME StartInv, UartInv, AskedInv, UartTypeOK, main = "loop",
                        <<uart0clk \div 1000, baud_rate>> = MainRequest
                 PROVE  SBR > 0 /\ Within3Percent(RateOf(Uart0Clock), SupervisorBaud)
      BY SMT DEF SpeaksToSupervisor
    <2>1. uart = "ready"
      BY SMT DEF AskedInv
    <2>2. (uart0clk \div 1000) = 48000 /\ baud_rate = 115200
      BY SMT DEF MainRequest, TERMINAL_BAUD
    <2>3. PICK k \in Nat : uart0clk = k * 1000
      BY <2>1, SMT DEF AskedInv
    <2>4. uart0clk = 48000000
      BY <2>2, <2>3, SMT
    <2>5. PllClock = 48000000
      BY StartedClock, SMT DEF StartInv, Started, AfterUpdate
    <2>6. Uart0Clock = 24000000
      BY <2>5, SMT DEF Uart0Clock
    <2>7. (48000000 \div 115200) < 32768
      BY SMT
    <2>8. SBR > 0 /\ Within3Percent(48000000 \div (OSR * SBR), 115200)
      BY <2>1, <2>2, <2>4, <2>7, SMT DEF UartInv, ReadyInv, InTolerance, RateOf
    <2>9. OSR * SBR \in Nat \ {0}
      <3>1. OSR \in Nat \ {0} /\ SBR \in Nat \ {0}
        BY <2>8, SMT DEF UartTypeOK, Ratios
      <3> QED BY <3>1, Positive
    <2>10. Within3Percent(24000000 \div (OSR * SBR), 57600)
      BY <2>8, <2>9, HalfRate, SMT
    <2> QED BY <2>6, <2>8, <2>10, SMT DEF RateOf, SupervisorBaud
  <1> QED BY <1>1, StartInvHolds, UartInvHolds, AskedInvHolds,
             UartTypeHolds, PTL

-----------------------------------------------------------------------------
\* Types.

BootTypeInv ==
    /\ TypeInv
    /\ main \in {"pll", "pllCall", "mode", "update", "modeAgain", "tick", "uart",
                 "uartCall", "loop", "spin"}
    /\ SystemCoreClock \in Nat /\ tick \in Nat

\* Whatever the registers hold, CMSIS makes a natural number of them.
LEMMA ClockTyped ==
  ASSUME TypeInv
  PROVE  MCGOUTClock \in Nat
PROOF
  <1>1. /\ C["PRDIV0"] \in 0 .. 26 /\ C["VDIV0"] \in 0 .. 26
        /\ C["FRDIV"] \in 0 .. 5
    BY DEF TypeInv, Config, Fields, Highest
  <1>2. ASSUME NEW p \in 0 .. 26, NEW v \in 0 .. 26
        PROVE  (CPU_XTAL_CLK_HZ \div (1 + p)) * (v + 24) \in Nat
    <2>1. CPU_XTAL_CLK_HZ \div (1 + p) \in Nat
      BY SMT DEF CPU_XTAL_CLK_HZ
    <2> QED
      BY SMT, <2>1
  <1>3. ASSUME NEW f \in 0 .. 5, NEW d \in {1, 32}
        PROVE  (CPU_XTAL_CLK_HZ \div 2 ^ f) \div d \in Nat
    <2>1. PICK n \in {1, 2, 4, 8, 16, 32} : 2 ^ f = n
      BY PowersOfTwo
    <2>2. CPU_XTAL_CLK_HZ \div n \in Nat
      BY SMT DEF CPU_XTAL_CLK_HZ
    <2>3. (CPU_XTAL_CLK_HZ \div n) \div d \in Nat
      BY SMT, <2>2
    <2> QED
      BY ONLY <2>1, <2>3, Zenon
  <1> DEFINE d == IF C["RANGE0"] # 0 THEN 32 ELSE 1
             e == (CPU_XTAL_CLK_HZ \div 2 ^ C["FRDIV"]) \div d
             p == (CPU_XTAL_CLK_HZ \div (1 + C["PRDIV0"])) * (C["VDIV0"] + 24)
             i2 == CPU_INT_FAST_CLK_HZ \div 2 ^ FCRDIV
  <1>4. d \in {1, 32}
    OBVIOUS
  <1> HIDE DEF d
  <1>5. e \in Nat
    BY <1>1, <1>3, <1>4
  <1>6. p \in Nat
    BY <1>1, <1>2
  <1>7. i2 \in Nat
    BY SMT DEF CPU_INT_FAST_CLK_HZ, FCRDIV
  <1>8. Multiplier \in Nat
    BY MultiplierTyped
  <1> HIDE DEF e, p, i2
  <1>9. Multiplier * e \in Nat /\ Multiplier * CPU_INT_SLOW_CLK_HZ \in Nat
    BY SMT, <1>5, <1>8 DEF CPU_INT_SLOW_CLK_HZ
  <1>10. MCGOUTClock = IF C["CLKS"] = 2 THEN CPU_XTAL_CLK_HZ
                       ELSE IF C["CLKS"] = 1
                       THEN IF C["IRCS"] = 0 THEN CPU_INT_SLOW_CLK_HZ ELSE i2
                       ELSE IF C["PLLS"] = 1 THEN p
                       ELSE Multiplier * (IF C["IREFS"] = 1 THEN CPU_INT_SLOW_CLK_HZ ELSE e)
    BY Zenon DEF MCGOUTClock, d, e, p, i2
  <1> QED
    BY SMT, <1>6, <1>7, <1>9, <1>10 DEF CPU_XTAL_CLK_HZ, CPU_INT_SLOW_CLK_HZ

LEMMA MainTyped ==
  ASSUME BootTypeInv, UNCHANGED vars,
         CheckPll \/ CheckMode \/ SystemCoreClockUpdate \/ SysTick_Config \/ StartUart
            \/ EnterLoop
  PROVE  BootTypeInv'
PROOF
  <1>1. TypeInv'
    BY DEF BootTypeInv, TypeInv, vars
  <1>2. CASE CheckPll \/ CheckMode \/ EnterLoop
    BY <1>1, <1>2 DEF BootTypeInv, CheckPll, CheckMode, EnterLoop, Proceed
  <1>3. CASE SystemCoreClockUpdate
    BY <1>1, <1>3, ClockTyped DEF BootTypeInv, SystemCoreClockUpdate, Proceed
  <1>4. CASE SysTick_Config
    <2>1. SystemCoreClock \div 100000 \in Nat
      BY SMT DEF BootTypeInv
    <2> QED
      BY <1>1, <1>4, <2>1 DEF BootTypeInv, SysTick_Config, Proceed
  <1>5. CASE StartUart
    BY <1>1, <1>5 DEF BootTypeInv, StartUart, Proceed
  <1> QED
    BY <1>2, <1>3, <1>4, <1>5

LEMMA BootTypeNext == BootTypeInv /\ [BootNext]_bootVars => BootTypeInv'
PROOF
  <1> SUFFICES ASSUME BootTypeInv, [BootNext]_bootVars PROVE BootTypeInv'
    OBVIOUS
  <1>1. TypeInv
    BY DEF BootTypeInv
  <1>2. CASE StartPll
    <2>1. PllInit(1, <<PLL0_PRDIV, PLL0_VDIV>>)
      BY <1>2 DEF StartPll
    <2>2. <<PLL0_PRDIV, PLL0_VDIV>> \in Int \X Int
      BY DEF PLL0_PRDIV, PLL0_VDIV
    <2>3. TypeInv'
      BY <1>1, <2>1, <2>2, PllInitTyped
    <2> QED
      BY <1>2, <2>3 DEF BootTypeInv, StartPll, Proceed
  <1>3. CASE PllRuns
    <2>1. TypeInv'
      BY <1>1, <1>3, StepTyped, FoundTyped, TimeOutTyped DEF PllRuns, Driver
    <2> QED
      BY <1>3, <2>1 DEF BootTypeInv, PllRuns
  <1>4. CASE Hardware
    <2>1. TypeInv'
      BY <1>1, <1>4, FollowTyped DEF Hardware
    <2> QED
      BY <1>4, <2>1 DEF BootTypeInv, Hardware
  <1>5. CASE CheckPll \/ CheckMode \/ SystemCoreClockUpdate \/ SysTick_Config \/ StartUart
    <2>1. UNCHANGED vars
      <3>1. CASE CheckPll \/ CheckMode
        BY <3>1 DEF CheckPll, CheckMode
      <3>2. CASE SystemCoreClockUpdate
        BY <3>2 DEF SystemCoreClockUpdate
      <3>3. CASE SysTick_Config
        BY <3>3, SMT DEF SysTick_Config
      <3>4. CASE StartUart
        BY <3>4, SMT DEF StartUart
      <3> QED
        BY <1>5, <3>1, <3>2, <3>3, <3>4
    <2> QED
      BY <1>5, <2>1, MainTyped
  <1>6. CASE EnterLoop
    <2>1. UNCHANGED vars
      BY <1>6 DEF EnterLoop
    <2> QED
      BY <1>6, <2>1, MainTyped
  <1>7. CASE UartRuns \/ UNCHANGED bootVars
    <2>1. UNCHANGED <<vars, main, SystemCoreClock, tick>>
      BY <1>7 DEF UartRuns, bootVars
    <2> QED
      BY <2>1 DEF BootTypeInv, TypeInv, vars
  <1> QED
    BY <1>2, <1>3, <1>4, <1>5, <1>6, <1>7 DEF BootNext, Main

\* From reset to the loop of main() every variable of the clock, of main() and
\* of UART0's set-up keeps its type (main.c:53-85).
THEOREM BootTypeCorrect == BootSpec => []BootTypeOK
PROOF
  <1>1. BootInit => BootTypeInv
    BY TypeInit, SMT DEF BootInit, BootTypeInv
  <1>2. BootTypeInv /\ UartTypeOK => BootTypeOK
    BY TypeInvShows, Zenon DEF BootTypeInv, BootTypeOK
  <1> QED
    BY <1>1, <1>2, BootTypeNext, UartTypeHolds, PTL DEF BootSpec
=============================================================================
