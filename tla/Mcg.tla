---------------------------------- MODULE Mcg ----------------------------------
(***************************************************************************)
(* The clock driver drivers/mcg/mcg.c: the functions that take the clock   *)
(* generator (MCG) of the KL25Z from one of its eight modes to another.    *)
(* A function checks the mode and its arguments and then runs a script:    *)
(* writes to the control registers, and waits for a status bit to follow.  *)
(* Each write and each wait is a step, and the hardware moves between any  *)
(* two of them.  A wait polls a bounded number of times; if the hardware   *)
(* is slower, the function returns an error and leaves the registers as    *)
(* they are, and the hardware may still follow later.                      *)
(***************************************************************************)
EXTENDS Integers, Sequences, FiniteSets

CONSTANTS
    Crystals,     \* the external clocks a board may have, in Hz
    IrcFreqs,     \* what callers pass as frequency of an internal reference
    PllSettings,  \* what callers pass as <<prdiv_val, vdiv_val>>
    DRS, DMX32,   \* register C4: SystemInit writes it, the driver only reads it
    MaxLate       \* how many waits may time out although the hardware will follow

ASSUME McgAssumption ==
    /\ \A hz \in Crystals : hz \in Nat /\ 0 < hz /\ hz <= 2147483647  \* an int
    /\ \A hz \in IrcFreqs : hz \in Nat /\ 0 < hz /\ hz <= 5000000
    /\ DRS \in 0 .. 3 /\ DMX32 \in {0, 1}
    /\ MaxLate \in Nat

ASSUME PllSettingsAssumption == PllSettings \subseteq (-128 .. 127) \X (-128 .. 127)

VARIABLES
    crystal,  \* the external clock of this board
    C,        \* the fields of the control registers C1, C2, C5 and C6
    S,        \* the bits of the status register S
    fn,       \* the function called last
    todo,     \* what is left of its script; <<>>: it has returned
    goal,     \* the mode it leads to
    result,   \* the frequency (or error) it returns at the end of its script
    ret,      \* what it has returned; 0 until then
    late      \* how many waits have timed out

vars == <<crystal, C, S, fn, todo, goal, result, ret, late>>

Fields == {"CLKS", "FRDIV", "IREFS", "RANGE0", "EREFS0", "LP", "IRCS",
           "PRDIV0", "VDIV0", "PLLS", "CME0"}
Bits == {"IREFST", "CLKST", "PLLST", "LOCK0", "OSCINIT0", "IRCST"}

\* mcg.h
BLPI == 1
FBI == 2
FEI == 3
FEE == 4
FBE == 5
BLPE == 6
PBE == 7
PEE == 8
Modes == 1 .. 8

TypeOK ==
    /\ crystal \in Crystals
    /\ C \in [Fields -> 0 .. 26] /\ C["CLKS"] \in 0 .. 3
    /\ \A f \in {"IREFS", "EREFS0", "LP", "IRCS", "PLLS", "CME0"} : C[f] \in {0, 1}
    /\ C["FRDIV"] \in 0 .. 5 /\ C["RANGE0"] \in 0 .. 2
    /\ S \in [Bits -> 0 .. 3]
    /\ \A b \in Bits \ {"CLKST"} : S[b] \in {0, 1}
    /\ Len(todo) \in 0 .. 12
    /\ goal \in Modes /\ result \in Nat /\ ret \in Nat
    /\ late \in 0 .. MaxLate

\* What SystemInit leaves before main() is called: FEI, and reset has divided
\* the fast internal reference by 2^1.
Init ==
    /\ crystal \in Crystals
    /\ C = [f \in Fields |-> IF f = "IREFS" THEN 1 ELSE 0]
    /\ S = [b \in Bits |-> IF b = "IREFST" THEN 1 ELSE 0]
    /\ fn = "reset" /\ todo = <<>> /\ goal = FEI
    /\ result = 0 /\ ret = 0 /\ late = 0

FCRDIV == 1

-----------------------------------------------------------------------------
\* The mode the status bits show, as what_mcg_mode and every function tell it.
In(mode) ==
    LET is(clkst, irefst) == S["CLKST"] = clkst /\ S["IREFST"] = irefst
    IN  \/ mode = FEI  /\ is(0, 1) /\ S["PLLST"] = 0
        \/ mode = FEE  /\ is(0, 0) /\ S["PLLST"] = 0
        \/ mode = FBI  /\ is(1, 1) /\ S["PLLST"] = 0 /\ C["LP"] = 0
        \/ mode = BLPI /\ is(1, 1) /\ S["PLLST"] = 0 /\ C["LP"] = 1
        \/ mode = FBE  /\ is(2, 0) /\ S["PLLST"] = 0 /\ C["LP"] = 0
        \/ mode = PBE  /\ is(2, 0) /\ S["PLLST"] = 1 /\ C["LP"] = 0
        \/ mode = BLPE /\ is(2, 0) /\ C["LP"] = 1
        \/ mode = PEE  /\ is(3, 0) /\ S["PLLST"] = 1

\* The error code for a call in another mode than the function expects.
NotIn(mode) ==
    CASE mode = FEI -> 1 [] mode = FEE -> 2 [] mode = FBI -> 3 [] mode = FBE -> 4
      [] mode = BLPI -> 5 [] mode = BLPE -> 6 [] mode = PBE -> 7 [] mode = PEE -> 8

what_mcg_mode == IF \E m \in Modes : In(m) THEN CHOOSE m \in Modes : In(m) ELSE 0

\* A result above every error code is a frequency.
Frequency(r) == r > 255

-----------------------------------------------------------------------------
\* Arguments.  The codes are those of readme.txt, in decimal.

Outside(x, low, high) == x < low \/ x > high

\* Checked by every function that starts from an internal clock; one that starts
\* from the external clock finds it running.
OscError(erefs) ==
    IF crystal > 50000000 THEN 33
    ELSE IF erefs = 1 /\ Outside(crystal, 30000, 40000)
                      /\ Outside(crystal, 3000000, 32000000)
    THEN 34
    ELSE 0

OscErrorForPll(erefs) ==
    IF crystal > 50000000 THEN 33
    ELSE IF erefs = 1 /\ Outside(crystal, 3000000, 32000000) THEN 34
    ELSE 0

DividerError(pll) ==
    IF Outside(pll[1], 1, 25) THEN 65
    ELSE IF Outside(pll[2], 24, 50) THEN 66
    ELSE IF Outside(crystal \div pll[1], 2000000, 4000000) THEN 67
    ELSE 0

PllFreq(prdiv, vdiv) == (crystal \div prdiv) * vdiv

PllError(pll) ==
    IF DividerError(pll) # 0 THEN DividerError(pll)
    ELSE IF Outside(PllFreq(pll[1], pll[2]), 48000000, 100000000) THEN 69
    ELSE 0

\* A fast frequency goes with the fast reference, a slow one with the slow.
IrcError(irc_freq, irc_select) ==
    IF irc_select = 0
    THEN IF Outside(irc_freq, 31250, 39063) THEN 49 ELSE 0
    ELSE IF Outside(irc_freq, 3000000, 5000000) THEN 50 ELSE 0

\* Mutant: the fast reference is not divided.
IrcOut_Undivided(irc_freq, irc_select) == irc_freq

IrcOut(irc_freq, irc_select) ==
    IF irc_select = 1 THEN irc_freq \div (2 ^ FCRDIV) ELSE irc_freq

Multiplier ==
    IF DMX32 = 1 THEN <<732, 1464, 2197, 2929>>[DRS + 1]
                 ELSE <<640, 1280, 1920, 2560>>[DRS + 1]

\* The frequency of the FLL, or an error code.
fll_freq(fll_ref) ==
    IF DRS > 1 THEN 59
    ELSE IF fll_ref * Multiplier < 20000000 * (DRS + 1) THEN 51 + 2 * DRS
    ELSE IF fll_ref * Multiplier > 25000000 * (DRS + 1) THEN 52 + 2 * DRS
    ELSE fll_ref * Multiplier

\* The same for an internal reference, whose range is checked first.
IrcFllFreq(irc_freq) ==
    IF IrcError(irc_freq, 0) # 0 THEN IrcError(irc_freq, 0) ELSE fll_freq(irc_freq)

\* Fields RANGE0 and FRDIV for the external clock.
range_val == IF crystal <= 40000 THEN 0 ELSE IF crystal <= 8000000 THEN 1 ELSE 2

FrdivLimits == {1250000, 2500000, 5000000, 10000000, 20000000}
frdiv_val == Cardinality({f \in FrdivLimits : crystal > f})

\* The reference the FLL gets from the external clock.
FllRef(range, frdiv) == crystal \div ((IF range > 0 THEN 32 ELSE 1) * 2 ^ frdiv)

\* A 16-bit short.
Short(x) == ((x + 32768) % 65536) - 32768

-----------------------------------------------------------------------------
\* The operations of a script.

\* One write to one register: its new fields, the others are kept.
Write(fields) == <<[op |-> "write", fields |-> fields]>>

\* register |= fields.
WriteOr(fields) == <<[op |-> "or", fields |-> fields]>>

Await(bit, value, error) ==
    <<[op |-> "await", bit |-> bit, value |-> value, error |-> error]>>

ToClock(clkst) == Await("CLKST", clkst, 24 + clkst)
ClockMonitor(on) == Write([CME0 |-> on])

Oscillator(range, erefs) == Write([RANGE0 |-> range, EREFS0 |-> erefs])

\* C1 with IREFS cleared starts the external oscillator.
ExternalReference(clks, erefs) ==
    Write([CLKS |-> clks, FRDIV |-> frdiv_val, IREFS |-> 0])
    \o (IF erefs = 1 THEN Await("OSCINIT0", 1, 35) ELSE <<>>)
    \o Await("IREFST", 0, 17)

InternalReference(clks) == Write([CLKS |-> clks, IREFS |-> 1])
AwaitInternal == Await("IREFST", 1, 18)

Pll(pll) ==
    Write([PRDIV0 |-> pll[1] - 1]) \o Write([VDIV0 |-> pll[2] - 24, PLLS |-> 1])

AwaitPll == Await("PLLST", 1, 22) \o Await("LOCK0", 1, 68)
SelectPll == Write([CLKS |-> 0]) \o ToClock(3)
FllInstead == Write([PLLS |-> 0])
AwaitFll == Await("PLLST", 0, 21)
LowPower(on) == Write([LP |-> on])
ToExternal == WriteOr([CLKS |-> 2]) \o ToClock(2)

SelectIrc(irc_select) == Write([IRCS |-> irc_select])
AwaitIrc(irc_select) == Await("IRCST", irc_select, 19 + irc_select)

-----------------------------------------------------------------------------
\* A call: the checks; if they succeed, the script is what remains to be done.
Call(name, from, error, script, out, to) ==
    /\ todo = <<>>
    /\ fn' = name /\ goal' = to
    /\ \/ /\ ~In(from) \/ error # 0
          /\ ret' = IF In(from) THEN error ELSE NotIn(from)
          /\ UNCHANGED <<todo, result>>
       \/ /\ In(from) /\ error = 0
          /\ todo' = script /\ result' = out /\ ret' = 0
    /\ UNCHANGED <<crystal, C, S, late>>

\* If the FLL would run out of range, a code below 60 is returned instead.
FllError(freq) == IF freq < 60 THEN freq ELSE 0

\* Field RANGE0 for a PLL, whose crystal is not slow.
pll_range == IF crystal <= 8000000 THEN 1 ELSE 2

\* Mutant: the switch to the PLL is not waited for.
PllInit_NoWait(erefs, pll) ==
    Call("pll_init", FEI,
         IF OscErrorForPll(erefs) # 0 THEN OscErrorForPll(erefs) ELSE PllError(pll),
         Oscillator(pll_range, erefs)
             \o ExternalReference(2, erefs) \o ToClock(2) \o ClockMonitor(1)
             \o Pll(pll) \o AwaitPll \o Write([CLKS |-> 0]),
         PllFreq(pll[1], pll[2]), PEE)

\* mcgout_select is not looked at.
PllInit(erefs, pll) ==
    Call("pll_init", FEI,
         IF OscErrorForPll(erefs) # 0 THEN OscErrorForPll(erefs) ELSE PllError(pll),
         Oscillator(pll_range, erefs)
             \o ExternalReference(2, erefs) \o ToClock(2) \o ClockMonitor(1)
             \o Pll(pll) \o AwaitPll \o SelectPll,
         PllFreq(pll[1], pll[2]), PEE)

pll_init == \E erefs \in {0, 1}, pll \in PllSettings : PllInit(erefs, pll)

\* Mutant: the new PLL is selected before it has locked.
new_pll_freq_NoLock ==
    \E pll \in PllSettings :
        Call("new_pll_freq", PEE, PllError(pll),
             ToExternal \o Pll(pll) \o Await("PLLST", 1, 22) \o SelectPll,
             PllFreq(pll[1], pll[2]), PEE)

new_pll_freq ==
    \E pll \in PllSettings :
        Call("new_pll_freq", PEE, PllError(pll),
             ToExternal \o Pll(pll) \o AwaitPll \o SelectPll,
             PllFreq(pll[1], pll[2]), PEE)

pee_pbe == Call("pee_pbe", PEE, 0, ToExternal, crystal, PBE)

pbe_pee == Call("pbe_pee", PBE, 0, Await("LOCK0", 1, 68) \o SelectPll,
                PllFreq(C["PRDIV0"] + 1, C["VDIV0"] + 24), PEE)

pbe_fbe == Call("pbe_fbe", PBE, 0, FllInstead \o AwaitFll, crystal, FBE)

fbe_pbe ==
    \E pll \in PllSettings :
        Call("fbe_pbe", FBE, PllError(pll), Pll(pll) \o AwaitPll, crystal, PBE)

pbe_blpe == Call("pbe_blpe", PBE, 0, LowPower(1), crystal, BLPE)

\* The frequency of the PLL is not checked here.
blpe_pbe ==
    \E pll \in PllSettings :
        Call("blpe_pbe", BLPE, DividerError(pll),
             Pll(pll) \o LowPower(0) \o AwaitPll, crystal, PBE)

blpe_fbe ==
    Call("blpe_fbe", BLPE, 0, FllInstead \o LowPower(0) \o AwaitFll, crystal, FBE)

fbe_blpe == Call("fbe_blpe", FBE, 0, LowPower(1), crystal, BLPE)

\* Mutant: the clock monitor stays on.
fbe_fei_Monitored ==
    \E irc_freq \in IrcFreqs :
        Call("fbe_fei", FBE, FllError(IrcFllFreq(irc_freq)),
             InternalReference(0) \o AwaitInternal \o ToClock(0),
             IrcFllFreq(irc_freq), FEI)

fbe_fei ==
    \E irc_freq \in IrcFreqs :
        Call("fbe_fei", FBE, FllError(IrcFllFreq(irc_freq)),
             ClockMonitor(0) \o InternalReference(0) \o AwaitInternal \o ToClock(0),
             IrcFllFreq(irc_freq), FEI)

fei_fbe ==
    \E erefs \in {0, 1} :
        Call("fei_fbe", FEI, OscError(erefs),
             Oscillator(range_val, erefs) \o ExternalReference(2, erefs)
                 \o ToClock(2) \o ClockMonitor(1),
             crystal, FBE)

\* Mutant: the frequency of the FLL is not checked.
fbe_fee_Unchecked ==
    Call("fbe_fee", FBE, 0, Write([CLKS |-> 0]) \o ToClock(0), crystal, FEE)

\* The reference is kept in a short, and RANGE0 stands where FRDIV should.
fbe_fee ==
    LET fll_ref_freq ==
            Short(IF C["RANGE0"] > 0 THEN FllRef(C["RANGE0"], C["FRDIV"])
                                     ELSE FllRef(0, C["RANGE0"]))
    IN  Call("fbe_fee", FBE, FllError(fll_freq(fll_ref_freq)),
             Write([CLKS |-> 0]) \o ToClock(0), fll_freq(fll_ref_freq), FEE)

fee_fbe == Call("fee_fbe", FEE, 0, ToExternal, crystal, FBE)

fbe_fbi ==
    \E irc_freq \in IrcFreqs, irc_select \in {0, 1} :
        Call("fbe_fbi", FBE, IrcError(irc_freq, irc_select),
             SelectIrc(irc_select) \o ClockMonitor(0) \o InternalReference(1)
                 \o AwaitIrc(irc_select) \o ToClock(1) \o AwaitInternal,
             IrcOut(irc_freq, irc_select), FBI)

fbi_fbe ==
    \E erefs \in {0, 1} :
        Call("fbi_fbe", FBI, OscError(erefs),
             Oscillator(range_val, erefs) \o ExternalReference(2, erefs)
                 \o ToClock(2) \o ClockMonitor(1),
             crystal, FBE)

fbi_blpi ==
    \E irc_freq \in IrcFreqs, irc_select \in {0, 1} :
        Call("fbi_blpi", FBI, 0, LowPower(1), IrcOut(irc_freq, irc_select), BLPI)

blpi_fbi ==
    \E irc_freq \in IrcFreqs, irc_select \in {0, 1} :
        Call("blpi_fbi", BLPI, 0, LowPower(0), IrcOut(irc_freq, irc_select), FBI)

\* Into FEE the frequency of the FLL is checked after C2 has been written.
fbi_fee ==
    \E erefs \in {0, 1} :
        LET mcg_out == fll_freq(FllRef(range_val, frdiv_val))
        IN  Call("fbi_fee", FBI, OscError(erefs),
                 Oscillator(range_val, erefs)
                     \o IF FllError(mcg_out) # 0 THEN <<>>
                        ELSE ExternalReference(0, erefs) \o ToClock(0) \o ClockMonitor(1),
                 mcg_out, FEE)

fee_fbi ==
    \E irc_freq \in IrcFreqs, irc_select \in {0, 1} :
        Call("fee_fbi", FEE, IrcError(irc_freq, irc_select),
             SelectIrc(irc_select) \o ClockMonitor(0)
                 \o WriteOr([CLKS |-> 1, IREFS |-> 1]) \o AwaitIrc(irc_select) \o ToClock(1) \o AwaitInternal,
             IrcOut(irc_freq, irc_select), FBI)

fbi_fei ==
    \E irc_freq \in IrcFreqs :
        Call("fbi_fei", FBI, FllError(IrcFllFreq(irc_freq)),
             InternalReference(0) \o AwaitInternal \o ToClock(0),
             IrcFllFreq(irc_freq), FEI)

\* Mutant: the bypass is not waited for.
fei_fbi_NoWait ==
    \E irc_freq \in IrcFreqs, irc_select \in {0, 1} :
        Call("fei_fbi", FEI, IrcError(irc_freq, irc_select),
             SelectIrc(irc_select) \o Write([CLKS |-> 1]) \o AwaitIrc(irc_select),
             IrcOut(irc_freq, irc_select), FBI)

fei_fbi ==
    \E irc_freq \in IrcFreqs, irc_select \in {0, 1} :
        Call("fei_fbi", FEI, IrcError(irc_freq, irc_select),
             SelectIrc(irc_select) \o Write([CLKS |-> 1]) \o AwaitIrc(irc_select) \o ToClock(1),
             IrcOut(irc_freq, irc_select), FBI)

fei_fee ==
    \E erefs \in {0, 1} :
        LET mcg_out == fll_freq(FllRef(range_val, frdiv_val))
        IN  Call("fei_fee", FEI, OscError(erefs),
                 Oscillator(range_val, erefs)
                     \o IF FllError(mcg_out) # 0 THEN <<>>
                        ELSE ExternalReference(0, erefs) \o ClockMonitor(1),
                 mcg_out, FEE)

fee_fei ==
    \E irc_freq \in IrcFreqs :
        Call("fee_fei", FEE, FllError(IrcFllFreq(irc_freq)),
             ClockMonitor(0) \o Write([IREFS |-> 1]) \o AwaitInternal,
             IrcFllFreq(irc_freq), FEI)

-----------------------------------------------------------------------------
\* The script.

\* Its last step is the return.
Advance ==
    /\ todo' = Tail(todo)
    /\ IF Len(todo) = 1 THEN ret' = result /\ result' = 0
                        ELSE UNCHANGED <<ret, result>>
    /\ UNCHANGED <<crystal, fn, goal, late>>

\* Mutant: += where |= is meant.
Or_Adds(a, b) == a + b

\* Bitwise or of two numbers below 4.
Or(a, b) == IF a = 0 \/ a = b THEN b ELSE IF b = 0 THEN a ELSE 3

\* A change of the PLL's settings takes its lock away.
Step ==
    /\ todo # <<>> /\ Head(todo).op \in {"write", "or"}
    /\ LET new == Head(todo).fields
       IN  /\ C' = [f \in Fields |->
                      IF f \notin DOMAIN new THEN C[f]
                      ELSE IF Head(todo).op = "or" THEN Or(C[f], new[f]) ELSE new[f]]
           /\ S' = IF DOMAIN new \cap {"PRDIV0", "VDIV0", "PLLS", "LP"} # {}
                   THEN [S EXCEPT !["LOCK0"] = 0] ELSE S
    /\ Advance

Found ==
    /\ todo # <<>> /\ Head(todo).op = "await"
    /\ S[Head(todo).bit] = Head(todo).value
    /\ Advance
    /\ UNCHANGED <<C, S>>

-----------------------------------------------------------------------------
\* The hardware: each status bit follows the control fields in its own time.
\* CLKS = 3 is reserved, so anything may be selected then.
Target(bit) ==
    CASE bit = "IREFST"   -> {C["IREFS"]}
      [] bit = "PLLST"    -> {C["PLLS"]}
      [] bit = "LOCK0"    -> {IF C["PLLS"] = 1 /\ C["LP"] = 0 THEN 1 ELSE 0}
      [] bit = "OSCINIT0" -> {C["EREFS0"]}
      [] bit = "IRCST"    -> {C["IRCS"]}
      [] bit = "CLKST"    -> IF C["CLKS"] = 0 THEN {3 * S["PLLST"]}
                             ELSE IF C["CLKS"] = 3 THEN 0 .. 3 ELSE {C["CLKS"]}

\* A wait times out because the hardware is late, or has settled elsewhere.
TimeOut ==
    /\ todo # <<>> /\ Head(todo).op = "await"
    /\ S[Head(todo).bit] # Head(todo).value
    /\ late < MaxLate \/ \A bit \in Bits : S[bit] \in Target(bit)
    /\ todo' = <<>> /\ result' = 0
    /\ ret' = Head(todo).error
    /\ late' = IF late < MaxLate THEN late + 1 ELSE late
    /\ UNCHANGED <<crystal, C, S, fn, goal>>

Follow(bit) ==
    /\ S[bit] \notin Target(bit)
    /\ \E value \in Target(bit) : S' = [S EXCEPT ![bit] = value]
    /\ UNCHANGED <<crystal, C, fn, todo, goal, result, ret, late>>

FromFLL == fei_fbe \/ fei_fbi \/ fei_fee \/ fee_fbe \/ fee_fbi \/ fee_fei \/ pll_init
FromInternal == fbi_fbe \/ fbi_blpi \/ fbi_fee \/ fbi_fei \/ blpi_fbi
FromExternal == fbe_pbe \/ fbe_blpe \/ fbe_fei \/ fbe_fee \/ fbe_fbi
                \/ blpe_pbe \/ blpe_fbe
FromPLL == pee_pbe \/ pbe_pee \/ pbe_fbe \/ pbe_blpe \/ new_pll_freq
Driver == Step \/ Found \/ TimeOut

Next == FromFLL \/ FromInternal \/ FromExternal \/ FromPLL \/ Driver
        \/ \E bit \in Bits : Follow(bit)

Spec == Init /\ [][Next]_vars

-----------------------------------------------------------------------------
\* Properties.  Callers may call anything in any order, also after an error.

\* mcg.c:1287, mcg.c:1926-1928: the clock monitor MUST be disabled in FEI, FBI
\* and BLPI or a reset may be generated.  It is, and it is disabled before the
\* internal reference is selected, whichever waits time out.
MonitorOff == C["CME0"] = 1 => C["IREFS"] = 0 /\ S["IREFST"] = 0

\* As long as no wait has timed out, a function that returns a frequency has
\* led to its mode, and what_mcg_mode says so.
RightMode ==
    (todo = <<>> /\ late = 0 /\ Frequency(ret)) => what_mcg_mode = goal

\* And the FLL runs from the external clock only within its range: 20 to 25
\* MHz for each step of DRS (mcg.c:1786-1849).
FllInSpec ==
    (todo = <<>> /\ late = 0 /\ what_mcg_mode = FEE) =>
        FllRef(C["RANGE0"], C["FRDIV"]) * Multiplier
            \in 20000000 * (DRS + 1) .. 25000000 * (DRS + 1)

\* And the system never runs from a PLL that has not locked, not even while
\* new_pll_freq changes it (mcg.c:217-226).
RunsLocked == (late = 0 /\ S["CLKST"] = 3) => S["LOCK0"] = 1

\* SystemCoreClockUpdate: what CMSIS makes of the control registers, for the
\* crystal and the references its header names.  Its last branch, for the reserved
\* CLKS = 3, is left out: main() calls it in PEE only.
CPU_XTAL_CLK_HZ == 8000000
CPU_INT_SLOW_CLK_HZ == 32768
CPU_INT_FAST_CLK_HZ == 4000000

MCGOUTClock ==
    IF C["CLKS"] = 2 THEN CPU_XTAL_CLK_HZ
    ELSE IF C["CLKS"] = 1
    THEN IF C["IRCS"] = 0 THEN CPU_INT_SLOW_CLK_HZ
         ELSE CPU_INT_FAST_CLK_HZ \div 2 ^ FCRDIV
    ELSE IF C["PLLS"] = 1
    THEN (CPU_XTAL_CLK_HZ \div (1 + C["PRDIV0"])) * (C["VDIV0"] + 24)
    ELSE Multiplier *
         IF C["IREFS"] = 1 THEN CPU_INT_SLOW_CLK_HZ
         ELSE (CPU_XTAL_CLK_HZ \div 2 ^ C["FRDIV"])
                  \div (IF C["RANGE0"] # 0 THEN 32 ELSE 1)

\* Two files compute the frequency in their own way, the driver from its
\* arguments and CMSIS from the registers: on this board they agree after every
\* call that succeeds (mcg.c:210, system_MKL25Z4.c:204-274).  The two functions
\* between FBI and BLPI, which believe what they are told of the internal
\* reference, are left out.
CoreClockRight ==
    (/\ todo = <<>> /\ late = 0 /\ Frequency(ret)
     /\ crystal = CPU_XTAL_CLK_HZ /\ fn \notin {"fbi_blpi", "blpi_fbi"})
        => ret = MCGOUTClock

\* main() keeps what pll_init returns in a char and goes on if it is zero
\* (main.c:35, 53-59).
MainAccepts == ret % 256 = 0

\* With the settings of the runs that tells a frequency from an error code,
\* and main() goes on only with the PLL in use and locked.
Booted ==
    (todo = <<>> /\ fn = "pll_init") =>
        /\ MainAccepts <=> Frequency(ret)
        /\ MainAccepts => what_mcg_mode = PEE /\ S["LOCK0"] = 1

=============================================================================
