------------------------------- MODULE McgProofs -------------------------------
(***************************************************************************)
(* For every board, every argument, every sequence of calls and any number *)
(* of waits that time out:                                                 *)
(*   MonitorOffCorrect  the clock monitor is off whenever the internal     *)
(*                      reference is selected or in use                    *)
(*   TypeCorrect        every field keeps its width                        *)
(***************************************************************************)
EXTENDS Mcg, FiniteSetTheorems, SequenceTheorems, TLAPS

Settings == UNION {[D -> Int] : D \in SUBSET Fields}

Op == [op : {"write", "or"}, fields : Settings]
      \cup [op : {"await"}, bit : Bits, value : Int, error : Int]

\* What an operation of a script may mean for the clock monitor.
Enables(o) == o.op # "await" /\ "CME0" \in DOMAIN o.fields /\ o.fields["CME0"] # 0
Disables(o) == o.op = "write" /\ "CME0" \in DOMAIN o.fields /\ o.fields["CME0"] = 0
Selects(o) == o.op # "await" /\ "IREFS" \in DOMAIN o.fields /\ o.fields["IREFS"] # 0
Clears(o) == o.op = "write" /\ "IREFS" \in DOMAIN o.fields /\ o.fields["IREFS"] = 0
AwaitsExternal(o) == o.op = "await" /\ o.bit = "IREFST" /\ o.value = 0

NoEnable(s) == \A i \in 1 .. Len(s) : ~Enables(s[i])
NoSelect(s) == \A i \in 1 .. Len(s) : ~Selects(s[i])
Calm(s) == s \in Seq(Op) /\ NoEnable(s) /\ NoSelect(s)

\* It turns the monitor off.
Hushes(s) == \E i \in 1 .. Len(s) : Disables(s[i])

\* It selects the external reference and then sees it in use.
Leads(s) ==
    \E a, b \in 1 .. Len(s) : a < b /\ Clears(s[a]) /\ AwaitsExternal(s[b])

\* A script that stays with the external reference: the monitor is turned on
\* only after that reference has been seen in use, now or by the script.
OnScript(s) ==
    /\ s \in Seq(Op) /\ NoSelect(s)
    /\ \A i \in 1 .. Len(s) : Enables(s[i]) =>
          \/ C["IREFS"] = 0 /\ S["IREFST"] = 0
          \/ \E b \in 1 .. Len(s) :
                /\ b < i /\ AwaitsExternal(s[b])
                /\ C["IREFS"] = 0 \/ \E a \in 1 .. Len(s) : a < b /\ Clears(s[a])

\* A script that may select the internal reference: the monitor is off before.
OffScript(s) ==
    /\ s \in Seq(Op) /\ NoEnable(s)
    /\ \A i \in 1 .. Len(s) : Selects(s[i]) =>
          C["CME0"] = 0 \/ \E b \in 1 .. Len(s) : b < i /\ Disables(s[b])

MonitorInv ==
    /\ DOMAIN C = Fields /\ DOMAIN S = Bits
    /\ C["CME0"] # 0 => C["IREFS"] = 0 /\ S["IREFST"] = 0
    /\ OnScript(todo) \/ OffScript(todo)

-----------------------------------------------------------------------------
\* Concatenation.

LEMMA ConcatCalm ==
  ASSUME NEW s, NEW t, Calm(s), Calm(t)
  PROVE  Calm(s \o t)
PROOF
  <1>1. s \in Seq(Op) /\ t \in Seq(Op)
    BY DEF Calm
  <1>2. /\ s \o t \in Seq(Op) /\ Len(s \o t) = Len(s) + Len(t)
        /\ Len(s) \in Nat /\ Len(t) \in Nat
        /\ \A i \in 1 .. Len(s) + Len(t) :
              (s \o t)[i] = IF i <= Len(s) THEN s[i] ELSE t[i - Len(s)]
    BY <1>1, ConcatProperties, LenProperties
  <1>3. \A i \in 1 .. Len(s \o t) : ~Enables((s \o t)[i]) /\ ~Selects((s \o t)[i])
    BY <1>2 DEF Calm, NoEnable, NoSelect
  <1> QED
    BY <1>2, <1>3 DEF Calm, NoEnable, NoSelect

LEMMA ConcatLeads ==
  ASSUME NEW s \in Seq(Op), NEW t \in Seq(Op), Leads(s) \/ Leads(t)
  PROVE  Leads(s \o t)
PROOF
  <1>1. /\ Len(s \o t) = Len(s) + Len(t)
        /\ Len(s) \in Nat /\ Len(t) \in Nat
        /\ \A i \in 1 .. Len(s) + Len(t) :
              (s \o t)[i] = IF i <= Len(s) THEN s[i] ELSE t[i - Len(s)]
    BY ConcatProperties, LenProperties
  <1>2. CASE Leads(s)
    <2>1. PICK a, b \in 1 .. Len(s) : a < b /\ Clears(s[a]) /\ AwaitsExternal(s[b])
      BY <1>2 DEF Leads
    <2>2. /\ a \in 1 .. Len(s \o t) /\ b \in 1 .. Len(s \o t)
          /\ (s \o t)[a] = s[a] /\ (s \o t)[b] = s[b]
      BY <1>1, <2>1
    <2> QED
      BY <2>1, <2>2 DEF Leads
  <1>3. CASE Leads(t)
    <2>1. PICK a, b \in 1 .. Len(t) : a < b /\ Clears(t[a]) /\ AwaitsExternal(t[b])
      BY <1>3 DEF Leads
    <2>2. /\ Len(s) + a \in 1 .. Len(s \o t) /\ Len(s) + b \in 1 .. Len(s \o t)
          /\ Len(s) + a < Len(s) + b
          /\ (s \o t)[Len(s) + a] = t[a] /\ (s \o t)[Len(s) + b] = t[b]
      BY <1>1, <2>1
    <2> QED
      BY <2>1, <2>2 DEF Leads
  <1> QED
    BY <1>2, <1>3

\* The monitor is turned on after the script has seen the external reference.
LEMMA LeadsThenOn ==
  ASSUME NEW s, NEW t, Calm(s), Leads(s), t \in Seq(Op), NoSelect(t)
  PROVE  OnScript(s \o t)
PROOF
  <1>1. s \in Seq(Op)
    BY DEF Calm
  <1>2. /\ s \o t \in Seq(Op) /\ Len(s \o t) = Len(s) + Len(t)
        /\ Len(s) \in Nat /\ Len(t) \in Nat
        /\ \A i \in 1 .. Len(s) + Len(t) :
              (s \o t)[i] = IF i <= Len(s) THEN s[i] ELSE t[i - Len(s)]
    BY <1>1, ConcatProperties, LenProperties
  <1>3. NoSelect(s \o t)
    BY <1>2 DEF Calm, NoSelect
  <1>4. PICK a, b \in 1 .. Len(s) : a < b /\ Clears(s[a]) /\ AwaitsExternal(s[b])
    BY DEF Leads
  <1>5. \A i \in 1 .. Len(s \o t) : Enables((s \o t)[i]) => i > Len(s)
    BY <1>2 DEF Calm, NoEnable
  <1>6. /\ a \in 1 .. Len(s \o t) /\ b \in 1 .. Len(s \o t)
        /\ (s \o t)[a] = s[a] /\ (s \o t)[b] = s[b]
    BY <1>2
  <1>7. \A i \in 1 .. Len(s \o t) : Enables((s \o t)[i]) => b < i
    BY <1>2, <1>5
  <1> QED
    BY <1>2, <1>3, <1>4, <1>6, <1>7 DEF OnScript

\* The monitor is turned off before the rest of the script, so that rest may
\* select the internal reference.
LEMMA HushesThenOff ==
  ASSUME NEW s, NEW t, Calm(s), Hushes(s), t \in Seq(Op), NoEnable(t)
  PROVE  OffScript(s \o t)
PROOF
  <1>1. s \in Seq(Op)
    BY DEF Calm
  <1>2. /\ s \o t \in Seq(Op) /\ Len(s \o t) = Len(s) + Len(t)
        /\ Len(s) \in Nat /\ Len(t) \in Nat
        /\ \A i \in 1 .. Len(s) + Len(t) :
              (s \o t)[i] = IF i <= Len(s) THEN s[i] ELSE t[i - Len(s)]
    BY <1>1, ConcatProperties, LenProperties
  <1>3. NoEnable(s \o t)
    BY <1>2 DEF Calm, NoEnable
  <1>4. PICK b \in 1 .. Len(s) : Disables(s[b])
    BY DEF Hushes
  <1>5. \A i \in 1 .. Len(s \o t) : Selects((s \o t)[i]) => i > Len(s)
    BY <1>2 DEF Calm, NoSelect
  <1>6. b \in 1 .. Len(s \o t) /\ (s \o t)[b] = s[b]
    BY <1>2
  <1>7. \A i \in 1 .. Len(s \o t) : Selects((s \o t)[i]) => b < i
    BY <1>2, <1>5
  <1> QED
    BY <1>2, <1>3, <1>4, <1>6, <1>7 DEF OffScript

LEMMA OnThenCalm ==
  ASSUME NEW s, NEW t, OnScript(s), Calm(t)
  PROVE  OnScript(s \o t)
PROOF
  <1>1. s \in Seq(Op) /\ t \in Seq(Op)
    BY DEF OnScript, Calm
  <1>2. /\ s \o t \in Seq(Op) /\ Len(s \o t) = Len(s) + Len(t)
        /\ Len(s) \in Nat /\ Len(t) \in Nat
        /\ \A i \in 1 .. Len(s) + Len(t) :
              (s \o t)[i] = IF i <= Len(s) THEN s[i] ELSE t[i - Len(s)]
    BY <1>1, ConcatProperties, LenProperties
  <1>3. NoSelect(s \o t)
    BY <1>2 DEF Calm, OnScript, NoSelect
  <1>4. SUFFICES ASSUME NEW i \in 1 .. Len(s \o t), Enables((s \o t)[i]),
                        ~(C["IREFS"] = 0 /\ S["IREFST"] = 0)
                 PROVE  \E b \in 1 .. Len(s \o t) :
                          /\ b < i /\ AwaitsExternal((s \o t)[b])
                          /\ C["IREFS"] = 0
                             \/ \E a \in 1 .. Len(s \o t) : a < b /\ Clears((s \o t)[a])
    BY <1>2, <1>3 DEF OnScript
  <1>5. i \in 1 .. Len(s) /\ Enables(s[i])
    BY <1>2, <1>4 DEF Calm, NoEnable
  <1>6. PICK b \in 1 .. Len(s) :
          /\ b < i /\ AwaitsExternal(s[b])
          /\ C["IREFS"] = 0 \/ \E a \in 1 .. Len(s) : a < b /\ Clears(s[a])
    BY <1>4, <1>5 DEF OnScript
  <1>7. \A a \in 1 .. Len(s) : a \in 1 .. Len(s \o t) /\ (s \o t)[a] = s[a]
    BY <1>2
  <1>8. C["IREFS"] = 0 \/ \E a \in 1 .. Len(s \o t) : a < b /\ Clears((s \o t)[a])
    BY <1>6, <1>7
  <1> QED
    BY <1>6, <1>7, <1>8

LEMMA CalmThenOn ==
  ASSUME NEW s, NEW t, Calm(s), OnScript(t)
  PROVE  OnScript(s \o t)
PROOF
  <1>1. s \in Seq(Op) /\ t \in Seq(Op)
    BY DEF OnScript, Calm
  <1>2. /\ s \o t \in Seq(Op) /\ Len(s \o t) = Len(s) + Len(t)
        /\ Len(s) \in Nat /\ Len(t) \in Nat
        /\ \A i \in 1 .. Len(s) + Len(t) :
              (s \o t)[i] = IF i <= Len(s) THEN s[i] ELSE t[i - Len(s)]
    BY <1>1, ConcatProperties, LenProperties
  <1>3. NoSelect(s \o t)
    BY <1>2 DEF Calm, OnScript, NoSelect
  <1>4. SUFFICES ASSUME NEW i \in 1 .. Len(s \o t), Enables((s \o t)[i]),
                        ~(C["IREFS"] = 0 /\ S["IREFST"] = 0)
                 PROVE  \E b \in 1 .. Len(s \o t) :
                          /\ b < i /\ AwaitsExternal((s \o t)[b])
                          /\ C["IREFS"] = 0
                             \/ \E a \in 1 .. Len(s \o t) : a < b /\ Clears((s \o t)[a])
    BY <1>2, <1>3 DEF OnScript
  <1>5. i - Len(s) \in 1 .. Len(t) /\ Enables(t[i - Len(s)])
    BY <1>2, <1>4 DEF Calm, NoEnable
  <1>6. PICK b \in 1 .. Len(t) :
          /\ b < i - Len(s) /\ AwaitsExternal(t[b])
          /\ C["IREFS"] = 0 \/ \E a \in 1 .. Len(t) : a < b /\ Clears(t[a])
    BY <1>4, <1>5 DEF OnScript
  <1>7. \A a \in 1 .. Len(t) :
          Len(s) + a \in 1 .. Len(s \o t) /\ (s \o t)[Len(s) + a] = t[a]
    BY <1>2
  <1>8. C["IREFS"] = 0 \/ \E a \in 1 .. Len(s \o t) :
                            a < Len(s) + b /\ Clears((s \o t)[a])
    <2>1. CASE C["IREFS"] = 0
      BY <2>1
    <2>2. CASE C["IREFS"] # 0
      <3>1. PICK a \in 1 .. Len(t) : a < b /\ Clears(t[a])
        BY <2>2, <1>6
      <3>2. Len(s) + a < Len(s) + b
        BY <1>2, <3>1
      <3> QED
        BY <1>7, <3>1, <3>2
    <2> QED
      BY <2>1, <2>2
  <1>9. Len(s) + b < i
    BY <1>2, <1>4, <1>6
  <1> QED
    BY <1>6, <1>7, <1>8, <1>9

LEMMA OffThenCalm ==
  ASSUME NEW s, NEW t, OffScript(s), Calm(t)
  PROVE  OffScript(s \o t)
PROOF
  <1>1. s \in Seq(Op) /\ t \in Seq(Op)
    BY DEF OffScript, Calm
  <1>2. /\ s \o t \in Seq(Op) /\ Len(s \o t) = Len(s) + Len(t)
        /\ Len(s) \in Nat /\ Len(t) \in Nat
        /\ \A i \in 1 .. Len(s) + Len(t) :
              (s \o t)[i] = IF i <= Len(s) THEN s[i] ELSE t[i - Len(s)]
    BY <1>1, ConcatProperties, LenProperties
  <1>3. NoEnable(s \o t)
    BY <1>2 DEF Calm, OffScript, NoEnable
  <1>4. SUFFICES ASSUME NEW i \in 1 .. Len(s \o t), Selects((s \o t)[i]), C["CME0"] # 0
                 PROVE  \E b \in 1 .. Len(s \o t) : b < i /\ Disables((s \o t)[b])
    BY <1>2, <1>3 DEF OffScript
  <1>5. i \in 1 .. Len(s) /\ Selects(s[i])
    BY <1>2, <1>4 DEF Calm, NoSelect
  <1>6. PICK b \in 1 .. Len(s) : b < i /\ Disables(s[b])
    BY <1>4, <1>5 DEF OffScript
  <1> QED
    BY <1>2, <1>6

LEMMA CalmIsOn == ASSUME NEW s, Calm(s) PROVE OnScript(s)
  BY DEF Calm, NoEnable, OnScript

\* With the monitor off any script that leaves it off will do.
LEMMA QuietIsOff ==
  ASSUME NEW s \in Seq(Op), NoEnable(s), C["CME0"] = 0
  PROVE  OffScript(s)
  BY DEF OffScript

-----------------------------------------------------------------------------
\* The building blocks of the scripts.

LEMMA OneOp ==
  ASSUME NEW o \in Op
  PROVE  <<o>> \in Seq(Op) /\ Len(<<o>>) = 1 /\ <<o>>[1] = o
  OBVIOUS

LEMMA EmptyCalm == Calm(<<>>)
  BY DEF Calm, NoEnable, NoSelect

LEMMA WriteTyped ==
  ASSUME NEW D \in SUBSET Fields, NEW f \in [D -> Int]
  PROVE  Write(f) \in Seq(Op) /\ WriteOr(f) \in Seq(Op)
PROOF
  <1>1. f \in Settings
    BY DEF Settings
  <1>2. [op |-> "write", fields |-> f] \in Op /\ [op |-> "or", fields |-> f] \in Op
    BY <1>1 DEF Op
  <1> QED
    BY <1>2, OneOp DEF Write, WriteOr

LEMMA WriteNoEnable ==
  ASSUME NEW D \in SUBSET Fields, NEW f \in [D -> Int], "CME0" \in D => f["CME0"] = 0
  PROVE  NoEnable(Write(f)) /\ NoEnable(WriteOr(f))
  BY DEF NoEnable, Enables, Write, WriteOr

LEMMA WriteNoSelect ==
  ASSUME NEW D \in SUBSET Fields, NEW f \in [D -> Int], "IREFS" \in D => f["IREFS"] = 0
  PROVE  NoSelect(Write(f)) /\ NoSelect(WriteOr(f))
  BY DEF NoSelect, Selects, Write, WriteOr

\* A write to other fields.
LEMMA WriteCalm ==
  ASSUME NEW D \in SUBSET Fields, NEW f \in [D -> Int],
         "CME0" \in D => f["CME0"] = 0, "IREFS" \in D => f["IREFS"] = 0
  PROVE  Calm(Write(f)) /\ Calm(WriteOr(f))
  BY WriteTyped, WriteNoEnable, WriteNoSelect DEF Calm

LEMMA AwaitCalm ==
  ASSUME NEW bit \in Bits, NEW value \in Int, NEW error \in Int
  PROVE  Calm(Await(bit, value, error))
PROOF
  <1> DEFINE o == [op |-> "await", bit |-> bit, value |-> value, error |-> error]
  <1>1. o \in Op
    BY DEF Op
  <1>2. ~Enables(o) /\ ~Selects(o)
    BY DEF Enables, Selects
  <1>3. Await(bit, value, error) = <<o>>
    BY DEF Await
  <1> HIDE DEF o
  <1> QED
    BY <1>1, <1>2, <1>3, OneOp DEF Calm, NoEnable, NoSelect

LEMMA ClearsCalm ==
  /\ \A x \in Int : Calm(Write([CLKS |-> x])) /\ Calm(WriteOr([CLKS |-> x]))
  /\ \A x, y \in Int : Calm(Oscillator(x, y))
  /\ \A x \in Int : Calm(ToClock(x))
  /\ \A x \in Int : Calm(LowPower(x)) /\ Calm(SelectIrc(x)) /\ Calm(AwaitIrc(x))
  /\ Calm(ClockMonitor(0)) /\ Calm(AwaitInternal) /\ Calm(AwaitPll)
  /\ Calm(FllInstead) /\ Calm(AwaitFll)
PROOF
  <1>1. ASSUME NEW x \in Int PROVE Calm(Write([CLKS |-> x])) /\ Calm(WriteOr([CLKS |-> x]))
    BY WriteCalm, [CLKS |-> x] \in [{"CLKS"} -> Int], {"CLKS"} \in SUBSET Fields DEF Fields
  <1>2. ASSUME NEW x \in Int, NEW y \in Int PROVE Calm(Oscillator(x, y))
    BY WriteCalm, [RANGE0 |-> x, EREFS0 |-> y] \in [{"RANGE0", "EREFS0"} -> Int],
       {"RANGE0", "EREFS0"} \in SUBSET Fields DEF Fields, Oscillator
  <1>3. ASSUME NEW x \in Int PROVE Calm(ToClock(x))
    BY AwaitCalm, 24 + x \in Int DEF ToClock, Bits
  <1>4. ASSUME NEW x \in Int PROVE Calm(LowPower(x))
    BY WriteCalm, [LP |-> x] \in [{"LP"} -> Int], {"LP"} \in SUBSET Fields DEF Fields, LowPower
  <1>5. ASSUME NEW x \in Int PROVE Calm(SelectIrc(x))
    BY WriteCalm, [IRCS |-> x] \in [{"IRCS"} -> Int], {"IRCS"} \in SUBSET Fields DEF Fields, SelectIrc
  <1>6. ASSUME NEW x \in Int PROVE Calm(AwaitIrc(x))
    BY AwaitCalm, 19 + x \in Int DEF AwaitIrc, Bits
  <1>7. Calm(ClockMonitor(0))
    BY WriteCalm, [CME0 |-> 0] \in [{"CME0"} -> Int], {"CME0"} \in SUBSET Fields DEF Fields, ClockMonitor
  <1>8. Calm(AwaitInternal) /\ Calm(AwaitFll)
    BY AwaitCalm DEF AwaitInternal, AwaitFll, Bits
  <1>9. Calm(AwaitPll)
    BY AwaitCalm, ConcatCalm DEF AwaitPll, Bits
  <1>10. Calm(FllInstead)
    BY WriteCalm, [PLLS |-> 0] \in [{"PLLS"} -> Int], {"PLLS"} \in SUBSET Fields DEF Fields, FllInstead
  <1> QED
    BY <1>1, <1>2, <1>3, <1>4, <1>5, <1>6, <1>7, <1>8, <1>9, <1>10

LEMMA FiveFinite ==
  ASSUME NEW a, NEW b, NEW c, NEW d, NEW e
  PROVE  IsFiniteSet({a, b, c, d, e})
PROOF
  <1>1. IsFiniteSet({a})
    BY FS_Singleton
  <1>2. IsFiniteSet({a} \cup {b})
    BY <1>1, FS_AddElement
  <1>3. IsFiniteSet({a} \cup {b} \cup {c})
    BY <1>2, FS_AddElement
  <1>4. IsFiniteSet({a} \cup {b} \cup {c} \cup {d})
    BY <1>3, FS_AddElement
  <1>5. IsFiniteSet({a} \cup {b} \cup {c} \cup {d} \cup {e})
    BY <1>4, FS_AddElement
  <1>6. {a, b, c, d, e} = {a} \cup {b} \cup {c} \cup {d} \cup {e}
    OBVIOUS
  <1> QED
    BY <1>5, <1>6

LEMMA FrdivTyped == frdiv_val \in Int
PROOF
  <1>1. \E a, b, c, d, e \in Int : FrdivLimits = {a, b, c, d, e}
    BY SMT DEF FrdivLimits
  <1>2. PICK a, b, c, d, e \in Int : FrdivLimits = {a, b, c, d, e}
    BY ONLY <1>1
  <1>3. IsFiniteSet({a, b, c, d, e})
    BY FiveFinite
  <1>4. IsFiniteSet(FrdivLimits)
    BY ONLY <1>2, <1>3
  <1>5. IsFiniteSet({f \in FrdivLimits : crystal > f})
    BY <1>4, FS_Subset
  <1> QED
    BY <1>5, FS_CardinalityType DEF frdiv_val

LEMMA RangeTyped == range_val \in Int
  BY DEF range_val

LEMMA PllCalm ==
  ASSUME NEW pll \in PllSettings
  PROVE  Calm(Pll(pll))
PROOF
  <1>1. pll[1] - 1 \in Int /\ pll[2] - 24 \in Int
    BY PllSettingsAssumption
  <1>2. Calm(Write([PRDIV0 |-> pll[1] - 1]))
    BY <1>1, WriteCalm, [PRDIV0 |-> pll[1] - 1] \in [{"PRDIV0"} -> Int],
       {"PRDIV0"} \in SUBSET Fields DEF Fields
  <1>3. Calm(Write([VDIV0 |-> pll[2] - 24, PLLS |-> 1]))
    BY <1>1, WriteCalm, [VDIV0 |-> pll[2] - 24, PLLS |-> 1] \in [{"VDIV0", "PLLS"} -> Int],
       {"VDIV0", "PLLS"} \in SUBSET Fields DEF Fields
  <1> QED
    BY <1>2, <1>3, ConcatCalm DEF Pll

LEMMA SelectPllCalm == Calm(SelectPll)
  BY ClearsCalm, ConcatCalm DEF SelectPll

LEMMA ToExternalCalm == Calm(ToExternal)
  BY ClearsCalm, ConcatCalm DEF ToExternal

LEMMA ExternalLeads ==
  ASSUME NEW clks \in Int, NEW erefs \in {0, 1}
  PROVE  Calm(ExternalReference(clks, erefs)) /\ Leads(ExternalReference(clks, erefs))
PROOF
  <1> DEFINE f == [CLKS |-> clks, FRDIV |-> frdiv_val, IREFS |-> 0]
             w == Write(f)
             m == IF erefs = 1 THEN Await("OSCINIT0", 1, 35) ELSE <<>>
             a == Await("IREFST", 0, 17)
  <1>1. f \in [{"CLKS", "FRDIV", "IREFS"} -> Int]
    BY FrdivTyped
  <1>2. Calm(w)
    BY <1>1, WriteCalm, {"CLKS", "FRDIV", "IREFS"} \in SUBSET Fields DEF Fields
  <1>3. Len(w) = 1 /\ Clears(w[1])
    BY DEF Write, Clears
  <1>4. Calm(a)
    BY AwaitCalm DEF Bits
  <1>5. Len(a) = 1 /\ AwaitsExternal(a[1])
    BY DEF Await, AwaitsExternal
  <1>6. Calm(m)
    BY EmptyCalm, AwaitCalm DEF Bits
  <1>7. ExternalReference(clks, erefs) = (w \o m) \o a
    BY DEF ExternalReference
  <1> HIDE DEF w, m, a
  <1>8. Calm(w \o m) /\ Calm((w \o m) \o a)
    BY <1>2, <1>4, <1>6, ConcatCalm
  <1>9. Leads((w \o m) \o a)
    <2>1. w \in Seq(Op) /\ m \in Seq(Op) /\ a \in Seq(Op)
      BY <1>2, <1>4, <1>6 DEF Calm
    <2>2. /\ w \o m \in Seq(Op) /\ Len(w \o m) = 1 + Len(m) /\ Len(m) \in Nat
      <3>1. w \o m \in Seq(Op) /\ Len(w \o m) = Len(w) + Len(m)
        BY ONLY <2>1, ConcatProperties
      <3>2. Len(m) \in Nat
        BY ONLY <2>1, LenProperties
      <3> QED
        BY ONLY <3>1, <3>2, <1>3
    <2>3. 1 \in 1 .. Len(w) + Len(m) /\ 1 <= Len(w)
      BY <2>2, <1>3
    <2>4. (w \o m)[1] = w[1]
      BY ONLY <2>1, <2>3, ConcatProperties
    <2>5. Len((w \o m) \o a) = Len(m) + 2
      BY <2>1, <2>2, <1>5, ConcatProperties
    <2>6. /\ 1 \in 1 .. Len(w \o m) + Len(a) /\ 1 <= Len(w \o m)
          /\ Len(m) + 2 \in 1 .. Len(w \o m) + Len(a) /\ ~(Len(m) + 2 <= Len(w \o m))
          /\ Len(m) + 2 - Len(w \o m) = 1
      BY <2>2, <1>5
    <2>7. ((w \o m) \o a)[1] = (w \o m)[1]
      BY ONLY <2>1, <2>2, <2>6, ConcatProperties
    <2>8. ((w \o m) \o a)[Len(m) + 2] = a[1]
      <3>1. ((w \o m) \o a)[Len(m) + 2] = a[Len(m) + 2 - Len(w \o m)]
        BY ONLY <2>1, <2>2, <2>6, ConcatProperties
      <3> QED
        BY ONLY <3>1, <2>6
    <2>9. /\ Len((w \o m) \o a) = Len(m) + 2
          /\ ((w \o m) \o a)[1] = w[1] /\ ((w \o m) \o a)[Len(m) + 2] = a[1]
      BY ONLY <2>4, <2>5, <2>7, <2>8
    <2>10. 1 \in 1 .. Len(m) + 2 /\ Len(m) + 2 \in 1 .. Len(m) + 2 /\ 1 < Len(m) + 2
      BY <2>2
    <2> QED
      BY <2>9, <2>10, <1>3, <1>5 DEF Leads
  <1> QED
    BY <1>7, <1>8, <1>9

LEMMA MonitorOnTyped == ClockMonitor(1) \in Seq(Op) /\ NoSelect(ClockMonitor(1))
PROOF
  <1>1. [CME0 |-> 1] \in [{"CME0"} -> Int] /\ {"CME0"} \in SUBSET Fields
    BY DEF Fields
  <1> QED
    BY <1>1, WriteTyped, WriteNoSelect DEF ClockMonitor

LEMMA MonitorOffHushes == Hushes(ClockMonitor(0))
  BY DEF Hushes, Disables, ClockMonitor, Write

LEMMA ConcatHushes ==
  ASSUME NEW s \in Seq(Op), NEW t \in Seq(Op), Hushes(t)
  PROVE  Hushes(s \o t)
PROOF
  <1>1. /\ Len(s \o t) = Len(s) + Len(t)
        /\ Len(s) \in Nat /\ Len(t) \in Nat
        /\ \A i \in 1 .. Len(s) + Len(t) :
              (s \o t)[i] = IF i <= Len(s) THEN s[i] ELSE t[i - Len(s)]
    BY ConcatProperties, LenProperties
  <1>2. PICK b \in 1 .. Len(t) : Disables(t[b])
    BY DEF Hushes
  <1>3. Len(s) + b \in 1 .. Len(s \o t) /\ (s \o t)[Len(s) + b] = t[b]
    BY <1>1
  <1> QED
    BY <1>2, <1>3 DEF Hushes

\* The writes that select the internal reference.
LEMMA InternalTyped ==
  /\ \A x \in Int : InternalReference(x) \in Seq(Op) /\ NoEnable(InternalReference(x))
  /\ Write([IREFS |-> 1]) \in Seq(Op) /\ NoEnable(Write([IREFS |-> 1]))
  /\ WriteOr([CLKS |-> 1, IREFS |-> 1]) \in Seq(Op)
  /\ NoEnable(WriteOr([CLKS |-> 1, IREFS |-> 1]))
PROOF
  <1>1. {"CLKS", "IREFS"} \in SUBSET Fields /\ {"IREFS"} \in SUBSET Fields
    BY DEF Fields
  <1>2. ASSUME NEW x \in Int
        PROVE  InternalReference(x) \in Seq(Op) /\ NoEnable(InternalReference(x))
    BY <1>1, [CLKS |-> x, IREFS |-> 1] \in [{"CLKS", "IREFS"} -> Int],
       WriteTyped, WriteNoEnable DEF InternalReference
  <1>3. Write([IREFS |-> 1]) \in Seq(Op) /\ NoEnable(Write([IREFS |-> 1]))
    BY <1>1, [IREFS |-> 1] \in [{"IREFS"} -> Int], WriteTyped, WriteNoEnable
  <1>4. /\ WriteOr([CLKS |-> 1, IREFS |-> 1]) \in Seq(Op)
        /\ NoEnable(WriteOr([CLKS |-> 1, IREFS |-> 1]))
    BY <1>1, [CLKS |-> 1, IREFS |-> 1] \in [{"CLKS", "IREFS"} -> Int],
       WriteTyped, WriteNoEnable
  <1> QED
    BY <1>2, <1>3, <1>4

-----------------------------------------------------------------------------
\* The steps.

LEMMA MonitorInit == Init => MonitorInv
PROOF
  <1> SUFFICES ASSUME Init PROVE MonitorInv
    OBVIOUS
  <1>1. OffScript(<<>>)
    BY DEF OffScript, NoEnable
  <1>2. "CME0" \in Fields /\ "CME0" # "IREFS"
    BY DEF Fields
  <1>3. DOMAIN C = Fields /\ C["CME0"] = 0
    BY <1>2 DEF Init
  <1>4. DOMAIN S = Bits
    BY DEF Init
  <1>5. todo = <<>>
    BY DEF Init
  <1> QED
    BY <1>1, <1>3, <1>4, <1>5 DEF MonitorInv

LEMMA TailOfScript ==
  ASSUME todo \in Seq(Op), todo # <<>>
  PROVE  /\ Tail(todo) \in Seq(Op) /\ Head(todo) = todo[1] /\ Head(todo) \in Op
         /\ Len(todo) \in Nat /\ Len(todo) >= 1 /\ Len(Tail(todo)) = Len(todo) - 1
         /\ \A i \in 1 .. Len(Tail(todo)) : Tail(todo)[i] = todo[i + 1]
PROOF
  <1>1. /\ Head(todo) \in Op /\ Tail(todo) \in Seq(Op) /\ Len(Tail(todo)) = Len(todo) - 1
        /\ \A i \in 1 .. Len(Tail(todo)) : Tail(todo)[i] = todo[i + 1]
    BY HeadTailProperties
  <1>2. Len(todo) \in Nat /\ Len(todo) >= 1 /\ Head(todo) = todo[1]
    OBVIOUS
  <1> QED
    BY <1>1, <1>2

LEMMA TimeOutKeeps == MonitorInv /\ TimeOut => MonitorInv'
  BY DEF MonitorInv, TimeOut, OffScript, NoEnable

\* The reference moves only to the one that is selected.
LEMMA FollowKeeps ==
  ASSUME MonitorInv, NEW bit \in Bits, Follow(bit)
  PROVE  MonitorInv'
PROOF
  <1>1. C' = C /\ todo' = todo
    BY DEF Follow
  <1>2. DOMAIN S' = Bits
    BY DEF Follow, MonitorInv
  <1>3. C["IREFS"] = 0 /\ S["IREFST"] = 0 => S'["IREFST"] = 0
    <2>1. CASE bit = "IREFST"
      BY <2>1 DEF Follow, Target
    <2>2. CASE bit # "IREFST"
      BY <2>2 DEF Follow, MonitorInv, Bits
    <2> QED
      BY <2>1, <2>2
  <1>4. OnScript(todo) => OnScript(todo)'
    BY <1>1, <1>3 DEF OnScript
  <1>5. OffScript(todo) => OffScript(todo)'
    BY <1>1 DEF OffScript
  <1> QED
    BY <1>1, <1>2, <1>3, <1>4, <1>5 DEF MonitorInv

LEMMA CallKeeps ==
  ASSUME MonitorInv,
         NEW name, NEW from, NEW error, NEW script, NEW out, NEW to,
         Call(name, from, error, script, out, to),
         In(from) => OnScript(script) \/ OffScript(script)
  PROVE  MonitorInv'
PROOF
  <1>1. C' = C /\ S' = S
    BY DEF Call
  <1>2. CASE todo' = todo
    <2>1. OnScript(todo) => OnScript(todo)'
      BY <1>1, <1>2 DEF OnScript
    <2>2. OffScript(todo) => OffScript(todo)'
      BY <1>1, <1>2 DEF OffScript
    <2> QED
      BY <1>1, <1>2, <2>1, <2>2 DEF MonitorInv
  <1>3. CASE In(from) /\ todo' = script
    <2>1. OnScript(script) => OnScript(todo)'
      BY <1>1, <1>3 DEF OnScript
    <2>2. OffScript(script) => OffScript(todo)'
      BY <1>1, <1>3 DEF OffScript
    <2> QED
      BY <1>1, <1>3, <2>1, <2>2 DEF MonitorInv
  <1> QED
    BY <1>2, <1>3 DEF Call

\* A wait that finds the external reference in use.
LEMMA FoundKeeps ==
  ASSUME MonitorInv, Found
  PROVE  MonitorInv'
PROOF
  <1>1. C' = C /\ S' = S /\ todo' = Tail(todo) /\ todo # <<>>
    BY DEF Found, Advance
  <1>2. todo \in Seq(Op)
    BY DEF MonitorInv, OnScript, OffScript
  <1> DEFINE tail == Tail(todo)
  <1>3. /\ tail \in Seq(Op)
        /\ Len(todo) \in Nat /\ Len(tail) = Len(todo) - 1
        /\ \A i \in 1 .. Len(tail) : i + 1 \in 1 .. Len(todo) /\ tail[i] = todo[i + 1]
    BY <1>1, <1>2, TailOfScript
  <1>4. AwaitsExternal(todo[1]) => S["IREFST"] = 0
    BY <1>1, <1>2, TailOfScript DEF Found, AwaitsExternal
  <1>5. ~Clears(todo[1]) /\ ~Disables(todo[1])
    BY <1>1, <1>2, TailOfScript DEF Found, Clears, Disables
  <1> HIDE DEF tail
  <1>6. ASSUME OnScript(todo) PROVE OnScript(tail)
    <2>1. NoSelect(tail)
      BY <1>3, <1>6 DEF OnScript, NoSelect
    <2>2. SUFFICES ASSUME NEW i \in 1 .. Len(tail), Enables(tail[i]),
                          ~(C["IREFS"] = 0 /\ S["IREFST"] = 0)
                   PROVE  \E b \in 1 .. Len(tail) :
                            /\ b < i /\ AwaitsExternal(tail[b])
                            /\ C["IREFS"] = 0
                               \/ \E a \in 1 .. Len(tail) : a < b /\ Clears(tail[a])
      BY <1>3, <2>1 DEF OnScript
    <2>3. PICK b \in 1 .. Len(todo) :
            /\ b < i + 1 /\ AwaitsExternal(todo[b])
            /\ C["IREFS"] = 0 \/ \E a \in 1 .. Len(todo) : a < b /\ Clears(todo[a])
      BY <1>3, <1>6, <2>2 DEF OnScript
    <2>4. b # 1
      <3>1. \A a \in 1 .. Len(todo) : ~(a < 1)
        OBVIOUS
      <3> QED
        BY <1>4, <2>2, <2>3, <3>1
    <2>5. /\ b - 1 \in 1 .. Len(tail) /\ b - 1 < i /\ (b - 1) + 1 = b
          /\ AwaitsExternal(tail[b - 1])
      BY <1>3, <2>2, <2>3, <2>4
    <2>6. C["IREFS"] = 0 \/ \E a \in 1 .. Len(tail) : a < b - 1 /\ Clears(tail[a])
      <3>1. CASE C["IREFS"] = 0
        BY <3>1
      <3>2. CASE C["IREFS"] # 0
        <4>1. PICK a \in 1 .. Len(todo) : a < b /\ Clears(todo[a])
          BY <2>3, <3>2
        <4>2. a # 1
          BY <1>5, <4>1
        <4>3. a - 1 \in 1 .. Len(tail) /\ a - 1 < b - 1 /\ (a - 1) + 1 = a /\ Clears(tail[a - 1])
          BY <1>3, <4>1, <4>2
        <4> QED
          BY <4>3
      <3> QED
        BY <3>1, <3>2
    <2> QED
      BY <2>5, <2>6
  <1>7. ASSUME OffScript(todo) PROVE OffScript(tail)
    <2>1. NoEnable(tail)
      BY <1>3, <1>7 DEF OffScript, NoEnable
    <2>2. SUFFICES ASSUME NEW i \in 1 .. Len(tail), Selects(tail[i]), C["CME0"] # 0
                   PROVE  \E b \in 1 .. Len(tail) : b < i /\ Disables(tail[b])
      BY <1>3, <2>1 DEF OffScript
    <2>3. PICK b \in 1 .. Len(todo) : b < i + 1 /\ Disables(todo[b])
      BY <1>3, <1>7, <2>2 DEF OffScript
    <2>4. b # 1
      BY <1>5, <2>3
    <2>5. /\ b - 1 \in 1 .. Len(tail) /\ b - 1 < i /\ (b - 1) + 1 = b
          /\ Disables(tail[b - 1])
      BY <1>3, <2>2, <2>3, <2>4
    <2> QED
      BY <2>5
  <1>8. todo' = tail
    BY <1>1 DEF tail
  <1>9. OnScript(tail) => OnScript(todo)'
    BY <1>1, <1>8 DEF OnScript
  <1>10. OffScript(tail) => OffScript(todo)'
    BY <1>1, <1>8 DEF OffScript
  <1> QED
    BY <1>1, <1>6, <1>7, <1>9, <1>10 DEF MonitorInv

\* A write.
LEMMA StepKeeps ==
  ASSUME MonitorInv, Step
  PROVE  MonitorInv'
PROOF
  <1> DEFINE o == todo[1]
             tail == Tail(todo)
  <1>1. todo' = tail /\ todo # <<>> /\ S'["IREFST"] = S["IREFST"] /\ DOMAIN S' = Bits
    BY DEF Step, Advance, MonitorInv, Bits
  <1>2. todo \in Seq(Op)
    BY DEF MonitorInv, OnScript, OffScript
  <1>3. /\ tail \in Seq(Op)
        /\ Len(todo) \in Nat /\ Len(todo) >= 1 /\ Len(tail) = Len(todo) - 1
        /\ \A i \in 1 .. Len(tail) : i + 1 \in 1 .. Len(todo) /\ tail[i] = todo[i + 1]
    BY <1>1, <1>2, TailOfScript
  <1>4. Head(todo) = o
    BY <1>1, <1>2, TailOfScript
  <1>5. /\ o.op \in {"write", "or"}
        /\ C' = [f \in Fields |->
                   IF f \notin DOMAIN o.fields THEN C[f]
                   ELSE IF o.op = "or" THEN Or(C[f], o.fields[f]) ELSE o.fields[f]]
    BY <1>4 DEF Step
  <1>6. ~AwaitsExternal(o)
    BY <1>5 DEF AwaitsExternal
  <1> HIDE DEF o, tail
  <1>7. /\ DOMAIN C' = Fields
        /\ C'["CME0"] = IF "CME0" \notin DOMAIN o.fields THEN C["CME0"]
              ELSE IF o.op = "or" THEN Or(C["CME0"], o.fields["CME0"]) ELSE o.fields["CME0"]
        /\ C'["IREFS"] = IF "IREFS" \notin DOMAIN o.fields THEN C["IREFS"]
              ELSE IF o.op = "or" THEN Or(C["IREFS"], o.fields["IREFS"]) ELSE o.fields["IREFS"]
    BY <1>5 DEF Fields
  <1>8. \A x : Or(x, 0) = x
    BY DEF Or
  <1>9. ~Selects(o) => C'["IREFS"] = C["IREFS"] \/ C'["IREFS"] = 0
    BY <1>5, <1>7, <1>8 DEF Selects
  <1>10. ~Enables(o) => C'["CME0"] = C["CME0"] \/ C'["CME0"] = 0
    BY <1>5, <1>7, <1>8 DEF Enables
  <1>11. Clears(o) => C'["IREFS"] = 0
    BY <1>7 DEF Clears
  <1>12. Disables(o) => C'["CME0"] = 0
    BY <1>7 DEF Disables
  <1>13. 1 \in 1 .. Len(todo) /\ todo[1] = o
    BY <1>3 DEF o
  <1>14. ASSUME OnScript(todo)
         PROVE  /\ OnScript(todo)'
                /\ C'["CME0"] # 0 => C'["IREFS"] = 0 /\ S'["IREFST"] = 0
    <2>1. ~Selects(o)
      BY <1>13, <1>14 DEF OnScript, NoSelect
    <2>2. NoSelect(tail)
      BY <1>3, <1>14 DEF OnScript, NoSelect
    <2>3. Enables(o) => C["IREFS"] = 0 /\ S["IREFST"] = 0
      BY <1>13, <1>14, \A b \in 1 .. Len(todo) : ~(b < 1) DEF OnScript
    <2>4. C'["CME0"] # 0 => C'["IREFS"] = 0 /\ S'["IREFST"] = 0
      BY <1>1, <1>9, <1>10, <2>1, <2>3 DEF MonitorInv
    <2>5. ASSUME NEW i \in 1 .. Len(tail), Enables(tail[i]),
                 ~(C'["IREFS"] = 0 /\ S'["IREFST"] = 0)
          PROVE  \E b \in 1 .. Len(tail) :
                   /\ b < i /\ AwaitsExternal(tail[b])
                   /\ C'["IREFS"] = 0
                      \/ \E a \in 1 .. Len(tail) : a < b /\ Clears(tail[a])
      <3>1. ~(C["IREFS"] = 0 /\ S["IREFST"] = 0)
        BY <1>1, <1>9, <2>1, <2>5
      <3>2. PICK b \in 1 .. Len(todo) :
              /\ b < i + 1 /\ AwaitsExternal(todo[b])
              /\ C["IREFS"] = 0 \/ \E a \in 1 .. Len(todo) : a < b /\ Clears(todo[a])
        BY <1>3, <1>14, <2>5, <3>1 DEF OnScript
      <3>3. b # 1
        BY <1>6, <1>13, <3>2
      <3>4. /\ b - 1 \in 1 .. Len(tail) /\ b - 1 < i /\ (b - 1) + 1 = b
            /\ AwaitsExternal(tail[b - 1])
        BY <1>3, <2>5, <3>2, <3>3
      <3>5. C'["IREFS"] = 0 \/ \E a \in 1 .. Len(tail) : a < b - 1 /\ Clears(tail[a])
        <4>1. CASE C["IREFS"] = 0
          BY <4>1, <1>9, <2>1
        <4>2. CASE C["IREFS"] # 0
          <5>1. PICK a \in 1 .. Len(todo) : a < b /\ Clears(todo[a])
            BY <3>2, <4>2
          <5>2. CASE a = 1
            BY <1>11, <1>13, <5>1, <5>2
          <5>3. CASE a # 1
            <6>1. /\ a - 1 \in 1 .. Len(tail) /\ a - 1 < b - 1 /\ (a - 1) + 1 = a
                  /\ Clears(tail[a - 1])
              BY <1>3, <5>1, <5>3
            <6> QED
              BY <6>1
          <5> QED
            BY <5>2, <5>3
        <4> QED
          BY <4>1, <4>2
      <3> QED
        BY <3>4, <3>5
    <2> QED
      BY <1>1, <1>3, <2>2, <2>4, <2>5 DEF OnScript
  <1>15. ASSUME OffScript(todo)
         PROVE  /\ OffScript(todo)'
                /\ C'["CME0"] # 0 => C'["IREFS"] = 0 /\ S'["IREFST"] = 0
    <2>1. ~Enables(o)
      BY <1>13, <1>15 DEF OffScript, NoEnable
    <2>2. NoEnable(tail)
      BY <1>3, <1>15 DEF OffScript, NoEnable
    <2>3. Selects(o) => C["CME0"] = 0
      BY <1>13, <1>15, \A b \in 1 .. Len(todo) : ~(b < 1) DEF OffScript
    <2>4. C'["CME0"] # 0 => C'["IREFS"] = 0 /\ S'["IREFST"] = 0
      BY <1>1, <1>9, <1>10, <2>1, <2>3 DEF MonitorInv
    <2>5. ASSUME NEW i \in 1 .. Len(tail), Selects(tail[i]), C'["CME0"] # 0
          PROVE  \E b \in 1 .. Len(tail) : b < i /\ Disables(tail[b])
      <3>1. C["CME0"] # 0
        BY <1>10, <2>1, <2>5
      <3>2. PICK b \in 1 .. Len(todo) : b < i + 1 /\ Disables(todo[b])
        BY <1>3, <1>15, <2>5, <3>1 DEF OffScript
      <3>3. b # 1
        BY <1>12, <1>13, <2>5, <3>2
      <3>4. /\ b - 1 \in 1 .. Len(tail) /\ b - 1 < i /\ (b - 1) + 1 = b
            /\ Disables(tail[b - 1])
        BY <1>3, <2>5, <3>2, <3>3
      <3> QED
        BY <3>4
    <2> QED
      BY <1>1, <1>3, <2>2, <2>4, <2>5 DEF OffScript
  <1> QED
    BY <1>1, <1>7, <1>14, <1>15 DEF MonitorInv

-----------------------------------------------------------------------------
\* The scripts.

LEMMA ReferenceStarted ==
  ASSUME NEW x \in Int, NEW clks \in Int, NEW erefs \in {0, 1}
  PROVE  LET s == Oscillator(x, erefs) \o ExternalReference(clks, erefs)
         IN  Calm(s) /\ Leads(s) /\ Calm(s \o ToClock(clks)) /\ Leads(s \o ToClock(clks))
PROOF
  <1>1. Calm(Oscillator(x, erefs)) /\ Calm(ToClock(clks))
    BY ClearsCalm
  <1>2. Calm(ExternalReference(clks, erefs)) /\ Leads(ExternalReference(clks, erefs))
    BY ExternalLeads
  <1> DEFINE s == Oscillator(x, erefs) \o ExternalReference(clks, erefs)
  <1>3. Calm(s)
    BY <1>1, <1>2, ConcatCalm
  <1>4. Leads(s)
    BY <1>1, <1>2, ConcatLeads DEF Calm
  <1> HIDE DEF s
  <1>5. Calm(s \o ToClock(clks)) /\ Leads(s \o ToClock(clks))
    BY <1>1, <1>3, <1>4, ConcatCalm, ConcatLeads DEF Calm
  <1> QED
    BY <1>3, <1>4, <1>5 DEF s

LEMMA IntoExternal ==
  ASSUME NEW x \in Int, NEW clks \in Int, NEW erefs \in {0, 1}
  PROVE  OnScript(Oscillator(x, erefs) \o ExternalReference(clks, erefs)
                  \o ToClock(clks) \o ClockMonitor(1))
  BY ReferenceStarted, MonitorOnTyped, LeadsThenOn

\* With the clock monitor off first, the internal reference may be selected.
LEMMA IntoInternal ==
  ASSUME NEW s, NEW t, NEW u, Calm(s), t \in Seq(Op), NoEnable(t), Calm(u)
  PROVE  OffScript(s \o ClockMonitor(0) \o t \o u) /\ OffScript(ClockMonitor(0) \o t \o u)
PROOF
  <1>1. Calm(ClockMonitor(0)) /\ Hushes(ClockMonitor(0))
    BY ClearsCalm, MonitorOffHushes
  <1>2. Calm(s \o ClockMonitor(0)) /\ Hushes(s \o ClockMonitor(0))
    BY <1>1, ConcatCalm, ConcatHushes DEF Calm
  <1>3. OffScript((s \o ClockMonitor(0)) \o t) /\ OffScript(ClockMonitor(0) \o t)
    BY <1>1, <1>2, HushesThenOff
  <1> QED
    BY <1>3, OffThenCalm

\* In FBI the clock monitor is off already.
LEMMA MonitorOffInFBI == MonitorInv /\ In(FBI) => C["CME0"] = 0
PROOF
  <1>1. In(FBI) => S["IREFST"] = 1
    BY DEF In, FBI, FEI, FEE, BLPI, FBE, PBE, BLPE, PEE
  <1> QED
    BY <1>1 DEF MonitorInv

LEMMA FromFLLKeeps ==
  ASSUME MonitorInv, FromFLL
  PROVE  MonitorInv'
PROOF
  <1>1. CASE fei_fbe
    <2>1. PICK erefs \in {0, 1} :
            Call("fei_fbe", FEI, OscError(erefs),
                 Oscillator(range_val, erefs) \o ExternalReference(2, erefs)
                     \o ToClock(2) \o ClockMonitor(1),
                 crystal, FBE)
      BY <1>1 DEF fei_fbe
    <2>2. OnScript(Oscillator(range_val, erefs) \o ExternalReference(2, erefs)
                       \o ToClock(2) \o ClockMonitor(1))
      BY RangeTyped, IntoExternal
    <2> QED
      BY <2>1, <2>2, CallKeeps
  <1>2. CASE fei_fbi
    <2>1. PICK irc_freq \in IrcFreqs, irc_select \in {0, 1} :
            Call("fei_fbi", FEI, IrcError(irc_freq, irc_select),
                 SelectIrc(irc_select) \o Write([CLKS |-> 1]) \o AwaitIrc(irc_select) \o ToClock(1),
                 IrcOut(irc_freq, irc_select), FBI)
      BY <1>2 DEF fei_fbi
    <2>2. /\ Calm(SelectIrc(irc_select)) /\ Calm(Write([CLKS |-> 1]))
          /\ Calm(AwaitIrc(irc_select)) /\ Calm(ToClock(1))
      BY ClearsCalm
    <2>3. OnScript(SelectIrc(irc_select) \o Write([CLKS |-> 1]) \o AwaitIrc(irc_select) \o ToClock(1))
      BY <2>2, ConcatCalm, CalmIsOn
    <2> QED
      BY <2>1, <2>3, CallKeeps
  <1>3. CASE fei_fee
    <2> DEFINE out == fll_freq(FllRef(range_val, frdiv_val))
    <2>1. PICK erefs \in {0, 1} :
            Call("fei_fee", FEI, OscError(erefs),
                 Oscillator(range_val, erefs)
                     \o IF FllError(out) # 0 THEN <<>>
                        ELSE ExternalReference(0, erefs) \o ClockMonitor(1),
                 out, FEE)
      BY <1>3 DEF fei_fee
    <2>2. OnScript(ExternalReference(0, erefs) \o ClockMonitor(1)) /\ OnScript(<<>>)
      BY ExternalLeads, MonitorOnTyped, LeadsThenOn, EmptyCalm, CalmIsOn
    <2>3. Calm(Oscillator(range_val, erefs))
      BY RangeTyped, ClearsCalm
    <2>4. OnScript(Oscillator(range_val, erefs)
                     \o IF FllError(out) # 0 THEN <<>>
                        ELSE ExternalReference(0, erefs) \o ClockMonitor(1))
      BY <2>2, <2>3, CalmThenOn
    <2> QED
      BY <2>1, <2>4, CallKeeps
  <1>4. CASE fee_fbe
    <2>1. Call("fee_fbe", FEE, 0, ToExternal, crystal, FBE)
      BY <1>4 DEF fee_fbe
    <2> QED
      BY <2>1, ToExternalCalm, CalmIsOn, CallKeeps
  <1>5. CASE fee_fbi
    <2> DEFINE ors == WriteOr([CLKS |-> 1, IREFS |-> 1])
    <2>1. PICK irc_freq \in IrcFreqs, irc_select \in {0, 1} :
            Call("fee_fbi", FEE, IrcError(irc_freq, irc_select),
                 SelectIrc(irc_select) \o ClockMonitor(0) \o ors
                     \o AwaitIrc(irc_select) \o ToClock(1) \o AwaitInternal,
                 IrcOut(irc_freq, irc_select), FBI)
      BY <1>5 DEF fee_fbi
    <2>2. /\ Calm(SelectIrc(irc_select)) /\ Calm(AwaitIrc(irc_select))
          /\ Calm(ToClock(1)) /\ Calm(AwaitInternal)
      BY ClearsCalm
    <2>3. ors \in Seq(Op) /\ NoEnable(ors)
      BY InternalTyped
    <2> HIDE DEF ors
    <2>4. OffScript(SelectIrc(irc_select) \o ClockMonitor(0) \o ors \o AwaitIrc(irc_select))
      BY <2>2, <2>3, IntoInternal
    <2>5. OffScript(SelectIrc(irc_select) \o ClockMonitor(0) \o ors
                     \o AwaitIrc(irc_select) \o ToClock(1) \o AwaitInternal)
      BY <2>2, <2>4, OffThenCalm
    <2> QED
      BY <2>1, <2>5, CallKeeps
  <1>6. CASE fee_fei
    <2> DEFINE refs == Write([IREFS |-> 1])
    <2>1. PICK irc_freq \in IrcFreqs :
            Call("fee_fei", FEE, FllError(IrcFllFreq(irc_freq)),
                 ClockMonitor(0) \o refs \o AwaitInternal,
                 IrcFllFreq(irc_freq), FEI)
      BY <1>6 DEF fee_fei
    <2>2. refs \in Seq(Op) /\ NoEnable(refs) /\ Calm(AwaitInternal)
      BY InternalTyped, ClearsCalm
    <2> HIDE DEF refs
    <2>3. OffScript(ClockMonitor(0) \o refs \o AwaitInternal)
      BY <2>2, EmptyCalm, IntoInternal
    <2> QED
      BY <2>1, <2>3, CallKeeps
  <1>7. CASE pll_init
    <2> DEFINE range == pll_range
               err(erefs, pll) == IF OscErrorForPll(erefs) # 0
                                  THEN OscErrorForPll(erefs) ELSE PllError(pll)
    <2>1. PICK erefs \in {0, 1}, pll \in PllSettings :
            Call("pll_init", FEI, err(erefs, pll),
                 Oscillator(range, erefs)
                     \o ExternalReference(2, erefs) \o ToClock(2) \o ClockMonitor(1)
                     \o Pll(pll) \o AwaitPll \o SelectPll,
                 PllFreq(pll[1], pll[2]), PEE)
      BY <1>7 DEF pll_init, PllInit
    <2>2. range \in Int
      BY DEF pll_range
    <2> HIDE DEF range, err
    <2>3. OnScript(Oscillator(range, erefs) \o ExternalReference(2, erefs)
                       \o ToClock(2) \o ClockMonitor(1))
      BY <2>2, IntoExternal
    <2>4. Calm(Pll(pll)) /\ Calm(AwaitPll) /\ Calm(SelectPll)
      BY PllCalm, ClearsCalm, SelectPllCalm
    <2>5. OnScript(Oscillator(range, erefs)
                     \o ExternalReference(2, erefs) \o ToClock(2) \o ClockMonitor(1)
                     \o Pll(pll) \o AwaitPll \o SelectPll)
      BY <2>3, <2>4, OnThenCalm
    <2> QED
      BY <2>1, <2>5, CallKeeps
  <1> QED
    BY <1>1, <1>2, <1>3, <1>4, <1>5, <1>6, <1>7 DEF FromFLL

LEMMA FromInternalKeeps ==
  ASSUME MonitorInv, FromInternal
  PROVE  MonitorInv'
PROOF
  <1>1. CASE fbi_fbe
    <2>1. PICK erefs \in {0, 1} :
            Call("fbi_fbe", FBI, OscError(erefs),
                 Oscillator(range_val, erefs) \o ExternalReference(2, erefs)
                     \o ToClock(2) \o ClockMonitor(1),
                 crystal, FBE)
      BY <1>1 DEF fbi_fbe
    <2>2. OnScript(Oscillator(range_val, erefs) \o ExternalReference(2, erefs)
                       \o ToClock(2) \o ClockMonitor(1))
      BY RangeTyped, IntoExternal
    <2> QED
      BY <2>1, <2>2, CallKeeps
  <1>2. CASE fbi_blpi
    <2>1. PICK irc_freq \in IrcFreqs, irc_select \in {0, 1} :
            Call("fbi_blpi", FBI, 0, LowPower(1), IrcOut(irc_freq, irc_select), BLPI)
      BY <1>2 DEF fbi_blpi
    <2> QED
      BY <2>1, ClearsCalm, CalmIsOn, CallKeeps
  <1>3. CASE blpi_fbi
    <2>1. PICK irc_freq \in IrcFreqs, irc_select \in {0, 1} :
            Call("blpi_fbi", BLPI, 0, LowPower(0), IrcOut(irc_freq, irc_select), FBI)
      BY <1>3 DEF blpi_fbi
    <2> QED
      BY <2>1, ClearsCalm, CalmIsOn, CallKeeps
  <1>4. CASE fbi_fee
    <2> DEFINE out == fll_freq(FllRef(range_val, frdiv_val))
    <2>1. PICK erefs \in {0, 1} :
            Call("fbi_fee", FBI, OscError(erefs),
                 Oscillator(range_val, erefs)
                     \o IF FllError(out) # 0 THEN <<>>
                        ELSE ExternalReference(0, erefs) \o ToClock(0) \o ClockMonitor(1),
                 out, FEE)
      BY <1>4 DEF fbi_fee
    <2>2. Calm(ExternalReference(0, erefs) \o ToClock(0)) /\ Leads(ExternalReference(0, erefs) \o ToClock(0))
      <3>1. Calm(ExternalReference(0, erefs)) /\ Leads(ExternalReference(0, erefs))
        BY ExternalLeads
      <3>2. Calm(ToClock(0))
        BY ClearsCalm
      <3>3. ExternalReference(0, erefs) \in Seq(Op) /\ ToClock(0) \in Seq(Op)
        BY <3>1, <3>2 DEF Calm
      <3> QED
        BY <3>1, <3>2, <3>3, ConcatCalm, ConcatLeads
    <2>3. OnScript(ExternalReference(0, erefs) \o ToClock(0) \o ClockMonitor(1)) /\ OnScript(<<>>)
      BY <2>2, MonitorOnTyped, LeadsThenOn, EmptyCalm, CalmIsOn
    <2>4. Calm(Oscillator(range_val, erefs))
      BY RangeTyped, ClearsCalm
    <2>5. OnScript(Oscillator(range_val, erefs)
                     \o IF FllError(out) # 0 THEN <<>>
                        ELSE ExternalReference(0, erefs) \o ToClock(0) \o ClockMonitor(1))
      BY <2>3, <2>4, CalmThenOn
    <2> QED
      BY <2>1, <2>5, CallKeeps
  <1>5. CASE fbi_fei
    <2>1. PICK irc_freq \in IrcFreqs :
            Call("fbi_fei", FBI, FllError(IrcFllFreq(irc_freq)),
                 InternalReference(0) \o AwaitInternal \o ToClock(0),
                 IrcFllFreq(irc_freq), FEI)
      BY <1>5 DEF fbi_fei
    <2>2. InternalReference(0) \in Seq(Op) /\ NoEnable(InternalReference(0))
      BY InternalTyped
    <2>3. Calm(AwaitInternal) /\ Calm(ToClock(0))
      BY ClearsCalm
    <2>4. ASSUME In(FBI)
          PROVE  OffScript(InternalReference(0) \o AwaitInternal \o ToClock(0))
      <3>1. OffScript(InternalReference(0))
        BY <2>2, <2>4, MonitorOffInFBI, QuietIsOff
      <3> QED
        BY <2>3, <3>1, OffThenCalm
    <2> QED
      BY <2>1, <2>4, CallKeeps
  <1> QED
    BY <1>1, <1>2, <1>3, <1>4, <1>5 DEF FromInternal

LEMMA FromExternalKeeps ==
  ASSUME MonitorInv, FromExternal
  PROVE  MonitorInv'
PROOF
  <1>1. CASE fbe_pbe
    <2>1. PICK pll \in PllSettings :
            Call("fbe_pbe", FBE, PllError(pll), Pll(pll) \o AwaitPll, crystal, PBE)
      BY <1>1 DEF fbe_pbe
    <2>2. OnScript(Pll(pll) \o AwaitPll)
      BY PllCalm, ClearsCalm, ConcatCalm, CalmIsOn
    <2> QED
      BY <2>1, <2>2, CallKeeps
  <1>2. CASE fbe_blpe
    <2>1. Call("fbe_blpe", FBE, 0, LowPower(1), crystal, BLPE)
      BY <1>2 DEF fbe_blpe
    <2> QED
      BY <2>1, ClearsCalm, CalmIsOn, CallKeeps
  <1>3. CASE fbe_fei
    <2>1. PICK irc_freq \in IrcFreqs :
            Call("fbe_fei", FBE, FllError(IrcFllFreq(irc_freq)),
                 ClockMonitor(0) \o InternalReference(0) \o AwaitInternal \o ToClock(0),
                 IrcFllFreq(irc_freq), FEI)
      BY <1>3 DEF fbe_fei
    <2>2. InternalReference(0) \in Seq(Op) /\ NoEnable(InternalReference(0))
      BY InternalTyped
    <2>3. Calm(AwaitInternal) /\ Calm(ToClock(0))
      BY ClearsCalm
    <2>4. OffScript(ClockMonitor(0) \o InternalReference(0) \o AwaitInternal)
      BY <2>2, <2>3, EmptyCalm, IntoInternal
    <2>5. OffScript(ClockMonitor(0) \o InternalReference(0) \o AwaitInternal \o ToClock(0))
      BY <2>3, <2>4, OffThenCalm
    <2> QED
      BY <2>1, <2>5, CallKeeps
  <1>4. CASE fbe_fee
    <2> DEFINE ref == Short(IF C["RANGE0"] > 0 THEN FllRef(C["RANGE0"], C["FRDIV"])
                                               ELSE FllRef(0, C["RANGE0"]))
    <2>1. Call("fbe_fee", FBE, FllError(fll_freq(ref)),
               Write([CLKS |-> 0]) \o ToClock(0), fll_freq(ref), FEE)
      BY <1>4 DEF fbe_fee
    <2>2. OnScript(Write([CLKS |-> 0]) \o ToClock(0))
      BY ClearsCalm, ConcatCalm, CalmIsOn
    <2> HIDE DEF ref
    <2> QED
      BY <2>1, <2>2, CallKeeps
  <1>5. CASE fbe_fbi
    <2>1. PICK irc_freq \in IrcFreqs, irc_select \in {0, 1} :
            Call("fbe_fbi", FBE, IrcError(irc_freq, irc_select),
                 SelectIrc(irc_select) \o ClockMonitor(0) \o InternalReference(1)
                     \o AwaitIrc(irc_select) \o ToClock(1) \o AwaitInternal,
                 IrcOut(irc_freq, irc_select), FBI)
      BY <1>5 DEF fbe_fbi
    <2>2. /\ Calm(SelectIrc(irc_select)) /\ Calm(AwaitIrc(irc_select))
          /\ Calm(ToClock(1)) /\ Calm(AwaitInternal)
      BY ClearsCalm
    <2>3. InternalReference(1) \in Seq(Op) /\ NoEnable(InternalReference(1))
      BY InternalTyped
    <2>4. OffScript(SelectIrc(irc_select) \o ClockMonitor(0) \o InternalReference(1)
                       \o AwaitIrc(irc_select))
      BY <2>2, <2>3, IntoInternal
    <2>5. OffScript(SelectIrc(irc_select) \o ClockMonitor(0) \o InternalReference(1)
                       \o AwaitIrc(irc_select) \o ToClock(1) \o AwaitInternal)
      BY <2>2, <2>4, OffThenCalm
    <2> QED
      BY <2>1, <2>5, CallKeeps
  <1>6. CASE blpe_pbe
    <2>1. PICK pll \in PllSettings :
            Call("blpe_pbe", BLPE, DividerError(pll),
                 Pll(pll) \o LowPower(0) \o AwaitPll, crystal, PBE)
      BY <1>6 DEF blpe_pbe
    <2>2. Calm(Pll(pll)) /\ Calm(LowPower(0)) /\ Calm(AwaitPll)
      BY PllCalm, ClearsCalm
    <2>3. OnScript(Pll(pll) \o LowPower(0) \o AwaitPll)
      BY <2>2, ConcatCalm, CalmIsOn
    <2> QED
      BY <2>1, <2>3, CallKeeps
  <1>7. CASE blpe_fbe
    <2>1. Call("blpe_fbe", BLPE, 0, FllInstead \o LowPower(0) \o AwaitFll, crystal, FBE)
      BY <1>7 DEF blpe_fbe
    <2>2. OnScript(FllInstead \o LowPower(0) \o AwaitFll)
      BY ClearsCalm, ConcatCalm, CalmIsOn
    <2> QED
      BY <2>1, <2>2, CallKeeps
  <1> QED
    BY <1>1, <1>2, <1>3, <1>4, <1>5, <1>6, <1>7 DEF FromExternal

LEMMA FromPLLKeeps ==
  ASSUME MonitorInv, FromPLL
  PROVE  MonitorInv'
PROOF
  <1>1. CASE pee_pbe
    <2>1. Call("pee_pbe", PEE, 0, ToExternal, crystal, PBE)
      BY <1>1 DEF pee_pbe
    <2> QED
      BY <2>1, ToExternalCalm, CalmIsOn, CallKeeps
  <1>2. CASE pbe_pee
    <2>1. Call("pbe_pee", PBE, 0, Await("LOCK0", 1, 68) \o SelectPll,
               PllFreq(C["PRDIV0"] + 1, C["VDIV0"] + 24), PEE)
      BY <1>2 DEF pbe_pee
    <2>2. Calm(Await("LOCK0", 1, 68))
      BY AwaitCalm DEF Bits
    <2>3. OnScript(Await("LOCK0", 1, 68) \o SelectPll)
      BY <2>2, SelectPllCalm, ConcatCalm, CalmIsOn
    <2> QED
      BY <2>1, <2>3, CallKeeps
  <1>3. CASE pbe_fbe
    <2>1. Call("pbe_fbe", PBE, 0, FllInstead \o AwaitFll, crystal, FBE)
      BY <1>3 DEF pbe_fbe
    <2>2. OnScript(FllInstead \o AwaitFll)
      BY ClearsCalm, ConcatCalm, CalmIsOn
    <2> QED
      BY <2>1, <2>2, CallKeeps
  <1>4. CASE pbe_blpe
    <2>1. Call("pbe_blpe", PBE, 0, LowPower(1), crystal, BLPE)
      BY <1>4 DEF pbe_blpe
    <2> QED
      BY <2>1, ClearsCalm, CalmIsOn, CallKeeps
  <1>5. CASE new_pll_freq
    <2>1. PICK pll \in PllSettings :
            Call("new_pll_freq", PEE, PllError(pll),
                 ToExternal \o Pll(pll) \o AwaitPll \o SelectPll,
                 PllFreq(pll[1], pll[2]), PEE)
      BY <1>5 DEF new_pll_freq
    <2>2. Calm(ToExternal) /\ Calm(Pll(pll)) /\ Calm(AwaitPll) /\ Calm(SelectPll)
      BY ToExternalCalm, PllCalm, ClearsCalm, SelectPllCalm
    <2>3. OnScript(ToExternal \o Pll(pll) \o AwaitPll \o SelectPll)
      BY <2>2, ConcatCalm, CalmIsOn
    <2> QED
      BY <2>1, <2>3, CallKeeps
  <1> QED
    BY <1>1, <1>2, <1>3, <1>4, <1>5 DEF FromPLL

LEMMA MonitorStutter == MonitorInv /\ UNCHANGED vars => MonitorInv'
PROOF
  <1> SUFFICES ASSUME MonitorInv, UNCHANGED vars PROVE MonitorInv'
    OBVIOUS
  <1>1. C' = C /\ S' = S /\ todo' = todo
    BY DEF vars
  <1>2. OnScript(todo) => OnScript(todo)'
    BY <1>1 DEF OnScript
  <1>3. OffScript(todo) => OffScript(todo)'
    BY <1>1 DEF OffScript
  <1> QED
    BY <1>1, <1>2, <1>3 DEF MonitorInv

\* The clock monitor is off whenever the internal reference is selected or in
\* use (mcg.c:1926-1928), for every board, every sequence of calls with any
\* arguments, and whichever waits time out.
THEOREM MonitorOffCorrect == Spec => []MonitorOff
PROOF
  <1>1. MonitorInv /\ [Next]_vars => MonitorInv'
    <2> SUFFICES ASSUME MonitorInv, [Next]_vars PROVE MonitorInv'
      OBVIOUS
    <2>1. CASE FromFLL
      BY <2>1, FromFLLKeeps
    <2>2. CASE FromInternal
      BY <2>2, FromInternalKeeps
    <2>3. CASE FromExternal
      BY <2>3, FromExternalKeeps
    <2>4. CASE FromPLL
      BY <2>4, FromPLLKeeps
    <2>5. CASE Driver
      BY <2>5, StepKeeps, FoundKeeps, TimeOutKeeps DEF Driver
    <2>6. CASE \E bit \in Bits : Follow(bit)
      BY <2>6, FollowKeeps
    <2>7. CASE UNCHANGED vars
      BY <2>7, MonitorStutter
    <2> QED
      BY <2>1, <2>2, <2>3, <2>4, <2>5, <2>6, <2>7 DEF Next
  <1>2. MonitorInv => MonitorOff
    BY DEF MonitorInv, MonitorOff
  <1> QED
    BY MonitorInit, <1>1, <1>2, PTL DEF Spec

-----------------------------------------------------------------------------
\* Types.

Highest(f) ==
    CASE f = "CLKS" -> 3 [] f = "FRDIV" -> 5 [] f = "RANGE0" -> 2
      [] f \in {"PRDIV0", "VDIV0"} -> 26
      [] OTHER -> 1

Config == {c \in [Fields -> 0 .. 26] : \A f \in Fields : c[f] \in 0 .. Highest(f)}
Status == {s \in [Bits -> 0 .. 3] : \A b \in Bits \ {"CLKST"} : s[b] \in {0, 1}}

\* An operation that keeps them.
Fit(o) ==
    /\ o \in Op
    /\ o.op = "write" => \A f \in DOMAIN o.fields : o.fields[f] \in 0 .. Highest(f)
    /\ o.op = "or" => \A f \in DOMAIN o.fields : f \in {"CLKS", "IREFS"}
                                                 /\ o.fields[f] \in 0 .. Highest(f)
    /\ o.op = "await" => o.error \in Nat

Fits(s, n) ==
    /\ s \in Seq(Op) /\ Len(s) <= n
    /\ \A i \in 1 .. Len(s) : Fit(s[i])

TypeInv ==
    /\ crystal \in Crystals /\ C \in Config /\ S \in Status
    /\ Fits(todo, 12)
    /\ goal \in Modes /\ result \in Nat /\ ret \in Nat
    /\ late \in 0 .. MaxLate

LEMMA NothingFits == Fits(<<>>, 0)
  BY DEF Fits

LEMMA OneFits ==
  ASSUME NEW o, Fit(o)
  PROVE  Fits(<<o>>, 1)
  BY OneOp DEF Fits, Fit

LEMMA ConcatFits ==
  ASSUME NEW m \in Nat, NEW n \in Nat, NEW s, NEW t, Fits(s, m), Fits(t, n)
  PROVE  Fits(s \o t, m + n)
PROOF
  <1> DEFINE u == s \o t
  <1>1. s \in Seq(Op) /\ t \in Seq(Op)
    BY DEF Fits
  <1>2. /\ u \in Seq(Op) /\ Len(u) = Len(s) + Len(t)
        /\ Len(s) \in Nat /\ Len(t) \in Nat
        /\ \A i \in 1 .. Len(s) + Len(t) :
              u[i] = IF i <= Len(s) THEN s[i] ELSE t[i - Len(s)]
    BY <1>1, ConcatProperties, LenProperties
  <1> HIDE DEF u
  <1>3. ASSUME NEW i \in 1 .. Len(u) PROVE Fit(u[i])
    <2>1. CASE i <= Len(s)
      BY <1>2, <2>1 DEF Fits
    <2>2. CASE ~(i <= Len(s))
      <3>1. i - Len(s) \in 1 .. Len(t) /\ u[i] = t[i - Len(s)]
        BY <1>2, <2>2
      <3> QED
        BY <3>1 DEF Fits
    <2> QED
      BY <2>1, <2>2
  <1>4. Len(s) <= m /\ Len(t) <= n
    BY DEF Fits
  <1>5. Fits(u, m + n)
    BY <1>2, <1>3, <1>4 DEF Fits
  <1> QED
    BY <1>5 DEF u

LEMMA TailFits ==
  ASSUME NEW n \in Nat, NEW s, Fits(s, n), s # <<>>
  PROVE  Fit(Head(s)) /\ Fits(Tail(s), n)
PROOF
  <1> DEFINE t == Tail(s)
  <1>1. s \in Seq(Op)
    BY DEF Fits
  <1>2. /\ t \in Seq(Op) /\ Len(t) = Len(s) - 1 /\ Head(s) = s[1]
        /\ Len(s) \in Nat /\ Len(s) >= 1
        /\ \A i \in 1 .. Len(t) : t[i] = s[i + 1]
    BY <1>1, HeadTailProperties
  <1> HIDE DEF t
  <1>3. \A i \in 1 .. Len(t) : Fit(t[i])
    BY <1>2 DEF Fits
  <1>4. Fit(Head(s)) /\ Fits(t, n)
    BY <1>2, <1>3 DEF Fits
  <1> QED
    BY <1>4 DEF t

LEMMA WriteFits ==
  ASSUME NEW D \in SUBSET Fields, NEW f \in [D -> Int], \A g \in D : f[g] \in 0 .. Highest(g)
  PROVE  Fits(Write(f), 1) /\ (D \subseteq {"CLKS", "IREFS"} => Fits(WriteOr(f), 1))
PROOF
  <1> DEFINE w == [op |-> "write", fields |-> f]
             o == [op |-> "or", fields |-> f]
  <1>1. f \in Settings
    BY DEF Settings
  <1>2. w \in Op /\ o \in Op
    BY <1>1 DEF Op
  <1>3. Fit(w) /\ (D \subseteq {"CLKS", "IREFS"} => Fit(o))
    BY <1>2 DEF Fit
  <1> HIDE DEF w, o
  <1>4. Fits(<<w>>, 1) /\ (D \subseteq {"CLKS", "IREFS"} => Fits(<<o>>, 1))
    BY <1>3, OneFits
  <1> QED
    BY <1>4 DEF Write, WriteOr, w, o

LEMMA AwaitFits ==
  ASSUME NEW bit \in Bits, NEW value \in Int, NEW error \in Nat
  PROVE  Fits(Await(bit, value, error), 1)
PROOF
  <1> DEFINE o == [op |-> "await", bit |-> bit, value |-> value, error |-> error]
  <1>1. o \in Op
    BY DEF Op
  <1>2. Fit(o)
    BY <1>1 DEF Fit
  <1> HIDE DEF o
  <1>3. Fits(<<o>>, 1)
    BY <1>2, OneFits
  <1> QED
    BY <1>3 DEF Await, o

\* The blocks of the scripts.

LEMMA ClksFits ==
  ASSUME NEW x \in 0 .. 3
  PROVE  Fits(Write([CLKS |-> x]), 1) /\ Fits(WriteOr([CLKS |-> x]), 1)
  BY WriteFits, [CLKS |-> x] \in [{"CLKS"} -> Int], {"CLKS"} \in SUBSET Fields
     DEF Fields, Highest

LEMMA FlagFits ==
  ASSUME NEW x \in {0, 1}
  PROVE  /\ Fits(ClockMonitor(x), 1) /\ Fits(LowPower(x), 1) /\ Fits(SelectIrc(x), 1)
         /\ Fits(Write([IREFS |-> x]), 1) /\ Fits(Write([PLLS |-> x]), 1)
PROOF
  <1>1. Fits(Write([CME0 |-> x]), 1)
    BY WriteFits, [CME0 |-> x] \in [{"CME0"} -> Int], {"CME0"} \in SUBSET Fields DEF Fields, Highest
  <1>2. Fits(Write([LP |-> x]), 1)
    BY WriteFits, [LP |-> x] \in [{"LP"} -> Int], {"LP"} \in SUBSET Fields DEF Fields, Highest
  <1>3. Fits(Write([IRCS |-> x]), 1)
    BY WriteFits, [IRCS |-> x] \in [{"IRCS"} -> Int], {"IRCS"} \in SUBSET Fields DEF Fields, Highest
  <1>4. Fits(Write([IREFS |-> x]), 1)
    BY WriteFits, [IREFS |-> x] \in [{"IREFS"} -> Int], {"IREFS"} \in SUBSET Fields DEF Fields, Highest
  <1>5. Fits(Write([PLLS |-> x]), 1)
    BY WriteFits, [PLLS |-> x] \in [{"PLLS"} -> Int], {"PLLS"} \in SUBSET Fields DEF Fields, Highest
  <1> QED
    BY <1>1, <1>2, <1>3, <1>4, <1>5 DEF ClockMonitor, LowPower, SelectIrc

LEMMA WaitsFit ==
  /\ \A clkst \in 0 .. 3 : Fits(ToClock(clkst), 1)
  /\ \A x \in {0, 1} : Fits(AwaitIrc(x), 1)
  /\ Fits(AwaitInternal, 1) /\ Fits(AwaitFll, 1) /\ Fits(AwaitPll, 2)
  /\ Fits(Await("PLLST", 1, 22), 1) /\ Fits(Await("LOCK0", 1, 68), 1)
  /\ Fits(Await("OSCINIT0", 1, 35), 1) /\ Fits(Await("IREFST", 0, 17), 1)
PROOF
  <1>1. ASSUME NEW clkst \in 0 .. 3 PROVE Fits(ToClock(clkst), 1)
    BY AwaitFits, 24 + clkst \in Nat DEF ToClock, Bits
  <1>2. ASSUME NEW x \in {0, 1} PROVE Fits(AwaitIrc(x), 1)
    BY AwaitFits, 19 + x \in Nat DEF AwaitIrc, Bits
  <1>3. Fits(AwaitInternal, 1) /\ Fits(AwaitFll, 1)
    BY AwaitFits DEF AwaitInternal, AwaitFll, Bits
  <1>4. /\ Fits(Await("PLLST", 1, 22), 1) /\ Fits(Await("LOCK0", 1, 68), 1)
        /\ Fits(Await("OSCINIT0", 1, 35), 1) /\ Fits(Await("IREFST", 0, 17), 1)
    BY AwaitFits DEF Bits
  <1>5. Fits(AwaitPll, 1 + 1)
    BY <1>4, ConcatFits DEF AwaitPll
  <1> QED
    BY <1>1, <1>2, <1>3, <1>4, <1>5

LEMMA FewFinite ==
  /\ IsFiniteSet(FrdivLimits) /\ Cardinality(FrdivLimits) = 5
PROOF
  <1> DEFINE A == {1250000}
             B == A \cup {2500000}
             D == B \cup {5000000}
             E == D \cup {10000000}
             F == E \cup {20000000}
  <1>1. IsFiniteSet(A) /\ Cardinality(A) = 1
    BY FS_Singleton
  <1>2. 2500000 \notin A /\ 5000000 \notin B /\ 10000000 \notin D /\ 20000000 \notin E
    BY SMT
  <1>3. FrdivLimits = F
    BY SMT DEF FrdivLimits
  <1> HIDE DEF A
  <1>4. IsFiniteSet(B) /\ Cardinality(B) = 2
    BY SMT, <1>1, <1>2, FS_AddElement
  <1> HIDE DEF B
  <1>5. IsFiniteSet(D) /\ Cardinality(D) = 3
    BY SMT, <1>4, <1>2, FS_AddElement
  <1> HIDE DEF D
  <1>6. IsFiniteSet(E) /\ Cardinality(E) = 4
    BY SMT, <1>5, <1>2, FS_AddElement
  <1> HIDE DEF E
  <1>7. IsFiniteSet(F) /\ Cardinality(F) = 5
    BY SMT, <1>6, <1>2, FS_AddElement
  <1> HIDE DEF F
  <1> QED
    BY <1>3, <1>7

LEMMA FrdivBounded == frdiv_val \in 0 .. 5
PROOF
  <1> DEFINE T == {f \in FrdivLimits : crystal > f}
  <1>1. T \subseteq FrdivLimits
    OBVIOUS
  <1> HIDE DEF T
  <1>2. IsFiniteSet(T) /\ Cardinality(T) <= 5
    BY <1>1, FewFinite, FS_Subset
  <1>3. Cardinality(T) \in Nat
    BY <1>2, FS_CardinalityType
  <1>4. Cardinality(T) \in 0 .. 5
    BY <1>2, <1>3
  <1> QED
    BY <1>4 DEF frdiv_val, T

LEMMA OscillatorFits ==
  ASSUME NEW range \in 0 .. 2, NEW erefs \in {0, 1}
  PROVE  Fits(Oscillator(range, erefs), 1)
  BY WriteFits, [RANGE0 |-> range, EREFS0 |-> erefs] \in [{"RANGE0", "EREFS0"} -> Int],
     {"RANGE0", "EREFS0"} \in SUBSET Fields DEF Fields, Highest, Oscillator

LEMMA ExternalFits ==
  ASSUME NEW clks \in 0 .. 3, NEW erefs \in {0, 1}
  PROVE  Fits(ExternalReference(clks, erefs), 3)
PROOF
  <1> DEFINE w == Write([CLKS |-> clks, FRDIV |-> frdiv_val, IREFS |-> 0])
             m == IF erefs = 1 THEN Await("OSCINIT0", 1, 35) ELSE <<>>
  <1>1. Fits(w, 1)
    BY FrdivBounded, WriteFits,
       [CLKS |-> clks, FRDIV |-> frdiv_val, IREFS |-> 0] \in [{"CLKS", "FRDIV", "IREFS"} -> Int],
       {"CLKS", "FRDIV", "IREFS"} \in SUBSET Fields DEF Fields, Highest
  <1>2. Fits(m, 1)
    BY WaitsFit, NothingFits DEF Fits
  <1> HIDE DEF w, m
  <1>3. Fits(w \o m, 1 + 1)
    BY <1>1, <1>2, ConcatFits
  <1>4. Fits((w \o m) \o Await("IREFST", 0, 17), (1 + 1) + 1)
    BY ONLY <1>3, WaitsFit, ConcatFits, 1 + 1 \in Nat, 1 \in Nat
  <1>5. Fits(ExternalReference(clks, erefs), (1 + 1) + 1)
    BY <1>4 DEF ExternalReference, w, m
  <1> QED
    BY <1>5

LEMMA InternalFits ==
  ASSUME NEW clks \in 0 .. 3
  PROVE  Fits(InternalReference(clks), 1)
  BY WriteFits, [CLKS |-> clks, IREFS |-> 1] \in [{"CLKS", "IREFS"} -> Int],
     {"CLKS", "IREFS"} \in SUBSET Fields DEF Fields, Highest, InternalReference

LEMMA BothFit == Fits(WriteOr([CLKS |-> 1, IREFS |-> 1]), 1)
  BY WriteFits, [CLKS |-> 1, IREFS |-> 1] \in [{"CLKS", "IREFS"} -> Int],
     {"CLKS", "IREFS"} \in SUBSET Fields DEF Fields, Highest

LEMMA PllFits ==
  ASSUME NEW pll \in Int \X Int, DividerError(pll) = 0
  PROVE  Fits(Pll(pll), 2)
PROOF
  <1> DEFINE p == pll[1] - 1
             v == pll[2] - 24
  <1>1. p \in 0 .. 24 /\ v \in 0 .. 26
    BY DEF DividerError, Outside
  <1> HIDE DEF p, v
  <1>2. Fits(Write([PRDIV0 |-> p]), 1)
    BY <1>1, WriteFits, [PRDIV0 |-> p] \in [{"PRDIV0"} -> Int], {"PRDIV0"} \in SUBSET Fields
       DEF Fields, Highest
  <1>3. Fits(Write([VDIV0 |-> v, PLLS |-> 1]), 1)
    BY <1>1, WriteFits, [VDIV0 |-> v, PLLS |-> 1] \in [{"VDIV0", "PLLS"} -> Int],
       {"VDIV0", "PLLS"} \in SUBSET Fields DEF Fields, Highest
  <1>4. Fits(Write([PRDIV0 |-> p]) \o Write([VDIV0 |-> v, PLLS |-> 1]), 1 + 1)
    BY <1>2, <1>3, ConcatFits
  <1> QED
    BY <1>4 DEF Pll, p, v

LEMMA SwitchesFit == Fits(SelectPll, 2) /\ Fits(ToExternal, 2)
PROOF
  <1>1. Fits(SelectPll, 1 + 1)
    BY ClksFits, WaitsFit, ConcatFits DEF SelectPll
  <1>2. Fits(ToExternal, 1 + 1)
    BY ClksFits, WaitsFit, ConcatFits DEF ToExternal
  <1> QED
    BY <1>1, <1>2

-----------------------------------------------------------------------------
\* The script and the hardware keep the types.

LEMMA MaxLateTyped == MaxLate \in Nat
  BY SMT, McgAssumption

LEMMA TypeInit == Init => TypeInv
PROOF
  <1> SUFFICES ASSUME Init PROVE TypeInv
    OBVIOUS
  <1>1. C \in Config
    BY DEF Init, Config, Fields, Highest
  <1>2. S \in Status
    BY DEF Init, Status, Bits
  <1>3. Fits(todo, 12)
    BY NothingFits DEF Init, Fits
  <1> QED
    BY <1>1, <1>2, <1>3, MaxLateTyped DEF Init, TypeInv, Modes, FEI

LEMMA AdvanceTyped ==
  ASSUME TypeInv, todo # <<>>, Advance, (C \in Config)', (S \in Status)'
  PROVE  TypeInv'
PROOF
  <1>1. Fits(todo', 12)
    BY TailFits DEF TypeInv, Advance
  <1>2. ret' \in Nat /\ result' \in Nat
    BY DEF TypeInv, Advance
  <1>3. UNCHANGED <<crystal, goal, late>>
    BY DEF Advance
  <1> QED
    BY <1>1, <1>2, <1>3 DEF TypeInv

LEMMA StepTyped == TypeInv /\ Step => TypeInv'
PROOF
  <1> SUFFICES ASSUME TypeInv, Step PROVE TypeInv'
    OBVIOUS
  <1> DEFINE o == Head(todo)
  <1>1. /\ todo # <<>> /\ o.op \in {"write", "or"} /\ Advance
        /\ C' = [f \in Fields |->
                   IF f \notin DOMAIN o.fields THEN C[f]
                   ELSE IF o.op = "or" THEN Or(C[f], o.fields[f]) ELSE o.fields[f]]
        /\ S' = IF DOMAIN o.fields \cap {"PRDIV0", "VDIV0", "PLLS", "LP"} # {}
                THEN [S EXCEPT !["LOCK0"] = 0] ELSE S
    BY DEF Step
  <1>2. Fit(o)
    BY <1>1, TailFits DEF TypeInv
  <1> HIDE DEF o
  <1>3. ASSUME NEW f \in Fields PROVE C'[f] \in 0 .. Highest(f)
    <2>1. C[f] \in 0 .. Highest(f)
      BY DEF TypeInv, Config
    <2>2. CASE f \notin DOMAIN o.fields
      BY <1>1, <2>1, <2>2
    <2>3. CASE f \in DOMAIN o.fields /\ o.op = "write"
      BY <1>1, <1>2, <2>3 DEF Fit
    <2>4. CASE f \in DOMAIN o.fields /\ o.op = "or"
      <3>1. f \in {"CLKS", "IREFS"} /\ o.fields[f] \in 0 .. Highest(f)
        BY <1>2, <2>4 DEF Fit
      <3>2. C'[f] = Or(C[f], o.fields[f])
        BY <1>1, <2>4
      <3> QED
        BY <2>1, <3>1, <3>2 DEF Or, Highest
    <2> QED
      BY <1>1, <2>2, <2>3, <2>4
  <1>4. \A f \in Fields : Highest(f) \in 0 .. 26
    BY DEF Highest, Fields
  <1>5. C' \in Config
    <2>1. \A f \in Fields : C'[f] \in 0 .. 26
      BY <1>3, <1>4
    <2> QED
      BY <1>1, <1>3, <2>1 DEF Config
  <1>6. S' \in Status
    BY <1>1 DEF TypeInv, Status, Bits
  <1> QED
    BY <1>1, <1>5, <1>6, AdvanceTyped

LEMMA FoundTyped == TypeInv /\ Found => TypeInv'
PROOF
  <1> SUFFICES ASSUME TypeInv, Found PROVE TypeInv'
    OBVIOUS
  <1>1. (C \in Config)' /\ (S \in Status)'
    BY DEF TypeInv, Found
  <1> QED
    BY <1>1, AdvanceTyped DEF Found

LEMMA TimeOutTyped == TypeInv /\ TimeOut => TypeInv'
PROOF
  <1> SUFFICES ASSUME TypeInv, TimeOut PROVE TypeInv'
    OBVIOUS
  <1>1. ret' \in Nat
    BY TailFits DEF TypeInv, TimeOut, Fit
  <1>2. Fits(todo', 12)
    BY NothingFits DEF TimeOut, Fits
  <1>3. late' \in 0 .. MaxLate
    BY MaxLateTyped DEF TypeInv, TimeOut
  <1> QED
    BY <1>1, <1>2, <1>3 DEF TypeInv, TimeOut

LEMMA FollowTyped ==
  ASSUME TypeInv, NEW bit \in Bits, Follow(bit)
  PROVE  TypeInv'
PROOF
  <1>1. PICK value \in Target(bit) : S' = [S EXCEPT ![bit] = value]
    BY DEF Follow
  <1>2. /\ \A f \in {"IREFS", "PLLS", "EREFS0", "IRCS"} : C[f] \in {0, 1}
        /\ C["CLKS"] \in 0 .. 3 /\ S["PLLST"] \in {0, 1}
    <2>1. \A f \in Fields : C[f] \in 0 .. Highest(f)
      BY DEF TypeInv, Config
    <2>2. S["PLLST"] \in {0, 1}
      BY DEF TypeInv, Status, Bits
    <2> QED
      BY <2>1, <2>2 DEF Highest, Fields
  <1>3. value \in 0 .. 3 /\ (bit # "CLKST" => value \in {0, 1})
    BY <1>2 DEF Target, Bits
  <1>4. S' \in Status
    BY <1>1, <1>3 DEF TypeInv, Status
  <1> QED
    BY <1>4 DEF TypeInv, Follow

LEMMA CallTyped ==
  ASSUME TypeInv, NEW name, NEW from \in Modes, NEW error \in Nat, NEW script, NEW out, NEW to \in Modes,
         error = 0 => Fits(script, 12) /\ out \in Nat,
         Call(name, from, error, script, out, to)
  PROVE  TypeInv'
PROOF
  <1>1. NotIn(from) \in Nat
    BY DEF NotIn, Modes, FEI, FEE, FBI, FBE, BLPI, BLPE, PBE, PEE
  <1>2. UNCHANGED <<crystal, C, S, late>> /\ goal' = to
    BY DEF Call
  <1>3. CASE ~In(from) \/ error # 0
    <2>1. ret' \in Nat /\ UNCHANGED <<todo, result>>
      BY <1>1, <1>3 DEF Call
    <2> QED
      BY <1>2, <2>1 DEF TypeInv
  <1>4. CASE In(from) /\ error = 0
    <2>1. todo' = script /\ result' = out /\ ret' = 0
      BY <1>4 DEF Call
    <2> QED
      BY <1>2, <1>4, <2>1 DEF TypeInv
  <1> QED
    BY <1>3, <1>4

-----------------------------------------------------------------------------
\* The arguments of the calls.

LEMMA ModesTyped ==
  {BLPI, FBI, FEI, FEE, FBE, BLPE, PBE, PEE} \subseteq Modes
  BY DEF Modes, BLPI, FBI, FEI, FEE, FBE, BLPE, PBE, PEE

LEMMA MultiplierTyped == Multiplier \in Nat /\ Multiplier > 0 /\ (DRS <= 1 => Multiplier <= 1464)
PROOF
  <1>1. DRS \in {0, 1, 2, 3} /\ DMX32 \in {0, 1}
    BY SMT, McgAssumption
  <1>2. CASE DMX32 = 1
    <2>1. Multiplier = <<732, 1464, 2197, 2929>>[DRS + 1]
      BY <1>2 DEF Multiplier
    <2>2. CASE DRS = 0
      BY <2>1, <2>2
    <2>3. CASE DRS = 1
      BY <2>1, <2>3
    <2>4. CASE DRS = 2
      BY <2>1, <2>4
    <2>5. CASE DRS = 3
      BY <2>1, <2>5
    <2> QED
      BY <1>1, <2>2, <2>3, <2>4, <2>5
  <1>3. CASE DMX32 = 0
    <2>1. Multiplier = <<640, 1280, 1920, 2560>>[DRS + 1]
      BY <1>3 DEF Multiplier
    <2>2. CASE DRS = 0
      BY <2>1, <2>2
    <2>3. CASE DRS = 1
      BY <2>1, <2>3
    <2>4. CASE DRS = 2
      BY <2>1, <2>4
    <2>5. CASE DRS = 3
      BY <2>1, <2>5
    <2> QED
      BY <1>1, <2>2, <2>3, <2>4, <2>5
  <1> QED
    BY <1>1, <1>2, <1>3

LEMMA CrystalTyped ==
  ASSUME TypeInv
  PROVE  crystal \in Nat /\ crystal > 0
  BY SMT, McgAssumption DEF TypeInv

LEMMA IrcTyped ==
  ASSUME NEW irc_freq \in IrcFreqs, NEW irc_select \in {0, 1}
  PROVE  /\ irc_freq \in Nat
         /\ IrcError(irc_freq, irc_select) \in {0, 49, 50}
         /\ IrcOut(irc_freq, irc_select) \in Nat
PROOF
  <1>1. irc_freq \in Nat
    BY SMT, McgAssumption
  <1>2. IrcError(irc_freq, irc_select) \in {0, 49, 50}
    BY SMT DEF IrcError
  <1>3. irc_freq \div 2 ^ FCRDIV \in Nat
    BY SMT, <1>1 DEF FCRDIV
  <1> QED
    BY SMT, <1>1, <1>2, <1>3 DEF IrcOut

\* Either a code below 60 or the frequency, which is in the FLL's range.
LEMMA FllFreqValue ==
  ASSUME NEW ref \in Int
  PROVE  /\ fll_freq(ref) \in Nat
         /\ FllError(fll_freq(ref)) \in 0 .. 59
         /\ FllError(fll_freq(ref)) = 0 =>
              /\ fll_freq(ref) = ref * Multiplier
              /\ ref * Multiplier >= 20000000 * (DRS + 1)
              /\ ref * Multiplier <= 25000000 * (DRS + 1)
              /\ DRS <= 1
         /\ FllError(fll_freq(ref)) # 0 => fll_freq(ref) < 60
PROOF
  <1> DEFINE x == ref * Multiplier
  <1>1. x \in Int
    BY MultiplierTyped
  <1>2. DRS \in 0 .. 3
    BY SMT, McgAssumption
  <1> HIDE DEF x
  <1>3. fll_freq(ref) = IF DRS > 1 THEN 59
                        ELSE IF x < 20000000 * (DRS + 1) THEN 51 + 2 * DRS
                        ELSE IF x > 25000000 * (DRS + 1) THEN 52 + 2 * DRS
                        ELSE x
    BY SMT DEF fll_freq, x
  <1> DEFINE y == fll_freq(ref)
  <1>4. /\ y \in Nat
        /\ y < 60 \/ (y = x /\ x >= 20000000 * (DRS + 1) /\ x <= 25000000 * (DRS + 1) /\ DRS <= 1)
        /\ y >= 60 \/ y > 50
    BY SMT, <1>1, <1>2, <1>3
  <1> HIDE DEF y
  <1>5. FllError(y) = IF y < 60 THEN y ELSE 0
    BY SMT DEF FllError
  <1>6. /\ y \in Nat /\ FllError(y) \in 0 .. 59
        /\ FllError(y) = 0 => /\ y = x /\ x >= 20000000 * (DRS + 1)
                              /\ x <= 25000000 * (DRS + 1) /\ DRS <= 1
        /\ FllError(y) # 0 => y < 60
    BY SMT, <1>1, <1>2, <1>4, <1>5
  <1> QED
    BY SMT, <1>6 DEF x, y

LEMMA IrcFllValue ==
  ASSUME NEW irc_freq \in IrcFreqs
  PROVE  /\ IrcFllFreq(irc_freq) \in Nat
         /\ FllError(IrcFllFreq(irc_freq)) \in 0 .. 59
         /\ FllError(IrcFllFreq(irc_freq)) = 0 =>
              /\ IrcError(irc_freq, 0) = 0
              /\ IrcFllFreq(irc_freq) = irc_freq * Multiplier
PROOF
  <1>1. irc_freq \in Int /\ IrcError(irc_freq, 0) \in {0, 49, 50}
    <2>1. irc_freq \in Int
      BY SMT, McgAssumption
    <2>2. IrcError(irc_freq, 0) \in {0, 49, 50}
      BY SMT DEF IrcError
    <2> QED
      BY <2>1, <2>2
  <1>2. CASE IrcError(irc_freq, 0) = 0
    <2>1. IrcFllFreq(irc_freq) = fll_freq(irc_freq)
      BY <1>2 DEF IrcFllFreq
    <2> QED
      BY SMT, <1>1, <1>2, <2>1, FllFreqValue
  <1>3. CASE IrcError(irc_freq, 0) # 0
    <2>1. IrcFllFreq(irc_freq) = IrcError(irc_freq, 0)
      BY <1>3 DEF IrcFllFreq
    <2>2. IrcFllFreq(irc_freq) \in {49, 50}
      BY <1>1, <1>3, <2>1
    <2> QED
      BY <2>2 DEF FllError
  <1> QED
    BY <1>2, <1>3

LEMMA OscTyped ==
  ASSUME NEW erefs \in {0, 1}
  PROVE  OscError(erefs) \in {0, 33, 34} /\ OscErrorForPll(erefs) \in {0, 33, 34}
  BY SMT DEF OscError, OscErrorForPll

\* The external clock is one the functions that go over to it accept.
Allowed == crystal <= 50000000

\* They refuse any other.
LEMMA NotTooFast ==
  ASSUME TypeInv, NEW erefs, OscError(erefs) = 0 \/ OscErrorForPll(erefs) = 0
  PROVE  Allowed
  BY SMT, CrystalTyped DEF Allowed, OscError, OscErrorForPll

LEMMA PllTyped == PllSettings \subseteq Int \X Int
  BY PllSettingsAssumption

\* A PLL that is accepted.
LEMMA PllValue ==
  ASSUME TypeInv, NEW pll \in Int \X Int
  PROVE  /\ DividerError(pll) \in {0, 65, 66, 67} /\ PllError(pll) \in {0, 65, 66, 67, 69}
         /\ PllError(pll) = 0 => DividerError(pll) = 0
         /\ DividerError(pll) = 0 => /\ pll[1] \in 1 .. 25 /\ pll[2] \in 24 .. 50
                                     /\ PllFreq(pll[1], pll[2]) \in Nat
PROOF
  <1>1. pll[1] \in Int /\ pll[2] \in Int
    OBVIOUS
  <1>2. DividerError(pll) \in {0, 65, 66, 67}
    BY SMT DEF DividerError
  <1>3. /\ PllError(pll) \in {0, 65, 66, 67, 69}
        /\ PllError(pll) = 0 => DividerError(pll) = 0
    BY SMT, <1>2 DEF PllError
  <1>4. ASSUME DividerError(pll) = 0
        PROVE  pll[1] \in 1 .. 25 /\ pll[2] \in 24 .. 50
    BY SMT, <1>1, <1>4 DEF DividerError, Outside
  <1>5. ASSUME NEW p \in 1 .. 25, NEW v \in 24 .. 50
        PROVE  PllFreq(p, v) \in Nat
    <2>1. crystal \div p \in Nat
      BY SMT, CrystalTyped
    <2>2. (crystal \div p) * v \in Nat
      BY SMT, <2>1
    <2> QED
      BY <2>2 DEF PllFreq
  <1> QED
    BY <1>2, <1>3, <1>4, <1>5

LEMMA PowersOfTwo ==
  /\ 2 ^ 0 = 1 /\ 2 ^ 1 = 2 /\ 2 ^ 2 = 4 /\ 2 ^ 3 = 8 /\ 2 ^ 4 = 16 /\ 2 ^ 5 = 32
  /\ \A n \in 0 .. 5 : 2 ^ n \in {1, 2, 4, 8, 16, 32}
PROOF
  <1>1. 2 ^ 0 = 1 /\ 2 ^ 1 = 2 /\ 2 ^ 2 = 4 /\ 2 ^ 3 = 8 /\ 2 ^ 4 = 16 /\ 2 ^ 5 = 32
    BY SMT
  <1>2. ASSUME NEW n \in 0 .. 5 PROVE 2 ^ n \in {1, 2, 4, 8, 16, 32}
    <2>1. n = 0 \/ n = 1 \/ n = 2 \/ n = 3 \/ n = 4 \/ n = 5
      OBVIOUS
    <2> QED
      BY <1>1, <2>1, Zenon
  <1> QED
    BY <1>1, <1>2

LEMMA FllRefTyped ==
  ASSUME TypeInv, NEW range \in 0 .. 2, NEW frdiv \in 0 .. 5
  PROVE  FllRef(range, frdiv) \in Nat
PROOF
  <1>1. 2 ^ frdiv \in {1, 2, 4, 8, 16, 32}
    BY PowersOfTwo
  <1> DEFINE n == (IF range > 0 THEN 32 ELSE 1) * 2 ^ frdiv
  <1>2. n \in Nat /\ n > 0
    BY <1>1
  <1> HIDE DEF n
  <1>3. crystal \div n \in Nat
    BY SMT, <1>2, CrystalTyped
  <1> QED
    BY <1>3 DEF FllRef, n

LEMMA FitsMore ==
  ASSUME NEW m \in Nat, NEW n \in Nat, m <= n, NEW s, Fits(s, m)
  PROVE  Fits(s, n)
PROOF
  <1>1. s \in Seq(Op) /\ Len(s) <= m /\ \A i \in 1 .. Len(s) : Fit(s[i])
    BY DEF Fits
  <1>2. Len(s) <= n
    BY <1>1, LenProperties
  <1> QED
    BY <1>1, <1>2 DEF Fits

\* Scripts of two to six pieces.

LEMMA TwoFit ==
  ASSUME NEW s, NEW t,
         NEW i \in Nat, NEW j \in Nat,
         Fits(s, i), Fits(t, j),
         i + j <= 12
  PROVE  Fits(s \o t, 12)
PROOF
  <1>1. Fits(s \o t, i + j)
    BY ONLY Fits(s, i), Fits(t, j), ConcatFits, i \in Nat, j \in Nat
  <1>2. i + j \in Nat
    OBVIOUS
  <1> QED
    BY ONLY <1>1, <1>2, i + j <= 12, 12 \in Nat, FitsMore

LEMMA ThreeFit ==
  ASSUME NEW s, NEW t, NEW u,
         NEW i \in Nat, NEW j \in Nat, NEW k \in Nat,
         Fits(s, i), Fits(t, j), Fits(u, k),
         i + j + k <= 12
  PROVE  Fits(s \o t \o u, 12)
PROOF
  <1>1. Fits(s \o t, i + j)
    BY ONLY Fits(s, i), Fits(t, j), ConcatFits, i \in Nat, j \in Nat
  <1>2. Fits(s \o t \o u, i + j + k)
    BY ONLY <1>1, Fits(u, k), ConcatFits, i + j \in Nat, k \in Nat
  <1>3. i + j + k \in Nat
    OBVIOUS
  <1> QED
    BY ONLY <1>2, <1>3, i + j + k <= 12, 12 \in Nat, FitsMore

LEMMA FourFit ==
  ASSUME NEW s, NEW t, NEW u, NEW v,
         NEW i \in Nat, NEW j \in Nat, NEW k \in Nat, NEW l \in Nat,
         Fits(s, i), Fits(t, j), Fits(u, k), Fits(v, l),
         i + j + k + l <= 12
  PROVE  Fits(s \o t \o u \o v, 12)
PROOF
  <1>1. Fits(s \o t, i + j)
    BY ONLY Fits(s, i), Fits(t, j), ConcatFits, i \in Nat, j \in Nat
  <1>2. Fits(s \o t \o u, i + j + k)
    BY ONLY <1>1, Fits(u, k), ConcatFits, i + j \in Nat, k \in Nat
  <1>3. Fits(s \o t \o u \o v, i + j + k + l)
    BY ONLY <1>2, Fits(v, l), ConcatFits, i + j + k \in Nat, l \in Nat
  <1>4. i + j + k + l \in Nat
    OBVIOUS
  <1> QED
    BY ONLY <1>3, <1>4, i + j + k + l <= 12, 12 \in Nat, FitsMore

LEMMA FiveFit ==
  ASSUME NEW s, NEW t, NEW u, NEW v, NEW w,
         NEW i \in Nat, NEW j \in Nat, NEW k \in Nat, NEW l \in Nat, NEW m \in Nat,
         Fits(s, i), Fits(t, j), Fits(u, k), Fits(v, l), Fits(w, m),
         i + j + k + l + m <= 12
  PROVE  Fits(s \o t \o u \o v \o w, 12)
PROOF
  <1>1. Fits(s \o t, i + j)
    BY ONLY Fits(s, i), Fits(t, j), ConcatFits, i \in Nat, j \in Nat
  <1>2. Fits(s \o t \o u, i + j + k)
    BY ONLY <1>1, Fits(u, k), ConcatFits, i + j \in Nat, k \in Nat
  <1>3. Fits(s \o t \o u \o v, i + j + k + l)
    BY ONLY <1>2, Fits(v, l), ConcatFits, i + j + k \in Nat, l \in Nat
  <1>4. Fits(s \o t \o u \o v \o w, i + j + k + l + m)
    BY ONLY <1>3, Fits(w, m), ConcatFits, i + j + k + l \in Nat, m \in Nat
  <1>5. i + j + k + l + m \in Nat
    OBVIOUS
  <1> QED
    BY ONLY <1>4, <1>5, i + j + k + l + m <= 12, 12 \in Nat, FitsMore

LEMMA SixFit ==
  ASSUME NEW s, NEW t, NEW u, NEW v, NEW w, NEW x,
         NEW i \in Nat, NEW j \in Nat, NEW k \in Nat, NEW l \in Nat, NEW m \in Nat, NEW o \in Nat,
         Fits(s, i), Fits(t, j), Fits(u, k), Fits(v, l), Fits(w, m), Fits(x, o),
         i + j + k + l + m + o <= 12
  PROVE  Fits(s \o t \o u \o v \o w \o x, 12)
PROOF
  <1>1. Fits(s \o t, i + j)
    BY ONLY Fits(s, i), Fits(t, j), ConcatFits, i \in Nat, j \in Nat
  <1>2. Fits(s \o t \o u, i + j + k)
    BY ONLY <1>1, Fits(u, k), ConcatFits, i + j \in Nat, k \in Nat
  <1>3. Fits(s \o t \o u \o v, i + j + k + l)
    BY ONLY <1>2, Fits(v, l), ConcatFits, i + j + k \in Nat, l \in Nat
  <1>4. Fits(s \o t \o u \o v \o w, i + j + k + l + m)
    BY ONLY <1>3, Fits(w, m), ConcatFits, i + j + k + l \in Nat, m \in Nat
  <1>5. Fits(s \o t \o u \o v \o w \o x, i + j + k + l + m + o)
    BY ONLY <1>4, Fits(x, o), ConcatFits, i + j + k + l + m \in Nat, o \in Nat
  <1>6. i + j + k + l + m + o \in Nat
    OBVIOUS
  <1> QED
    BY ONLY <1>5, <1>6, i + j + k + l + m + o <= 12, 12 \in Nat, FitsMore

LEMMA RangesTyped == range_val \in 0 .. 2 /\ pll_range \in 0 .. 2
  BY SMT DEF range_val, pll_range

\* Into an external mode, from FEI or FBI.
LEMMA IntoExternalFits ==
  ASSUME NEW erefs \in {0, 1}, NEW range \in 0 .. 2
  PROVE  Fits(Oscillator(range, erefs) \o ExternalReference(2, erefs) \o ToClock(2) \o ClockMonitor(1), 12)
PROOF
  <1>1. /\ Fits(Oscillator(range, erefs), 1) /\ Fits(ExternalReference(2, erefs), 3)
        /\ Fits(ToClock(2), 1) /\ Fits(ClockMonitor(1), 1)
    BY OscillatorFits, ExternalFits, WaitsFit, FlagFits
  <1> QED
    BY <1>1, FourFit

LEMMA PllInitTyped ==
  ASSUME TypeInv, NEW erefs \in {0, 1}, NEW pll \in Int \X Int, PllInit(erefs, pll)
  PROVE  TypeInv'
PROOF
  <1> DEFINE error == IF OscErrorForPll(erefs) # 0 THEN OscErrorForPll(erefs) ELSE PllError(pll)
             open == Oscillator(pll_range, erefs)
                       \o ExternalReference(2, erefs) \o ToClock(2) \o ClockMonitor(1)
             script == open \o Pll(pll) \o AwaitPll \o SelectPll
  <1>1. error \in Nat /\ (error = 0 => PllError(pll) = 0)
    BY OscTyped, PllValue
  <1>2. ASSUME error = 0 PROVE Fits(script, 12) /\ PllFreq(pll[1], pll[2]) \in Nat
    <2>1. Fits(Oscillator(pll_range, erefs), 1) /\ Fits(ExternalReference(2, erefs), 3)
          /\ Fits(ToClock(2), 1) /\ Fits(ClockMonitor(1), 1)
      BY RangesTyped, OscillatorFits, ExternalFits, WaitsFit, FlagFits
    <2>2. Fits(Oscillator(pll_range, erefs) \o ExternalReference(2, erefs), 1 + 3)
      BY <2>1, ConcatFits
    <2>3. Fits(Oscillator(pll_range, erefs) \o ExternalReference(2, erefs) \o ToClock(2), (1 + 3) + 1)
      BY ONLY <2>1, <2>2, ConcatFits, 1 + 3 \in Nat, 1 \in Nat
    <2>4. Fits(open, ((1 + 3) + 1) + 1)
      BY ONLY <2>1, <2>3, ConcatFits, (1 + 3) + 1 \in Nat, 1 \in Nat
    <2>5. DividerError(pll) = 0 /\ PllFreq(pll[1], pll[2]) \in Nat
      BY <1>1, <1>2, PllValue
    <2>6. Fits(open, 6) /\ Fits(Pll(pll), 2) /\ Fits(AwaitPll, 2) /\ Fits(SelectPll, 2)
      BY <2>4, <2>5, PllFits, WaitsFit, SwitchesFit
    <2> HIDE DEF open
    <2>7. Fits(open \o Pll(pll) \o AwaitPll \o SelectPll, 12)
      BY <2>6, FourFit
    <2> QED
      BY <2>5, <2>7 DEF open
  <1>3. Call("pll_init", FEI, error, script, PllFreq(pll[1], pll[2]), PEE)
    BY DEF PllInit
  <1> HIDE DEF error, script
  <1> QED
    BY <1>1, <1>2, <1>3, CallTyped, ModesTyped

LEMMA fei_fbeTyped == TypeInv /\ fei_fbe => TypeInv'
PROOF
  <1> SUFFICES ASSUME TypeInv, fei_fbe PROVE TypeInv'
    OBVIOUS
  <1>1. PICK erefs \in {0, 1} : Call("fei_fbe", FEI, OscError(erefs), Oscillator(range_val, erefs) \o ExternalReference(2, erefs) \o ToClock(2) \o ClockMonitor(1), crystal, FBE)
    BY DEF fei_fbe
  <1>2. OscError(erefs) \in Nat
    BY OscTyped
  <1>3. Fits(Oscillator(range_val, erefs) \o ExternalReference(2, erefs) \o ToClock(2) \o ClockMonitor(1), 12)
    <2>1. Fits(Oscillator(range_val, erefs), 1) /\ Fits(ExternalReference(2, erefs), 3) /\ Fits(ToClock(2), 1) /\ Fits(ClockMonitor(1), 1)
      BY OscillatorFits, RangesTyped, ExternalFits, WaitsFit, FlagFits
    <2> QED
      BY <2>1, FourFit
  <1>4. crystal \in Nat
    BY CrystalTyped
  <1> QED
    BY <1>1, <1>2, <1>3, <1>4, CallTyped, ModesTyped

LEMMA fei_fbiTyped == TypeInv /\ fei_fbi => TypeInv'
PROOF
  <1> SUFFICES ASSUME TypeInv, fei_fbi PROVE TypeInv'
    OBVIOUS
  <1>1. PICK irc_freq \in IrcFreqs, irc_select \in {0, 1} : Call("fei_fbi", FEI, IrcError(irc_freq, irc_select), SelectIrc(irc_select) \o Write([CLKS |-> 1]) \o AwaitIrc(irc_select) \o ToClock(1), IrcOut(irc_freq, irc_select), FBI)
    BY DEF fei_fbi
  <1>2. IrcError(irc_freq, irc_select) \in Nat
    BY IrcTyped
  <1>3. Fits(SelectIrc(irc_select) \o Write([CLKS |-> 1]) \o AwaitIrc(irc_select) \o ToClock(1), 12)
    <2>1. Fits(SelectIrc(irc_select), 1) /\ Fits(Write([CLKS |-> 1]), 1) /\ Fits(AwaitIrc(irc_select), 1) /\ Fits(ToClock(1), 1)
      BY FlagFits, ClksFits, WaitsFit
    <2> QED
      BY <2>1, FourFit
  <1>4. IrcOut(irc_freq, irc_select) \in Nat
    BY IrcTyped
  <1> QED
    BY <1>1, <1>2, <1>3, <1>4, CallTyped, ModesTyped

LEMMA fei_feeTyped == TypeInv /\ fei_fee => TypeInv'
PROOF
  <1> SUFFICES ASSUME TypeInv, fei_fee PROVE TypeInv'
    OBVIOUS
  <1> DEFINE mcg_out == fll_freq(FllRef(range_val, frdiv_val))
  <1>1. PICK erefs \in {0, 1} : Call("fei_fee", FEI, OscError(erefs), Oscillator(range_val, erefs) \o (IF FllError(mcg_out) # 0 THEN <<>> ELSE ExternalReference(0, erefs) \o ClockMonitor(1)), mcg_out, FEE)
    BY DEF fei_fee
  <1> DEFINE rest == IF FllError(mcg_out) # 0 THEN <<>>
                     ELSE ExternalReference(0, erefs) \o ClockMonitor(1)
  <1>2. OscError(erefs) \in Nat
    BY OscTyped
  <1>3. Fits(Oscillator(range_val, erefs) \o rest, 12)
    <2>1. Fits(Oscillator(range_val, erefs), 1) /\ Fits(ExternalReference(0, erefs), 3) /\ Fits(ClockMonitor(1), 1)
      BY OscillatorFits, RangesTyped, ExternalFits, FlagFits
    <2>3. Fits(ExternalReference(0, erefs) \o ClockMonitor(1), 3 + 1)
      BY ONLY <2>1, ConcatFits, 3 \in Nat, 1 \in Nat
    <2>4. Fits(rest, 4)
      BY <2>3, NothingFits DEF Fits
    <2> HIDE DEF rest, mcg_out
    <2> QED
      BY <2>1, <2>4, TwoFit
  <1>4. mcg_out \in Nat
    BY FllRefTyped, FllFreqValue, RangesTyped, FrdivBounded
  <1> HIDE DEF rest, mcg_out
  <1> QED
    BY <1>1, <1>2, <1>3, <1>4, CallTyped, ModesTyped DEF rest, mcg_out

LEMMA fee_fbeTyped == TypeInv /\ fee_fbe => TypeInv'
PROOF
  <1> SUFFICES ASSUME TypeInv, fee_fbe PROVE TypeInv'
    OBVIOUS
  <1>1. Call("fee_fbe", FEE, 0, ToExternal, crystal, FBE)
    BY DEF fee_fbe
  <1>2. 0 \in Nat
    OBVIOUS
  <1>3. Fits(ToExternal, 12)
    BY SwitchesFit, FitsMore
  <1>4. crystal \in Nat
    BY CrystalTyped
  <1> QED
    BY <1>1, <1>2, <1>3, <1>4, CallTyped, ModesTyped

LEMMA fee_fbiTyped == TypeInv /\ fee_fbi => TypeInv'
PROOF
  <1> SUFFICES ASSUME TypeInv, fee_fbi PROVE TypeInv'
    OBVIOUS
  <1>1. PICK irc_freq \in IrcFreqs, irc_select \in {0, 1} : Call("fee_fbi", FEE, IrcError(irc_freq, irc_select), SelectIrc(irc_select) \o ClockMonitor(0) \o WriteOr([CLKS |-> 1, IREFS |-> 1]) \o AwaitIrc(irc_select) \o ToClock(1) \o AwaitInternal, IrcOut(irc_freq, irc_select), FBI)
    BY DEF fee_fbi
  <1>2. IrcError(irc_freq, irc_select) \in Nat
    BY IrcTyped
  <1>3. Fits(SelectIrc(irc_select) \o ClockMonitor(0) \o WriteOr([CLKS |-> 1, IREFS |-> 1]) \o AwaitIrc(irc_select) \o ToClock(1) \o AwaitInternal, 12)
    <2>1. Fits(SelectIrc(irc_select), 1) /\ Fits(ClockMonitor(0), 1) /\ Fits(WriteOr([CLKS |-> 1, IREFS |-> 1]), 1) /\ Fits(AwaitIrc(irc_select), 1) /\ Fits(ToClock(1), 1) /\ Fits(AwaitInternal, 1)
      BY FlagFits, BothFit, WaitsFit
    <2> QED
      BY <2>1, SixFit
  <1>4. IrcOut(irc_freq, irc_select) \in Nat
    BY IrcTyped
  <1> QED
    BY <1>1, <1>2, <1>3, <1>4, CallTyped, ModesTyped

LEMMA fee_feiTyped == TypeInv /\ fee_fei => TypeInv'
PROOF
  <1> SUFFICES ASSUME TypeInv, fee_fei PROVE TypeInv'
    OBVIOUS
  <1>1. PICK irc_freq \in IrcFreqs : Call("fee_fei", FEE, FllError(IrcFllFreq(irc_freq)), ClockMonitor(0) \o Write([IREFS |-> 1]) \o AwaitInternal, IrcFllFreq(irc_freq), FEI)
    BY DEF fee_fei
  <1>2. FllError(IrcFllFreq(irc_freq)) \in Nat
    BY IrcFllValue
  <1>3. Fits(ClockMonitor(0) \o Write([IREFS |-> 1]) \o AwaitInternal, 12)
    <2>1. Fits(ClockMonitor(0), 1) /\ Fits(Write([IREFS |-> 1]), 1) /\ Fits(AwaitInternal, 1)
      BY FlagFits, WaitsFit
    <2> QED
      BY <2>1, ThreeFit
  <1>4. IrcFllFreq(irc_freq) \in Nat
    BY IrcFllValue
  <1> QED
    BY <1>1, <1>2, <1>3, <1>4, CallTyped, ModesTyped

LEMMA fbi_fbeTyped == TypeInv /\ fbi_fbe => TypeInv'
PROOF
  <1> SUFFICES ASSUME TypeInv, fbi_fbe PROVE TypeInv'
    OBVIOUS
  <1>1. PICK erefs \in {0, 1} : Call("fbi_fbe", FBI, OscError(erefs), Oscillator(range_val, erefs) \o ExternalReference(2, erefs) \o ToClock(2) \o ClockMonitor(1), crystal, FBE)
    BY DEF fbi_fbe
  <1>2. OscError(erefs) \in Nat
    BY OscTyped
  <1>3. Fits(Oscillator(range_val, erefs) \o ExternalReference(2, erefs) \o ToClock(2) \o ClockMonitor(1), 12)
    <2>1. Fits(Oscillator(range_val, erefs), 1) /\ Fits(ExternalReference(2, erefs), 3) /\ Fits(ToClock(2), 1) /\ Fits(ClockMonitor(1), 1)
      BY OscillatorFits, RangesTyped, ExternalFits, WaitsFit, FlagFits
    <2> QED
      BY <2>1, FourFit
  <1>4. crystal \in Nat
    BY CrystalTyped
  <1> QED
    BY <1>1, <1>2, <1>3, <1>4, CallTyped, ModesTyped

LEMMA fbi_blpiTyped == TypeInv /\ fbi_blpi => TypeInv'
PROOF
  <1> SUFFICES ASSUME TypeInv, fbi_blpi PROVE TypeInv'
    OBVIOUS
  <1>1. PICK irc_freq \in IrcFreqs, irc_select \in {0, 1} : Call("fbi_blpi", FBI, 0, LowPower(1), IrcOut(irc_freq, irc_select), BLPI)
    BY DEF fbi_blpi
  <1>2. 0 \in Nat
    OBVIOUS
  <1>3. Fits(LowPower(1), 12)
    BY FlagFits, FitsMore
  <1>4. IrcOut(irc_freq, irc_select) \in Nat
    BY IrcTyped
  <1> QED
    BY <1>1, <1>2, <1>3, <1>4, CallTyped, ModesTyped

LEMMA fbi_feeTyped == TypeInv /\ fbi_fee => TypeInv'
PROOF
  <1> SUFFICES ASSUME TypeInv, fbi_fee PROVE TypeInv'
    OBVIOUS
  <1> DEFINE mcg_out == fll_freq(FllRef(range_val, frdiv_val))
  <1>1. PICK erefs \in {0, 1} : Call("fbi_fee", FBI, OscError(erefs), Oscillator(range_val, erefs) \o (IF FllError(mcg_out) # 0 THEN <<>> ELSE ExternalReference(0, erefs) \o ToClock(0) \o ClockMonitor(1)), mcg_out, FEE)
    BY DEF fbi_fee
  <1> DEFINE rest == IF FllError(mcg_out) # 0 THEN <<>>
                     ELSE ExternalReference(0, erefs) \o ToClock(0) \o ClockMonitor(1)
  <1>2. OscError(erefs) \in Nat
    BY OscTyped
  <1>3. Fits(Oscillator(range_val, erefs) \o rest, 12)
    <2>1. Fits(Oscillator(range_val, erefs), 1) /\ Fits(ExternalReference(0, erefs), 3) /\ Fits(ToClock(0), 1) /\ Fits(ClockMonitor(1), 1)
      BY OscillatorFits, RangesTyped, ExternalFits, WaitsFit, FlagFits
    <2>3. Fits(ExternalReference(0, erefs) \o ToClock(0), 3 + 1)
      BY ONLY <2>1, ConcatFits, 3 \in Nat, 1 \in Nat
    <2>4. Fits(ExternalReference(0, erefs) \o ToClock(0) \o ClockMonitor(1), (3 + 1) + 1)
      BY ONLY <2>1, <2>3, ConcatFits, 3 + 1 \in Nat, 1 \in Nat
    <2>5. Fits(rest, 5)
      BY <2>4, NothingFits DEF Fits
    <2> HIDE DEF rest, mcg_out
    <2> QED
      BY <2>1, <2>5, TwoFit
  <1>4. mcg_out \in Nat
    BY FllRefTyped, FllFreqValue, RangesTyped, FrdivBounded
  <1> HIDE DEF rest, mcg_out
  <1> QED
    BY <1>1, <1>2, <1>3, <1>4, CallTyped, ModesTyped DEF rest, mcg_out

LEMMA fbi_feiTyped == TypeInv /\ fbi_fei => TypeInv'
PROOF
  <1> SUFFICES ASSUME TypeInv, fbi_fei PROVE TypeInv'
    OBVIOUS
  <1>1. PICK irc_freq \in IrcFreqs : Call("fbi_fei", FBI, FllError(IrcFllFreq(irc_freq)), InternalReference(0) \o AwaitInternal \o ToClock(0), IrcFllFreq(irc_freq), FEI)
    BY DEF fbi_fei
  <1>2. FllError(IrcFllFreq(irc_freq)) \in Nat
    BY IrcFllValue
  <1>3. Fits(InternalReference(0) \o AwaitInternal \o ToClock(0), 12)
    <2>1. Fits(InternalReference(0), 1) /\ Fits(AwaitInternal, 1) /\ Fits(ToClock(0), 1)
      BY InternalFits, WaitsFit
    <2> QED
      BY <2>1, ThreeFit
  <1>4. IrcFllFreq(irc_freq) \in Nat
    BY IrcFllValue
  <1> QED
    BY <1>1, <1>2, <1>3, <1>4, CallTyped, ModesTyped

LEMMA blpi_fbiTyped == TypeInv /\ blpi_fbi => TypeInv'
PROOF
  <1> SUFFICES ASSUME TypeInv, blpi_fbi PROVE TypeInv'
    OBVIOUS
  <1>1. PICK irc_freq \in IrcFreqs, irc_select \in {0, 1} : Call("blpi_fbi", BLPI, 0, LowPower(0), IrcOut(irc_freq, irc_select), FBI)
    BY DEF blpi_fbi
  <1>2. 0 \in Nat
    OBVIOUS
  <1>3. Fits(LowPower(0), 12)
    BY FlagFits, FitsMore
  <1>4. IrcOut(irc_freq, irc_select) \in Nat
    BY IrcTyped
  <1> QED
    BY <1>1, <1>2, <1>3, <1>4, CallTyped, ModesTyped

LEMMA fbe_pbeTyped == TypeInv /\ fbe_pbe => TypeInv'
PROOF
  <1> SUFFICES ASSUME TypeInv, fbe_pbe PROVE TypeInv'
    OBVIOUS
  <1>1. PICK pll \in PllSettings : Call("fbe_pbe", FBE, PllError(pll), Pll(pll) \o AwaitPll, crystal, PBE)
    BY DEF fbe_pbe
  <1>2. PllError(pll) \in Nat
    BY PllValue, PllTyped
  <1>3. ASSUME PllError(pll) = 0 PROVE Fits(Pll(pll) \o AwaitPll, 12)
    <2>0. DividerError(pll) = 0
      BY <1>3, PllValue, PllTyped
    <2>1. Fits(Pll(pll), 2) /\ Fits(AwaitPll, 2)
      BY <2>0, PllFits, PllTyped, WaitsFit
    <2> QED
      BY <2>1, TwoFit
  <1>4. ASSUME PllError(pll) = 0 PROVE crystal \in Nat
    BY <1>4, PllValue, PllTyped, CrystalTyped
  <1> QED
    BY <1>1, <1>2, <1>3, <1>4, CallTyped, ModesTyped

LEMMA fbe_blpeTyped == TypeInv /\ fbe_blpe => TypeInv'
PROOF
  <1> SUFFICES ASSUME TypeInv, fbe_blpe PROVE TypeInv'
    OBVIOUS
  <1>1. Call("fbe_blpe", FBE, 0, LowPower(1), crystal, BLPE)
    BY DEF fbe_blpe
  <1>2. 0 \in Nat
    OBVIOUS
  <1>3. Fits(LowPower(1), 12)
    BY FlagFits, FitsMore
  <1>4. crystal \in Nat
    BY CrystalTyped
  <1> QED
    BY <1>1, <1>2, <1>3, <1>4, CallTyped, ModesTyped

LEMMA fbe_feiTyped == TypeInv /\ fbe_fei => TypeInv'
PROOF
  <1> SUFFICES ASSUME TypeInv, fbe_fei PROVE TypeInv'
    OBVIOUS
  <1>1. PICK irc_freq \in IrcFreqs : Call("fbe_fei", FBE, FllError(IrcFllFreq(irc_freq)), ClockMonitor(0) \o InternalReference(0) \o AwaitInternal \o ToClock(0), IrcFllFreq(irc_freq), FEI)
    BY DEF fbe_fei
  <1>2. FllError(IrcFllFreq(irc_freq)) \in Nat
    BY IrcFllValue
  <1>3. Fits(ClockMonitor(0) \o InternalReference(0) \o AwaitInternal \o ToClock(0), 12)
    <2>1. Fits(ClockMonitor(0), 1) /\ Fits(InternalReference(0), 1) /\ Fits(AwaitInternal, 1) /\ Fits(ToClock(0), 1)
      BY FlagFits, InternalFits, WaitsFit
    <2> QED
      BY <2>1, FourFit
  <1>4. IrcFllFreq(irc_freq) \in Nat
    BY IrcFllValue
  <1> QED
    BY <1>1, <1>2, <1>3, <1>4, CallTyped, ModesTyped

LEMMA fbe_feeTyped == TypeInv /\ fbe_fee => TypeInv'
PROOF
  <1> SUFFICES ASSUME TypeInv, fbe_fee PROVE TypeInv'
    OBVIOUS
  <1> DEFINE ref == Short(IF C["RANGE0"] > 0 THEN FllRef(C["RANGE0"], C["FRDIV"])
                                                ELSE FllRef(0, C["RANGE0"]))
             out == fll_freq(ref)
  <1>1. Call("fbe_fee", FBE, FllError(out), Write([CLKS |-> 0]) \o ToClock(0), out, FEE)
    BY DEF fbe_fee
  <1>2. FllError(out) \in Nat
    <2>1. ref \in Int
      <3>1. C["RANGE0"] \in 0 .. 2 /\ C["FRDIV"] \in 0 .. 5
        BY DEF TypeInv, Config, Fields, Highest
      <3>2. FllRef(C["RANGE0"], C["FRDIV"]) \in Int /\ (~(C["RANGE0"] > 0) => FllRef(0, C["RANGE0"]) \in Int)
        BY <3>1, FllRefTyped
      <3> QED
        BY SMT, <3>1, <3>2 DEF Short
    <2> HIDE DEF ref
    <2> QED
      BY SMT, <2>1, FllFreqValue
  <1>3. Fits(Write([CLKS |-> 0]) \o ToClock(0), 12)
    <2>1. Fits(Write([CLKS |-> 0]), 1) /\ Fits(ToClock(0), 1)
      BY ClksFits, WaitsFit
    <2> QED
      BY <2>1, TwoFit
  <1>4. out \in Nat
    <2>1. ref \in Int
      <3>1. C["RANGE0"] \in 0 .. 2 /\ C["FRDIV"] \in 0 .. 5
        BY DEF TypeInv, Config, Fields, Highest
      <3>2. FllRef(C["RANGE0"], C["FRDIV"]) \in Int /\ (~(C["RANGE0"] > 0) => FllRef(0, C["RANGE0"]) \in Int)
        BY <3>1, FllRefTyped
      <3> QED
        BY SMT, <3>1, <3>2 DEF Short
    <2> HIDE DEF ref
    <2> QED
      BY SMT, <2>1, FllFreqValue
  <1> HIDE DEF out
  <1> QED
    BY <1>1, <1>2, <1>3, <1>4, CallTyped, ModesTyped

LEMMA fbe_fbiTyped == TypeInv /\ fbe_fbi => TypeInv'
PROOF
  <1> SUFFICES ASSUME TypeInv, fbe_fbi PROVE TypeInv'
    OBVIOUS
  <1>1. PICK irc_freq \in IrcFreqs, irc_select \in {0, 1} : Call("fbe_fbi", FBE, IrcError(irc_freq, irc_select), SelectIrc(irc_select) \o ClockMonitor(0) \o InternalReference(1) \o AwaitIrc(irc_select) \o ToClock(1) \o AwaitInternal, IrcOut(irc_freq, irc_select), FBI)
    BY DEF fbe_fbi
  <1>2. IrcError(irc_freq, irc_select) \in Nat
    BY IrcTyped
  <1>3. Fits(SelectIrc(irc_select) \o ClockMonitor(0) \o InternalReference(1) \o AwaitIrc(irc_select) \o ToClock(1) \o AwaitInternal, 12)
    <2>1. Fits(SelectIrc(irc_select), 1) /\ Fits(ClockMonitor(0), 1) /\ Fits(InternalReference(1), 1) /\ Fits(AwaitIrc(irc_select), 1) /\ Fits(ToClock(1), 1) /\ Fits(AwaitInternal, 1)
      BY FlagFits, InternalFits, WaitsFit
    <2> QED
      BY <2>1, SixFit
  <1>4. IrcOut(irc_freq, irc_select) \in Nat
    BY IrcTyped
  <1> QED
    BY <1>1, <1>2, <1>3, <1>4, CallTyped, ModesTyped

LEMMA blpe_pbeTyped == TypeInv /\ blpe_pbe => TypeInv'
PROOF
  <1> SUFFICES ASSUME TypeInv, blpe_pbe PROVE TypeInv'
    OBVIOUS
  <1>1. PICK pll \in PllSettings : Call("blpe_pbe", BLPE, DividerError(pll), Pll(pll) \o LowPower(0) \o AwaitPll, crystal, PBE)
    BY DEF blpe_pbe
  <1>2. DividerError(pll) \in Nat
    BY PllValue, PllTyped
  <1>3. ASSUME DividerError(pll) = 0 PROVE Fits(Pll(pll) \o LowPower(0) \o AwaitPll, 12)
    <2>0. DividerError(pll) = 0
      BY <1>3, PllValue, PllTyped
    <2>1. Fits(Pll(pll), 2) /\ Fits(LowPower(0), 1) /\ Fits(AwaitPll, 2)
      BY <2>0, PllFits, PllTyped, FlagFits, WaitsFit
    <2> QED
      BY <2>1, ThreeFit
  <1>4. ASSUME DividerError(pll) = 0 PROVE crystal \in Nat
    BY <1>4, PllValue, PllTyped, CrystalTyped
  <1> QED
    BY <1>1, <1>2, <1>3, <1>4, CallTyped, ModesTyped

LEMMA blpe_fbeTyped == TypeInv /\ blpe_fbe => TypeInv'
PROOF
  <1> SUFFICES ASSUME TypeInv, blpe_fbe PROVE TypeInv'
    OBVIOUS
  <1>1. Call("blpe_fbe", BLPE, 0, FllInstead \o LowPower(0) \o AwaitFll, crystal, FBE)
    BY DEF blpe_fbe
  <1>2. 0 \in Nat
    OBVIOUS
  <1>3. Fits(FllInstead \o LowPower(0) \o AwaitFll, 12)
    <2>1. Fits(FllInstead, 1) /\ Fits(LowPower(0), 1) /\ Fits(AwaitFll, 1)
      BY FlagFits, WaitsFit DEF FllInstead
    <2> QED
      BY <2>1, ThreeFit
  <1>4. crystal \in Nat
    BY CrystalTyped
  <1> QED
    BY <1>1, <1>2, <1>3, <1>4, CallTyped, ModesTyped

LEMMA pee_pbeTyped == TypeInv /\ pee_pbe => TypeInv'
PROOF
  <1> SUFFICES ASSUME TypeInv, pee_pbe PROVE TypeInv'
    OBVIOUS
  <1>1. Call("pee_pbe", PEE, 0, ToExternal, crystal, PBE)
    BY DEF pee_pbe
  <1>2. 0 \in Nat
    OBVIOUS
  <1>3. Fits(ToExternal, 12)
    BY SwitchesFit, FitsMore
  <1>4. crystal \in Nat
    BY CrystalTyped
  <1> QED
    BY <1>1, <1>2, <1>3, <1>4, CallTyped, ModesTyped

LEMMA pbe_peeTyped == TypeInv /\ pbe_pee => TypeInv'
PROOF
  <1> SUFFICES ASSUME TypeInv, pbe_pee PROVE TypeInv'
    OBVIOUS
  <1>1. Call("pbe_pee", PBE, 0, Await("LOCK0", 1, 68) \o SelectPll, PllFreq(C["PRDIV0"] + 1, C["VDIV0"] + 24), PEE)
    BY DEF pbe_pee
  <1>2. 0 \in Nat
    OBVIOUS
  <1>3. Fits(Await("LOCK0", 1, 68) \o SelectPll, 12)
    <2>1. Fits(Await("LOCK0", 1, 68), 1) /\ Fits(SelectPll, 2)
      BY WaitsFit, SwitchesFit
    <2> QED
      BY <2>1, TwoFit
  <1>4. PllFreq(C["PRDIV0"] + 1, C["VDIV0"] + 24) \in Nat
    <2>1. C["PRDIV0"] \in 0 .. 26 /\ C["VDIV0"] \in 0 .. 26
      BY DEF TypeInv, Config, Fields, Highest
    <2>2. ASSUME NEW p \in 1 .. 27, NEW v \in 24 .. 50 PROVE PllFreq(p, v) \in Nat
      <3>1. crystal \div p \in Nat
        BY SMT, CrystalTyped
      <3>2. (crystal \div p) * v \in Nat
        BY SMT, <3>1
      <3> QED
        BY <3>2 DEF PllFreq
    <2> QED
      BY <2>1, <2>2
  <1> QED
    BY <1>1, <1>2, <1>3, <1>4, CallTyped, ModesTyped

LEMMA pbe_fbeTyped == TypeInv /\ pbe_fbe => TypeInv'
PROOF
  <1> SUFFICES ASSUME TypeInv, pbe_fbe PROVE TypeInv'
    OBVIOUS
  <1>1. Call("pbe_fbe", PBE, 0, FllInstead \o AwaitFll, crystal, FBE)
    BY DEF pbe_fbe
  <1>2. 0 \in Nat
    OBVIOUS
  <1>3. Fits(FllInstead \o AwaitFll, 12)
    <2>1. Fits(FllInstead, 1) /\ Fits(AwaitFll, 1)
      BY FlagFits, WaitsFit DEF FllInstead
    <2> QED
      BY <2>1, TwoFit
  <1>4. crystal \in Nat
    BY CrystalTyped
  <1> QED
    BY <1>1, <1>2, <1>3, <1>4, CallTyped, ModesTyped

LEMMA pbe_blpeTyped == TypeInv /\ pbe_blpe => TypeInv'
PROOF
  <1> SUFFICES ASSUME TypeInv, pbe_blpe PROVE TypeInv'
    OBVIOUS
  <1>1. Call("pbe_blpe", PBE, 0, LowPower(1), crystal, BLPE)
    BY DEF pbe_blpe
  <1>2. 0 \in Nat
    OBVIOUS
  <1>3. Fits(LowPower(1), 12)
    BY FlagFits, FitsMore
  <1>4. crystal \in Nat
    BY CrystalTyped
  <1> QED
    BY <1>1, <1>2, <1>3, <1>4, CallTyped, ModesTyped

LEMMA new_pll_freqTyped == TypeInv /\ new_pll_freq => TypeInv'
PROOF
  <1> SUFFICES ASSUME TypeInv, new_pll_freq PROVE TypeInv'
    OBVIOUS
  <1>1. PICK pll \in PllSettings : Call("new_pll_freq", PEE, PllError(pll), ToExternal \o Pll(pll) \o AwaitPll \o SelectPll, PllFreq(pll[1], pll[2]), PEE)
    BY DEF new_pll_freq
  <1>2. PllError(pll) \in Nat
    BY PllValue, PllTyped
  <1>3. ASSUME PllError(pll) = 0 PROVE Fits(ToExternal \o Pll(pll) \o AwaitPll \o SelectPll, 12)
    <2>0. DividerError(pll) = 0
      BY <1>3, PllValue, PllTyped
    <2>1. Fits(ToExternal, 2) /\ Fits(Pll(pll), 2) /\ Fits(AwaitPll, 2) /\ Fits(SelectPll, 2)
      BY <2>0, SwitchesFit, PllFits, PllTyped, WaitsFit
    <2> QED
      BY <2>1, FourFit
  <1>4. ASSUME PllError(pll) = 0 PROVE PllFreq(pll[1], pll[2]) \in Nat
    BY <1>4, PllValue, PllTyped, CrystalTyped
  <1> QED
    BY <1>1, <1>2, <1>3, <1>4, CallTyped, ModesTyped

LEMMA TypeNext == TypeInv /\ [Next]_vars => TypeInv'
PROOF
  <1> SUFFICES ASSUME TypeInv, [Next]_vars PROVE TypeInv'
    OBVIOUS
  <1>1. CASE FromFLL
    <2>1. CASE pll_init
      BY <2>1, PllInitTyped, PllTyped DEF pll_init
    <2> QED
      BY <1>1, <2>1, fei_fbeTyped, fei_fbiTyped, fei_feeTyped, fee_fbeTyped, fee_fbiTyped,
         fee_feiTyped DEF FromFLL
  <1>2. CASE FromInternal
    BY <1>2, fbi_fbeTyped, fbi_blpiTyped, fbi_feeTyped, fbi_feiTyped, blpi_fbiTyped
       DEF FromInternal
  <1>3. CASE FromExternal
    BY <1>3, fbe_pbeTyped, fbe_blpeTyped, fbe_feiTyped, fbe_feeTyped, fbe_fbiTyped,
       blpe_pbeTyped, blpe_fbeTyped DEF FromExternal
  <1>4. CASE FromPLL
    BY <1>4, pee_pbeTyped, pbe_peeTyped, pbe_fbeTyped, pbe_blpeTyped, new_pll_freqTyped
       DEF FromPLL
  <1>5. CASE Driver
    BY <1>5, StepTyped, FoundTyped, TimeOutTyped DEF Driver
  <1>6. CASE \E bit \in Bits : Follow(bit)
    BY <1>6, FollowTyped
  <1>7. CASE UNCHANGED vars
    BY <1>7 DEF TypeInv, vars
  <1> QED
    BY <1>1, <1>2, <1>3, <1>4, <1>5, <1>6, <1>7 DEF Next

LEMMA TypeInvShows == TypeInv => TypeOK
PROOF
  <1> SUFFICES ASSUME TypeInv PROVE TypeOK
    OBVIOUS
  <1>1. \A f \in Fields : C[f] \in 0 .. Highest(f)
    BY DEF TypeInv, Config
  <1>2. /\ C["CLKS"] \in 0 .. 3
        /\ \A f \in {"IREFS", "EREFS0", "LP", "IRCS", "PLLS", "CME0"} : C[f] \in {0, 1}
        /\ C["FRDIV"] \in 0 .. 5 /\ C["RANGE0"] \in 0 .. 2
    BY <1>1 DEF Highest, Fields
  <1>3. Len(todo) \in 0 .. 12
    <2> DEFINE n == Len(todo)
    <2>1. todo \in Seq(Op) /\ n <= 12
      BY DEF TypeInv, Fits
    <2>2. n \in Nat
      BY <2>1, LenProperties
    <2> HIDE DEF n
    <2>3. n \in 0 .. 12
      BY <2>1, <2>2
    <2> QED
      BY <2>3 DEF n
  <1> QED
    BY <1>2, <1>3 DEF TypeInv, TypeOK, Config, Status

\* Every field of the control registers keeps its width, the scripts are at most
\* twelve operations long, and what a function returns is never negative, for
\* every board, every argument and every sequence of calls (mcg.c).
THEOREM TypeCorrect == Spec => []TypeOK
  BY TypeInit, TypeNext, TypeInvShows, PTL DEF Spec
=============================================================================
