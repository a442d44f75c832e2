----------------------------- MODULE McgPlanProofs -----------------------------
(***************************************************************************)
(* Where the scripts of the clock driver lead: RightMode, RunsLocked,      *)
(* FllInSpec, CoreClockRight and Booted, for every board and every         *)
(* sequence of calls.                                                      *)
(*                                                                         *)
(* The status bits follow the control fields in their own time, so an      *)
(* invariant cannot say what they are in the middle of a script, only what *)
(* is known of them: the fields, and the bits that have settled            *)
(* (Known).  A write takes away what it disturbs, a wait that ends adds    *)
(* its bit (Leap); a script leads from what is known before it to what is  *)
(* known after it (LeadsTo), and scripts put one after the other do so     *)
(* too.  The invariant PlanInv says that what is left of the script leads  *)
(* from what is known now to the end the function promises (Final).  The   *)
(* hardware never disturbs what is known (FollowKnown), and every function *)
(* starts with such a script (the lemmas <function>Planned).  In the       *)
(* strict form no wait is in vain and no unlocked PLL is used, which only  *)
(* holds until a wait times out; the other form is what pll_init can count *)
(* on after any history.                                                   *)
(***************************************************************************)
EXTENDS McgProofs

-----------------------------------------------------------------------------
\* What a status bit settles at, with these control fields.
Aim(c, b) ==
    CASE b = "IREFST"   -> c["IREFS"]
      [] b = "PLLST"    -> c["PLLS"]
      [] b = "LOCK0"    -> IF c["PLLS"] = 1 /\ c["LP"] = 0 THEN 1 ELSE 0
      [] b = "OSCINIT0" -> c["EREFS0"]
      [] b = "IRCST"    -> c["IRCS"]
      [] b = "CLKST"    -> IF c["CLKS"] = 0 THEN 3 * c["PLLS"] ELSE c["CLKS"]

\* The clock in use is not the PLL.
NotPll == "not the PLL"

\* What is known of the hardware: the fields c, and that the bits of K have
\* settled.
Known(c, K) ==
    /\ C = c
    /\ \A b \in Bits : b \in K => S[b] = Aim(c, b)
    /\ NotPll \in K => S["CLKST"] # 3

\* It stays true however the hardware follows.
Sound(c, K) ==
    /\ "CLKST" \in K => c["CLKS"] \in 0 .. 2 /\ (c["CLKS"] = 0 => "PLLST" \in K)
    /\ NotPll \in K => \/ c["CLKS"] \in {1, 2}
                       \/ c["CLKS"] = 0 /\ c["PLLS"] = 0 /\ "PLLST" \in K

OffPll(c, K) == NotPll \in K \/ ("CLKST" \in K /\ Aim(c, "CLKST") # 3)

\* And the system does not run from a PLL that is not locked.
Safe(c, K) == OffPll(c, K) \/ ("LOCK0" \in K /\ Aim(c, "LOCK0") = 1)

Good(strict, c, K) == Sound(c, K) /\ (strict => Safe(c, K))

Unlocks == {"PRDIV0", "VDIV0", "PLLS", "LP"}

Put(c, o) == [f \in Fields |->
                IF f \notin DOMAIN o.fields THEN c[f]
                ELSE IF o.op = "or" THEN Or(c[f], o.fields[f]) ELSE o.fields[f]]

Writes(o, c, K, d, L) ==
    /\ o.op \in {"write", "or"} /\ d = Put(c, o)
    /\ \A b \in Bits : b \in L =>
          \/ /\ b \in K /\ Aim(d, b) = Aim(c, b)
             /\ b = "LOCK0" => DOMAIN o.fields \cap Unlocks = {}
          \/ b = "LOCK0" /\ DOMAIN o.fields \cap Unlocks # {} /\ Aim(d, b) = 0
    /\ NotPll \in L => OffPll(c, K)

\* A wait either ends with its bit settled, or never.
Waits(strict, o, c, K, d, L) ==
    /\ o.op = "await" /\ o.bit \in Bits /\ o.error \in 1 .. 255
    /\ \/ /\ d = c
          /\ strict => /\ o.value = Aim(c, o.bit)
                       /\ o.bit = "CLKST" => c["CLKS"] \in 0 .. 2
          /\ \A b \in Bits : b \in L => b \in K \/ (b = o.bit /\ o.value = Aim(c, b))
          /\ NotPll \in L => OffPll(c, K)
       \/ ~strict /\ o.bit \in K /\ o.value # Aim(c, o.bit)

\* From what is known before operation o to what is known after it; strictly:
\* no wait is in vain, and the system runs from no PLL that is not locked.
Leap(strict, o, c, K, d, L) ==
    /\ Sound(d, L) /\ (strict => Safe(d, L))
    /\ Writes(o, c, K, d, L) \/ Waits(strict, o, c, K, d, L)

\* The same for a script, with what is known between its operations.
Through(strict, s, cs, Ks) ==
    \A i \in 1 .. Len(s) : Leap(strict, s[i], cs[i], Ks[i], cs[i + 1], Ks[i + 1])

LeadsTo(strict, c, K, s, d, L) ==
    /\ s \in Seq(Op)
    /\ \E cs, Ks : /\ Through(strict, s, cs, Ks)
                   /\ cs[1] = c /\ Ks[1] = K
                   /\ cs[Len(s) + 1] = d /\ Ks[Len(s) + 1] = L

-----------------------------------------------------------------------------
\* Scripts in pieces.

LEMMA NothingLeads ==
  ASSUME NEW strict, NEW c, NEW K
  PROVE  LeadsTo(strict, c, K, <<>>, c, K)
PROOF
  <1> DEFINE cs == [i \in {1} |-> c]
             Ks == [i \in {1} |-> K]
  <1>1. cs[1] = c /\ Ks[1] = K /\ Len(<<>>) = 0 /\ <<>> \in Seq(Op)
    OBVIOUS
  <1>2. Through(strict, <<>>, cs, Ks)
    BY DEF Through
  <1> HIDE DEF cs, Ks
  <1> QED
    BY <1>1, <1>2 DEF LeadsTo

LEMMA NothingLeadsBack ==
  ASSUME NEW strict, NEW c, NEW K, NEW d, NEW L, LeadsTo(strict, c, K, <<>>, d, L)
  PROVE  d = c /\ L = K
  BY DEF LeadsTo

LEMMA OneLeads ==
  ASSUME NEW strict, NEW o \in Op, NEW c, NEW K, NEW d, NEW L, Leap(strict, o, c, K, d, L)
  PROVE  LeadsTo(strict, c, K, <<o>>, d, L)
PROOF
  <1> DEFINE cs == [i \in {1, 2} |-> IF i = 1 THEN c ELSE d]
             Ks == [i \in {1, 2} |-> IF i = 1 THEN K ELSE L]
             s == <<o>>
  <1>1. /\ cs[1] = c /\ Ks[1] = K /\ cs[1 + 1] = d /\ Ks[1 + 1] = L
        /\ Len(s) = 1 /\ s[1] = o /\ s \in Seq(Op)
    OBVIOUS
  <1> HIDE DEF cs, Ks, s
  <1>2. Through(strict, s, cs, Ks)
    <2> SUFFICES ASSUME NEW i \in 1 .. Len(s)
                 PROVE  Leap(strict, s[i], cs[i], Ks[i], cs[i + 1], Ks[i + 1])
      BY DEF Through
    <2>1. i = 1
      BY <1>1
    <2>2. Leap(strict, s[1], cs[1], Ks[1], cs[1 + 1], Ks[1 + 1])
      BY <1>1
    <2> QED
      BY <2>1, <2>2
  <1>3. LeadsTo(strict, c, K, s, d, L)
    BY <1>1, <1>2 DEF LeadsTo
  <1> QED
    BY <1>3 DEF s

LEMMA ConcatLeadsTo ==
  ASSUME NEW strict, NEW c, NEW K, NEW d, NEW L, NEW e, NEW M,
         NEW s, NEW t,
         LeadsTo(strict, c, K, s, d, L), LeadsTo(strict, d, L, t, e, M)
  PROVE  LeadsTo(strict, c, K, s \o t, e, M)
PROOF
  <1> DEFINE u == s \o t
             n == Len(s)
  <1>0. s \in Seq(Op) /\ t \in Seq(Op)
    BY DEF LeadsTo
  <1>1. /\ u \in Seq(Op) /\ Len(u) = n + Len(t)
        /\ n \in Nat /\ Len(t) \in Nat
        /\ \A i \in 1 .. n + Len(t) : u[i] = IF i <= n THEN s[i] ELSE t[i - n]
    BY <1>0, ConcatProperties, LenProperties
  <1>2. PICK cs, Ks : /\ Through(strict, s, cs, Ks)
                      /\ cs[1] = c /\ Ks[1] = K
                      /\ cs[n + 1] = d /\ Ks[n + 1] = L
    BY DEF LeadsTo
  <1>3. PICK ct, Kt : /\ Through(strict, t, ct, Kt)
                      /\ ct[1] = d /\ Kt[1] = L
                      /\ ct[Len(t) + 1] = e /\ Kt[Len(t) + 1] = M
    BY DEF LeadsTo
  <1> HIDE DEF u, n
  <1> DEFINE cu == [i \in 1 .. n + Len(t) + 1 |-> IF i <= n THEN cs[i] ELSE ct[i - n]]
             Ku == [i \in 1 .. n + Len(t) + 1 |-> IF i <= n THEN Ks[i] ELSE Kt[i - n]]
  <1>4. /\ \A i \in 1 .. n + 1 : cu[i] = cs[i] /\ Ku[i] = Ks[i]
        /\ \A i \in 1 .. Len(t) + 1 : cu[n + i] = ct[i] /\ Ku[n + i] = Kt[i]
    <2>1. ASSUME NEW i \in 1 .. n + 1 PROVE cu[i] = cs[i] /\ Ku[i] = Ks[i]
      <3>1. CASE i <= n
        BY <1>1, <3>1
      <3>2. CASE i = n + 1
        <4>1. i \in 1 .. n + Len(t) + 1 /\ ~(i <= n) /\ i - n = 1
          BY <1>1, <3>2
        <4> QED
          BY <1>2, <1>3, <3>2, <4>1
      <3> QED
        BY <1>1, <3>1, <3>2
    <2>2. ASSUME NEW i \in 1 .. Len(t) + 1 PROVE cu[n + i] = ct[i] /\ Ku[n + i] = Kt[i]
      <3>1. n + i \in 1 .. n + Len(t) + 1 /\ ~(n + i <= n) /\ (n + i) - n = i
        BY <1>1
      <3> QED
        BY <3>1
    <2> QED
      BY <2>1, <2>2
  <1> HIDE DEF cu, Ku
  <1>5. Through(strict, u, cu, Ku)
    <2> SUFFICES ASSUME NEW i \in 1 .. Len(u)
                 PROVE  Leap(strict, u[i], cu[i], Ku[i], cu[i + 1], Ku[i + 1])
      BY DEF Through
    <2>1. CASE i <= n
      <3>1. i \in 1 .. n /\ i \in 1 .. n + 1 /\ i + 1 \in 1 .. n + 1 /\ u[i] = s[i]
        BY <1>1, <2>1
      <3>2. Leap(strict, s[i], cs[i], Ks[i], cs[i + 1], Ks[i + 1])
        BY <1>2, <3>1 DEF Through, n
      <3> QED
        BY <1>4, <3>1, <3>2
    <2>2. CASE ~(i <= n)
      <3> DEFINE k == i - n
      <3>1. /\ k \in 1 .. Len(t) /\ k \in 1 .. Len(t) + 1 /\ k + 1 \in 1 .. Len(t) + 1
            /\ u[i] = t[k] /\ n + k = i /\ n + (k + 1) = i + 1
        BY <1>1, <2>2
      <3> HIDE DEF k
      <3>2. Leap(strict, t[k], ct[k], Kt[k], ct[k + 1], Kt[k + 1])
        BY <1>3, <3>1 DEF Through
      <3>3. cu[i] = ct[k] /\ Ku[i] = Kt[k] /\ cu[i + 1] = ct[k + 1] /\ Ku[i + 1] = Kt[k + 1]
        BY <1>4, <3>1
      <3> QED
        BY <3>1, <3>2, <3>3
    <2> QED
      BY <2>1, <2>2
  <1>6. /\ 1 \in 1 .. n + 1 /\ Len(t) + 1 \in 1 .. Len(t) + 1
        /\ n + (Len(t) + 1) = Len(u) + 1
    BY <1>1
  <1>7. /\ cu[1] = c /\ Ku[1] = K /\ cu[Len(u) + 1] = e /\ Ku[Len(u) + 1] = M
    BY <1>2, <1>3, <1>4, <1>6
  <1>8. LeadsTo(strict, c, K, u, e, M)
    BY <1>1, <1>5, <1>7 DEF LeadsTo
  <1> QED
    BY <1>8 DEF u

LEMMA TailLeads ==
  ASSUME NEW strict, NEW c, NEW K, NEW d, NEW L,
         NEW s, s # <<>>, LeadsTo(strict, c, K, s, d, L)
  PROVE  \E e, M : Leap(strict, Head(s), c, K, e, M) /\ LeadsTo(strict, e, M, Tail(s), d, L)
PROOF
  <1> DEFINE t == Tail(s)
  <1>0. s \in Seq(Op)
    BY DEF LeadsTo
  <1>1. /\ t \in Seq(Op) /\ Len(t) = Len(s) - 1 /\ Head(s) = s[1]
        /\ Len(s) \in Nat /\ Len(s) >= 1
        /\ \A i \in 1 .. Len(t) : t[i] = s[i + 1]
    BY <1>0, HeadTailProperties
  <1>2. PICK cs, Ks : /\ Through(strict, s, cs, Ks)
                      /\ cs[1] = c /\ Ks[1] = K
                      /\ cs[Len(s) + 1] = d /\ Ks[Len(s) + 1] = L
    BY DEF LeadsTo
  <1> HIDE DEF t
  <1> DEFINE ct == [i \in 1 .. Len(s) |-> cs[i + 1]]
             Kt == [i \in 1 .. Len(s) |-> Ks[i + 1]]
  <1>3. \A i \in 1 .. Len(s) : ct[i] = cs[i + 1] /\ Kt[i] = Ks[i + 1]
    OBVIOUS
  <1> HIDE DEF ct, Kt
  <1>4. Through(strict, t, ct, Kt)
    <2> SUFFICES ASSUME NEW i \in 1 .. Len(t)
                 PROVE  Leap(strict, t[i], ct[i], Kt[i], ct[i + 1], Kt[i + 1])
      BY DEF Through
    <2>1. i \in 1 .. Len(s) /\ i + 1 \in 1 .. Len(s) /\ t[i] = s[i + 1]
      BY <1>1
    <2>2. Leap(strict, s[i + 1], cs[i + 1], Ks[i + 1], cs[(i + 1) + 1], Ks[(i + 1) + 1])
      BY <1>2, <2>1 DEF Through
    <2> QED
      BY <1>3, <2>1, <2>2
  <1>5. 1 \in 1 .. Len(s) /\ Len(s) \in 1 .. Len(s) /\ Len(t) + 1 = Len(s)
    BY <1>1
  <1>6. LeadsTo(strict, ct[1], Kt[1], t, d, L)
    BY <1>1, <1>2, <1>3, <1>4, <1>5 DEF LeadsTo
  <1>7. Leap(strict, s[1], cs[1], Ks[1], cs[1 + 1], Ks[1 + 1])
    BY <1>2, <1>5 DEF Through
  <1>8. Leap(strict, Head(s), c, K, ct[1], Kt[1])
    BY <1>1, <1>2, <1>3, <1>5, <1>7
  <1> QED
    BY <1>6, <1>8 DEF t

-----------------------------------------------------------------------------
\* What is known stays true.

\* The hardware follows.
LEMMA FollowKnown ==
  ASSUME NEW c, NEW K, Known(c, K), Sound(c, K), DOMAIN S = Bits,
         NEW bit \in Bits, Follow(bit)
  PROVE  Known(c, K)'
PROOF
  <1>1. PICK value \in Target(bit) : S' = [S EXCEPT ![bit] = value]
    BY DEF Follow
  <1>2. C' = C /\ S[bit] \notin Target(bit)
    BY DEF Follow
  <1>3. \A b \in Bits : S'[b] = IF b = bit THEN value ELSE S[b]
    BY <1>1
  <1>4. ASSUME bit \in K PROVE FALSE
    <2>1. S[bit] = Aim(C, bit)
      BY <1>4 DEF Known
    <2>2. CASE bit = "CLKST"
      <3>1. C["CLKS"] = 0 => S["PLLST"] = C["PLLS"]
        BY <1>4, <2>2 DEF Known, Sound, Aim, Bits
      <3> QED
        BY <1>2, <1>4, <2>1, <2>2, <3>1 DEF Known, Sound, Aim, Target
    <2>3. CASE bit # "CLKST"
      BY <1>2, <2>1, <2>3 DEF Aim, Target, Bits
    <2> QED
      BY <2>2, <2>3
  <1>5. ASSUME NotPll \in K PROVE S'["CLKST"] # 3
    <2>1. CASE bit # "CLKST"
      BY <1>3, <1>5, <2>1 DEF Known, Bits
    <2>2. CASE bit = "CLKST"
      <3>1. S'["CLKST"] \in Target("CLKST")
        BY <1>1, <1>3, <2>2
      <3>2. \/ C["CLKS"] \in {1, 2}
            \/ C["CLKS"] = 0 /\ C["PLLS"] = 0 /\ S["PLLST"] = C["PLLS"]
        BY <1>5 DEF Known, Sound, Aim, Bits
      <3> QED
        BY <3>1, <3>2 DEF Target
    <2> QED
      BY <2>1, <2>2
  <1>6. \A b \in Bits : b \in K => S'[b] = Aim(c, b)
    BY <1>3, <1>4 DEF Known
  <1>7. C' = c
    BY <1>2 DEF Known
  <1> QED
    BY <1>5, <1>6, <1>7 DEF Known

\* If the clock in use follows C, it is not the PLL.
LEMMA OffPllShows ==
  ASSUME NEW c, NEW K, Known(c, K), OffPll(c, K)
  PROVE  S["CLKST"] # 3
  BY DEF OffPll, Known, Bits

\* An operation writes.
LEMMA StepKnown ==
  ASSUME NEW strict, NEW c, NEW K, NEW d, NEW L, Known(c, K), DOMAIN S = Bits,
         Step, Leap(strict, Head(todo), c, K, d, L)
  PROVE  Known(d, L)'
PROOF
  <1> DEFINE o == Head(todo)
             un == DOMAIN o.fields \cap Unlocks
  <1>1. /\ o.op \in {"write", "or"} /\ C' = Put(C, o)
        /\ S' = IF un # {} THEN [S EXCEPT !["LOCK0"] = 0] ELSE S
    BY DEF Step, Put, Unlocks
  <1>2. Writes(o, c, K, d, L)
    BY <1>1 DEF Leap, Waits
  <1> HIDE DEF o
  <1>3. C' = d
    BY <1>1, <1>2 DEF Writes, Known
  <1>4. \A b \in Bits : S'[b] = IF b = "LOCK0" /\ un # {} THEN 0 ELSE S[b]
    BY <1>1
  <1>5. ASSUME NEW b \in Bits, b \in L PROVE S'[b] = Aim(d, b)
    <2>1. \/ /\ b \in K /\ Aim(d, b) = Aim(c, b)
             /\ b = "LOCK0" => un = {}
          \/ b = "LOCK0" /\ un # {} /\ Aim(d, b) = 0
      BY <1>2, <1>5 DEF Writes
    <2> HIDE DEF un
    <2> QED
      BY <1>4, <2>1 DEF Known
  <1>6. ASSUME NotPll \in L PROVE S'["CLKST"] # 3
    <2>1. S["CLKST"] # 3
      BY <1>2, <1>6, OffPllShows DEF Writes
    <2> QED
      BY <1>4, <2>1 DEF Bits
  <1> QED
    BY <1>3, <1>5, <1>6 DEF Known

\* A wait ends.
LEMMA FoundKnown ==
  ASSUME NEW strict, NEW c, NEW K, NEW d, NEW L, Known(c, K),
         Found, Leap(strict, Head(todo), c, K, d, L)
  PROVE  Known(d, L)'
PROOF
  <1> DEFINE o == Head(todo)
  <1>1. o.op = "await" /\ S[o.bit] = o.value /\ C' = C /\ S' = S
    BY DEF Found
  <1>2. Waits(strict, o, c, K, d, L)
    BY <1>1 DEF Leap, Writes
  <1> HIDE DEF o
  <1>3. ~(o.bit \in K /\ o.value # Aim(c, o.bit))
    BY <1>1, <1>2 DEF Waits, Known
  <1>4. /\ d = c
        /\ \A b \in Bits : b \in L => b \in K \/ (b = o.bit /\ o.value = Aim(c, b))
        /\ NotPll \in L => OffPll(c, K)
    BY <1>2, <1>3 DEF Waits
  <1>5. ASSUME NEW b \in Bits, b \in L PROVE S[b] = Aim(c, b)
    BY <1>1, <1>4, <1>5 DEF Known
  <1>6. NotPll \in L => S["CLKST"] # 3
    BY <1>4, OffPllShows
  <1>7. C = c
    BY DEF Known
  <1> QED
    BY <1>1, <1>4, <1>5, <1>6, <1>7 DEF Known

\* Strictly, a wait that times out is one the hardware would end.
LEMMA TimeOutLate ==
  ASSUME NEW c, NEW K, NEW d, NEW L, C = c,
         TimeOut, Leap(TRUE, Head(todo), c, K, d, L)
  PROVE  late < MaxLate
PROOF
  <1> DEFINE o == Head(todo)
  <1>1. o.op = "await" /\ S[o.bit] # o.value
    BY DEF TimeOut
  <1>2. /\ o.bit \in Bits /\ o.value = Aim(C, o.bit)
        /\ o.bit = "CLKST" => C["CLKS"] \in 0 .. 2
    BY <1>1 DEF Leap, Writes, Waits
  <1> HIDE DEF o
  <1>3. SUFFICES ASSUME \A bit \in Bits : S[bit] \in Target(bit) PROVE FALSE
    BY DEF TimeOut
  <1>4. S[o.bit] \in Target(o.bit) /\ S["PLLST"] = C["PLLS"]
    BY <1>2, <1>3 DEF Target, Bits
  <1>5. CASE o.bit = "CLKST"
    BY <1>1, <1>2, <1>4, <1>5 DEF Target, Aim
  <1>6. CASE o.bit # "CLKST"
    BY <1>1, <1>2, <1>4, <1>6 DEF Target, Aim, Bits
  <1> QED
    BY <1>5, <1>6

\* And it returns an error.
LEMMA TimeOutReturns ==
  ASSUME NEW strict, NEW c, NEW K, NEW d, NEW L,
         TimeOut, Leap(strict, Head(todo), c, K, d, L)
  PROVE  ret' \in 1 .. 255
  BY DEF TimeOut, Leap, Writes, Waits

-----------------------------------------------------------------------------
\* What a function leads to.

\* The fields of a mode.
At(c, mode) ==
    LET is(clks, irefs, lp) == c["CLKS"] = clks /\ c["IREFS"] = irefs /\ c["LP"] = lp
    IN  \/ mode = FEI  /\ is(0, 1, 0) /\ c["PLLS"] = 0
        \/ mode = FEE  /\ is(0, 0, 0) /\ c["PLLS"] = 0
        \/ mode = FBI  /\ is(1, 1, 0) /\ c["PLLS"] = 0
        \/ mode = BLPI /\ is(1, 1, 1) /\ c["PLLS"] = 0
        \/ mode = FBE  /\ is(2, 0, 0) /\ c["PLLS"] = 0
        \/ mode = PBE  /\ is(2, 0, 0) /\ c["PLLS"] = 1
        \/ mode = BLPE /\ is(2, 0, 1)
        \/ mode = PEE  /\ is(0, 0, 0) /\ c["PLLS"] = 1

\* With the external clock in use its divider suits it, and it is not too fast.
Ranged(c) ==
    c["IREFS"] = 0 => /\ c["FRDIV"] = frdiv_val /\ c["RANGE0"] \in {range_val, pll_range}
                      /\ Allowed

FllInRange(c) ==
    /\ FllRef(c["RANGE0"], c["FRDIV"]) * Multiplier >= 20000000 * (DRS + 1)
    /\ FllRef(c["RANGE0"], c["FRDIV"]) * Multiplier <= 25000000 * (DRS + 1)

\* What CMSIS makes of the fields c.
Clock(c) ==
    IF c["CLKS"] = 2 THEN CPU_XTAL_CLK_HZ
    ELSE IF c["CLKS"] = 1
    THEN IF c["IRCS"] = 0 THEN CPU_INT_SLOW_CLK_HZ
         ELSE CPU_INT_FAST_CLK_HZ \div 2 ^ FCRDIV
    ELSE IF c["PLLS"] = 1
    THEN (CPU_XTAL_CLK_HZ \div (1 + c["PRDIV0"])) * (c["VDIV0"] + 24)
    ELSE Multiplier *
         IF c["IREFS"] = 1 THEN CPU_INT_SLOW_CLK_HZ
         ELSE (CPU_XTAL_CLK_HZ \div 2 ^ c["FRDIV"])
                  \div (IF c["RANGE0"] # 0 THEN 32 ELSE 1)

\* What callers say of an accepted internal reference is what CMSIS says.
Named ==
    \A irc_freq \in IrcFreqs :
        /\ IrcError(irc_freq, 0) = 0 => irc_freq = CPU_INT_SLOW_CLK_HZ
        /\ IrcError(irc_freq, 1) = 0 => irc_freq = CPU_INT_FAST_CLK_HZ

\* The frequency r returned by function f is the one CMSIS computes.
Agree(d, f, r) ==
    (Named /\ crystal = CPU_XTAL_CLK_HZ /\ f \notin {"fbi_blpi", "blpi_fbi"}) => r = Clock(d)

Base == {"IREFST", "PLLST", "CLKST"}

\* Where function f with goal g and outcome r ends.
Final(d, L, f, g, r) ==
    /\ Base \subseteq L /\ Ranged(d)
    /\ \E mode \in Modes : At(d, mode)
    /\ At(d, PEE) => "LOCK0" \in L
    /\ At(d, FEE) => FllInRange(d)
    /\ Frequency(r) => At(d, g) /\ Agree(d, f, r)

Outcome == IF todo = <<>> THEN ret ELSE result

Planned(strict) ==
    \E c, K, d, L :
        /\ Known(c, K) /\ Sound(c, K) /\ (strict => Safe(c, K))
        /\ LeadsTo(strict, c, K, todo, d, L)
        /\ Final(d, L, fn, goal, Outcome)

\* As long as no wait has timed out the script goes as planned; pll_init does
\* always, or it returns an error.
PlanInv ==
    /\ late = 0 => Planned(TRUE)
    /\ late # 0 /\ fn = "pll_init" /\ (todo # <<>> \/ Frequency(ret)) => Planned(FALSE)

LEMMA FinalSame ==
  ASSUME NEW d, NEW L, NEW f, NEW g, NEW r, crystal' = crystal, Final(d, L, f, g, r)
  PROVE  Final(d, L, f, g, r)'
PROOF
  <1>1. frdiv_val' = frdiv_val /\ range_val' = range_val /\ pll_range' = pll_range
    BY SMT DEF frdiv_val, range_val, pll_range
  <1>2. \A range, frdiv : FllRef(range, frdiv)' = FllRef(range, frdiv)
    BY SMT DEF FllRef
  <1>3. Ranged(d)' <=> Ranged(d)
    <2>1. Allowed' <=> Allowed
      BY SMT DEF Allowed
    <2> QED
      BY <1>1, <2>1, Zenon DEF Ranged
  <1>4. FllInRange(d)' <=> FllInRange(d)
    BY <1>2, SMT DEF FllInRange
  <1>5. Agree(d, f, r)' <=> Agree(d, f, r)
    BY Zenon DEF Agree
  <1> QED
    BY <1>3, <1>4, <1>5 DEF Final

\* The outcome of a script stays what it is.
LEMMA OutcomeStays ==
  ASSUME TypeInv, todo # <<>>, Advance
  PROVE  Outcome' = Outcome
PROOF
  <1>1. todo \in Seq(Op) /\ todo' = Tail(todo)
    BY DEF TypeInv, Fits, Advance
  <1>2. Len(todo) = 1 <=> todo' = <<>>
    <2> DEFINE t == Tail(todo)
    <2>1. t \in Seq(Op) /\ Len(t) = Len(todo) - 1 /\ Len(todo) \in Nat /\ Len(t) \in Nat
      <3>1. todo \in Seq(Op) /\ todo # <<>>
        BY <1>1
      <3>2. t \in Seq(Op) /\ Len(t) = Len(todo) - 1
        BY ONLY <3>1, HeadTailProperties
      <3> HIDE DEF t
      <3>3. Len(todo) \in Nat
        BY ONLY <3>1, LenProperties, Zenon
      <3>4. Len(t) \in Nat
        BY ONLY <3>2, LenProperties, Zenon
      <3> QED
        BY ONLY <3>2, <3>3, <3>4, Zenon
    <2>2. t = <<>> <=> Len(t) = 0
      <3>1. t \in Seq(Op)
        BY <2>1
      <3> HIDE DEF t
      <3> QED
        BY ONLY <3>1, EmptySeq, Zenon
    <2>3. Len(todo) = 1 <=> Len(t) = 0
      <3> DEFINE m == Len(t)
                 n == Len(todo)
      <3> HIDE DEF m, n
      <3>1. n = 1 <=> m = 0
        BY <2>1 DEF m, n
      <3> QED
        BY <3>1 DEF m, n
    <2> QED
      BY <1>1, <2>2, <2>3
  <1> QED
    BY <1>2 DEF Outcome, Advance

\* The script goes on.
LEMMA RunPlanned ==
  ASSUME NEW strict, TypeInv, Planned(strict), Step \/ Found
  PROVE  Planned(strict)'
PROOF
  <1>1. PICK c, K, d, L :
          /\ Known(c, K) /\ Sound(c, K) /\ (strict => Safe(c, K))
          /\ LeadsTo(strict, c, K, todo, d, L)
          /\ Final(d, L, fn, goal, Outcome)
    BY DEF Planned
  <1>2. todo # <<>> /\ Advance
    BY DEF Step, Found
  <1>3. PICK e, M : Leap(strict, Head(todo), c, K, e, M) /\ LeadsTo(strict, e, M, Tail(todo), d, L)
    BY <1>1, <1>2, TailLeads
  <1>4. DOMAIN S = Bits
    BY DEF TypeInv, Status
  <1>5. Known(e, M)'
    BY <1>1, <1>3, <1>4, StepKnown, FoundKnown
  <1>6. Sound(e, M) /\ (strict => Safe(e, M))
    BY <1>3 DEF Leap
  <1>7. todo' = Tail(todo) /\ crystal' = crystal /\ fn' = fn /\ goal' = goal
    BY <1>2 DEF Advance
  <1>8. Outcome' = Outcome
    BY <1>2, OutcomeStays
  <1>9. PICK r : r = Outcome
    OBVIOUS
  <1>10. PICK f, g : f = fn /\ g = goal
    OBVIOUS
  <1>11. Final(d, L, f, g, r)'
    BY <1>1, <1>7, <1>9, <1>10, FinalSame
  <1>12. LeadsTo(strict, e, M, todo', d, L)
    BY <1>3, <1>7
  <1>13. fn' = f /\ goal' = g /\ Outcome' = r
    BY <1>7, <1>8, <1>9, <1>10
  <1>14. Final(d, L, fn, goal, Outcome)'
    BY <1>11, <1>13
  <1> QED
    BY <1>5, <1>6, <1>12, <1>14 DEF Planned

\* The hardware follows.
LEMMA FollowPlanned ==
  ASSUME NEW strict, TypeInv, Planned(strict), NEW bit \in Bits, Follow(bit)
  PROVE  Planned(strict)'
PROOF
  <1>1. PICK c, K, d, L :
          /\ Known(c, K) /\ Sound(c, K) /\ (strict => Safe(c, K))
          /\ LeadsTo(strict, c, K, todo, d, L)
          /\ Final(d, L, fn, goal, Outcome)
    BY DEF Planned
  <1>2. DOMAIN S = Bits
    BY DEF TypeInv, Status
  <1>3. Known(c, K)'
    BY <1>1, <1>2, FollowKnown
  <1>4. UNCHANGED <<crystal, fn, todo, goal, result, ret>>
    BY DEF Follow
  <1>5. PICK f, g, r : f = fn /\ g = goal /\ r = Outcome
    OBVIOUS
  <1>6. fn' = f /\ goal' = g /\ Outcome' = r
    BY <1>4, <1>5 DEF Outcome
  <1>7. Final(d, L, f, g, r)'
    BY <1>1, <1>4, <1>5, FinalSame
  <1>8. Final(d, L, fn, goal, Outcome)'
    BY <1>6, <1>7
  <1>9. LeadsTo(strict, c, K, todo', d, L)
    BY <1>1, <1>4
  <1> QED
    BY <1>1, <1>3, <1>8, <1>9 DEF Planned

\* A wait times out.
LEMMA TimeOutPlanned == TypeInv /\ PlanInv /\ TimeOut => PlanInv'
PROOF
  <1> SUFFICES ASSUME TypeInv, PlanInv, TimeOut PROVE PlanInv'
    OBVIOUS
  <1>1. /\ todo # <<>> /\ todo' = <<>> /\ fn' = fn
        /\ late' = IF late < MaxLate THEN late + 1 ELSE late
    BY DEF TimeOut
  <1>2. late \in Nat
    BY MaxLateTyped DEF TypeInv
  <1>3. ASSUME late = 0 PROVE late < MaxLate
    <2>1. Planned(TRUE)
      BY <1>3 DEF PlanInv
    <2>2. PICK c, K, d, L : Known(c, K) /\ LeadsTo(TRUE, c, K, todo, d, L)
      BY <2>1 DEF Planned
    <2>3. PICK e, M : Leap(TRUE, Head(todo), c, K, e, M)
      BY <1>1, <2>2, TailLeads
    <2> QED
      BY <2>2, <2>3, TimeOutLate DEF Known
  <1>4. late' # 0
    BY <1>1, <1>2, <1>3
  <1>5. ASSUME fn' = "pll_init" PROVE ~Frequency(ret')
    <2>1. PICK strict : Planned(strict)
      BY <1>1, <1>5 DEF PlanInv
    <2>2. PICK c, K, d, L : LeadsTo(strict, c, K, todo, d, L)
      BY <2>1 DEF Planned
    <2>3. PICK e, M : Leap(strict, Head(todo), c, K, e, M)
      BY <1>1, <2>2, TailLeads
    <2>4. ret' \in 1 .. 255
      BY <2>3, TimeOutReturns
    <2> QED
      BY <2>4 DEF Frequency
  <1>6. Frequency(ret)' <=> Frequency(ret')
    BY DEF Frequency
  <1> QED
    BY <1>1, <1>4, <1>5, <1>6 DEF PlanInv

\* A script that leads where function f with goal g and outcome r should end.
Plan(strict, script, f, g, r) ==
    /\ script # <<>>
    /\ \E c, K, d, L :
          /\ Known(c, K) /\ Good(strict, c, K)
          /\ LeadsTo(strict, c, K, script, d, L)
          /\ Final(d, L, f, g, r)

\* A call: it is refused, or starts a script that leads somewhere.
LEMMA CallPlanned ==
  ASSUME TypeInv, PlanInv,
         NEW name, NEW from \in Modes, NEW error \in 0 .. 255, NEW script, NEW out, NEW to,
         Call(name, from, error, script, out, to),
         In(from) /\ error = 0 /\ late = 0 => Plan(TRUE, script, name, to, out),
         In(from) /\ error = 0 /\ late # 0 /\ name = "pll_init" =>
            Plan(FALSE, script, name, to, out)
  PROVE  PlanInv'
PROOF
  <1>1. NotIn(from) \in 0 .. 255
    BY DEF NotIn, Modes, FEI, FEE, FBI, FBE, BLPI, BLPE, PBE, PEE
  <1>2. UNCHANGED <<crystal, C, S, late>> /\ goal' = to /\ fn' = name /\ todo = <<>>
    BY DEF Call
  <1>3. ASSUME NEW c, NEW K PROVE Known(c, K)' <=> Known(c, K)
    BY <1>2 DEF Known
  <1>4. CASE ~In(from) \/ error # 0
    <2>1. ret' \in 0 .. 255 /\ UNCHANGED <<todo, result>>
      BY <1>1, <1>4 DEF Call
    <2>2. ~Frequency(ret')
      BY <2>1 DEF Frequency
    <2>3. ASSUME late = 0 PROVE Planned(TRUE)'
      <3>1. Planned(TRUE)
        BY <2>3 DEF PlanInv
      <3>2. PICK c, K, d, L :
              /\ Known(c, K) /\ Sound(c, K) /\ Safe(c, K)
              /\ LeadsTo(TRUE, c, K, todo, d, L)
              /\ Final(d, L, fn, goal, Outcome)
        BY <3>1 DEF Planned
      <3>3. PICK r : r = ret'
        OBVIOUS
      <3>4. Final(d, L, name, to, r)
        BY <2>2, <3>2, <3>3 DEF Final
      <3>5. Final(d, L, name, to, r)'
        BY <1>2, <3>4, FinalSame
      <3>6. Outcome' = r
        BY <1>2, <2>1, <3>3 DEF Outcome
      <3>7. Final(d, L, fn, goal, Outcome)'
        BY <1>2, <3>5, <3>6
      <3> QED
        BY <1>3, <2>1, <3>2, <3>7 DEF Planned
    <2>4. Frequency(ret)' <=> Frequency(ret')
      BY DEF Frequency
    <2> QED
      BY <1>2, <2>1, <2>2, <2>3, <2>4 DEF PlanInv
  <1>5. CASE In(from) /\ error = 0
    <2>1. todo' = script /\ result' = out /\ ret' = 0
      BY <1>5 DEF Call
    <2>2. ASSUME NEW strict, Plan(strict, script, name, to, out)
          PROVE  Planned(strict)'
      <3>1. PICK c, K, d, L :
              /\ Known(c, K) /\ Good(strict, c, K)
              /\ LeadsTo(strict, c, K, script, d, L)
              /\ Final(d, L, name, to, out)
        BY <2>2 DEF Plan
      <3>2. Outcome' = out
        BY <2>1, <2>2 DEF Outcome, Plan
      <3>3. PICK r : r = out
        OBVIOUS
      <3>4. Final(d, L, name, to, r)'
        BY <1>2, <3>1, <3>3, FinalSame
      <3>5. Final(d, L, fn, goal, Outcome)'
        BY <1>2, <3>2, <3>3, <3>4
      <3> QED
        BY <1>3, <2>1, <3>1, <3>5 DEF Planned, Good
    <2>4. late = 0 => Planned(TRUE)'
      BY <1>5, <2>2
    <2>5. late # 0 /\ name = "pll_init" => Planned(FALSE)'
      BY <1>5, <2>2
    <2> QED
      BY <1>2, <2>4, <2>5 DEF PlanInv
  <1> QED
    BY <1>4, <1>5

LEMMA PlanInit == Init => PlanInv
PROOF
  <1> SUFFICES ASSUME Init PROVE PlanInv
    OBVIOUS
  <1> DEFINE K == {"IREFST", "PLLST", "CLKST", NotPll}
  <1>1. Known(C, K) /\ Sound(C, K) /\ Safe(C, K)
    BY DEF Init, Known, Sound, Safe, OffPll, Aim, Bits, Fields, NotPll
  <1>2. LeadsTo(TRUE, C, K, todo, C, K)
    BY NothingLeads DEF Init
  <1>3. Final(C, K, fn, goal, Outcome)
    <2>1. At(C, FEI) /\ ~At(C, PEE) /\ ~At(C, FEE) /\ FEI \in Modes
      BY DEF Init, At, Fields, Modes, FEI, FEE, FBI, FBE, BLPI, BLPE, PBE, PEE
    <2>2. Base \subseteq K /\ Ranged(C)
      BY DEF Base, Ranged, Init, Fields
    <2>3. Outcome = 0
      BY DEF Outcome, Init
    <2>4. ~Frequency(Outcome)
      BY <2>3 DEF Frequency
    <2> QED
      BY <2>1, <2>2, <2>4 DEF Final
  <1>4. Planned(TRUE)
    BY <1>1, <1>2, <1>3 DEF Planned
  <1> QED
    BY <1>4 DEF PlanInv, Init

-----------------------------------------------------------------------------
\* The mode the status bits show.

LEMMA ConfigFields ==
  ASSUME NEW c \in Config
  PROVE  /\ c["CLKS"] \in 0 .. 3 /\ c["FRDIV"] \in 0 .. 5 /\ c["RANGE0"] \in 0 .. 2
         /\ c["PRDIV0"] \in 0 .. 26 /\ c["VDIV0"] \in 0 .. 26
         /\ \A f \in {"IREFS", "EREFS0", "LP", "IRCS", "PLLS", "CME0"} : c[f] \in {0, 1}
         /\ DOMAIN c = Fields
PROOF
  <1>1. \A f \in Fields : c[f] \in 0 .. Highest(f)
    BY DEF Config
  <1>2. DOMAIN c = Fields
    BY DEF Config
  <1> QED
    BY <1>1, <1>2 DEF Highest, Fields

LEMMA AtOnce ==
  ASSUME NEW c, NEW m \in Modes, NEW n \in Modes, At(c, m), At(c, n)
  PROVE  m = n
  BY DEF At, Modes, FEI, FEE, FBI, FBE, BLPI, BLPE, PBE, PEE

LEMMA InIsAt ==
  ASSUME NEW c \in Config, NEW L, Known(c, L), Sound(c, L), Base \subseteq L,
         \E mode \in Modes : At(c, mode),
         NEW m \in Modes
  PROVE  In(m) <=> At(c, m)
PROOF
  <1>1. /\ S["CLKST"] = Aim(c, "CLKST") /\ S["IREFST"] = c["IREFS"] /\ S["PLLST"] = c["PLLS"]
        /\ C["LP"] = c["LP"]
    BY DEF Known, Base, Bits, Aim
  <1>2. c["CLKS"] \in 0 .. 2 /\ c["PLLS"] \in {0, 1} /\ c["LP"] \in {0, 1} /\ c["IREFS"] \in {0, 1}
    BY ConfigFields DEF Sound, Base
  <1>3. S["CLKST"] = IF c["CLKS"] = 0 THEN 3 * c["PLLS"] ELSE c["CLKS"]
    BY <1>1 DEF Aim
  <1>4. ASSUME At(c, m) PROVE In(m)
    BY <1>1, <1>3, <1>4 DEF At, In, FEI, FEE, FBI, FBE, BLPI, BLPE, PBE, PEE
  <1>5. ASSUME In(m) PROVE At(c, m)
    <2>1. PICK n \in Modes : At(c, n)
      OBVIOUS
    <2>2. /\ c["CLKS"] = 0 => c["LP"] = 0
          /\ c["LP"] = 1 /\ c["CLKS"] = 1 => c["IREFS"] = 1
      BY <2>1 DEF At
    <2> QED
      BY <1>1, <1>2, <1>3, <1>5, <2>2 DEF At, In, FEI, FEE, FBI, FBE, BLPI, BLPE, PBE, PEE
  <1> QED
    BY <1>4, <1>5

LEMMA WhatIsAt ==
  ASSUME NEW c \in Config, NEW L, Known(c, L), Sound(c, L), Base \subseteq L,
         NEW m \in Modes, At(c, m)
  PROVE  what_mcg_mode = m
PROOF
  <1>1. \A n \in Modes : In(n) <=> At(c, n)
    BY InIsAt
  <1>2. In(m) /\ \A n \in Modes : In(n) => n = m
    BY <1>1, AtOnce
  <1> QED
    BY <1>2 DEF what_mcg_mode

\* Between two calls.
LEMMA Rest ==
  ASSUME TypeInv, NEW strict, Planned(strict), todo = <<>>
  PROVE  /\ C \in Config
         /\ \E L : /\ Known(C, L) /\ Sound(C, L) /\ (strict => Safe(C, L))
                   /\ Final(C, L, fn, goal, ret)
PROOF
  <1>1. PICK c, K, d, L :
          /\ Known(c, K) /\ Sound(c, K) /\ (strict => Safe(c, K))
          /\ LeadsTo(strict, c, K, todo, d, L)
          /\ Final(d, L, fn, goal, Outcome)
    BY DEF Planned
  <1>2. d = c /\ L = K
    BY <1>1, NothingLeadsBack
  <1>3. c = C
    BY <1>1 DEF Known
  <1>4. Outcome = ret
    BY DEF Outcome
  <1>5. C \in Config
    BY DEF TypeInv
  <1> QED
    BY <1>1, <1>2, <1>3, <1>4, <1>5

LEMMA LockedShows == PlanInv => RunsLocked
PROOF
  <1> SUFFICES ASSUME PlanInv, late = 0, S["CLKST"] = 3 PROVE S["LOCK0"] = 1
    BY DEF RunsLocked
  <1>1. PICK c, K : Known(c, K) /\ Safe(c, K)
    BY DEF PlanInv, Planned
  <1>2. "LOCK0" \in K /\ Aim(c, "LOCK0") = 1
    BY <1>1, OffPllShows DEF Safe
  <1> QED
    BY <1>1, <1>2 DEF Known, Bits

LEMMA RightModeShows == TypeInv /\ PlanInv => RightMode
PROOF
  <1> SUFFICES ASSUME TypeInv, PlanInv, todo = <<>>, late = 0, Frequency(ret)
               PROVE  what_mcg_mode = goal
    BY DEF RightMode
  <1>1. PICK L : Known(C, L) /\ Sound(C, L) /\ Final(C, L, fn, goal, ret)
    BY Rest DEF PlanInv
  <1>2. Base \subseteq L /\ At(C, goal) /\ goal \in Modes /\ C \in Config
    BY <1>1 DEF Final, TypeInv
  <1> QED
    BY <1>1, <1>2, WhatIsAt

LEMMA FllShows == TypeInv /\ PlanInv => FllInSpec
PROOF
  <1> SUFFICES ASSUME TypeInv, PlanInv, todo = <<>>, late = 0, what_mcg_mode = FEE
               PROVE  FllInRange(C)
    <2> DEFINE x == FllRef(C["RANGE0"], C["FRDIV"])
    <2>1. TypeInv => x \in Nat
      BY ConfigFields, FllRefTyped DEF TypeInv
    <2> HIDE DEF x
    <2>2. TypeInv => x * Multiplier \in Int
      BY <2>1, MultiplierTyped
    <2>3. 20000000 * (DRS + 1) \in Int /\ 25000000 * (DRS + 1) \in Int
      BY SMT, McgAssumption
    <2> QED
      BY SMT, <2>2, <2>3 DEF FllInSpec, FllInRange, x
  <1>1. PICK L : Known(C, L) /\ Sound(C, L) /\ Final(C, L, fn, goal, ret)
    BY Rest DEF PlanInv
  <1>2. PICK m \in Modes : At(C, m)
    BY <1>1 DEF Final
  <1>3. m = FEE
    <2>1. Base \subseteq L /\ C \in Config
      BY <1>1 DEF Final, TypeInv
    <2> QED
      BY <1>1, <1>2, <2>1, WhatIsAt
  <1> QED
    BY <1>1, <1>2, <1>3, Zenon DEF Final

LEMMA ClockShows == TypeInv /\ PlanInv /\ Named => CoreClockRight
PROOF
  <1> SUFFICES ASSUME TypeInv, PlanInv, Named, todo = <<>>, late = 0, Frequency(ret),
                      crystal = CPU_XTAL_CLK_HZ, fn \notin {"fbi_blpi", "blpi_fbi"}
               PROVE  ret = MCGOUTClock
    BY Zenon DEF CoreClockRight
  <1>1. PICK L : Final(C, L, fn, goal, ret)
    BY Rest DEF PlanInv
  <1>2. ret = Clock(C)
    BY <1>1, Zenon DEF Final, Agree
  <1> QED
    BY <1>2, Zenon DEF Clock, MCGOUTClock

-----------------------------------------------------------------------------
\* The blocks of the scripts.

\* What is known while the system runs from the PLL, and while it does not.
OnPll == {"IREFST", "PLLST", "CLKST", "LOCK0"}
OnOther == {"IREFST", "PLLST", "CLKST", NotPll}

With(c, w) == [f \in Fields |-> IF f \in DOMAIN w THEN w[f] ELSE c[f]]

LEMMA Start ==
  ASSUME TypeInv, PlanInv, todo = <<>>, late = 0, NEW m \in Modes, In(m)
  PROVE  \E c \in Config : /\ At(c, m) /\ Ranged(c)
                           /\ LET K == IF m = PEE THEN OnPll ELSE OnOther
                              IN  Known(c, K) /\ Good(TRUE, c, K)
PROOF
  <1>1. PICK L : Known(C, L) /\ Sound(C, L) /\ Safe(C, L) /\ Final(C, L, fn, goal, ret)
    BY Rest DEF PlanInv
  <1>2. PICK c : c = C
    OBVIOUS
  <1>3. c \in Config /\ Known(c, L) /\ Sound(c, L) /\ Final(c, L, fn, goal, ret)
    BY <1>1, <1>2 DEF TypeInv
  <1>4. /\ Base \subseteq L /\ Ranged(c)
        /\ \E mode \in Modes : At(c, mode)
        /\ At(c, PEE) => "LOCK0" \in L
    BY <1>3, Zenon DEF Final
  <1>5. At(c, m)
    BY <1>3, <1>4, InIsAt
  <1>6. /\ c["CLKS"] \in 0 .. 2 /\ c["PLLS"] \in {0, 1}
    BY <1>3, <1>4, ConfigFields DEF Sound, Base
  <1>7. CASE m = PEE
    <2>1. OnPll \subseteq L
      BY <1>4, <1>5, <1>7 DEF OnPll, Base
    <2>2. c["PLLS"] = 1 /\ c["LP"] = 0 /\ c["CLKS"] = 0
      BY <1>5, <1>7 DEF At, FEI, FEE, FBI, FBE, BLPI, BLPE, PBE, PEE
    <2>3. Known(c, OnPll)
      BY <1>3, <2>1 DEF Known, OnPll, NotPll
    <2>4. Good(TRUE, c, OnPll)
      BY <2>2 DEF Good, Sound, Safe, OnPll, NotPll, Aim
    <2> QED
      BY <1>3, <1>4, <1>5, <1>7, <2>3, <2>4
  <1>8. CASE m # PEE
    <2>1. c["CLKS"] = 0 => c["PLLS"] = 0
      BY <1>5, <1>8 DEF At, FEI, FEE, FBI, FBE, BLPI, BLPE, PBE, PEE
    <2>2. S["CLKST"] = Aim(c, "CLKST")
      BY <1>3, <1>4 DEF Known, Base, Bits
    <2>3. S["CLKST"] # 3
      BY <1>6, <2>1, <2>2 DEF Aim
    <2>4. Known(c, OnOther)
      BY <1>3, <1>4, <2>3 DEF Known, OnOther, Base, Bits, NotPll
    <2>5. Good(TRUE, c, OnOther)
      BY <1>6, <2>1 DEF Good, Sound, Safe, OffPll, OnOther, NotPll
    <2> QED
      BY <1>3, <1>4, <1>5, <1>8, <2>4, <2>5
  <1> QED
    BY <1>7, <1>8

LEMMA Ends ==
  ASSUME NEW d, NEW L, Base \subseteq L, Ranged(d),
         NEW m \in Modes, At(d, m), m = PEE => "LOCK0" \in L, m = FEE => FllInRange(d),
         NEW f, NEW r, Frequency(r) => Agree(d, f, r)
  PROVE  Final(d, L, f, m, r)
PROOF
  <1>1. PEE \in Modes /\ FEE \in Modes
    BY ModesTyped
  <1>2. (At(d, PEE) => m = PEE) /\ (At(d, FEE) => m = FEE)
    BY <1>1, AtOnce
  <1> QED
    BY <1>2, Zenon DEF Final

\* One write.
LEMMA WriteLeads ==
  ASSUME NEW strict, NEW c, NEW K, NEW w \in Settings, NEW L, Good(strict, With(c, w), L),
         \A b \in Bits : b \in L =>
            /\ b \in K /\ Aim(With(c, w), b) = Aim(c, b)
            /\ b = "LOCK0" => DOMAIN w \cap Unlocks = {},
         NotPll \in L => OffPll(c, K)
  PROVE  LeadsTo(strict, c, K, Write(w), With(c, w), L)
PROOF
  <1> DEFINE o == [op |-> "write", fields |-> w]
  <1>1. o \in Op /\ o.op = "write" /\ o.fields = w
    BY DEF Op
  <1> HIDE DEF o
  <1>2. With(c, w) = Put(c, o)
    BY <1>1 DEF With, Put
  <1>3. Writes(o, c, K, With(c, w), L)
    BY <1>1, <1>2 DEF Writes
  <1>4. Leap(strict, o, c, K, With(c, w), L)
    BY <1>3 DEF Leap, Good
  <1>5. LeadsTo(strict, c, K, <<o>>, With(c, w), L)
    BY <1>1, <1>4, OneLeads
  <1> QED
    BY <1>5 DEF Write, o

\* A wait, after which its bit is known.
LEMMA AwaitLeads ==
  ASSUME NEW strict, NEW c, NEW K, NEW bit \in Bits, NEW value \in Int, value = Aim(c, bit),
         NEW error \in 1 .. 255, NEW L, L \subseteq K \cup {bit}, Good(strict, c, L),
         bit = "CLKST" => c["CLKS"] \in 0 .. 2
  PROVE  LeadsTo(strict, c, K, Await(bit, value, error), c, L)
PROOF
  <1> DEFINE o == [op |-> "await", bit |-> bit, value |-> value, error |-> error]
  <1>1. /\ o \in Op /\ o.op = "await"
        /\ o.bit = bit /\ o.value = value /\ o.error = error
    BY DEF Op
  <1> HIDE DEF o
  <1>2. NotPll \in L => OffPll(c, K)
    BY DEF OffPll, NotPll, Bits
  <1>3. Waits(strict, o, c, K, c, L)
    BY <1>1, <1>2 DEF Waits
  <1>4. Leap(strict, o, c, K, c, L)
    BY <1>3 DEF Leap, Good
  <1>5. LeadsTo(strict, c, K, <<o>>, c, L)
    BY <1>1, <1>4, OneLeads
  <1> QED
    BY <1>5 DEF Await, o

\* A write to fields that no status bit known follows.
LEMMA QuietLeads ==
  ASSUME NEW strict, NEW c, NEW K, NEW w \in Settings,
         DOMAIN w \subseteq {"RANGE0", "EREFS0", "IRCS", "CME0"},
         "OSCINIT0" \notin K, "IRCST" \notin K, Good(strict, c, K)
  PROVE  LeadsTo(strict, c, K, Write(w), With(c, w), K) /\ Good(strict, With(c, w), K)
PROOF
  <1> DEFINE d == With(c, w)
  <1>1. \A f \in {"CLKS", "PLLS", "IREFS", "LP"} : d[f] = c[f]
    BY DEF With, Fields
  <1> HIDE DEF d
  <1>2. \A b \in Bits : b \in K => Aim(d, b) = Aim(c, b)
    BY <1>1 DEF Aim, Bits
  <1>3. Good(strict, d, K)
    BY <1>1 DEF Good, Sound, Safe, OffPll, Aim
  <1>4. DOMAIN w \cap Unlocks = {}
    BY DEF Unlocks
  <1>5. NotPll \in K => OffPll(c, K)
    BY DEF OffPll
  <1>6. LeadsTo(strict, c, K, Write(w), d, K)
    BY <1>2, <1>3, <1>4, <1>5, WriteLeads DEF d
  <1> QED
    BY <1>3, <1>6 DEF d

LEMMA SettingsHave ==
  ASSUME NEW x \in Int, NEW y \in Int, NEW z \in Int
  PROVE  /\ [CME0 |-> x] \in Settings /\ [IRCS |-> x] \in Settings /\ [LP |-> x] \in Settings
         /\ [CLKS |-> x] \in Settings /\ [PLLS |-> x] \in Settings /\ [IREFS |-> x] \in Settings
         /\ [PRDIV0 |-> x] \in Settings /\ [RANGE0 |-> x, EREFS0 |-> y] \in Settings
         /\ [CLKS |-> x, IREFS |-> y] \in Settings /\ [VDIV0 |-> x, PLLS |-> y] \in Settings
         /\ [CLKS |-> x, FRDIV |-> y, IREFS |-> z] \in Settings
PROOF
  <1>1. ASSUME NEW D \in SUBSET Fields, NEW f \in [D -> Int] PROVE f \in Settings
    BY DEF Settings
  <1>2. /\ {"CME0"} \in SUBSET Fields /\ {"IRCS"} \in SUBSET Fields /\ {"LP"} \in SUBSET Fields
        /\ {"CLKS"} \in SUBSET Fields /\ {"PLLS"} \in SUBSET Fields /\ {"IREFS"} \in SUBSET Fields
        /\ {"PRDIV0"} \in SUBSET Fields /\ {"RANGE0", "EREFS0"} \in SUBSET Fields
        /\ {"CLKS", "IREFS"} \in SUBSET Fields /\ {"VDIV0", "PLLS"} \in SUBSET Fields
        /\ {"CLKS", "FRDIV", "IREFS"} \in SUBSET Fields
    BY DEF Fields
  <1>3. [CME0 |-> x] \in Settings
    BY <1>1, <1>2, [CME0 |-> x] \in [{"CME0"} -> Int]
  <1>4. [IRCS |-> x] \in Settings
    BY <1>1, <1>2, [IRCS |-> x] \in [{"IRCS"} -> Int]
  <1>5. [LP |-> x] \in Settings
    BY <1>1, <1>2, [LP |-> x] \in [{"LP"} -> Int]
  <1>6. [CLKS |-> x] \in Settings
    BY <1>1, <1>2, [CLKS |-> x] \in [{"CLKS"} -> Int]
  <1>7. [PLLS |-> x] \in Settings
    BY <1>1, <1>2, [PLLS |-> x] \in [{"PLLS"} -> Int]
  <1>8. [IREFS |-> x] \in Settings
    BY <1>1, <1>2, [IREFS |-> x] \in [{"IREFS"} -> Int]
  <1>9. [PRDIV0 |-> x] \in Settings
    BY <1>1, <1>2, [PRDIV0 |-> x] \in [{"PRDIV0"} -> Int]
  <1>10. [RANGE0 |-> x, EREFS0 |-> y] \in Settings
    BY <1>1, <1>2, [RANGE0 |-> x, EREFS0 |-> y] \in [{"RANGE0", "EREFS0"} -> Int]
  <1>11. [CLKS |-> x, IREFS |-> y] \in Settings
    BY <1>1, <1>2, [CLKS |-> x, IREFS |-> y] \in [{"CLKS", "IREFS"} -> Int]
  <1>12. [VDIV0 |-> x, PLLS |-> y] \in Settings
    BY <1>1, <1>2, [VDIV0 |-> x, PLLS |-> y] \in [{"VDIV0", "PLLS"} -> Int]
  <1>13. [CLKS |-> x, FRDIV |-> y, IREFS |-> z] \in Settings
    BY <1>1, <1>2, [CLKS |-> x, FRDIV |-> y, IREFS |-> z] \in [{"CLKS", "FRDIV", "IREFS"} -> Int]
  <1> QED
    BY <1>3, <1>4, <1>5, <1>6, <1>7, <1>8, <1>9, <1>10, <1>11, <1>12, <1>13

\* Fields outside F are kept.
Same(c, d, F) == \A f \in Fields \ F : d[f] = c[f]

\* The fields that configure the oscillator, and those that select a reference.
C2Fields == {"RANGE0", "EREFS0"}
C1Fields == {"CLKS", "FRDIV", "IREFS"}

Oscillates(d, range, erefs) == d["RANGE0"] = range /\ d["EREFS0"] = erefs

LEMMA OscillatorLeads ==
  ASSUME NEW strict, NEW c, NEW K, NEW range \in Int, NEW erefs \in Int,
         "OSCINIT0" \notin K, "IRCST" \notin K, Good(strict, c, K)
  PROVE  \E d : /\ LeadsTo(strict, c, K, Oscillator(range, erefs), d, K) /\ Good(strict, d, K)
                /\ Oscillates(d, range, erefs) /\ Same(c, d, C2Fields)
PROOF
  <1> DEFINE w == [RANGE0 |-> range, EREFS0 |-> erefs]
             d == With(c, w)
  <1>1. w \in Settings /\ DOMAIN w = {"RANGE0", "EREFS0"}
    BY SettingsHave
  <1>2. Oscillates(d, range, erefs) /\ Same(c, d, C2Fields)
    BY DEF Oscillates, With, Same, Fields, C2Fields
  <1>3. Write(w) = Oscillator(range, erefs)
    BY DEF Oscillator
  <1> HIDE DEF w
  <1>4. LeadsTo(strict, c, K, Write(w), d, K) /\ Good(strict, d, K)
    BY <1>1, QuietLeads
  <1> HIDE DEF d
  <1> QED
    BY <1>2, <1>3, <1>4

LEMMA MonitorLeads ==
  ASSUME NEW strict, NEW c, NEW K, NEW on \in Int,
         "OSCINIT0" \notin K, "IRCST" \notin K, Good(strict, c, K)
  PROVE  \E d : /\ LeadsTo(strict, c, K, ClockMonitor(on), d, K) /\ Good(strict, d, K)
                /\ Same(c, d, {"CME0"})
PROOF
  <1> DEFINE w == [CME0 |-> on]
             d == With(c, w)
  <1>1. w \in Settings /\ DOMAIN w = {"CME0"}
    BY SettingsHave
  <1>2. Same(c, d, {"CME0"})
    BY DEF With, Same, Fields
  <1>3. Write(w) = ClockMonitor(on)
    BY DEF ClockMonitor
  <1> HIDE DEF w
  <1>4. LeadsTo(strict, c, K, Write(w), d, K) /\ Good(strict, d, K)
    BY <1>1, QuietLeads
  <1> HIDE DEF d
  <1> QED
    BY <1>2, <1>3, <1>4

LEMMA SelectIrcLeads ==
  ASSUME NEW strict, NEW c, NEW K, NEW irc_select \in Int,
         "OSCINIT0" \notin K, "IRCST" \notin K, Good(strict, c, K)
  PROVE  \E d : /\ LeadsTo(strict, c, K, SelectIrc(irc_select), d, K) /\ Good(strict, d, K)
                /\ d["IRCS"] = irc_select /\ Same(c, d, {"IRCS"})
PROOF
  <1> DEFINE w == [IRCS |-> irc_select]
             d == With(c, w)
  <1>1. w \in Settings /\ DOMAIN w = {"IRCS"}
    BY SettingsHave
  <1>2. d["IRCS"] = irc_select /\ Same(c, d, {"IRCS"})
    BY DEF With, Same, Fields
  <1>3. Write(w) = SelectIrc(irc_select)
    BY DEF SelectIrc
  <1> HIDE DEF w
  <1>4. LeadsTo(strict, c, K, Write(w), d, K) /\ Good(strict, d, K)
    BY <1>1, QuietLeads
  <1> HIDE DEF d
  <1> QED
    BY <1>2, <1>3, <1>4

\* The switch to the external reference.
LEMMA ReferenceLeads ==
  ASSUME NEW strict, NEW c, NEW K, NEW clks \in {0, 2}, NEW erefs \in {0, 1},
         c["EREFS0"] = erefs,
         NEW L \in SUBSET (K \cap {"PLLST", "CLKST", NotPll}),
         L # {} => c["PLLS"] = 0 /\ "PLLST" \in L,
         "CLKST" \in L => c["CLKS"] = clks,
         strict => NotPll \in L
  PROVE  \E d : LET M == L \cup {"IREFST"} IN
           /\ LeadsTo(strict, c, K, ExternalReference(clks, erefs), d, M) /\ Good(strict, d, M)
           /\ d["CLKS"] = clks /\ d["FRDIV"] = frdiv_val /\ d["IREFS"] = 0
           /\ Same(c, d, C1Fields)
PROOF
  <1> DEFINE M == L \cup {"IREFST"}
             w == [CLKS |-> clks, FRDIV |-> frdiv_val, IREFS |-> 0]
             d == With(c, w)
             a == IF erefs = 1 THEN Await("OSCINIT0", 1, 35) ELSE <<>>
             b == Await("IREFST", 0, 17)
  <1>1. w \in Settings /\ DOMAIN w = {"CLKS", "FRDIV", "IREFS"}
    <2>1. frdiv_val \in Int /\ clks \in Int /\ 0 \in Int
      BY FrdivTyped
    <2> QED
      BY <2>1, SettingsHave
  <1>2. /\ d["CLKS"] = clks /\ d["FRDIV"] = frdiv_val /\ d["IREFS"] = 0
        /\ Same(c, d, C1Fields)
    BY DEF With, Same, Fields, C1Fields
  <1>3. ExternalReference(clks, erefs) = (Write(w) \o a) \o b
    BY DEF ExternalReference
  <1> HIDE DEF w, b
  <1>4. d["PLLS"] = c["PLLS"] /\ d["EREFS0"] = erefs
    BY <1>2 DEF Same, Fields, C1Fields
  <1> HIDE DEF d
  <1>5. Good(strict, d, L) /\ Good(strict, d, M)
    <2>1. /\ "CLKST" \in L => d["CLKS"] \in 0 .. 2 /\ "PLLST" \in L
          /\ NotPll \in L => \/ d["CLKS"] \in {1, 2}
                             \/ d["CLKS"] = 0 /\ d["PLLS"] = 0 /\ "PLLST" \in L
      BY <1>2, <1>4
    <2>2. /\ "CLKST" \in M <=> "CLKST" \in L
          /\ "PLLST" \in M <=> "PLLST" \in L
          /\ NotPll \in M <=> NotPll \in L
      BY DEF NotPll
    <2>3. Sound(d, L) /\ Sound(d, M)
      BY <2>1, <2>2, Zenon DEF Sound
    <2>4. strict => Safe(d, L) /\ Safe(d, M)
      BY <2>2, Zenon DEF Safe, OffPll
    <2> QED
      BY <2>3, <2>4 DEF Good
  <1>6. LeadsTo(strict, c, K, Write(w), d, L)
    <2>1. \A x \in Bits : x \in L =>
             /\ x \in K /\ Aim(d, x) = Aim(c, x)
             /\ x = "LOCK0" => DOMAIN w \cap Unlocks = {}
      BY <1>2, <1>4 DEF Aim, Bits, NotPll
    <2>2. NotPll \in L => OffPll(c, K)
      BY DEF OffPll
    <2> QED
      BY <1>1, <1>5, <2>1, <2>2, WriteLeads DEF d
  <1>7. LeadsTo(strict, d, L, a, d, L)
    <2>1. CASE erefs = 1
      <3>1. 1 = Aim(d, "OSCINIT0")
        BY <1>4, <2>1 DEF Aim
      <3>2. /\ "OSCINIT0" \in Bits /\ "OSCINIT0" # "CLKST"
            /\ 1 \in Int /\ 35 \in 1 .. 255 /\ L \subseteq L \cup {"OSCINIT0"}
        BY DEF Bits
      <3>3. LeadsTo(strict, d, L, Await("OSCINIT0", 1, 35), d, L)
        BY ONLY <1>5, <3>1, <3>2, AwaitLeads
      <3> QED
        BY <2>1, <3>3
    <2>2. CASE erefs # 1
      BY <2>2, NothingLeads
    <2> QED
      BY <2>1, <2>2
  <1> HIDE DEF a
  <1>8. LeadsTo(strict, d, L, b, d, M)
    <2>1. 0 = Aim(d, "IREFST")
      BY <1>2 DEF Aim
    <2>2. /\ "IREFST" \in Bits /\ "IREFST" # "CLKST"
          /\ 0 \in Int /\ 17 \in 1 .. 255 /\ M \subseteq L \cup {"IREFST"}
      BY DEF Bits
    <2>3. LeadsTo(strict, d, L, Await("IREFST", 0, 17), d, M)
      BY ONLY <1>5, <2>1, <2>2, AwaitLeads
    <2> QED
      BY <2>3 DEF b
  <1>9. LeadsTo(strict, c, K, Write(w) \o a, d, L)
    BY <1>6, <1>7, ConcatLeadsTo
  <1>10. LeadsTo(strict, c, K, (Write(w) \o a) \o b, d, M)
    BY <1>8, <1>9, ConcatLeadsTo
  <1> HIDE DEF M
  <1> QED
    BY <1>2, <1>3, <1>5, <1>10 DEF M

LEMMA Learns ==
  ASSUME NEW strict, NEW c, NEW K, NEW bit \in Bits, NEW value \in Int, value = Aim(c, bit),
         NEW error \in 1 .. 255, Good(strict, c, K),
         bit = "CLKST" => c["CLKS"] \in 0 .. 2 /\ (c["CLKS"] = 0 => "PLLST" \in K)
  PROVE  /\ LeadsTo(strict, c, K, Await(bit, value, error), c, K \cup {bit})
         /\ Good(strict, c, K \cup {bit})
PROOF
  <1> DEFINE L == K \cup {bit}
  <1>1. /\ K \subseteq L
        /\ NotPll \in L <=> NotPll \in K
        /\ "CLKST" \in L => "CLKST" \in K \/ bit = "CLKST"
    BY DEF NotPll, Bits
  <1> HIDE DEF L
  <1>2. Sound(c, L)
    BY <1>1 DEF Good, Sound
  <1>3. strict => Safe(c, L)
    BY <1>1 DEF Good, Safe, OffPll
  <1>4. Good(strict, c, L)
    BY <1>2, <1>3 DEF Good
  <1>5. LeadsTo(strict, c, K, Await(bit, value, error), c, L)
    BY <1>4, AwaitLeads DEF L
  <1> QED
    BY <1>4, <1>5 DEF L

LEMMA Passes ==
  ASSUME NEW strict, NEW c, NEW K, NEW bit \in Bits, NEW value \in Int, value = Aim(c, bit),
         NEW error \in 1 .. 255, Good(strict, c, K), bit # "CLKST"
  PROVE  LeadsTo(strict, c, K, Await(bit, value, error), c, K)
PROOF
  <1>1. K \subseteq K \cup {bit}
    OBVIOUS
  <1> QED
    BY <1>1, AwaitLeads

LEMMA ToClockLeads ==
  ASSUME NEW strict, NEW c, NEW K, NEW clkst \in 0 .. 3, clkst = Aim(c, "CLKST"),
         c["CLKS"] \in 0 .. 2, c["CLKS"] = 0 => "PLLST" \in K, Good(strict, c, K)
  PROVE  /\ LeadsTo(strict, c, K, ToClock(clkst), c, K \cup {"CLKST"})
         /\ Good(strict, c, K \cup {"CLKST"})
PROOF
  <1>1. 24 + clkst \in 1 .. 255 /\ clkst \in Int /\ "CLKST" \in Bits
    BY DEF Bits
  <1> QED
    BY <1>1, Learns DEF ToClock

LEMMA AwaitInternalLeads ==
  ASSUME NEW strict, NEW c, NEW K, c["IREFS"] = 1, Good(strict, c, K)
  PROVE  /\ LeadsTo(strict, c, K, AwaitInternal, c, K \cup {"IREFST"})
         /\ Good(strict, c, K \cup {"IREFST"})
PROOF
  <1>1. 1 = Aim(c, "IREFST") /\ "IREFST" \in Bits /\ "IREFST" # "CLKST"
    BY DEF Bits, Aim
  <1>2. 1 \in Int /\ 18 \in 1 .. 255
    OBVIOUS
  <1> QED
    BY ONLY <1>1, <1>2, Good(strict, c, K), Learns DEF AwaitInternal

LEMMA AwaitIrcLeads ==
  ASSUME NEW strict, NEW c, NEW K, NEW irc_select \in {0, 1}, c["IRCS"] = irc_select,
         Good(strict, c, K)
  PROVE  LeadsTo(strict, c, K, AwaitIrc(irc_select), c, K)
PROOF
  <1>1. irc_select = Aim(c, "IRCST") /\ "IRCST" \in Bits /\ "IRCST" # "CLKST"
    BY DEF Bits, Aim
  <1>2. irc_select \in Int /\ 19 + irc_select \in 1 .. 255
    OBVIOUS
  <1> QED
    BY ONLY <1>1, <1>2, Good(strict, c, K), Passes DEF AwaitIrc

LEMMA AwaitFllLeads ==
  ASSUME NEW strict, NEW c, NEW K, c["PLLS"] = 0, Good(strict, c, K)
  PROVE  /\ LeadsTo(strict, c, K, AwaitFll, c, K \cup {"PLLST"})
         /\ Good(strict, c, K \cup {"PLLST"})
PROOF
  <1>1. 0 = Aim(c, "PLLST") /\ "PLLST" \in Bits /\ "PLLST" # "CLKST"
    BY DEF Bits, Aim
  <1>2. 0 \in Int /\ 21 \in 1 .. 255
    OBVIOUS
  <1> QED
    BY ONLY <1>1, <1>2, Good(strict, c, K), Learns DEF AwaitFll

LEMMA AwaitLockLeads ==
  ASSUME NEW strict, NEW c, NEW K, c["PLLS"] = 1, c["LP"] = 0, Good(strict, c, K)
  PROVE  /\ LeadsTo(strict, c, K, Await("LOCK0", 1, 68), c, K \cup {"LOCK0"})
         /\ Good(strict, c, K \cup {"LOCK0"})
PROOF
  <1>1. 1 = Aim(c, "LOCK0") /\ "LOCK0" \in Bits /\ "LOCK0" # "CLKST"
    BY DEF Bits, Aim
  <1>2. 1 \in Int /\ 68 \in 1 .. 255
    OBVIOUS
  <1> QED
    BY ONLY <1>1, <1>2, Good(strict, c, K), Learns

LEMMA AwaitPllsLeads ==
  ASSUME NEW strict, NEW c, NEW K, c["PLLS"] = 1, Good(strict, c, K)
  PROVE  /\ LeadsTo(strict, c, K, Await("PLLST", 1, 22), c, K \cup {"PLLST"})
         /\ Good(strict, c, K \cup {"PLLST"})
PROOF
  <1>1. 1 = Aim(c, "PLLST") /\ "PLLST" \in Bits /\ "PLLST" # "CLKST"
    BY DEF Bits, Aim
  <1>2. 1 \in Int /\ 22 \in 1 .. 255
    OBVIOUS
  <1> QED
    BY ONLY <1>1, <1>2, Good(strict, c, K), Learns

LEMMA AwaitPllLeads ==
  ASSUME NEW strict, NEW c, NEW K, c["PLLS"] = 1, c["LP"] = 0, Good(strict, c, K)
  PROVE  /\ LeadsTo(strict, c, K, AwaitPll, c, (K \cup {"PLLST"}) \cup {"LOCK0"})
         /\ Good(strict, c, (K \cup {"PLLST"}) \cup {"LOCK0"})
  BY AwaitPllsLeads, AwaitLockLeads, ConcatLeadsTo DEF AwaitPll

-----------------------------------------------------------------------------
\* Scripts of three to five pieces.

LEMMA GoesOn ==
  ASSUME NEW s \in Seq(Op), NEW t \in Seq(Op), s # <<>>
  PROVE  s \o t # <<>>
PROOF
  <1> DEFINE u == s \o t
  <1>1. u \in Seq(Op) /\ Len(u) = Len(s) + Len(t) /\ Len(s) \in Nat /\ Len(t) \in Nat
    BY ConcatProperties, LenProperties
  <1>2. Len(s) # 0
    BY EmptySeq
  <1>3. Len(u) # 0
    BY <1>1, <1>2
  <1> HIDE DEF u
  <1>4. u # <<>>
    BY <1>3, EmptySeq
  <1> QED
    BY <1>4 DEF u

LEMMA TwoLead ==
  ASSUME NEW z, NEW c1, NEW c2, NEW c3, NEW K1, NEW K2, NEW K3, NEW s1, NEW s2,
         LeadsTo(z, c1, K1, s1, c2, K2), LeadsTo(z, c2, K2, s2, c3, K3), s1 # <<>>
  PROVE  LeadsTo(z, c1, K1, s1 \o s2, c3, K3) /\ s1 \o s2 # <<>>
PROOF
  <1>1. s1 \in Seq(Op) /\ s2 \in Seq(Op)
    BY DEF LeadsTo
  <1> QED
    BY <1>1, ConcatLeadsTo, GoesOn

LEMMA ThreeLead ==
  ASSUME NEW z, NEW c1, NEW c2, NEW c3, NEW c4, NEW K1, NEW K2, NEW K3, NEW K4,
         NEW s1, NEW s2, NEW s3,
         LeadsTo(z, c1, K1, s1, c2, K2), LeadsTo(z, c2, K2, s2, c3, K3),
         LeadsTo(z, c3, K3, s3, c4, K4), s1 # <<>>
  PROVE  LeadsTo(z, c1, K1, s1 \o s2 \o s3, c4, K4) /\ s1 \o s2 \o s3 # <<>>
PROOF
  <1>1. LeadsTo(z, c1, K1, s1 \o s2, c3, K3) /\ s1 \o s2 # <<>>
    BY TwoLead
  <1> QED
    BY <1>1, TwoLead

LEMMA FourLead ==
  ASSUME NEW z, NEW c1, NEW c2, NEW c3, NEW c4, NEW c5,
         NEW K1, NEW K2, NEW K3, NEW K4, NEW K5, NEW s1, NEW s2, NEW s3, NEW s4,
         LeadsTo(z, c1, K1, s1, c2, K2), LeadsTo(z, c2, K2, s2, c3, K3),
         LeadsTo(z, c3, K3, s3, c4, K4), LeadsTo(z, c4, K4, s4, c5, K5), s1 # <<>>
  PROVE  LeadsTo(z, c1, K1, s1 \o s2 \o s3 \o s4, c5, K5) /\ s1 \o s2 \o s3 \o s4 # <<>>
PROOF
  <1>1. LeadsTo(z, c1, K1, s1 \o s2 \o s3, c4, K4) /\ s1 \o s2 \o s3 # <<>>
    BY ThreeLead
  <1> QED
    BY <1>1, TwoLead

LEMMA SixLead ==
  ASSUME NEW z, NEW c1, NEW c2, NEW c3, NEW c4, NEW c5, NEW c6, NEW c7,
         NEW K1, NEW K2, NEW K3, NEW K4, NEW K5, NEW K6, NEW K7,
         NEW s1, NEW s2, NEW s3, NEW s4, NEW s5, NEW s6,
         LeadsTo(z, c1, K1, s1, c2, K2), LeadsTo(z, c2, K2, s2, c3, K3),
         LeadsTo(z, c3, K3, s3, c4, K4), LeadsTo(z, c4, K4, s4, c5, K5),
         LeadsTo(z, c5, K5, s5, c6, K6), LeadsTo(z, c6, K6, s6, c7, K7), s1 # <<>>
  PROVE  /\ LeadsTo(z, c1, K1, s1 \o s2 \o s3 \o s4 \o s5 \o s6, c7, K7)
         /\ s1 \o s2 \o s3 \o s4 \o s5 \o s6 # <<>>
PROOF
  <1> DEFINE four == s1 \o s2 \o s3 \o s4
  <1>1. LeadsTo(z, c1, K1, four, c5, K5) /\ four # <<>>
    BY FourLead
  <1> HIDE DEF four
  <1>2. LeadsTo(z, c1, K1, four \o s5 \o s6, c7, K7) /\ four \o s5 \o s6 # <<>>
    BY <1>1, ThreeLead
  <1> QED
    BY <1>2 DEF four

-----------------------------------------------------------------------------
\* The other writes.

LEMMA LowPowerLeads ==
  ASSUME NEW strict, NEW c, NEW K, NEW on \in {0, 1}, "LOCK0" \notin K, Good(strict, c, K)
  PROVE  \E d : /\ LeadsTo(strict, c, K, LowPower(on), d, K) /\ Good(strict, d, K)
                /\ d["LP"] = on /\ Same(c, d, {"LP"})
PROOF
  <1> DEFINE w == [LP |-> on]
             d == With(c, w)
  <1>1. w \in Settings
    BY SettingsHave, on \in Int
  <1>2. d["LP"] = on /\ Same(c, d, {"LP"})
    BY DEF With, Same, Fields
  <1>3. Write(w) = LowPower(on)
    BY DEF LowPower
  <1> HIDE DEF w
  <1> HIDE DEF d
  <1>4. \A f \in {"CLKS", "PLLS", "IREFS", "EREFS0", "IRCS"} : d[f] = c[f]
    BY <1>2 DEF Same, Fields
  <1>5. \A b \in Bits : b \in K => b # "LOCK0" /\ Aim(d, b) = Aim(c, b)
    BY <1>4 DEF Aim, Bits
  <1>6. Good(strict, d, K)
    BY <1>4 DEF Good, Sound, Safe, OffPll, Aim
  <1>7. NotPll \in K => OffPll(c, K)
    BY DEF OffPll
  <1>8. LeadsTo(strict, c, K, Write(w), d, K)
    BY <1>1, <1>5, <1>6, <1>7, WriteLeads DEF d
  <1> QED
    BY <1>2, <1>3, <1>6, <1>8

\* From PBE or BLPE back to the FLL.
LEMMA FllInsteadLeads ==
  ASSUME NEW strict, NEW c, NEW K, OnOther \subseteq K, c["CLKS"] = 2
  PROVE  \E d : LET L == {"IREFST", "CLKST", NotPll} IN
                /\ LeadsTo(strict, c, K, FllInstead, d, L) /\ Good(strict, d, L)
                /\ d["PLLS"] = 0 /\ Same(c, d, {"PLLS"})
PROOF
  <1> DEFINE w == [PLLS |-> 0]
             d == With(c, w)
             L == {"IREFST", "CLKST", NotPll}
  <1>1. w \in Settings
    BY SettingsHave, 0 \in Int
  <1>2. d["PLLS"] = 0 /\ Same(c, d, {"PLLS"})
    BY DEF With, Same, Fields
  <1>3. Write(w) = FllInstead
    BY DEF FllInstead
  <1> HIDE DEF w
  <1> HIDE DEF d
  <1>4. \A f \in {"CLKS", "IREFS", "EREFS0", "IRCS", "LP"} : d[f] = c[f]
    BY <1>2 DEF Same, Fields
  <1>5. \A b \in Bits : b \in L => b \in K /\ b # "LOCK0" /\ Aim(d, b) = Aim(c, b)
    <2>1. L \subseteq K
      BY DEF OnOther
    <2>2. \A b \in Bits : b \in L => b \in {"IREFST", "CLKST"}
      BY DEF Bits, NotPll
    <2>3. Aim(d, "IREFST") = Aim(c, "IREFST") /\ Aim(d, "CLKST") = Aim(c, "CLKST")
      BY <1>4 DEF Aim
    <2> QED
      BY <2>1, <2>2, <2>3
  <1>6. Good(strict, d, L)
    BY <1>4 DEF Good, Sound, Safe, OffPll, NotPll
  <1>7. NotPll \in L => OffPll(c, K)
    BY DEF OffPll, OnOther
  <1> HIDE DEF L
  <1>8. LeadsTo(strict, c, K, Write(w), d, L)
    BY <1>1, <1>5, <1>6, <1>7, WriteLeads DEF d
  <1> QED
    BY <1>2, <1>3, <1>6, <1>8 DEF L

\* What stays known while the clock is switched.
Switchable(strict, c, K, clks, L) ==
    /\ L \subseteq K /\ "CLKST" \notin L
    /\ NotPll \in L => clks \in {1, 2} \/ (clks = 0 /\ c["PLLS"] = 0 /\ "PLLST" \in L)
    /\ strict => \/ NotPll \in L
                 \/ "LOCK0" \in L /\ c["PLLS"] = 1 /\ c["LP"] = 0

LEMMA SwitchGood ==
  ASSUME NEW strict, NEW c, NEW K, NEW clks \in 0 .. 2, NEW L,
         Switchable(strict, c, K, clks, L), NEW d, d["CLKS"] = clks, Same(c, d, {"CLKS"})
  PROVE  /\ Good(strict, d, L)
         /\ \A b \in Bits : b \in L => b \in K /\ Aim(d, b) = Aim(c, b)
         /\ NotPll \in L => OffPll(c, K)
PROOF
  <1>1. \A f \in {"PLLS", "IREFS", "EREFS0", "IRCS", "LP"} : d[f] = c[f]
    BY DEF Same, Fields
  <1>2. \A b \in Bits : b \in L => b \in K /\ b # "CLKST"
    BY DEF Switchable
  <1>3. ASSUME NEW b \in Bits, b # "CLKST" PROVE Aim(d, b) = Aim(c, b)
    BY <1>1, <1>3 DEF Aim, Bits
  <1>4. Sound(d, L)
    BY <1>1 DEF Switchable, Sound
  <1>5. strict => Safe(d, L)
    BY <1>1 DEF Switchable, Safe, OffPll, Aim
  <1>6. NotPll \in L => OffPll(c, K)
    BY DEF Switchable, OffPll
  <1> QED
    BY <1>2, <1>3, <1>4, <1>5, <1>6 DEF Good

LEMMA SwitchLeads ==
  ASSUME NEW strict, NEW c, NEW K, NEW clks \in 0 .. 2, NEW L, Switchable(strict, c, K, clks, L)
  PROVE  \E d : /\ LeadsTo(strict, c, K, Write([CLKS |-> clks]), d, L) /\ Good(strict, d, L)
                /\ d["CLKS"] = clks /\ Same(c, d, {"CLKS"})
PROOF
  <1> DEFINE w == [CLKS |-> clks]
             d == With(c, w)
  <1>1. w \in Settings /\ DOMAIN w \cap Unlocks = {}
    BY SettingsHave, clks \in Int DEF Unlocks
  <1>2. d["CLKS"] = clks /\ Same(c, d, {"CLKS"})
    BY DEF With, Same, Fields
  <1> HIDE DEF w
  <1> HIDE DEF d
  <1>3. /\ Good(strict, d, L)
        /\ \A b \in Bits : b \in L => b \in K /\ Aim(d, b) = Aim(c, b)
        /\ NotPll \in L => OffPll(c, K)
    BY <1>2, SwitchGood
  <1>4. LeadsTo(strict, c, K, Write(w), d, L)
    BY <1>1, <1>3, WriteLeads DEF d
  <1> QED
    BY <1>2, <1>3, <1>4 DEF w

\* The external clock, by an or with what CLKS holds.
LEMMA ToExternalLeads ==
  ASSUME NEW strict, NEW c, NEW K, NEW L, c["CLKS"] = 0, Switchable(strict, c, K, 2, L)
  PROVE  \E d : LET M == L \cup {"CLKST"} IN
                /\ LeadsTo(strict, c, K, ToExternal, d, M) /\ Good(strict, d, M)
                /\ d["CLKS"] = 2 /\ Same(c, d, {"CLKS"})
PROOF
  <1> DEFINE w == [CLKS |-> 2]
             o == [op |-> "or", fields |-> w]
             d == With(c, w)
             M == L \cup {"CLKST"}
  <1>1. w \in Settings /\ DOMAIN w \cap Unlocks = {}
    BY SettingsHave, 2 \in Int DEF Unlocks
  <1>2. d["CLKS"] = 2 /\ Same(c, d, {"CLKS"})
    BY DEF With, Same, Fields
  <1>3. o \in Op /\ o.op = "or" /\ o.fields = w
    BY <1>1 DEF Op
  <1>4. Put(c, o) = d
    <2>1. ASSUME NEW f \in Fields
          PROVE  (IF f \notin DOMAIN o.fields THEN c[f]
                  ELSE IF o.op = "or" THEN Or(c[f], o.fields[f]) ELSE o.fields[f]) = d[f]
      BY DEF With, Or
    <2> HIDE DEF o
    <2>2. d = [f \in Fields |-> d[f]]
      BY DEF With
    <2> HIDE DEF d
    <2> QED
      BY <2>1, <2>2 DEF Put
  <1>5. ToExternal = <<o>> \o ToClock(2)
    BY DEF ToExternal, WriteOr
  <1> HIDE DEF w
  <1> HIDE DEF o
  <1> HIDE DEF d
  <1>6. /\ Good(strict, d, L)
        /\ \A b \in Bits : b \in L => b \in K /\ Aim(d, b) = Aim(c, b)
        /\ NotPll \in L => OffPll(c, K)
    BY <1>2, SwitchGood
  <1>7. Writes(o, c, K, d, L)
    BY <1>1, <1>3, <1>4, <1>6 DEF Writes
  <1>8. LeadsTo(strict, c, K, <<o>>, d, L)
    BY <1>3, <1>6, <1>7, OneLeads DEF Leap, Good
  <1>9. LeadsTo(strict, d, L, ToClock(2), d, M) /\ Good(strict, d, M)
    <2>1. 2 = Aim(d, "CLKST") /\ 2 \in 0 .. 3 /\ d["CLKS"] \in 0 .. 2 /\ d["CLKS"] # 0
      BY <1>2 DEF Aim
    <2> QED
      BY <1>6, <2>1, ToClockLeads
  <1>10. LeadsTo(strict, c, K, <<o>> \o ToClock(2), d, M)
    BY <1>8, <1>9, ConcatLeadsTo
  <1> QED
    BY <1>2, <1>5, <1>9, <1>10

\* The internal reference.
LEMMA InternalGood ==
  ASSUME NEW strict, NEW c, NEW K, OnOther \subseteq K, c["PLLS"] = 0,
         NEW L, L = {"PLLST", NotPll} \/ L = {"PLLST", "CLKST", NotPll},
         NEW d, Same(c, d, {"CLKS", "IREFS"}), d["CLKS"] \in {0, 1},
         "CLKST" \in L => d["CLKS"] = c["CLKS"]
  PROVE  /\ Good(strict, d, L)
         /\ \A b \in Bits : b \in L =>
               /\ b \in K /\ Aim(d, b) = Aim(c, b)
               /\ b # "LOCK0"
         /\ NotPll \in L => OffPll(c, K)
PROOF
  <1>1. \A f \in {"PLLS", "EREFS0", "IRCS", "LP"} : d[f] = c[f]
    BY DEF Same, Fields
  <1>2. /\ NotPll \in L /\ "PLLST" \in L /\ L \subseteq K
        /\ \A b \in Bits : b \in L => b \in {"PLLST", "CLKST"}
    BY DEF OnOther, NotPll, Bits
  <1>3. Aim(d, "PLLST") = Aim(c, "PLLST") /\ ("CLKST" \in L => Aim(d, "CLKST") = Aim(c, "CLKST"))
    BY <1>1 DEF Aim
  <1>4. Good(strict, d, L)
    BY <1>1, <1>2 DEF Good, Sound, Safe, OffPll
  <1> QED
    BY <1>2, <1>3, <1>4 DEF OffPll

LEMMA InternalReferenceLeads ==
  ASSUME NEW strict, NEW c, NEW K, OnOther \subseteq K, c["PLLS"] = 0, NEW clks \in {0, 1}
  PROVE  \E d : LET L == {"PLLST", NotPll} IN
                /\ LeadsTo(strict, c, K, InternalReference(clks), d, L) /\ Good(strict, d, L)
                /\ d["CLKS"] = clks /\ d["IREFS"] = 1 /\ Same(c, d, {"CLKS", "IREFS"})
PROOF
  <1> DEFINE w == [CLKS |-> clks, IREFS |-> 1]
             d == With(c, w)
             L == {"PLLST", NotPll}
  <1>1. w \in Settings /\ DOMAIN w \cap Unlocks = {}
    BY SettingsHave, clks \in Int, 1 \in Int DEF Unlocks
  <1>2. d["CLKS"] = clks /\ d["IREFS"] = 1 /\ Same(c, d, {"CLKS", "IREFS"})
    BY DEF With, Same, Fields
  <1>3. Write(w) = InternalReference(clks)
    BY DEF InternalReference
  <1> HIDE DEF w
  <1> HIDE DEF d
  <1>4. /\ Good(strict, d, L)
        /\ \A b \in Bits : b \in L => /\ b \in K /\ Aim(d, b) = Aim(c, b)
                                      /\ b # "LOCK0"
        /\ NotPll \in L => OffPll(c, K)
    <2>1. "CLKST" \notin L
      BY DEF NotPll
    <2> QED
      BY <1>2, <2>1, InternalGood
  <1> HIDE DEF L
  <1>5. LeadsTo(strict, c, K, Write(w), d, L)
    BY <1>1, <1>4, WriteLeads DEF d
  <1> QED
    BY <1>2, <1>3, <1>4, <1>5 DEF L

LEMMA OnlyInternalLeads ==
  ASSUME NEW strict, NEW c, NEW K, OnOther \subseteq K, c["PLLS"] = 0, c["CLKS"] = 0
  PROVE  \E d : LET L == {"PLLST", "CLKST", NotPll} IN
                /\ LeadsTo(strict, c, K, Write([IREFS |-> 1]), d, L) /\ Good(strict, d, L)
                /\ d["IREFS"] = 1 /\ Same(c, d, {"IREFS"})
PROOF
  <1> DEFINE w == [IREFS |-> 1]
             d == With(c, w)
             L == {"PLLST", "CLKST", NotPll}
  <1>1. w \in Settings /\ DOMAIN w \cap Unlocks = {}
    BY SettingsHave, 1 \in Int DEF Unlocks
  <1>2. d["IREFS"] = 1 /\ Same(c, d, {"IREFS"})
    BY DEF With, Same, Fields
  <1> HIDE DEF w
  <1> HIDE DEF d
  <1>3. d["CLKS"] = c["CLKS"] /\ Same(c, d, {"CLKS", "IREFS"})
    BY <1>2 DEF Same, Fields
  <1>4. /\ Good(strict, d, L)
        /\ \A b \in Bits : b \in L => /\ b \in K /\ Aim(d, b) = Aim(c, b)
                                      /\ b # "LOCK0"
        /\ NotPll \in L => OffPll(c, K)
    BY <1>3, InternalGood
  <1> HIDE DEF L
  <1>5. LeadsTo(strict, c, K, Write(w), d, L)
    BY <1>1, <1>4, WriteLeads DEF d
  <1> QED
    BY <1>2, <1>4, <1>5 DEF L, w

\* The same by an or.
LEMMA BothInternalLead ==
  ASSUME NEW strict, NEW c, NEW K, OnOther \subseteq K, c["PLLS"] = 0,
         c["CLKS"] = 0, c["IREFS"] = 0
  PROVE  \E d : LET L == {"PLLST", NotPll} IN
                /\ LeadsTo(strict, c, K, WriteOr([CLKS |-> 1, IREFS |-> 1]), d, L)
                /\ Good(strict, d, L)
                /\ d["CLKS"] = 1 /\ d["IREFS"] = 1 /\ Same(c, d, {"CLKS", "IREFS"})
PROOF
  <1> DEFINE w == [CLKS |-> 1, IREFS |-> 1]
             o == [op |-> "or", fields |-> w]
             d == With(c, w)
             L == {"PLLST", NotPll}
  <1>1. w \in Settings /\ DOMAIN w \cap Unlocks = {}
    BY SettingsHave, 1 \in Int DEF Unlocks
  <1>2. d["CLKS"] = 1 /\ d["IREFS"] = 1 /\ Same(c, d, {"CLKS", "IREFS"})
    BY DEF With, Same, Fields
  <1>3. o \in Op /\ o.op = "or" /\ o.fields = w
    BY <1>1 DEF Op
  <1>4. Put(c, o) = d
    <2>1. ASSUME NEW f \in Fields
          PROVE  (IF f \notin DOMAIN o.fields THEN c[f]
                  ELSE IF o.op = "or" THEN Or(c[f], o.fields[f]) ELSE o.fields[f]) = d[f]
      BY DEF With, Or
    <2> HIDE DEF o
    <2>2. d = [f \in Fields |-> d[f]]
      BY DEF With
    <2> HIDE DEF d
    <2> QED
      BY <2>1, <2>2 DEF Put
  <1>5. WriteOr(w) = <<o>>
    BY DEF WriteOr
  <1> HIDE DEF w
  <1> HIDE DEF o
  <1> HIDE DEF d
  <1>6. /\ Good(strict, d, L)
        /\ \A b \in Bits : b \in L => /\ b \in K /\ Aim(d, b) = Aim(c, b)
                                      /\ b # "LOCK0"
        /\ NotPll \in L => OffPll(c, K)
    <2>1. "CLKST" \notin L
      BY DEF NotPll
    <2> QED
      BY <1>2, <2>1, InternalGood
  <1> HIDE DEF L
  <1>7. Writes(o, c, K, d, L)
    BY <1>1, <1>3, <1>4, <1>6 DEF Writes
  <1>8. LeadsTo(strict, c, K, <<o>>, d, L)
    BY <1>3, <1>6, <1>7, OneLeads DEF Leap, Good
  <1> QED
    BY <1>2, <1>5, <1>6, <1>8 DEF L, w

-----------------------------------------------------------------------------
\* A PLL is set up while the external clock is in use.

Bypassed == {"IREFST", "CLKST", NotPll}
Locked == (Bypassed \cup {"PLLST"}) \cup {"LOCK0"}

PllFields == {"PRDIV0", "VDIV0", "PLLS"}

\* The fields d hold the settings pll of the PLL, and otherwise those of c.
Tuned(pll, c, d) ==
    /\ d["PRDIV0"] = pll[1] - 1 /\ d["VDIV0"] = pll[2] - 24 /\ d["PLLS"] = 1
    /\ Same(c, d, PllFields)

LEMMA DividerLeads ==
  ASSUME NEW strict, NEW c, NEW K, {"IREFST", "CLKST"} \subseteq K, OffPll(c, K),
         c["CLKS"] = 2, NEW x \in Int
  PROVE  \E d : /\ LeadsTo(strict, c, K, Write([PRDIV0 |-> x]), d, Bypassed)
                /\ Good(strict, d, Bypassed)
                /\ d["PRDIV0"] = x /\ Same(c, d, {"PRDIV0"})
PROOF
  <1> DEFINE w == [PRDIV0 |-> x]
             d == With(c, w)
             L == Bypassed
  <1>1. w \in Settings
    BY SettingsHave
  <1>2. d["PRDIV0"] = x /\ Same(c, d, {"PRDIV0"})
    BY DEF With, Same, Fields
  <1> HIDE DEF w
  <1> HIDE DEF d
  <1>3. \A f \in {"CLKS", "PLLS", "IREFS"} : d[f] = c[f]
    BY <1>2 DEF Same, Fields
  <1>4. /\ \A b \in Bits : b \in L => b \in {"IREFST", "CLKST"}
        /\ NotPll \in L /\ "PLLST" \notin L
    BY DEF Bits, Bypassed, NotPll
  <1>5. Aim(d, "IREFST") = Aim(c, "IREFST") /\ Aim(d, "CLKST") = Aim(c, "CLKST")
    BY <1>3 DEF Aim
  <1> HIDE DEF L
  <1>6. Good(strict, d, L)
    BY <1>3, <1>4 DEF Good, Sound, Safe, OffPll
  <1>7. LeadsTo(strict, c, K, Write(w), d, L)
    BY <1>1, <1>4, <1>5, <1>6, WriteLeads DEF d
  <1> QED
    BY <1>2, <1>6, <1>7 DEF L, w

\* The lock is lost by the second write; with LP set it cannot come back.
LEMMA TuneLeads ==
  ASSUME NEW strict, NEW c, c["CLKS"] = 2, NEW x \in Int, NEW L,
         L = Bypassed \/ (~strict /\ c["LP"] = 1 /\ L = Bypassed \cup {"LOCK0"})
  PROVE  \E d : /\ LeadsTo(strict, c, Bypassed, Write([VDIV0 |-> x, PLLS |-> 1]), d, L)
                /\ Good(strict, d, L)
                /\ d["VDIV0"] = x /\ d["PLLS"] = 1 /\ Same(c, d, {"VDIV0", "PLLS"})
PROOF
  <1> DEFINE w == [VDIV0 |-> x, PLLS |-> 1]
             o == [op |-> "write", fields |-> w]
             d == With(c, w)
  <1>1. w \in Settings /\ DOMAIN w \cap Unlocks # {}
    BY SettingsHave, 1 \in Int DEF Unlocks
  <1>2. d["VDIV0"] = x /\ d["PLLS"] = 1 /\ Same(c, d, {"VDIV0", "PLLS"})
    BY DEF With, Same, Fields
  <1>3. o \in Op /\ o.op = "write" /\ o.fields = w
    BY <1>1 DEF Op
  <1>4. Put(c, o) = d /\ Write(w) = <<o>>
    BY DEF Put, With, Write
  <1> HIDE DEF w
  <1> HIDE DEF o
  <1> HIDE DEF d
  <1>5. \A f \in {"CLKS", "IREFS", "LP"} : d[f] = c[f]
    BY <1>2 DEF Same, Fields
  <1>6. /\ \A b \in Bits : b \in L => b \in {"IREFST", "CLKST"} \/ (b = "LOCK0" /\ c["LP"] = 1 /\ ~strict)
        /\ NotPll \in L /\ "PLLST" \notin L
    BY DEF Bits, Bypassed, NotPll
  <1>7. /\ Aim(d, "IREFST") = Aim(c, "IREFST") /\ Aim(d, "CLKST") = Aim(c, "CLKST")
        /\ c["LP"] = 1 => Aim(d, "LOCK0") = 0
    BY <1>2, <1>5 DEF Aim
  <1>8. Good(strict, d, L)
    BY <1>5, <1>6 DEF Good, Sound, Safe, OffPll
  <1>9. "IREFST" \in Bypassed /\ "CLKST" \in Bypassed /\ OffPll(c, Bypassed)
    BY DEF Bypassed, OffPll
  <1>10. Writes(o, c, Bypassed, d, L)
    <2>1. ASSUME NEW b \in Bits, b \in L
          PROVE  \/ /\ b \in Bypassed /\ Aim(d, b) = Aim(c, b)
                    /\ b = "LOCK0" => DOMAIN o.fields \cap Unlocks = {}
                 \/ b = "LOCK0" /\ DOMAIN o.fields \cap Unlocks # {} /\ Aim(d, b) = 0
      BY <1>1, <1>3, <1>6, <1>7, <1>9, <2>1
    <2> QED
      BY <1>3, <1>4, <1>9, <2>1 DEF Writes
  <1>11. LeadsTo(strict, c, Bypassed, <<o>>, d, L)
    BY <1>3, <1>8, <1>10, OneLeads DEF Leap, Good
  <1> QED
    BY <1>2, <1>4, <1>8, <1>11 DEF w

LEMMA PllLeads ==
  ASSUME NEW strict, NEW c, NEW K, {"IREFST", "CLKST"} \subseteq K, OffPll(c, K),
         c["CLKS"] = 2, NEW pll \in Int \X Int, NEW L,
         L = Bypassed \/ (~strict /\ c["LP"] = 1 /\ L = Bypassed \cup {"LOCK0"})
  PROVE  \E d : /\ LeadsTo(strict, c, K, Pll(pll), d, L) /\ Good(strict, d, L)
                /\ Tuned(pll, c, d)
PROOF
  <1>1. pll[1] - 1 \in Int /\ pll[2] - 24 \in Int
    OBVIOUS
  <1>2. PICK e : /\ LeadsTo(strict, c, K, Write([PRDIV0 |-> pll[1] - 1]), e, Bypassed)
                 /\ e["PRDIV0"] = pll[1] - 1 /\ Same(c, e, {"PRDIV0"})
    BY <1>1, DividerLeads
  <1>3. e["CLKS"] = 2 /\ e["LP"] = c["LP"]
    BY <1>2 DEF Same, Fields
  <1>4. PICK d : /\ LeadsTo(strict, e, Bypassed, Write([VDIV0 |-> pll[2] - 24, PLLS |-> 1]), d, L)
                 /\ Good(strict, d, L)
                 /\ d["VDIV0"] = pll[2] - 24 /\ d["PLLS"] = 1 /\ Same(e, d, {"VDIV0", "PLLS"})
    BY <1>1, <1>3, TuneLeads
  <1>5. LeadsTo(strict, c, K, Pll(pll), d, L)
    BY <1>2, <1>4, ConcatLeadsTo DEF Pll
  <1>6. Tuned(pll, c, d)
    BY <1>2, <1>4 DEF Tuned, PllFields, Same, Fields
  <1> QED
    BY <1>4, <1>5, <1>6

\* And it locks.
LEMMA LockLeads ==
  ASSUME NEW strict, NEW c, NEW K, {"IREFST", "CLKST"} \subseteq K, OffPll(c, K),
         c["CLKS"] = 2, NEW pll \in Int \X Int, c["LP"] = 0
  PROVE  \E d : /\ LeadsTo(strict, c, K, Pll(pll), d, Bypassed)
                /\ LeadsTo(strict, d, Bypassed, AwaitPll, d, Locked) /\ Good(strict, d, Locked)
                /\ Tuned(pll, c, d)
PROOF
  <1>1. PICK d : /\ LeadsTo(strict, c, K, Pll(pll), d, Bypassed) /\ Good(strict, d, Bypassed)
                 /\ Tuned(pll, c, d)
    BY PllLeads
  <1>2. d["PLLS"] = 1 /\ d["LP"] = 0
    BY <1>1 DEF Tuned, Same, PllFields, Fields
  <1>3. LeadsTo(strict, d, Bypassed, AwaitPll, d, Locked) /\ Good(strict, d, Locked)
    BY <1>1, <1>2, AwaitPllLeads DEF Locked
  <1> QED
    BY <1>1, <1>3

\* With LP set it does not, and the second wait never ends.
LEMMA NoLockLeads ==
  ASSUME NEW c, NEW K, {"IREFST", "CLKST"} \subseteq K, OffPll(c, K),
         c["CLKS"] = 2, NEW pll \in Int \X Int, c["LP"] = 1
  PROVE  \E d, e, L : /\ LeadsTo(FALSE, c, K, Pll(pll), d, L)
                      /\ LeadsTo(FALSE, d, L, AwaitPll, e, Locked) /\ Good(FALSE, e, Locked)
                      /\ Tuned(pll, With(c, [LP |-> 0]), e)
PROOF
  <1> DEFINE L == Bypassed \cup {"LOCK0"}
             M == L \cup {"PLLST"}
             o == [op |-> "await", bit |-> "LOCK0", value |-> 1, error |-> 68]
  <1>1. PICK d : /\ LeadsTo(FALSE, c, K, Pll(pll), d, L) /\ Good(FALSE, d, L)
                 /\ Tuned(pll, c, d)
    BY PllLeads
  <1>2. /\ d["PLLS"] = 1 /\ d["LP"] = 1 /\ d["CLKS"] = 2
        /\ d["PRDIV0"] = pll[1] - 1 /\ d["VDIV0"] = pll[2] - 24
    BY <1>1 DEF Tuned, Same, PllFields, Fields
  <1>3. LeadsTo(FALSE, d, L, Await("PLLST", 1, 22), d, M)
    BY <1>1, <1>2, AwaitPllsLeads
  <1> DEFINE e == With(d, [LP |-> 0])
  <1>4. /\ \A f \in Fields \ {"LP"} : e[f] = d[f]
        /\ e["LP"] = 0
    BY DEF With, Fields
  <1>5. Tuned(pll, With(c, [LP |-> 0]), e)
    <2> DEFINE b == With(c, [LP |-> 0])
    <2>1. b["LP"] = 0 /\ \A f \in Fields \ {"LP"} : b[f] = c[f]
      BY DEF With, Fields
    <2> HIDE DEF b
    <2> HIDE DEF e
    <2> QED
      BY <1>1, <1>2, <1>4, <2>1 DEF Tuned, Same, PllFields, Fields, b
  <1> HIDE DEF e
  <1>6. Good(FALSE, e, Locked)
    <2>1. e["CLKS"] = 2
      BY <1>2, <1>4 DEF Fields
    <2> QED
      BY <2>1 DEF Good, Sound
  <1>7. o \in Op /\ o.op = "await" /\ o.bit = "LOCK0" /\ o.value = 1 /\ o.error = 68
    BY DEF Op, Bits
  <1>8. "LOCK0" \in M /\ Aim(d, "LOCK0") = 0 /\ "LOCK0" \in Bits
    BY <1>2 DEF Aim, Bits
  <1>9. Await("LOCK0", 1, 68) = <<o>>
    BY DEF Await
  <1> HIDE DEF o
  <1> HIDE DEF M
  <1>10. Waits(FALSE, o, d, M, e, Locked)
    BY <1>7, <1>8 DEF Waits
  <1>11. LeadsTo(FALSE, d, M, <<o>>, e, Locked)
    BY <1>6, <1>7, <1>10, OneLeads DEF Leap, Good
  <1>12. LeadsTo(FALSE, d, L, AwaitPll, e, Locked)
    BY <1>3, <1>9, <1>11, ConcatLeadsTo DEF AwaitPll
  <1> QED
    BY <1>1, <1>5, <1>6, <1>12

\* It takes over.
LEMMA SelectPllLeads ==
  ASSUME NEW strict, NEW c, NEW K, {"IREFST", "PLLST", "LOCK0"} \subseteq K,
         c["PLLS"] = 1, c["LP"] = 0
  PROVE  \E d : /\ LeadsTo(strict, c, K, SelectPll, d, OnPll) /\ Good(strict, d, OnPll)
                /\ d["CLKS"] = 0 /\ Same(c, d, {"CLKS"})
PROOF
  <1> DEFINE L == {"IREFST", "PLLST", "LOCK0"}
  <1>1. /\ "CLKST" \notin L /\ NotPll \notin L /\ "LOCK0" \in L /\ "PLLST" \in L
        /\ L \cup {"CLKST"} = OnPll
    BY DEF NotPll, OnPll
  <1> HIDE DEF L
  <1>2. L \subseteq K
    BY DEF L
  <1>3. Switchable(strict, c, K, 0, L)
    BY <1>1, <1>2 DEF Switchable
  <1>4. PICK d : /\ LeadsTo(strict, c, K, Write([CLKS |-> 0]), d, L) /\ Good(strict, d, L)
                 /\ d["CLKS"] = 0 /\ Same(c, d, {"CLKS"})
    BY <1>3, SwitchLeads
  <1>5. d["PLLS"] = 1
    BY <1>4 DEF Same, Fields
  <1>6. LeadsTo(strict, d, L, ToClock(3), d, OnPll) /\ Good(strict, d, OnPll)
    <2>1. 3 = Aim(d, "CLKST") /\ 3 \in 0 .. 3 /\ d["CLKS"] \in 0 .. 2
      BY <1>4, <1>5 DEF Aim
    <2> QED
      BY <1>1, <1>4, <2>1, ToClockLeads
  <1> QED
    BY <1>4, <1>6, ConcatLeadsTo DEF SelectPll

-----------------------------------------------------------------------------
\* Into the external clock, from FEI or FBI.

OscFields == {"RANGE0", "EREFS0", "CLKS", "FRDIV", "IREFS", "CME0"}

LEMMA BypassLeads ==
  ASSUME NEW strict, NEW c, NEW K, Good(strict, c, K),
         (K = OnOther /\ c["PLLS"] = 0) \/ (K = {} /\ ~strict),
         NEW range \in Int, NEW erefs \in {0, 1}
  PROVE  LET s == Oscillator(range, erefs) \o ExternalReference(2, erefs)
                     \o ToClock(2) \o ClockMonitor(1)
         IN  /\ s # <<>>
             /\ \E d, L : /\ LeadsTo(strict, c, K, s, d, L) /\ Good(strict, d, L)
                          /\ {"IREFST", "CLKST"} \subseteq L /\ OffPll(d, L)
                          /\ K = OnOther => "PLLST" \in L /\ OnOther \subseteq L
                          /\ d["CLKS"] = 2 /\ d["IREFS"] = 0
                          /\ d["FRDIV"] = frdiv_val /\ d["RANGE0"] = range
                          /\ Same(c, d, OscFields)
PROOF
  <1>1. "OSCINIT0" \notin K /\ "IRCST" \notin K /\ 1 \in Int
    <2>1. K = OnOther \/ K = {}
      OBVIOUS
    <2>2. "OSCINIT0" \notin OnOther /\ "IRCST" \notin OnOther
      BY DEF OnOther, NotPll
    <2> QED
      BY <2>1, <2>2
  <1>2. PICK d1 : /\ LeadsTo(strict, c, K, Oscillator(range, erefs), d1, K) /\ Good(strict, d1, K)
                  /\ Oscillates(d1, range, erefs) /\ Same(c, d1, C2Fields)
    BY <1>1, erefs \in Int, OscillatorLeads
  <1>3. d1["PLLS"] = c["PLLS"] /\ d1["EREFS0"] = erefs /\ d1["RANGE0"] = range
    BY <1>2 DEF Oscillates, Same, Fields, C2Fields
  <1> DEFINE L == IF K = OnOther THEN {"PLLST", NotPll} ELSE {}
             M == L \cup {"IREFST"}
             N == M \cup {"CLKST"}
  <1>4. /\ L \in SUBSET (K \cap {"PLLST", "CLKST", NotPll})
        /\ "CLKST" \notin L /\ "OSCINIT0" \notin N /\ "IRCST" \notin N
        /\ L # {} => K = OnOther /\ "PLLST" \in L
        /\ strict => NotPll \in L
        /\ {"IREFST", "CLKST"} \subseteq N
        /\ K = OnOther => "PLLST" \in N /\ OnOther \subseteq N
    BY DEF OnOther, NotPll
  <1> HIDE DEF L
  <1>5. /\ L # {} => d1["PLLS"] = 0 /\ "PLLST" \in L
        /\ "CLKST" \in L => d1["CLKS"] = 2
        /\ 2 \in {0, 2}
    <2>1. L # {} => c["PLLS"] = 0
      BY <1>4 DEF OnOther
    <2> QED
      BY <1>3, <1>4, <2>1
  <1>6. PICK d2 : /\ LeadsTo(strict, d1, K, ExternalReference(2, erefs), d2, M)
                  /\ Good(strict, d2, M)
                  /\ d2["CLKS"] = 2 /\ d2["FRDIV"] = frdiv_val /\ d2["IREFS"] = 0
                  /\ Same(d1, d2, C1Fields)
    BY <1>2, <1>3, <1>4, <1>5, ReferenceLeads
  <1> HIDE DEF M
  <1>7. LeadsTo(strict, d2, M, ToClock(2), d2, N) /\ Good(strict, d2, N)
    <2>1. 2 = Aim(d2, "CLKST") /\ 2 \in 0 .. 3 /\ d2["CLKS"] \in 0 .. 2 /\ d2["CLKS"] # 0
      BY <1>6 DEF Aim
    <2> QED
      BY <1>6, <2>1, ToClockLeads
  <1> HIDE DEF N
  <1>8. PICK d : /\ LeadsTo(strict, d2, N, ClockMonitor(1), d, N) /\ Good(strict, d, N)
                 /\ Same(d2, d, {"CME0"})
    BY <1>1, <1>4, <1>7, MonitorLeads
  <1> DEFINE s == Oscillator(range, erefs) \o ExternalReference(2, erefs)
                     \o ToClock(2) \o ClockMonitor(1)
  <1>9. Oscillator(range, erefs) # <<>>
    BY DEF Oscillator, Write
  <1>10. LeadsTo(strict, c, K, s, d, N) /\ s # <<>>
    BY <1>2, <1>6, <1>7, <1>8, <1>9, FourLead
  <1> HIDE DEF s
  <1>11. d["CLKS"] = 2 /\ d["IREFS"] = 0 /\ d["FRDIV"] = frdiv_val /\ d["RANGE0"] = range
    BY <1>2, <1>3, <1>6, <1>8 DEF Same, Fields, C1Fields, C2Fields
  <1>12. Same(c, d, OscFields)
    BY <1>2, <1>6, <1>8 DEF Same, OscFields, C1Fields, C2Fields
  <1>13. OffPll(d, N)
    BY <1>4, <1>11 DEF OffPll, Aim
  <1>14. /\ s # <<>> /\ LeadsTo(strict, c, K, s, d, N) /\ Good(strict, d, N)
         /\ {"IREFST", "CLKST"} \subseteq N /\ OffPll(d, N)
         /\ K = OnOther => "PLLST" \in N /\ OnOther \subseteq N
         /\ d["CLKS"] = 2 /\ d["IREFS"] = 0
         /\ d["FRDIV"] = frdiv_val /\ d["RANGE0"] = range
         /\ Same(c, d, OscFields)
    BY <1>4, <1>8, <1>10, <1>11, <1>12, <1>13
  <1> QED
    BY <1>14 DEF s

\* The modes it leads to.
LEMMA ModeOf ==
  ASSUME NEW d
  PROVE  /\ d["CLKS"] = 0 /\ d["IREFS"] = 1 /\ d["LP"] = 0 /\ d["PLLS"] = 0 => At(d, FEI)
         /\ d["CLKS"] = 0 /\ d["IREFS"] = 0 /\ d["LP"] = 0 /\ d["PLLS"] = 0 => At(d, FEE)
         /\ d["CLKS"] = 1 /\ d["IREFS"] = 1 /\ d["LP"] = 0 /\ d["PLLS"] = 0 => At(d, FBI)
         /\ d["CLKS"] = 1 /\ d["IREFS"] = 1 /\ d["LP"] = 1 /\ d["PLLS"] = 0 => At(d, BLPI)
         /\ d["CLKS"] = 2 /\ d["IREFS"] = 0 /\ d["LP"] = 0 /\ d["PLLS"] = 0 => At(d, FBE)
         /\ d["CLKS"] = 2 /\ d["IREFS"] = 0 /\ d["LP"] = 0 /\ d["PLLS"] = 1 => At(d, PBE)
         /\ d["CLKS"] = 2 /\ d["IREFS"] = 0 /\ d["LP"] = 1 => At(d, BLPE)
         /\ d["CLKS"] = 0 /\ d["IREFS"] = 0 /\ d["LP"] = 0 /\ d["PLLS"] = 1 => At(d, PEE)
  BY DEF At

LEMMA AtFields ==
  ASSUME NEW c
  PROVE  /\ At(c, FEI) => c["CLKS"] = 0 /\ c["IREFS"] = 1 /\ c["LP"] = 0 /\ c["PLLS"] = 0
         /\ At(c, FEE) => c["CLKS"] = 0 /\ c["IREFS"] = 0 /\ c["LP"] = 0 /\ c["PLLS"] = 0
         /\ At(c, FBI) => c["CLKS"] = 1 /\ c["IREFS"] = 1 /\ c["LP"] = 0 /\ c["PLLS"] = 0
         /\ At(c, BLPI) => c["CLKS"] = 1 /\ c["IREFS"] = 1 /\ c["LP"] = 1 /\ c["PLLS"] = 0
         /\ At(c, FBE) => c["CLKS"] = 2 /\ c["IREFS"] = 0 /\ c["LP"] = 0 /\ c["PLLS"] = 0
         /\ At(c, PBE) => c["CLKS"] = 2 /\ c["IREFS"] = 0 /\ c["LP"] = 0 /\ c["PLLS"] = 1
         /\ At(c, BLPE) => c["CLKS"] = 2 /\ c["IREFS"] = 0 /\ c["LP"] = 1
         /\ At(c, PEE) => c["CLKS"] = 0 /\ c["IREFS"] = 0 /\ c["LP"] = 0 /\ c["PLLS"] = 1
  BY DEF At, FEI, FEE, FBI, FBE, BLPI, BLPE, PBE, PEE

-----------------------------------------------------------------------------
\* What the functions return.

LEMMA ExternalAgrees ==
  ASSUME NEW d, d["CLKS"] = 2, NEW f
  PROVE  Agree(d, f, crystal)
  BY Zenon DEF Agree, Clock

LEMMA IrcAgrees ==
  ASSUME NEW irc_freq \in IrcFreqs, NEW irc_select \in {0, 1},
         IrcError(irc_freq, irc_select) = 0,
         NEW d, d["CLKS"] = 1, d["IRCS"] = irc_select, NEW f
  PROVE  Agree(d, f, IrcOut(irc_freq, irc_select))
PROOF
  <1> SUFFICES ASSUME Named PROVE IrcOut(irc_freq, irc_select) = Clock(d)
    BY Zenon DEF Agree
  <1>1. CASE irc_select = 0
    <2>1. irc_freq = CPU_INT_SLOW_CLK_HZ
      BY <1>1, Zenon DEF Named
    <2>2. Clock(d) = CPU_INT_SLOW_CLK_HZ
      BY <1>1, 1 # 2, Zenon DEF Clock
    <2>3. IrcOut(irc_freq, irc_select) = irc_freq
      BY <1>1, 0 # 1, Zenon DEF IrcOut
    <2> QED
      BY <2>1, <2>2, <2>3, Zenon
  <1>2. CASE irc_select = 1
    <2>1. irc_freq = CPU_INT_FAST_CLK_HZ
      BY <1>2, Zenon DEF Named
    <2>2. Clock(d) = CPU_INT_FAST_CLK_HZ \div 2 ^ FCRDIV
      BY <1>2, 1 # 2, 1 # 0, Zenon DEF Clock
    <2>3. IrcOut(irc_freq, irc_select) = irc_freq \div (2 ^ FCRDIV)
      BY <1>2, Zenon DEF IrcOut
    <2> QED
      BY <2>1, <2>2, <2>3, Zenon
  <1> QED
    BY <1>1, <1>2

LEMMA IrcFllAgrees ==
  ASSUME NEW irc_freq \in IrcFreqs, FllError(IrcFllFreq(irc_freq)) = 0,
         NEW d, d["CLKS"] = 0, d["PLLS"] = 0, d["IREFS"] = 1, NEW f
  PROVE  Agree(d, f, IrcFllFreq(irc_freq))
PROOF
  <1> SUFFICES ASSUME Named PROVE IrcFllFreq(irc_freq) = Clock(d)
    BY Zenon DEF Agree
  <1>1. IrcError(irc_freq, 0) = 0 /\ IrcFllFreq(irc_freq) = irc_freq * Multiplier
    BY IrcFllValue
  <1>2. irc_freq = CPU_INT_SLOW_CLK_HZ
    BY <1>1, Zenon DEF Named
  <1>3. Clock(d) = Multiplier * CPU_INT_SLOW_CLK_HZ
    BY 0 # 2, 0 # 1, Zenon DEF Clock
  <1>4. ASSUME NEW x \in Int, NEW y \in Int PROVE x * y = y * x
    BY SMT, <1>4
  <1>5. Multiplier \in Int /\ CPU_INT_SLOW_CLK_HZ \in Int
    BY SMT, MultiplierTyped DEF CPU_INT_SLOW_CLK_HZ
  <1> QED
    BY <1>1, <1>2, <1>3, <1>4, <1>5

LEMMA PllAgrees ==
  ASSUME NEW p \in Int, NEW v \in Int,
         NEW d, d["CLKS"] = 0, d["PLLS"] = 1, d["PRDIV0"] = p - 1, d["VDIV0"] = v - 24, NEW f
  PROVE  Agree(d, f, PllFreq(p, v))
PROOF
  <1> SUFFICES ASSUME crystal = CPU_XTAL_CLK_HZ PROVE PllFreq(p, v) = Clock(d)
    BY Zenon DEF Agree
  <1>1. Clock(d) = (CPU_XTAL_CLK_HZ \div (1 + d["PRDIV0"])) * (d["VDIV0"] + 24)
    BY 0 # 2, 0 # 1, Zenon DEF Clock
  <1>2. 1 + d["PRDIV0"] = p /\ d["VDIV0"] + 24 = v
    BY SMT
  <1>3. PllFreq(p, v) = (CPU_XTAL_CLK_HZ \div p) * v
    BY Zenon DEF PllFreq
  <1> QED
    BY <1>1, <1>2, <1>3, Zenon

\* The divider of the external clock, by ranges of the crystal.
LEMMA FrdivCases ==
  ASSUME TypeInv
  PROVE  \/ crystal <= 1250000 /\ frdiv_val = 0
         \/ 1250000 < crystal /\ crystal <= 2500000 /\ frdiv_val = 1
         \/ 2500000 < crystal /\ crystal <= 5000000 /\ frdiv_val = 2
         \/ 5000000 < crystal /\ crystal <= 10000000 /\ frdiv_val = 3
         \/ 10000000 < crystal /\ crystal <= 20000000 /\ frdiv_val = 4
         \/ 20000000 < crystal /\ frdiv_val = 5
PROOF
  <1> DEFINE A == {1250000}
             B == A \cup {2500000}
             D == B \cup {5000000}
             E == D \cup {10000000}
             F == E \cup {20000000}
             T == {f \in FrdivLimits : crystal > f}
  <1>0. crystal \in Nat
    BY CrystalTyped
  <1>1. IsFiniteSet(A) /\ Cardinality(A) = 1 /\ Cardinality({}) = 0
    <2>1. IsFiniteSet(A) /\ Cardinality(A) = 1
      BY FS_Singleton
    <2> HIDE DEF A
    <2> QED
      BY <2>1, FS_EmptySet
  <1>2. 2500000 \notin A /\ 5000000 \notin B /\ 10000000 \notin D /\ 20000000 \notin E
    BY SMT
  <1>3. /\ crystal <= 1250000 => T = {}
        /\ 1250000 < crystal /\ crystal <= 2500000 => T = A
        /\ 2500000 < crystal /\ crystal <= 5000000 => T = B
        /\ 5000000 < crystal /\ crystal <= 10000000 => T = D
        /\ 10000000 < crystal /\ crystal <= 20000000 => T = E
        /\ 20000000 < crystal => T = F
    BY SMT, <1>0 DEF FrdivLimits
  <1>4. frdiv_val = Cardinality(T)
    BY SMT DEF frdiv_val
  <1> HIDE DEF T
  <1> HIDE DEF A
  <1>5. IsFiniteSet(B) /\ Cardinality(B) = 2
    BY SMT, <1>1, <1>2, FS_AddElement
  <1> HIDE DEF B
  <1>6. IsFiniteSet(D) /\ Cardinality(D) = 3
    BY SMT, <1>5, <1>2, FS_AddElement
  <1> HIDE DEF D
  <1>7. IsFiniteSet(E) /\ Cardinality(E) = 4
    BY SMT, <1>6, <1>2, FS_AddElement
  <1> HIDE DEF E
  <1>8. IsFiniteSet(F) /\ Cardinality(F) = 5
    BY SMT, <1>7, <1>2, FS_AddElement
  <1> HIDE DEF F
  <1> QED
    BY SMT, <1>0, <1>1, <1>3, <1>4, <1>5, <1>6, <1>7, <1>8

\* And of the board's crystal.
LEMMA BoardDivides ==
  ASSUME TypeInv, crystal = CPU_XTAL_CLK_HZ
  PROVE  frdiv_val = 3 /\ range_val = 1 /\ pll_range = 1
PROOF
  <1>1. crystal = 8000000
    BY SMT DEF CPU_XTAL_CLK_HZ
  <1> QED
    BY SMT, <1>1, FrdivCases DEF range_val, pll_range

LEMMA ExternalFllAgrees ==
  ASSUME TypeInv, NEW d, d["CLKS"] = 0, d["PLLS"] = 0, d["IREFS"] = 0, Ranged(d), NEW f
  PROVE  Agree(d, f, FllRef(d["RANGE0"], d["FRDIV"]) * Multiplier)
PROOF
  <1> SUFFICES ASSUME crystal = CPU_XTAL_CLK_HZ
               PROVE  FllRef(d["RANGE0"], d["FRDIV"]) * Multiplier = Clock(d)
    BY Zenon DEF Agree
  <1>1. d["FRDIV"] = 3 /\ d["RANGE0"] = 1
    BY SMT, BoardDivides DEF Ranged
  <1>2. 2 ^ 3 = 8 /\ crystal = 8000000
    BY SMT DEF CPU_XTAL_CLK_HZ
  <1>3. FllRef(1, 3) = 31250
    <2>1. ASSUME NEW x \in Int, x = 8 PROVE 8000000 \div (32 * x) = 31250
      BY SMT, <2>1
    <2>2. 8000000 \div (32 * 2 ^ 3) = 31250
      <3> DEFINE x == 2 ^ 3
      <3>1. x \in Int /\ x = 8
        BY SMT
      <3> HIDE DEF x
      <3>2. 8000000 \div (32 * x) = 31250
        BY SMT, <3>1
      <3> QED
        BY SMT, <3>2 DEF x
    <2>3. FllRef(1, 3) = crystal \div (32 * 2 ^ 3)
      BY 1 > 0, Zenon DEF FllRef
    <2> QED
      BY SMT, <1>2, <2>2, <2>3
  <1>4. Clock(d) = Multiplier * ((crystal \div 2 ^ 3) \div 32)
    BY <1>1, 0 # 2, 0 # 1, 1 # 0, Zenon DEF Clock
  <1>5. (crystal \div 2 ^ 3) \div 32 = 31250
    BY SMT, <1>2
  <1>6. 31250 * Multiplier = Multiplier * 31250
    BY SMT, MultiplierTyped
  <1> QED
    BY SMT, <1>1, <1>3, <1>4, <1>5, <1>6

\* The reference fbe_fee computes is the one in use, though it takes RANGE0 for
\* FRDIV; kept in a short it is negative if it does not fit.
LEMMA ReferenceFits ==
  ASSUME TypeInv, NEW c \in Config, Ranged(c), c["IREFS"] = 0
  PROVE  /\ FllRef(c["RANGE0"], c["FRDIV"]) \in Nat
         /\ FllRef(c["RANGE0"], c["FRDIV"]) < 65536
         /\ ~(c["RANGE0"] > 0) => FllRef(0, c["RANGE0"]) = FllRef(c["RANGE0"], c["FRDIV"])
PROOF
  <1>1. c["FRDIV"] = frdiv_val /\ c["RANGE0"] \in {range_val, pll_range} /\ c["RANGE0"] \in 0 .. 2
    BY ConfigFields DEF Ranged
  <1>2. crystal \in Nat /\ crystal <= 50000000
    BY CrystalTyped DEF Ranged, Allowed
  <1>3. frdiv_val \in 0 .. 5
    BY FrdivBounded
  <1>4. FllRef(c["RANGE0"], c["FRDIV"]) \in Nat
    BY <1>1, <1>3, FllRefTyped
  <1>5. CASE c["RANGE0"] = 0
    <2>1. crystal <= 40000
      BY SMT, <1>1, <1>2, <1>5 DEF range_val, pll_range
    <2>2. c["FRDIV"] = 0
      BY SMT, <1>1, <1>2, <2>1, FrdivCases
    <2>3. FllRef(0, 0) = crystal \div (1 * 2 ^ 0)
      BY ~(0 > 0), Zenon DEF FllRef
    <2>4. FllRef(0, 0) = crystal
      <3>1. 2 ^ 0 = 1
        BY PowersOfTwo
      <3>2. crystal \div (1 * 1) = crystal
        BY SMT, <1>2
      <3> QED
        BY <2>3, <3>1, <3>2, Zenon
    <2>5. FllRef(c["RANGE0"], c["FRDIV"]) = crystal /\ FllRef(0, c["RANGE0"]) = crystal
      BY <1>5, <2>2, <2>4, Zenon
    <2> QED
      BY SMT, <1>2, <2>1, <2>5
  <1>6. CASE c["RANGE0"] # 0
    <2>1. c["RANGE0"] > 0
      BY SMT, <1>1, <1>6
    <2>2. FllRef(c["RANGE0"], c["FRDIV"]) = crystal \div (32 * 2 ^ frdiv_val)
      BY <1>1, <2>1, Zenon DEF FllRef
    <2> DEFINE y == 2 ^ frdiv_val
    <2>3. y \in Nat /\ \/ crystal <= 1250000 /\ y = 1
                       \/ crystal <= 2500000 /\ y = 2
                       \/ crystal <= 5000000 /\ y = 4
                       \/ crystal <= 10000000 /\ y = 8
                       \/ crystal <= 20000000 /\ y = 16
                       \/ y = 32
      <3>1. \/ crystal <= 1250000 /\ frdiv_val = 0
            \/ crystal <= 2500000 /\ frdiv_val = 1
            \/ crystal <= 5000000 /\ frdiv_val = 2
            \/ crystal <= 10000000 /\ frdiv_val = 3
            \/ crystal <= 20000000 /\ frdiv_val = 4
            \/ frdiv_val = 5
        BY SMT, FrdivCases
      <3>2. /\ frdiv_val = 0 => y = 1
            /\ frdiv_val = 1 => y = 2
            /\ frdiv_val = 2 => y = 4
            /\ frdiv_val = 3 => y = 8
            /\ frdiv_val = 4 => y = 16
            /\ frdiv_val = 5 => y = 32
        BY PowersOfTwo, Zenon
      <3> HIDE DEF y
      <3> QED
        BY SMT, <3>1, <3>2
    <2> HIDE DEF y
    <2>4. crystal \div (32 * y) < 65536
      <3>1. CASE crystal <= 1250000 /\ y = 1
        BY SMT, <1>2, <3>1
      <3>2. CASE crystal <= 2500000 /\ y = 2
        BY SMT, <1>2, <3>2
      <3>3. CASE crystal <= 5000000 /\ y = 4
        BY SMT, <1>2, <3>3
      <3>4. CASE crystal <= 10000000 /\ y = 8
        BY SMT, <1>2, <3>4
      <3>5. CASE crystal <= 20000000 /\ y = 16
        BY SMT, <1>2, <3>5
      <3>6. CASE y = 32
        BY SMT, <1>2, <3>6
      <3> QED
        BY SMT, <2>3, <3>1, <3>2, <3>3, <3>4, <3>5, <3>6
    <2> QED
      BY SMT, <1>4, <2>1, <2>2, <2>4 DEF y
  <1> QED
    BY <1>4, <1>5, <1>6

\* What it accepts is in range.
LEMMA ShortAccepted ==
  ASSUME NEW x \in Nat, x < 65536, FllError(fll_freq(Short(x))) = 0
  PROVE  /\ Short(x) = x /\ fll_freq(Short(x)) = x * Multiplier
         /\ x * Multiplier >= 20000000 * (DRS + 1)
         /\ x * Multiplier <= 25000000 * (DRS + 1)
PROOF
  <1> DEFINE y == Short(x)
             m == Multiplier
  <1>1. y \in Int /\ (y = x \/ y < 0)
    BY SMT DEF Short
  <1> HIDE DEF y
  <1>2. fll_freq(y) = y * m /\ y * m >= 20000000 * (DRS + 1) /\ y * m <= 25000000 * (DRS + 1)
    BY <1>1, FllFreqValue DEF y
  <1>3. m \in Nat /\ m > 0 /\ DRS \in 0 .. 3
    BY MultiplierTyped, McgAssumption
  <1> HIDE DEF m
  <1>4. ~(y < 0)
    <2>1. ASSUME y < 0 PROVE y * m <= 0
      <3>1. ASSUME NEW a \in Int, NEW b \in Nat, a < 0 PROVE a * b <= 0
        BY SMT, <3>1
      <3> QED
        BY ONLY <1>1, <1>3, <2>1, <3>1
    <2> DEFINE z == y * m
    <2>2. z \in Int
      BY SMT, <1>1, <1>3
    <2> HIDE DEF z
    <2>3. z >= 20000000 * (DRS + 1)
      BY <1>2 DEF z
    <2>4. z > 0
      BY SMT, <1>3, <2>2, <2>3
    <2> QED
      BY SMT, <2>1, <2>2, <2>4 DEF z
  <1>5. y = x
    BY <1>1, <1>4
  <1>6. /\ y = x /\ fll_freq(y) = x * m
        /\ x * m >= 20000000 * (DRS + 1) /\ x * m <= 25000000 * (DRS + 1)
    BY SMT, <1>2, <1>5
  <1> QED
    BY SMT, <1>6 DEF y, m

-----------------------------------------------------------------------------
\* Every function leads to its mode.

LEMMA OtherModes ==
  /\ {BLPI, FBI, FEI, FEE, FBE, BLPE, PBE} \subseteq Modes \ {PEE} /\ PEE \in Modes
  /\ FEE \notin {BLPI, FBI, FEI, FBE, BLPE, PBE, PEE}
  BY DEF Modes, BLPI, FBI, FEI, FEE, FBE, BLPE, PBE, PEE

LEMMA StartOther ==
  ASSUME TypeInv, PlanInv, todo = <<>>, late = 0, NEW m \in Modes \ {PEE}, In(m)
  PROVE  \E c \in Config : At(c, m) /\ Ranged(c) /\ Known(c, OnOther) /\ Good(TRUE, c, OnOther)
  BY Start

LEMMA StartPll ==
  ASSUME TypeInv, PlanInv, todo = <<>>, late = 0, In(PEE)
  PROVE  \E c \in Config : At(c, PEE) /\ Ranged(c) /\ Known(c, OnPll) /\ Good(TRUE, c, OnPll)
  BY Start, ModesTyped

LEMMA Plans ==
  ASSUME NEW strict, NEW c, NEW K, NEW d, NEW L, NEW script, NEW f, NEW m \in Modes, NEW r,
         Known(c, K), Good(strict, c, K),
         LeadsTo(strict, c, K, script, d, L), script # <<>>,
         Base \subseteq L, Ranged(d), At(d, m), Agree(d, f, r),
         m = PEE => "LOCK0" \in L, m = FEE => FllInRange(d)
  PROVE  Plan(strict, script, f, m, r)
PROOF
  <1>1. Final(d, L, f, m, r)
    BY Ends
  <1> QED
    BY <1>1, Zenon DEF Plan

\* The script of a function that returns an error after all.
LEMMA PlansError ==
  ASSUME NEW strict, NEW c, NEW K, NEW d, NEW L, NEW script, NEW f, NEW m \in Modes, NEW r, NEW g,
         Known(c, K), Good(strict, c, K),
         LeadsTo(strict, c, K, script, d, L), script # <<>>,
         Base \subseteq L, Ranged(d), At(d, m), m \notin {PEE, FEE}, ~Frequency(r)
  PROVE  Plan(strict, script, f, g, r)
PROOF
  <1>1. ~At(d, PEE) /\ ~At(d, FEE)
    BY ModesTyped, AtOnce
  <1>2. Final(d, L, f, g, r)
    BY <1>1, Zenon DEF Final
  <1> QED
    BY <1>2, Zenon DEF Plan

LEMMA PiecesHave ==
  /\ \A x : Write(x) # <<>>
  /\ \A x, y : Oscillator(x, y) # <<>>
  /\ \A x : SelectIrc(x) # <<>>
  /\ \A x : ClockMonitor(x) # <<>>
  /\ \A x : LowPower(x) # <<>>
  /\ \A x : InternalReference(x) # <<>>
  /\ FllInstead # <<>>
  /\ \A x, y, z : Await(x, y, z) # <<>>
PROOF
  <1>1. \A x : Write(x) # <<>>
    BY DEF Write
  <1>2. \A x, y, z : Await(x, y, z) # <<>>
    BY DEF Await
  <1> QED
    BY <1>1, <1>2 DEF Oscillator, SelectIrc, ClockMonitor, LowPower, InternalReference, FllInstead

LEMMA SwitchesHave == ToExternal # <<>> /\ \A x : Pll(x) # <<>>
PROOF
  <1>1. ASSUME NEW x, NEW y PROVE <<x>> \o <<y>> # <<>>
    OBVIOUS
  <1>2. ToExternal # <<>>
    BY <1>1 DEF ToExternal, WriteOr, ToClock, Await
  <1>3. \A x : Pll(x) # <<>>
    BY <1>1 DEF Pll, Write
  <1> QED
    BY <1>2, <1>3

LEMMA QuietOther == "OSCINIT0" \notin OnOther /\ "IRCST" \notin OnOther
  BY DEF OnOther, NotPll

LEMMA IrcWillLead ==
  ASSUME NEW c, Good(TRUE, c, OnOther), NEW irc_select \in {0, 1}
  PROVE  \E d : /\ LeadsTo(TRUE, c, OnOther, SelectIrc(irc_select), d, OnOther)
                /\ Good(TRUE, d, OnOther)
                /\ d["IRCS"] = irc_select /\ Same(c, d, {"IRCS"})
PROOF
  <1>1. ASSUME NEW strict, NEW K, NEW x, x \in Int, Good(strict, c, K), K = OnOther
        PROVE  \E d : /\ LeadsTo(strict, c, K, SelectIrc(x), d, K) /\ Good(strict, d, K)
                      /\ d["IRCS"] = x /\ Same(c, d, {"IRCS"})
    <2>1. "OSCINIT0" \notin K /\ "IRCST" \notin K
      BY <1>1, QuietOther
    <2> QED
      BY <1>1, <2>1, SelectIrcLeads
  <1>2. irc_select \in Int
    OBVIOUS
  <1> QED
    BY ONLY <1>1, <1>2, Good(TRUE, c, OnOther)

LEMMA BypassOther ==
  ASSUME NEW strict, NEW c, Good(strict, c, OnOther), c["PLLS"] = 0,
         NEW range \in Int, NEW erefs \in {0, 1}
  PROVE  LET s == Oscillator(range, erefs) \o ExternalReference(2, erefs)
                     \o ToClock(2) \o ClockMonitor(1)
         IN  \E d, L : /\ LeadsTo(strict, c, OnOther, s, d, L) /\ s # <<>>
                       /\ Base \subseteq L
                       /\ d["CLKS"] = 2 /\ d["IREFS"] = 0
                       /\ d["FRDIV"] = frdiv_val /\ d["RANGE0"] = range
                       /\ Same(c, d, OscFields)
PROOF
  <1> DEFINE s == Oscillator(range, erefs) \o ExternalReference(2, erefs)
                     \o ToClock(2) \o ClockMonitor(1)
  <1>1. PICK K : K = OnOther
    OBVIOUS
  <1>2. Good(strict, c, K) /\ K = OnOther /\ c["PLLS"] = 0
    BY <1>1
  <1>3. /\ s # <<>>
        /\ \E d, L : /\ LeadsTo(strict, c, K, s, d, L) /\ Good(strict, d, L)
                     /\ {"IREFST", "CLKST"} \subseteq L /\ OffPll(d, L)
                     /\ K = OnOther => "PLLST" \in L /\ OnOther \subseteq L
                     /\ d["CLKS"] = 2 /\ d["IREFS"] = 0
                     /\ d["FRDIV"] = frdiv_val /\ d["RANGE0"] = range
                     /\ Same(c, d, OscFields)
    BY ONLY <1>2, range \in Int, erefs \in {0, 1}, BypassLeads
  <1> HIDE DEF s
  <1>4. PICK d, L : /\ LeadsTo(strict, c, K, s, d, L)
                    /\ {"IREFST", "CLKST"} \subseteq L /\ "PLLST" \in L
                    /\ d["CLKS"] = 2 /\ d["IREFS"] = 0
                    /\ d["FRDIV"] = frdiv_val /\ d["RANGE0"] = range
                    /\ Same(c, d, OscFields)
    BY <1>2, <1>3
  <1>5. Base \subseteq L
    BY <1>4 DEF Base
  <1>6. \E x, y : /\ LeadsTo(strict, c, OnOther, s, x, y) /\ s # <<>>
                  /\ Base \subseteq y
                  /\ x["CLKS"] = 2 /\ x["IREFS"] = 0
                  /\ x["FRDIV"] = frdiv_val /\ x["RANGE0"] = range
                  /\ Same(c, x, OscFields)
    BY <1>1, <1>3, <1>4, <1>5
  <1> QED
    BY <1>6 DEF s

LEMMA fei_fbePlanned == TypeInv /\ PlanInv /\ fei_fbe => PlanInv'
PROOF
  <1> SUFFICES ASSUME TypeInv, PlanInv, fei_fbe PROVE PlanInv'
    OBVIOUS
  <1>1. PICK erefs \in {0, 1} : Call("fei_fbe", FEI, OscError(erefs), Oscillator(range_val, erefs) \o ExternalReference(2, erefs) \o ToClock(2) \o ClockMonitor(1), crystal, FBE)
    BY DEF fei_fbe
  <1> DEFINE script == Oscillator(range_val, erefs) \o ExternalReference(2, erefs) \o ToClock(2) \o ClockMonitor(1)
  <1>2. todo = <<>>
    BY <1>1 DEF Call
  <1>3. ASSUME In(FEI), OscError(erefs) = 0, late = 0
        PROVE  Plan(TRUE, script, "fei_fbe", FBE, crystal)
    <2>1. PICK c \in Config : At(c, FEI) /\ Ranged(c) /\ Known(c, OnOther) /\ Good(TRUE, c, OnOther)
      BY <1>2, <1>3, OtherModes, StartOther
    <2>2. c["CLKS"] = 0 /\ c["IREFS"] = 1 /\ c["LP"] = 0 /\ c["PLLS"] = 0
      BY <2>1, AtFields
    <2>3. PICK d, L : /\ LeadsTo(TRUE, c, OnOther, script, d, L) /\ script # <<>>
                      /\ Base \subseteq L
                      /\ d["CLKS"] = 2 /\ d["IREFS"] = 0
                      /\ d["FRDIV"] = frdiv_val /\ d["RANGE0"] = range_val
                      /\ Same(c, d, OscFields)
      <3>1. range_val \in Int
        BY RangesTyped
      <3> QED
        BY <2>1, <2>2, <3>1, BypassOther
    <2>4. At(d, FBE) /\ Ranged(d) /\ Agree(d, "fei_fbe", crystal)
      <3>1. d["LP"] = 0 /\ d["PLLS"] = 0
        BY <2>2, <2>3 DEF Same, OscFields, Fields
      <3> QED
        BY <1>3, <2>3, <3>1, NotTooFast, ModeOf, ExternalAgrees DEF Ranged
    <2> HIDE DEF script
    <2> QED
      BY <2>1, <2>3, <2>4, OtherModes, Plans
  <1>4. OscError(erefs) \in 0 .. 255
    BY OscTyped
  <1>5. Call("fei_fbe", FEI, OscError(erefs), script, crystal, FBE)
    BY <1>1
  <1> HIDE DEF script
  <1> QED
    BY <1>3, <1>4, <1>5, OtherModes, CallPlanned

LEMMA fbi_fbePlanned == TypeInv /\ PlanInv /\ fbi_fbe => PlanInv'
PROOF
  <1> SUFFICES ASSUME TypeInv, PlanInv, fbi_fbe PROVE PlanInv'
    OBVIOUS
  <1>1. PICK erefs \in {0, 1} : Call("fbi_fbe", FBI, OscError(erefs), Oscillator(range_val, erefs) \o ExternalReference(2, erefs) \o ToClock(2) \o ClockMonitor(1), crystal, FBE)
    BY DEF fbi_fbe
  <1> DEFINE script == Oscillator(range_val, erefs) \o ExternalReference(2, erefs) \o ToClock(2) \o ClockMonitor(1)
  <1>2. todo = <<>>
    BY <1>1 DEF Call
  <1>3. ASSUME In(FBI), OscError(erefs) = 0, late = 0
        PROVE  Plan(TRUE, script, "fbi_fbe", FBE, crystal)
    <2>1. PICK c \in Config : At(c, FBI) /\ Ranged(c) /\ Known(c, OnOther) /\ Good(TRUE, c, OnOther)
      BY <1>2, <1>3, OtherModes, StartOther
    <2>2. c["CLKS"] = 1 /\ c["IREFS"] = 1 /\ c["LP"] = 0 /\ c["PLLS"] = 0
      BY <2>1, AtFields
    <2>3. PICK d, L : /\ LeadsTo(TRUE, c, OnOther, script, d, L) /\ script # <<>>
                      /\ Base \subseteq L
                      /\ d["CLKS"] = 2 /\ d["IREFS"] = 0
                      /\ d["FRDIV"] = frdiv_val /\ d["RANGE0"] = range_val
                      /\ Same(c, d, OscFields)
      <3>1. range_val \in Int
        BY RangesTyped
      <3> QED
        BY <2>1, <2>2, <3>1, BypassOther
    <2>4. At(d, FBE) /\ Ranged(d) /\ Agree(d, "fbi_fbe", crystal)
      <3>1. d["LP"] = 0 /\ d["PLLS"] = 0
        BY <2>2, <2>3 DEF Same, OscFields, Fields
      <3> QED
        BY <1>3, <2>3, <3>1, NotTooFast, ModeOf, ExternalAgrees DEF Ranged
    <2> HIDE DEF script
    <2> QED
      BY <2>1, <2>3, <2>4, OtherModes, Plans
  <1>4. OscError(erefs) \in 0 .. 255
    BY OscTyped
  <1>5. Call("fbi_fbe", FBI, OscError(erefs), script, crystal, FBE)
    BY <1>1
  <1> HIDE DEF script
  <1> QED
    BY <1>3, <1>4, <1>5, OtherModes, CallPlanned

LEMMA fei_fbiPlanned == TypeInv /\ PlanInv /\ fei_fbi => PlanInv'
PROOF
  <1> SUFFICES ASSUME TypeInv, PlanInv, fei_fbi PROVE PlanInv'
    OBVIOUS
  <1>1. PICK irc_freq \in IrcFreqs, irc_select \in {0, 1} : Call("fei_fbi", FEI, IrcError(irc_freq, irc_select), SelectIrc(irc_select) \o Write([CLKS |-> 1]) \o AwaitIrc(irc_select) \o ToClock(1), IrcOut(irc_freq, irc_select), FBI)
    BY DEF fei_fbi
  <1> DEFINE script == SelectIrc(irc_select) \o Write([CLKS |-> 1]) \o AwaitIrc(irc_select) \o ToClock(1)
  <1>2. todo = <<>>
    BY <1>1 DEF Call
  <1>3. ASSUME In(FEI), IrcError(irc_freq, irc_select) = 0, late = 0
        PROVE  Plan(TRUE, script, "fei_fbi", FBI, IrcOut(irc_freq, irc_select))
    <2>1. PICK c \in Config : At(c, FEI) /\ Ranged(c) /\ Known(c, OnOther) /\ Good(TRUE, c, OnOther)
      BY <1>2, <1>3, OtherModes, StartOther
    <2>2. c["CLKS"] = 0 /\ c["IREFS"] = 1 /\ c["LP"] = 0 /\ c["PLLS"] = 0
      BY <2>1, AtFields
    <2> DEFINE L == {"IREFST", "PLLST", NotPll}
               M == L \cup {"CLKST"}
    <2>3. PICK d1 : /\ LeadsTo(TRUE, c, OnOther, SelectIrc(irc_select), d1, OnOther)
                    /\ d1["IRCS"] = irc_select /\ Same(c, d1, {"IRCS"})
      BY <2>1, IrcWillLead
    <2>4. PICK d : /\ LeadsTo(TRUE, d1, OnOther, Write([CLKS |-> 1]), d, L) /\ Good(TRUE, d, L)
                   /\ d["CLKS"] = 1 /\ Same(d1, d, {"CLKS"})
      <3>1. Switchable(TRUE, d1, OnOther, 1, L)
        BY DEF Switchable, OnOther, NotPll
      <3> HIDE DEF L
      <3> QED
        BY <3>1, 1 \in 0 .. 2, SwitchLeads
    <2>5. d["CLKS"] = 1 /\ d["IREFS"] = 1 /\ d["LP"] = 0 /\ d["PLLS"] = 0 /\ d["IRCS"] = irc_select
      BY <2>2, <2>3, <2>4 DEF Same, Fields
    <2>6. LeadsTo(TRUE, d, L, AwaitIrc(irc_select), d, L)
      BY <2>4, <2>5, AwaitIrcLeads
    <2>7. LeadsTo(TRUE, d, L, ToClock(1), d, M)
      <3>1. 1 = Aim(d, "CLKST") /\ 1 \in 0 .. 3 /\ d["CLKS"] \in 0 .. 2 /\ d["CLKS"] # 0
        BY <2>5 DEF Aim
      <3> QED
        BY <2>4, <3>1, ToClockLeads
    <2>8. Base \subseteq M /\ Ranged(d)
      BY <2>5 DEF Base, Ranged
    <2> HIDE DEF L
    <2> HIDE DEF M
    <2>9. LeadsTo(TRUE, c, OnOther, script, d, M) /\ script # <<>>
      <3>1. SelectIrc(irc_select) # <<>>
        BY PiecesHave
      <3> QED
        BY <2>3, <2>4, <2>6, <2>7, <3>1, FourLead
    <2>10. At(d, FBI) /\ Agree(d, "fei_fbi", IrcOut(irc_freq, irc_select))
      BY <1>3, <2>5, ModeOf, IrcAgrees
    <2> HIDE DEF script
    <2> QED
      BY <2>1, <2>8, <2>9, <2>10, OtherModes, Plans
  <1>4. IrcError(irc_freq, irc_select) \in 0 .. 255
    BY IrcTyped
  <1>5. Call("fei_fbi", FEI, IrcError(irc_freq, irc_select), script, IrcOut(irc_freq, irc_select), FBI)
    BY <1>1
  <1> HIDE DEF script
  <1> QED
    BY <1>3, <1>4, <1>5, OtherModes, CallPlanned

LEMMA fee_fbePlanned == TypeInv /\ PlanInv /\ fee_fbe => PlanInv'
PROOF
  <1> SUFFICES ASSUME TypeInv, PlanInv, fee_fbe PROVE PlanInv'
    OBVIOUS
  <1>1. Call("fee_fbe", FEE, 0, ToExternal, crystal, FBE)
    BY DEF fee_fbe
  <1> DEFINE script == ToExternal
  <1>2. todo = <<>>
    BY <1>1 DEF Call
  <1>3. ASSUME In(FEE),  late = 0
        PROVE  Plan(TRUE, script, "fee_fbe", FBE, crystal)
    <2>1. PICK c \in Config : At(c, FEE) /\ Ranged(c) /\ Known(c, OnOther) /\ Good(TRUE, c, OnOther)
      BY <1>2, <1>3, OtherModes, StartOther
    <2>2. c["CLKS"] = 0 /\ c["IREFS"] = 0 /\ c["LP"] = 0 /\ c["PLLS"] = 0
      BY <2>1, AtFields
    <2> DEFINE L == {"IREFST", "PLLST", NotPll}
               M == L \cup {"CLKST"}
    <2>3. Switchable(TRUE, c, OnOther, 2, L)
      BY DEF Switchable, OnOther, NotPll
    <2>4. PICK d : /\ LeadsTo(TRUE, c, OnOther, ToExternal, d, M)
                   /\ d["CLKS"] = 2 /\ Same(c, d, {"CLKS"})
      BY <2>2, <2>3, ToExternalLeads
    <2>5. /\ d["CLKS"] = 2 /\ d["IREFS"] = 0 /\ d["LP"] = 0 /\ d["PLLS"] = 0
          /\ d["FRDIV"] = c["FRDIV"] /\ d["RANGE0"] = c["RANGE0"]
      BY <2>2, <2>4 DEF Same, Fields
    <2>6. Base \subseteq M /\ Ranged(d)
      BY <2>1, <2>2, <2>5 DEF Base, Ranged
    <2> HIDE DEF M
    <2>7. At(d, FBE) /\ Agree(d, "fee_fbe", crystal)
      BY <2>5, ModeOf, ExternalAgrees
    <2> QED
      BY <2>1, <2>4, <2>6, <2>7, SwitchesHave, OtherModes, Plans
  <1>4. 0 \in 0 .. 255
    OBVIOUS
  <1>5. Call("fee_fbe", FEE, 0, script, crystal, FBE)
    BY <1>1
  <1> HIDE DEF script
  <1> QED
    BY <1>3, <1>4, <1>5, OtherModes, CallPlanned

LEMMA fbi_blpiPlanned == TypeInv /\ PlanInv /\ fbi_blpi => PlanInv'
PROOF
  <1> SUFFICES ASSUME TypeInv, PlanInv, fbi_blpi PROVE PlanInv'
    OBVIOUS
  <1>1. PICK irc_freq \in IrcFreqs, irc_select \in {0, 1} : Call("fbi_blpi", FBI, 0, LowPower(1), IrcOut(irc_freq, irc_select), BLPI)
    BY DEF fbi_blpi
  <1> DEFINE script == LowPower(1)
  <1>2. todo = <<>>
    BY <1>1 DEF Call
  <1>3. ASSUME In(FBI),  late = 0
        PROVE  Plan(TRUE, script, "fbi_blpi", BLPI, IrcOut(irc_freq, irc_select))
    <2>1. PICK c \in Config : At(c, FBI) /\ Ranged(c) /\ Known(c, OnOther) /\ Good(TRUE, c, OnOther)
      BY <1>2, <1>3, OtherModes, StartOther
    <2>2. c["CLKS"] = 1 /\ c["IREFS"] = 1 /\ c["LP"] = 0 /\ c["PLLS"] = 0
      BY <2>1, AtFields
    <2>3. PICK d : /\ LeadsTo(TRUE, c, OnOther, LowPower(1), d, OnOther)
                   /\ d["LP"] = 1 /\ Same(c, d, {"LP"})
      <3>1. "LOCK0" \notin OnOther /\ 1 \in {0, 1}
        BY DEF OnOther, NotPll
      <3> QED
        BY <2>1, <3>1, LowPowerLeads
    <2>4. d["CLKS"] = 1 /\ d["IREFS"] = 1 /\ d["LP"] = 1 /\ d["PLLS"] = 0
      BY <2>2, <2>3 DEF Same, Fields
    <2>5. Base \subseteq OnOther /\ Ranged(d)
      BY <2>4 DEF Base, OnOther, Ranged
    <2>6. At(d, BLPI) /\ Agree(d, "fbi_blpi", IrcOut(irc_freq, irc_select))
      BY <2>4, ModeOf DEF Agree
    <2> QED
      BY <2>1, <2>3, <2>5, <2>6, PiecesHave, OtherModes, Plans
  <1>4. 0 \in 0 .. 255
    OBVIOUS
  <1>5. Call("fbi_blpi", FBI, 0, script, IrcOut(irc_freq, irc_select), BLPI)
    BY <1>1
  <1> HIDE DEF script
  <1> QED
    BY <1>3, <1>4, <1>5, OtherModes, CallPlanned

LEMMA MonitorWillLead ==
  ASSUME NEW c, Good(TRUE, c, OnOther)
  PROVE  \E d : /\ LeadsTo(TRUE, c, OnOther, ClockMonitor(0), d, OnOther)
                /\ Good(TRUE, d, OnOther) /\ Same(c, d, {"CME0"})
  BY QuietOther, 0 \in Int, MonitorLeads

LEMMA fee_fbiPlanned == TypeInv /\ PlanInv /\ fee_fbi => PlanInv'
PROOF
  <1> SUFFICES ASSUME TypeInv, PlanInv, fee_fbi PROVE PlanInv'
    OBVIOUS
  <1>1. PICK irc_freq \in IrcFreqs, irc_select \in {0, 1} : Call("fee_fbi", FEE, IrcError(irc_freq, irc_select), SelectIrc(irc_select) \o ClockMonitor(0) \o WriteOr([CLKS |-> 1, IREFS |-> 1]) \o AwaitIrc(irc_select) \o ToClock(1) \o AwaitInternal, IrcOut(irc_freq, irc_select), FBI)
    BY DEF fee_fbi
  <1> DEFINE script == SelectIrc(irc_select) \o ClockMonitor(0) \o WriteOr([CLKS |-> 1, IREFS |-> 1]) \o AwaitIrc(irc_select) \o ToClock(1) \o AwaitInternal
  <1>2. todo = <<>>
    BY <1>1 DEF Call
  <1>3. ASSUME In(FEE), IrcError(irc_freq, irc_select) = 0, late = 0
        PROVE  Plan(TRUE, script, "fee_fbi", FBI, IrcOut(irc_freq, irc_select))
    <2>1. PICK c \in Config : At(c, FEE) /\ Ranged(c) /\ Known(c, OnOther) /\ Good(TRUE, c, OnOther)
      BY <1>2, <1>3, OtherModes, StartOther
    <2>2. c["CLKS"] = 0 /\ c["IREFS"] = 0 /\ c["LP"] = 0 /\ c["PLLS"] = 0
      BY <2>1, AtFields
    <2>3. PICK d1 : /\ LeadsTo(TRUE, c, OnOther, SelectIrc(irc_select), d1, OnOther)
                    /\ Good(TRUE, d1, OnOther)
                    /\ d1["IRCS"] = irc_select /\ Same(c, d1, {"IRCS"})
      BY <2>1, IrcWillLead
    <2>4. PICK d2 : /\ LeadsTo(TRUE, d1, OnOther, ClockMonitor(0), d2, OnOther)
                    /\ Good(TRUE, d2, OnOther) /\ Same(d1, d2, {"CME0"})
      BY <2>3, MonitorWillLead
    <2>5. d2["CLKS"] = 0 /\ d2["IREFS"] = 0 /\ d2["LP"] = 0 /\ d2["PLLS"] = 0 /\ d2["IRCS"] = irc_select
      BY <2>2, <2>3, <2>4 DEF Same, Fields
    <2> DEFINE L == {"PLLST", NotPll}
               M == L \cup {"CLKST"}
               N == M \cup {"IREFST"}
    <2>6. PICK d : /\ LeadsTo(TRUE, d2, OnOther, WriteOr([CLKS |-> 1, IREFS |-> 1]), d, L) /\ Good(TRUE, d, L)
                   /\ d["CLKS"] = 1 /\ d["IREFS"] = 1 /\ Same(d2, d, {"CLKS", "IREFS"})
      BY <2>5, BothInternalLead
    <2>7. d["LP"] = 0 /\ d["PLLS"] = 0 /\ d["IRCS"] = irc_select
      BY <2>5, <2>6 DEF Same, Fields
    <2> HIDE DEF L
    <2>8. LeadsTo(TRUE, d, L, AwaitIrc(irc_select), d, L)
      BY <2>6, <2>7, AwaitIrcLeads
    <2>9. LeadsTo(TRUE, d, L, ToClock(1), d, M) /\ Good(TRUE, d, M)
      <3>1. 1 = Aim(d, "CLKST") /\ 1 \in 0 .. 3 /\ d["CLKS"] \in 0 .. 2 /\ d["CLKS"] # 0
        BY <2>6 DEF Aim
      <3> QED
        BY <2>6, <3>1, ToClockLeads
    <2> HIDE DEF M
    <2>10. LeadsTo(TRUE, d, M, AwaitInternal, d, N)
      BY <2>6, <2>9, AwaitInternalLeads
    <2>11. Base \subseteq N /\ Ranged(d)
      BY <2>6 DEF Base, Ranged, L, M
    <2> HIDE DEF N
    <2>12. LeadsTo(TRUE, c, OnOther, script, d, N) /\ script # <<>>
      <3>1. SelectIrc(irc_select) # <<>>
        BY PiecesHave
      <3>2. /\ LeadsTo(TRUE, c, OnOther, SelectIrc(irc_select), d1, OnOther)
            /\ LeadsTo(TRUE, d1, OnOther, ClockMonitor(0), d2, OnOther)
            /\ LeadsTo(TRUE, d2, OnOther, WriteOr([CLKS |-> 1, IREFS |-> 1]), d, L)
            /\ LeadsTo(TRUE, d, L, AwaitIrc(irc_select), d, L)
            /\ LeadsTo(TRUE, d, L, ToClock(1), d, M)
            /\ LeadsTo(TRUE, d, M, AwaitInternal, d, N)
        BY <2>3, <2>4, <2>6, <2>8, <2>9, <2>10
      <3> QED
        BY ONLY <3>1, <3>2, SixLead
    <2>13. At(d, FBI) /\ Agree(d, "fee_fbi", IrcOut(irc_freq, irc_select))
      BY <1>3, <2>6, <2>7, ModeOf, IrcAgrees
    <2> HIDE DEF script
    <2> QED
      BY <2>1, <2>11, <2>12, <2>13, OtherModes, Plans
  <1>4. IrcError(irc_freq, irc_select) \in 0 .. 255
    BY IrcTyped
  <1>5. Call("fee_fbi", FEE, IrcError(irc_freq, irc_select), script, IrcOut(irc_freq, irc_select), FBI)
    BY <1>1
  <1> HIDE DEF script
  <1> QED
    BY <1>3, <1>4, <1>5, OtherModes, CallPlanned

LEMMA fbe_fbiPlanned == TypeInv /\ PlanInv /\ fbe_fbi => PlanInv'
PROOF
  <1> SUFFICES ASSUME TypeInv, PlanInv, fbe_fbi PROVE PlanInv'
    OBVIOUS
  <1>1. PICK irc_freq \in IrcFreqs, irc_select \in {0, 1} : Call("fbe_fbi", FBE, IrcError(irc_freq, irc_select), SelectIrc(irc_select) \o ClockMonitor(0) \o InternalReference(1) \o AwaitIrc(irc_select) \o ToClock(1) \o AwaitInternal, IrcOut(irc_freq, irc_select), FBI)
    BY DEF fbe_fbi
  <1> DEFINE script == SelectIrc(irc_select) \o ClockMonitor(0) \o InternalReference(1) \o AwaitIrc(irc_select) \o ToClock(1) \o AwaitInternal
  <1>2. todo = <<>>
    BY <1>1 DEF Call
  <1>3. ASSUME In(FBE), IrcError(irc_freq, irc_select) = 0, late = 0
        PROVE  Plan(TRUE, script, "fbe_fbi", FBI, IrcOut(irc_freq, irc_select))
    <2>1. PICK c \in Config : At(c, FBE) /\ Ranged(c) /\ Known(c, OnOther) /\ Good(TRUE, c, OnOther)
      BY <1>2, <1>3, OtherModes, StartOther
    <2>2. c["CLKS"] = 2 /\ c["IREFS"] = 0 /\ c["LP"] = 0 /\ c["PLLS"] = 0
      BY <2>1, AtFields
    <2>3. PICK d1 : /\ LeadsTo(TRUE, c, OnOther, SelectIrc(irc_select), d1, OnOther)
                    /\ Good(TRUE, d1, OnOther)
                    /\ d1["IRCS"] = irc_select /\ Same(c, d1, {"IRCS"})
      BY <2>1, IrcWillLead
    <2>4. PICK d2 : /\ LeadsTo(TRUE, d1, OnOther, ClockMonitor(0), d2, OnOther)
                    /\ Good(TRUE, d2, OnOther) /\ Same(d1, d2, {"CME0"})
      BY <2>3, MonitorWillLead
    <2>5. d2["LP"] = 0 /\ d2["PLLS"] = 0 /\ d2["IRCS"] = irc_select
      BY <2>2, <2>3, <2>4 DEF Same, Fields
    <2> DEFINE L == {"PLLST", NotPll}
               M == L \cup {"CLKST"}
               N == M \cup {"IREFST"}
    <2>6. PICK d : /\ LeadsTo(TRUE, d2, OnOther, InternalReference(1), d, L) /\ Good(TRUE, d, L)
                   /\ d["CLKS"] = 1 /\ d["IREFS"] = 1 /\ Same(d2, d, {"CLKS", "IREFS"})
      BY <2>5, 1 \in {0, 1}, InternalReferenceLeads
    <2>7. d["LP"] = 0 /\ d["PLLS"] = 0 /\ d["IRCS"] = irc_select
      BY <2>5, <2>6 DEF Same, Fields
    <2> HIDE DEF L
    <2>8. LeadsTo(TRUE, d, L, AwaitIrc(irc_select), d, L)
      BY <2>6, <2>7, AwaitIrcLeads
    <2>9. LeadsTo(TRUE, d, L, ToClock(1), d, M) /\ Good(TRUE, d, M)
      <3>1. 1 = Aim(d, "CLKST") /\ 1 \in 0 .. 3 /\ d["CLKS"] \in 0 .. 2 /\ d["CLKS"] # 0
        BY <2>6 DEF Aim
      <3> QED
        BY <2>6, <3>1, ToClockLeads
    <2> HIDE DEF M
    <2>10. LeadsTo(TRUE, d, M, AwaitInternal, d, N)
      BY <2>6, <2>9, AwaitInternalLeads
    <2>11. Base \subseteq N /\ Ranged(d)
      BY <2>6 DEF Base, Ranged, L, M
    <2> HIDE DEF N
    <2>12. LeadsTo(TRUE, c, OnOther, script, d, N) /\ script # <<>>
      <3>1. SelectIrc(irc_select) # <<>>
        BY PiecesHave
      <3>2. /\ LeadsTo(TRUE, c, OnOther, SelectIrc(irc_select), d1, OnOther)
            /\ LeadsTo(TRUE, d1, OnOther, ClockMonitor(0), d2, OnOther)
            /\ LeadsTo(TRUE, d2, OnOther, InternalReference(1), d, L)
            /\ LeadsTo(TRUE, d, L, AwaitIrc(irc_select), d, L)
            /\ LeadsTo(TRUE, d, L, ToClock(1), d, M)
            /\ LeadsTo(TRUE, d, M, AwaitInternal, d, N)
        BY <2>3, <2>4, <2>6, <2>8, <2>9, <2>10
      <3> QED
        BY ONLY <3>1, <3>2, SixLead
    <2>13. At(d, FBI) /\ Agree(d, "fbe_fbi", IrcOut(irc_freq, irc_select))
      BY <1>3, <2>6, <2>7, ModeOf, IrcAgrees
    <2> HIDE DEF script
    <2> QED
      BY <2>1, <2>11, <2>12, <2>13, OtherModes, Plans
  <1>4. IrcError(irc_freq, irc_select) \in 0 .. 255
    BY IrcTyped
  <1>5. Call("fbe_fbi", FBE, IrcError(irc_freq, irc_select), script, IrcOut(irc_freq, irc_select), FBI)
    BY <1>1
  <1> HIDE DEF script
  <1> QED
    BY <1>3, <1>4, <1>5, OtherModes, CallPlanned

LEMMA fee_feiPlanned == TypeInv /\ PlanInv /\ fee_fei => PlanInv'
PROOF
  <1> SUFFICES ASSUME TypeInv, PlanInv, fee_fei PROVE PlanInv'
    OBVIOUS
  <1>1. PICK irc_freq \in IrcFreqs : Call("fee_fei", FEE, FllError(IrcFllFreq(irc_freq)), ClockMonitor(0) \o Write([IREFS |-> 1]) \o AwaitInternal, IrcFllFreq(irc_freq), FEI)
    BY DEF fee_fei
  <1> DEFINE script == ClockMonitor(0) \o Write([IREFS |-> 1]) \o AwaitInternal
  <1>2. todo = <<>>
    BY <1>1 DEF Call
  <1>3. ASSUME In(FEE), FllError(IrcFllFreq(irc_freq)) = 0, late = 0
        PROVE  Plan(TRUE, script, "fee_fei", FEI, IrcFllFreq(irc_freq))
    <2>1. PICK c \in Config : At(c, FEE) /\ Ranged(c) /\ Known(c, OnOther) /\ Good(TRUE, c, OnOther)
      BY <1>2, <1>3, OtherModes, StartOther
    <2>2. c["CLKS"] = 0 /\ c["IREFS"] = 0 /\ c["LP"] = 0 /\ c["PLLS"] = 0
      BY <2>1, AtFields
    <2> DEFINE L == {"PLLST", "CLKST", NotPll}
               M == L \cup {"IREFST"}
    <2>3. PICK d1 : /\ LeadsTo(TRUE, c, OnOther, ClockMonitor(0), d1, OnOther)
                    /\ Good(TRUE, d1, OnOther) /\ Same(c, d1, {"CME0"})
      BY <2>1, MonitorWillLead
    <2>4. d1["CLKS"] = 0 /\ d1["LP"] = 0 /\ d1["PLLS"] = 0
      BY <2>2, <2>3 DEF Same, Fields
    <2>5. PICK d : /\ LeadsTo(TRUE, d1, OnOther, Write([IREFS |-> 1]), d, L) /\ Good(TRUE, d, L)
                   /\ d["IREFS"] = 1 /\ Same(d1, d, {"IREFS"})
      BY <2>4, OnlyInternalLeads
    <2>6. d["CLKS"] = 0 /\ d["LP"] = 0 /\ d["PLLS"] = 0
      BY <2>4, <2>5 DEF Same, Fields
    <2> HIDE DEF L
    <2>7. LeadsTo(TRUE, d, L, AwaitInternal, d, M)
      BY <2>5, AwaitInternalLeads
    <2>8. Base \subseteq M /\ Ranged(d)
      BY <2>5 DEF Base, Ranged, L
    <2> HIDE DEF M
    <2>9. LeadsTo(TRUE, c, OnOther, script, d, M) /\ script # <<>>
      <3>1. ClockMonitor(0) # <<>>
        BY PiecesHave
      <3> QED
        BY <2>3, <2>5, <2>7, <3>1, ThreeLead
    <2>10. At(d, FEI) /\ Agree(d, "fee_fei", IrcFllFreq(irc_freq))
      BY <1>3, <2>5, <2>6, ModeOf, IrcFllAgrees
    <2> HIDE DEF script
    <2> QED
      BY <2>1, <2>8, <2>9, <2>10, OtherModes, Plans
  <1>4. FllError(IrcFllFreq(irc_freq)) \in 0 .. 255
    BY IrcFllValue
  <1>5. Call("fee_fei", FEE, FllError(IrcFllFreq(irc_freq)), script, IrcFllFreq(irc_freq), FEI)
    BY <1>1
  <1> HIDE DEF script
  <1> QED
    BY <1>3, <1>4, <1>5, OtherModes, CallPlanned

LEMMA fbi_feiPlanned == TypeInv /\ PlanInv /\ fbi_fei => PlanInv'
PROOF
  <1> SUFFICES ASSUME TypeInv, PlanInv, fbi_fei PROVE PlanInv'
    OBVIOUS
  <1>1. PICK irc_freq \in IrcFreqs : Call("fbi_fei", FBI, FllError(IrcFllFreq(irc_freq)), InternalReference(0) \o AwaitInternal \o ToClock(0), IrcFllFreq(irc_freq), FEI)
    BY DEF fbi_fei
  <1> DEFINE script == InternalReference(0) \o AwaitInternal \o ToClock(0)
  <1>2. todo = <<>>
    BY <1>1 DEF Call
  <1>3. ASSUME In(FBI), FllError(IrcFllFreq(irc_freq)) = 0, late = 0
        PROVE  Plan(TRUE, script, "fbi_fei", FEI, IrcFllFreq(irc_freq))
    <2>1. PICK c \in Config : At(c, FBI) /\ Ranged(c) /\ Known(c, OnOther) /\ Good(TRUE, c, OnOther)
      BY <1>2, <1>3, OtherModes, StartOther
    <2>2. c["CLKS"] = 1 /\ c["IREFS"] = 1 /\ c["LP"] = 0 /\ c["PLLS"] = 0
      BY <2>1, AtFields
    <2> DEFINE L == {"PLLST", NotPll}
               M == L \cup {"IREFST"}
               N == M \cup {"CLKST"}
    <2>5. PICK d : /\ LeadsTo(TRUE, c, OnOther, InternalReference(0), d, L) /\ Good(TRUE, d, L)
                   /\ d["CLKS"] = 0 /\ d["IREFS"] = 1 /\ Same(c, d, {"CLKS", "IREFS"})
      BY <2>2, 0 \in {0, 1}, InternalReferenceLeads
    <2>6. d["LP"] = 0 /\ d["PLLS"] = 0
      BY <2>2, <2>5 DEF Same, Fields
    <2>7. LeadsTo(TRUE, d, L, AwaitInternal, d, M) /\ Good(TRUE, d, M) /\ "PLLST" \in M
      <3>1. "PLLST" \in M
        OBVIOUS
      <3> HIDE DEF L
      <3> QED
        BY <2>5, <3>1, AwaitInternalLeads
    <2> HIDE DEF M
    <2>8. LeadsTo(TRUE, d, M, ToClock(0), d, N)
      <3>1. 0 = Aim(d, "CLKST") /\ 0 \in 0 .. 3 /\ d["CLKS"] \in 0 .. 2
        BY <2>5, <2>6 DEF Aim
      <3> QED
        BY <2>7, <3>1, ToClockLeads
    <2>9. Base \subseteq N /\ Ranged(d)
      BY <2>5 DEF Base, Ranged, M
    <2> HIDE DEF L
    <2> HIDE DEF N
    <2>10. LeadsTo(TRUE, c, OnOther, script, d, N) /\ script # <<>>
      <3>1. ClockMonitor(0) # <<>> /\ InternalReference(0) # <<>>
        BY PiecesHave
      <3>2. /\ LeadsTo(TRUE, c, OnOther, InternalReference(0), d, L)
            /\ LeadsTo(TRUE, d, L, AwaitInternal, d, M)
            /\ LeadsTo(TRUE, d, M, ToClock(0), d, N)
        BY <2>5, <2>7, <2>8
      <3> QED
        BY ONLY <3>1, <3>2, ThreeLead
    <2>11. At(d, FEI) /\ Agree(d, "fbi_fei", IrcFllFreq(irc_freq))
      BY <1>3, <2>5, <2>6, ModeOf, IrcFllAgrees
    <2> HIDE DEF script
    <2> QED
      BY <2>1, <2>9, <2>10, <2>11, OtherModes, Plans
  <1>4. FllError(IrcFllFreq(irc_freq)) \in 0 .. 255
    BY IrcFllValue
  <1>5. Call("fbi_fei", FBI, FllError(IrcFllFreq(irc_freq)), script, IrcFllFreq(irc_freq), FEI)
    BY <1>1
  <1> HIDE DEF script
  <1> QED
    BY <1>3, <1>4, <1>5, OtherModes, CallPlanned

LEMMA fbe_feiPlanned == TypeInv /\ PlanInv /\ fbe_fei => PlanInv'
PROOF
  <1> SUFFICES ASSUME TypeInv, PlanInv, fbe_fei PROVE PlanInv'
    OBVIOUS
  <1>1. PICK irc_freq \in IrcFreqs : Call("fbe_fei", FBE, FllError(IrcFllFreq(irc_freq)), ClockMonitor(0) \o InternalReference(0) \o AwaitInternal \o ToClock(0), IrcFllFreq(irc_freq), FEI)
    BY DEF fbe_fei
  <1> DEFINE script == ClockMonitor(0) \o InternalReference(0) \o AwaitInternal \o ToClock(0)
  <1>2. todo = <<>>
    BY <1>1 DEF Call
  <1>3. ASSUME In(FBE), FllError(IrcFllFreq(irc_freq)) = 0, late = 0
        PROVE  Plan(TRUE, script, "fbe_fei", FEI, IrcFllFreq(irc_freq))
    <2>1. PICK c \in Config : At(c, FBE) /\ Ranged(c) /\ Known(c, OnOther) /\ Good(TRUE, c, OnOther)
      BY <1>2, <1>3, OtherModes, StartOther
    <2>2. c["CLKS"] = 2 /\ c["IREFS"] = 0 /\ c["LP"] = 0 /\ c["PLLS"] = 0
      BY <2>1, AtFields
    <2>3. PICK d1 : /\ LeadsTo(TRUE, c, OnOther, ClockMonitor(0), d1, OnOther)
                    /\ Good(TRUE, d1, OnOther) /\ Same(c, d1, {"CME0"})
      BY <2>1, MonitorWillLead
    <2>4. d1["LP"] = 0 /\ d1["PLLS"] = 0
      BY <2>2, <2>3 DEF Same, Fields
    <2> DEFINE L == {"PLLST", NotPll}
               M == L \cup {"IREFST"}
               N == M \cup {"CLKST"}
    <2>5. PICK d : /\ LeadsTo(TRUE, d1, OnOther, InternalReference(0), d, L) /\ Good(TRUE, d, L)
                   /\ d["CLKS"] = 0 /\ d["IREFS"] = 1 /\ Same(d1, d, {"CLKS", "IREFS"})
      BY <2>4, 0 \in {0, 1}, InternalReferenceLeads
    <2>6. d["LP"] = 0 /\ d["PLLS"] = 0
      BY <2>4, <2>5 DEF Same, Fields
    <2>7. LeadsTo(TRUE, d, L, AwaitInternal, d, M) /\ Good(TRUE, d, M) /\ "PLLST" \in M
      <3>1. "PLLST" \in M
        OBVIOUS
      <3> HIDE DEF L
      <3> QED
        BY <2>5, <3>1, AwaitInternalLeads
    <2> HIDE DEF M
    <2>8. LeadsTo(TRUE, d, M, ToClock(0), d, N)
      <3>1. 0 = Aim(d, "CLKST") /\ 0 \in 0 .. 3 /\ d["CLKS"] \in 0 .. 2
        BY <2>5, <2>6 DEF Aim
      <3> QED
        BY <2>7, <3>1, ToClockLeads
    <2>9. Base \subseteq N /\ Ranged(d)
      BY <2>5 DEF Base, Ranged, M
    <2> HIDE DEF L
    <2> HIDE DEF N
    <2>10. LeadsTo(TRUE, c, OnOther, script, d, N) /\ script # <<>>
      <3>1. ClockMonitor(0) # <<>> /\ InternalReference(0) # <<>>
        BY PiecesHave
      <3>2. /\ LeadsTo(TRUE, c, OnOther, ClockMonitor(0), d1, OnOther)
            /\ LeadsTo(TRUE, d1, OnOther, InternalReference(0), d, L)
            /\ LeadsTo(TRUE, d, L, AwaitInternal, d, M)
            /\ LeadsTo(TRUE, d, M, ToClock(0), d, N)
        BY <2>3, <2>5, <2>7, <2>8
      <3> QED
        BY ONLY <3>1, <3>2, FourLead
    <2>11. At(d, FEI) /\ Agree(d, "fbe_fei", IrcFllFreq(irc_freq))
      BY <1>3, <2>5, <2>6, ModeOf, IrcFllAgrees
    <2> HIDE DEF script
    <2> QED
      BY <2>1, <2>9, <2>10, <2>11, OtherModes, Plans
  <1>4. FllError(IrcFllFreq(irc_freq)) \in 0 .. 255
    BY IrcFllValue
  <1>5. Call("fbe_fei", FBE, FllError(IrcFllFreq(irc_freq)), script, IrcFllFreq(irc_freq), FEI)
    BY <1>1
  <1> HIDE DEF script
  <1> QED
    BY <1>3, <1>4, <1>5, OtherModes, CallPlanned

LEMMA blpi_fbiPlanned == TypeInv /\ PlanInv /\ blpi_fbi => PlanInv'
PROOF
  <1> SUFFICES ASSUME TypeInv, PlanInv, blpi_fbi PROVE PlanInv'
    OBVIOUS
  <1>1. PICK irc_freq \in IrcFreqs, irc_select \in {0, 1} : Call("blpi_fbi", BLPI, 0, LowPower(0), IrcOut(irc_freq, irc_select), FBI)
    BY DEF blpi_fbi
  <1> DEFINE script == LowPower(0)
  <1>2. todo = <<>>
    BY <1>1 DEF Call
  <1>3. ASSUME In(BLPI),  late = 0
        PROVE  Plan(TRUE, script, "blpi_fbi", FBI, IrcOut(irc_freq, irc_select))
    <2>1. PICK c \in Config : At(c, BLPI) /\ Ranged(c) /\ Known(c, OnOther) /\ Good(TRUE, c, OnOther)
      BY <1>2, <1>3, OtherModes, StartOther
    <2>2. c["CLKS"] = 1 /\ c["IREFS"] = 1 /\ c["LP"] = 1 /\ c["PLLS"] = 0
      BY <2>1, AtFields
    <2>3. PICK d : /\ LeadsTo(TRUE, c, OnOther, LowPower(0), d, OnOther)
                   /\ d["LP"] = 0 /\ Same(c, d, {"LP"})
      <3>1. "LOCK0" \notin OnOther /\ 0 \in {0, 1}
        BY DEF OnOther, NotPll
      <3> QED
        BY <2>1, <3>1, LowPowerLeads
    <2>4. d["CLKS"] = 1 /\ d["IREFS"] = 1 /\ d["LP"] = 0 /\ d["PLLS"] = 0
      BY <2>2, <2>3 DEF Same, Fields
    <2>5. Base \subseteq OnOther /\ Ranged(d)
      BY <2>4 DEF Base, OnOther, Ranged
    <2>6. At(d, FBI) /\ Agree(d, "blpi_fbi", IrcOut(irc_freq, irc_select))
      BY <2>4, ModeOf DEF Agree
    <2> QED
      BY <2>1, <2>3, <2>5, <2>6, PiecesHave, OtherModes, Plans
  <1>4. 0 \in 0 .. 255
    OBVIOUS
  <1>5. Call("blpi_fbi", BLPI, 0, script, IrcOut(irc_freq, irc_select), FBI)
    BY <1>1
  <1> HIDE DEF script
  <1> QED
    BY <1>3, <1>4, <1>5, OtherModes, CallPlanned

LEMMA LowPowerWillLead ==
  ASSUME NEW c, NEW K, "LOCK0" \notin K, Good(TRUE, c, K), NEW on \in {0, 1}
  PROVE  \E d : /\ LeadsTo(TRUE, c, K, LowPower(on), d, K) /\ Good(TRUE, d, K)
                /\ d["LP"] = on /\ Same(c, d, {"LP"})
  BY LowPowerLeads

LEMMA LockOther ==
  /\ "LOCK0" \notin OnOther /\ "LOCK0" \notin Bypassed /\ Base \subseteq OnOther
  /\ Base \subseteq OnPll /\ "LOCK0" \in OnPll /\ Base \subseteq Locked
  /\ {"IREFST", "CLKST"} \subseteq OnOther /\ NotPll \in OnOther
  /\ {"IREFST", "PLLST", "LOCK0"} \subseteq Locked
  BY DEF OnOther, Bypassed, Base, OnPll, Locked, NotPll

LEMMA PllPairs ==
  ASSUME TypeInv, NEW pll \in PllSettings
  PROVE  /\ pll \in Int \X Int
         /\ DividerError(pll) \in 0 .. 255 /\ PllError(pll) \in 0 .. 255
PROOF
  <1>1. pll \in Int \X Int
    BY PllTyped
  <1> QED
    BY <1>1, PllValue

LEMMA fbe_blpePlanned == TypeInv /\ PlanInv /\ fbe_blpe => PlanInv'
PROOF
  <1> SUFFICES ASSUME TypeInv, PlanInv, fbe_blpe PROVE PlanInv'
    OBVIOUS
  <1>1. Call("fbe_blpe", FBE, 0, LowPower(1), crystal, BLPE)
    BY DEF fbe_blpe
  <1> DEFINE script == LowPower(1)
  <1>2. todo = <<>>
    BY <1>1 DEF Call
  <1>3. ASSUME In(FBE),  late = 0
        PROVE  Plan(TRUE, script, "fbe_blpe", BLPE, crystal)
    <2>1. PICK c \in Config : At(c, FBE) /\ Ranged(c) /\ Known(c, OnOther) /\ Good(TRUE, c, OnOther)
      BY <1>2, <1>3, OtherModes, StartOther
    <2>2. c["CLKS"] = 2 /\ c["IREFS"] = 0 /\ c["LP"] = 0 /\ c["PLLS"] = 0
      BY <2>1, AtFields
    <2>3. PICK d : /\ LeadsTo(TRUE, c, OnOther, LowPower(1), d, OnOther)
                   /\ d["LP"] = 1 /\ Same(c, d, {"LP"})
      BY <2>1, LockOther, 1 \in {0, 1}, LowPowerWillLead
    <2>4. /\ d["CLKS"] = 2 /\ d["IREFS"] = 0 /\ d["LP"] = 1
          /\ d["FRDIV"] = c["FRDIV"] /\ d["RANGE0"] = c["RANGE0"]
      BY <2>2, <2>3 DEF Same, Fields
    <2>5. Ranged(d)
      BY <2>1, <2>2, <2>4 DEF Ranged
    <2>6. At(d, BLPE) /\ Agree(d, "fbe_blpe", crystal)
      BY <2>4, ModeOf, ExternalAgrees
    <2> QED
      BY <2>1, <2>3, <2>5, <2>6, LockOther, PiecesHave, OtherModes, Plans
  <1>4. 0 \in 0 .. 255
    OBVIOUS
  <1>5. Call("fbe_blpe", FBE, 0, script, crystal, BLPE)
    BY <1>1
  <1> HIDE DEF script
  <1> QED
    BY <1>3, <1>4, <1>5, OtherModes, CallPlanned

LEMMA pbe_blpePlanned == TypeInv /\ PlanInv /\ pbe_blpe => PlanInv'
PROOF
  <1> SUFFICES ASSUME TypeInv, PlanInv, pbe_blpe PROVE PlanInv'
    OBVIOUS
  <1>1. Call("pbe_blpe", PBE, 0, LowPower(1), crystal, BLPE)
    BY DEF pbe_blpe
  <1> DEFINE script == LowPower(1)
  <1>2. todo = <<>>
    BY <1>1 DEF Call
  <1>3. ASSUME In(PBE),  late = 0
        PROVE  Plan(TRUE, script, "pbe_blpe", BLPE, crystal)
    <2>1. PICK c \in Config : At(c, PBE) /\ Ranged(c) /\ Known(c, OnOther) /\ Good(TRUE, c, OnOther)
      BY <1>2, <1>3, OtherModes, StartOther
    <2>2. c["CLKS"] = 2 /\ c["IREFS"] = 0 /\ c["LP"] = 0 /\ c["PLLS"] = 1
      BY <2>1, AtFields
    <2>3. PICK d : /\ LeadsTo(TRUE, c, OnOther, LowPower(1), d, OnOther)
                   /\ d["LP"] = 1 /\ Same(c, d, {"LP"})
      BY <2>1, LockOther, 1 \in {0, 1}, LowPowerWillLead
    <2>4. /\ d["CLKS"] = 2 /\ d["IREFS"] = 0 /\ d["LP"] = 1
          /\ d["FRDIV"] = c["FRDIV"] /\ d["RANGE0"] = c["RANGE0"]
      BY <2>2, <2>3 DEF Same, Fields
    <2>5. Ranged(d)
      BY <2>1, <2>2, <2>4 DEF Ranged
    <2>6. At(d, BLPE) /\ Agree(d, "pbe_blpe", crystal)
      BY <2>4, ModeOf, ExternalAgrees
    <2> QED
      BY <2>1, <2>3, <2>5, <2>6, LockOther, PiecesHave, OtherModes, Plans
  <1>4. 0 \in 0 .. 255
    OBVIOUS
  <1>5. Call("pbe_blpe", PBE, 0, script, crystal, BLPE)
    BY <1>1
  <1> HIDE DEF script
  <1> QED
    BY <1>3, <1>4, <1>5, OtherModes, CallPlanned

LEMMA pbe_fbePlanned == TypeInv /\ PlanInv /\ pbe_fbe => PlanInv'
PROOF
  <1> SUFFICES ASSUME TypeInv, PlanInv, pbe_fbe PROVE PlanInv'
    OBVIOUS
  <1>1. Call("pbe_fbe", PBE, 0, FllInstead \o AwaitFll, crystal, FBE)
    BY DEF pbe_fbe
  <1> DEFINE script == FllInstead \o AwaitFll
  <1>2. todo = <<>>
    BY <1>1 DEF Call
  <1>3. ASSUME In(PBE),  late = 0
        PROVE  Plan(TRUE, script, "pbe_fbe", FBE, crystal)
    <2>1. PICK c \in Config : At(c, PBE) /\ Ranged(c) /\ Known(c, OnOther) /\ Good(TRUE, c, OnOther)
      BY <1>2, <1>3, OtherModes, StartOther
    <2>2. c["CLKS"] = 2 /\ c["IREFS"] = 0 /\ c["LP"] = 0 /\ c["PLLS"] = 1
      BY <2>1, AtFields
    <2> DEFINE L == {"IREFST", "CLKST", NotPll}
               M == L \cup {"PLLST"}
    <2>3. PICK d : /\ LeadsTo(TRUE, c, OnOther, FllInstead, d, L) /\ Good(TRUE, d, L)
                   /\ d["PLLS"] = 0 /\ Same(c, d, {"PLLS"})
      BY <2>2, FllInsteadLeads
    <2>4. /\ d["CLKS"] = 2 /\ d["IREFS"] = 0 /\ d["LP"] = 0
          /\ d["FRDIV"] = c["FRDIV"] /\ d["RANGE0"] = c["RANGE0"]
      BY <2>2, <2>3 DEF Same, Fields
    <2> HIDE DEF L
    <2>5. LeadsTo(TRUE, d, L, AwaitFll, d, M)
      BY <2>3, AwaitFllLeads
    <2>6. Base \subseteq M /\ Ranged(d)
      BY <2>1, <2>2, <2>4 DEF Base, Ranged, L
    <2> HIDE DEF M
    <2>7. LeadsTo(TRUE, c, OnOther, script, d, M) /\ script # <<>>
      BY <2>3, <2>5, PiecesHave, TwoLead
    <2>8. At(d, FBE) /\ Agree(d, "pbe_fbe", crystal)
      BY <2>3, <2>4, ModeOf, ExternalAgrees
    <2> HIDE DEF script
    <2> QED
      BY <2>1, <2>6, <2>7, <2>8, OtherModes, Plans
  <1>4. 0 \in 0 .. 255
    OBVIOUS
  <1>5. Call("pbe_fbe", PBE, 0, script, crystal, FBE)
    BY <1>1
  <1> HIDE DEF script
  <1> QED
    BY <1>3, <1>4, <1>5, OtherModes, CallPlanned

LEMMA blpe_fbePlanned == TypeInv /\ PlanInv /\ blpe_fbe => PlanInv'
PROOF
  <1> SUFFICES ASSUME TypeInv, PlanInv, blpe_fbe PROVE PlanInv'
    OBVIOUS
  <1>1. Call("blpe_fbe", BLPE, 0, FllInstead \o LowPower(0) \o AwaitFll, crystal, FBE)
    BY DEF blpe_fbe
  <1> DEFINE script == FllInstead \o LowPower(0) \o AwaitFll
  <1>2. todo = <<>>
    BY <1>1 DEF Call
  <1>3. ASSUME In(BLPE),  late = 0
        PROVE  Plan(TRUE, script, "blpe_fbe", FBE, crystal)
    <2>1. PICK c \in Config : At(c, BLPE) /\ Ranged(c) /\ Known(c, OnOther) /\ Good(TRUE, c, OnOther)
      BY <1>2, <1>3, OtherModes, StartOther
    <2>2. c["CLKS"] = 2 /\ c["IREFS"] = 0 /\ c["LP"] = 1
      BY <2>1, AtFields
    <2> DEFINE L == {"IREFST", "CLKST", NotPll}
               M == L \cup {"PLLST"}
    <2>3. PICK d1 : /\ LeadsTo(TRUE, c, OnOther, FllInstead, d1, L) /\ Good(TRUE, d1, L)
                    /\ d1["PLLS"] = 0 /\ Same(c, d1, {"PLLS"})
      BY <2>2, FllInsteadLeads
    <2>4. PICK d : /\ LeadsTo(TRUE, d1, L, LowPower(0), d, L) /\ Good(TRUE, d, L)
                   /\ d["LP"] = 0 /\ Same(d1, d, {"LP"})
      <3>1. "LOCK0" \notin L
        BY DEF NotPll
      <3> HIDE DEF L
      <3> QED
        BY <2>3, <3>1, 0 \in {0, 1}, LowPowerWillLead
    <2>5. /\ d["CLKS"] = 2 /\ d["IREFS"] = 0 /\ d["PLLS"] = 0
          /\ d["FRDIV"] = c["FRDIV"] /\ d["RANGE0"] = c["RANGE0"]
      BY <2>2, <2>3, <2>4 DEF Same, Fields
    <2> HIDE DEF L
    <2>6. LeadsTo(TRUE, d, L, AwaitFll, d, M)
      BY <2>4, <2>5, AwaitFllLeads
    <2>7. Base \subseteq M /\ Ranged(d)
      BY <2>1, <2>2, <2>5 DEF Base, Ranged, L
    <2> HIDE DEF M
    <2>8. LeadsTo(TRUE, c, OnOther, script, d, M) /\ script # <<>>
      BY <2>3, <2>4, <2>6, PiecesHave, ThreeLead
    <2>9. At(d, FBE) /\ Agree(d, "blpe_fbe", crystal)
      BY <2>4, <2>5, ModeOf, ExternalAgrees
    <2> HIDE DEF script
    <2> QED
      BY <2>1, <2>7, <2>8, <2>9, OtherModes, Plans
  <1>4. 0 \in 0 .. 255
    OBVIOUS
  <1>5. Call("blpe_fbe", BLPE, 0, script, crystal, FBE)
    BY <1>1
  <1> HIDE DEF script
  <1> QED
    BY <1>3, <1>4, <1>5, OtherModes, CallPlanned

LEMMA fbe_pbePlanned == TypeInv /\ PlanInv /\ fbe_pbe => PlanInv'
PROOF
  <1> SUFFICES ASSUME TypeInv, PlanInv, fbe_pbe PROVE PlanInv'
    OBVIOUS
  <1>1. PICK pll \in PllSettings : Call("fbe_pbe", FBE, PllError(pll), Pll(pll) \o AwaitPll, crystal, PBE)
    BY DEF fbe_pbe
  <1> DEFINE script == Pll(pll) \o AwaitPll
  <1>2. todo = <<>>
    BY <1>1 DEF Call
  <1>3. ASSUME In(FBE), PllError(pll) = 0, late = 0
        PROVE  Plan(TRUE, script, "fbe_pbe", PBE, crystal)
    <2>1. PICK c \in Config : At(c, FBE) /\ Ranged(c) /\ Known(c, OnOther) /\ Good(TRUE, c, OnOther)
      BY <1>2, <1>3, OtherModes, StartOther
    <2>2. c["CLKS"] = 2 /\ c["IREFS"] = 0 /\ c["LP"] = 0 /\ c["PLLS"] = 0
      BY <2>1, AtFields
    <2>3. PICK d : /\ LeadsTo(TRUE, c, OnOther, Pll(pll), d, Bypassed)
                   /\ LeadsTo(TRUE, d, Bypassed, AwaitPll, d, Locked)
                   /\ Tuned(pll, c, d)
      <3>1. OffPll(c, OnOther)
        BY LockOther DEF OffPll
      <3> QED
        BY <2>2, <3>1, LockOther, PllPairs, LockLeads
    <2>4. /\ d["CLKS"] = 2 /\ d["IREFS"] = 0 /\ d["LP"] = 0 /\ d["PLLS"] = 1
          /\ d["FRDIV"] = c["FRDIV"] /\ d["RANGE0"] = c["RANGE0"]
      BY <2>2, <2>3 DEF Same, Fields, Tuned, PllFields
    <2>5. Ranged(d)
      BY <2>1, <2>2, <2>4 DEF Ranged
    <2>6. LeadsTo(TRUE, c, OnOther, script, d, Locked) /\ script # <<>>
      BY <2>3, SwitchesHave, TwoLead
    <2>7. At(d, PBE) /\ Agree(d, "fbe_pbe", crystal)
      BY <2>4, ModeOf, ExternalAgrees
    <2> HIDE DEF script
    <2> QED
      BY <2>1, <2>5, <2>6, <2>7, LockOther, OtherModes, Plans
  <1>4. PllError(pll) \in 0 .. 255
    BY PllPairs
  <1>5. Call("fbe_pbe", FBE, PllError(pll), script, crystal, PBE)
    BY <1>1
  <1> HIDE DEF script
  <1> QED
    BY <1>3, <1>4, <1>5, OtherModes, CallPlanned

LEMMA blpe_pbePlanned == TypeInv /\ PlanInv /\ blpe_pbe => PlanInv'
PROOF
  <1> SUFFICES ASSUME TypeInv, PlanInv, blpe_pbe PROVE PlanInv'
    OBVIOUS
  <1>1. PICK pll \in PllSettings : Call("blpe_pbe", BLPE, DividerError(pll), Pll(pll) \o LowPower(0) \o AwaitPll, crystal, PBE)
    BY DEF blpe_pbe
  <1> DEFINE script == Pll(pll) \o LowPower(0) \o AwaitPll
  <1>2. todo = <<>>
    BY <1>1 DEF Call
  <1>3. ASSUME In(BLPE), DividerError(pll) = 0, late = 0
        PROVE  Plan(TRUE, script, "blpe_pbe", PBE, crystal)
    <2>1. PICK c \in Config : At(c, BLPE) /\ Ranged(c) /\ Known(c, OnOther) /\ Good(TRUE, c, OnOther)
      BY <1>2, <1>3, OtherModes, StartOther
    <2>2. c["CLKS"] = 2 /\ c["IREFS"] = 0 /\ c["LP"] = 1
      BY <2>1, AtFields
    <2>3. PICK d1 : /\ LeadsTo(TRUE, c, OnOther, Pll(pll), d1, Bypassed) /\ Good(TRUE, d1, Bypassed)
                    /\ Tuned(pll, c, d1)
      <3>1. OffPll(c, OnOther)
        BY LockOther DEF OffPll
      <3> QED
        BY <2>2, <3>1, LockOther, PllPairs, PllLeads
    <2>4. PICK d : /\ LeadsTo(TRUE, d1, Bypassed, LowPower(0), d, Bypassed) /\ Good(TRUE, d, Bypassed)
                   /\ d["LP"] = 0 /\ Same(d1, d, {"LP"})
      BY <2>3, LockOther, 0 \in {0, 1}, LowPowerWillLead
    <2>5. /\ d["CLKS"] = 2 /\ d["IREFS"] = 0 /\ d["PLLS"] = 1
          /\ d["FRDIV"] = c["FRDIV"] /\ d["RANGE0"] = c["RANGE0"]
      BY <2>2, <2>3, <2>4 DEF Same, Fields, Tuned, PllFields
    <2>6. LeadsTo(TRUE, d, Bypassed, AwaitPll, d, Locked)
      BY <2>4, <2>5, AwaitPllLeads DEF Locked
    <2>7. Ranged(d)
      BY <2>1, <2>2, <2>5 DEF Ranged
    <2>8. LeadsTo(TRUE, c, OnOther, script, d, Locked) /\ script # <<>>
      BY <2>3, <2>4, <2>6, SwitchesHave, ThreeLead
    <2>9. At(d, PBE) /\ Agree(d, "blpe_pbe", crystal)
      BY <2>4, <2>5, ModeOf, ExternalAgrees
    <2> HIDE DEF script
    <2> QED
      BY <2>1, <2>7, <2>8, <2>9, LockOther, OtherModes, Plans
  <1>4. DividerError(pll) \in 0 .. 255
    BY PllPairs
  <1>5. Call("blpe_pbe", BLPE, DividerError(pll), script, crystal, PBE)
    BY <1>1
  <1> HIDE DEF script
  <1> QED
    BY <1>3, <1>4, <1>5, OtherModes, CallPlanned

LEMMA pee_pbePlanned == TypeInv /\ PlanInv /\ pee_pbe => PlanInv'
PROOF
  <1> SUFFICES ASSUME TypeInv, PlanInv, pee_pbe PROVE PlanInv'
    OBVIOUS
  <1>1. Call("pee_pbe", PEE, 0, ToExternal, crystal, PBE)
    BY DEF pee_pbe
  <1> DEFINE script == ToExternal
  <1>2. todo = <<>>
    BY <1>1 DEF Call
  <1>3. ASSUME In(PEE),  late = 0
        PROVE  Plan(TRUE, script, "pee_pbe", PBE, crystal)
    <2>1. PICK c \in Config : At(c, PEE) /\ Ranged(c) /\ Known(c, OnPll) /\ Good(TRUE, c, OnPll)
      BY <1>2, <1>3, OtherModes, StartPll
    <2>2. c["CLKS"] = 0 /\ c["IREFS"] = 0 /\ c["LP"] = 0 /\ c["PLLS"] = 1
      BY <2>1, AtFields
    <2> DEFINE L == {"IREFST", "PLLST", "LOCK0"}
               M == L \cup {"CLKST"}
    <2>3. Switchable(TRUE, c, OnPll, 2, L)
      BY <2>2 DEF Switchable, OnPll, NotPll
    <2> HIDE DEF L
    <2>4. PICK e : /\ LeadsTo(TRUE, c, OnPll, ToExternal, e, M)
                   /\ e["CLKS"] = 2 /\ Same(c, e, {"CLKS"})
      BY <2>2, <2>3, ToExternalLeads
    <2>5. /\ e["IREFS"] = 0 /\ e["LP"] = 0 /\ e["PLLS"] = 1
          /\ e["FRDIV"] = c["FRDIV"] /\ e["RANGE0"] = c["RANGE0"]
      BY <2>2, <2>4 DEF Same, Fields
    <2>6. Base \subseteq M
      BY DEF Base, L
    <2> HIDE DEF M
    <2>7. At(e, PBE) /\ Agree(e, "pee_pbe", crystal) /\ Ranged(e)
      BY <2>1, <2>2, <2>4, <2>5, ModeOf, ExternalAgrees DEF Ranged
    <2> QED
      BY <2>1, <2>4, <2>6, <2>7, SwitchesHave, OtherModes, Plans
  <1>4. 0 \in 0 .. 255
    OBVIOUS
  <1>5. Call("pee_pbe", PEE, 0, script, crystal, PBE)
    BY <1>1
  <1> HIDE DEF script
  <1> QED
    BY <1>3, <1>4, <1>5, OtherModes, CallPlanned

LEMMA new_pll_freqPlanned == TypeInv /\ PlanInv /\ new_pll_freq => PlanInv'
PROOF
  <1> SUFFICES ASSUME TypeInv, PlanInv, new_pll_freq PROVE PlanInv'
    OBVIOUS
  <1>1. PICK pll \in PllSettings : Call("new_pll_freq", PEE, PllError(pll), ToExternal \o Pll(pll) \o AwaitPll \o SelectPll, PllFreq(pll[1], pll[2]), PEE)
    BY DEF new_pll_freq
  <1> DEFINE script == ToExternal \o Pll(pll) \o AwaitPll \o SelectPll
  <1>2. todo = <<>>
    BY <1>1 DEF Call
  <1>3. ASSUME In(PEE), PllError(pll) = 0, late = 0
        PROVE  Plan(TRUE, script, "new_pll_freq", PEE, PllFreq(pll[1], pll[2]))
    <2>1. PICK c \in Config : At(c, PEE) /\ Ranged(c) /\ Known(c, OnPll) /\ Good(TRUE, c, OnPll)
      BY <1>2, <1>3, OtherModes, StartPll
    <2>2. c["CLKS"] = 0 /\ c["IREFS"] = 0 /\ c["LP"] = 0 /\ c["PLLS"] = 1
      BY <2>1, AtFields
    <2> DEFINE L == {"IREFST", "PLLST", "LOCK0"}
               M == L \cup {"CLKST"}
    <2>3. Switchable(TRUE, c, OnPll, 2, L)
      BY <2>2 DEF Switchable, OnPll, NotPll
    <2> HIDE DEF L
    <2>4. PICK e : /\ LeadsTo(TRUE, c, OnPll, ToExternal, e, M)
                   /\ e["CLKS"] = 2 /\ Same(c, e, {"CLKS"})
      BY <2>2, <2>3, ToExternalLeads
    <2>5. /\ e["IREFS"] = 0 /\ e["LP"] = 0 /\ e["PLLS"] = 1
          /\ e["FRDIV"] = c["FRDIV"] /\ e["RANGE0"] = c["RANGE0"]
      BY <2>2, <2>4 DEF Same, Fields
    <2>6. Base \subseteq M
      BY DEF Base, L
    <2> HIDE DEF M
    <2>7. PICK e1 : /\ LeadsTo(TRUE, e, M, Pll(pll), e1, Bypassed)
                    /\ LeadsTo(TRUE, e1, Bypassed, AwaitPll, e1, Locked)
                    /\ Tuned(pll, e, e1)
      <3>1. {"IREFST", "CLKST"} \subseteq M
        BY <2>6 DEF Base
      <3>2. OffPll(e, M)
        BY <2>4, <3>1 DEF OffPll, Aim
      <3> QED
        BY <2>4, <2>5, <3>1, <3>2, PllPairs, LockLeads
    <2>8. /\ e1["IREFS"] = 0 /\ e1["LP"] = 0 /\ e1["PLLS"] = 1
          /\ e1["PRDIV0"] = pll[1] - 1 /\ e1["VDIV0"] = pll[2] - 24
          /\ e1["FRDIV"] = c["FRDIV"] /\ e1["RANGE0"] = c["RANGE0"]
      BY <2>5, <2>7 DEF Same, Fields, Tuned, PllFields
    <2>9. PICK d : /\ LeadsTo(TRUE, e1, Locked, SelectPll, d, OnPll)
                   /\ d["CLKS"] = 0 /\ Same(e1, d, {"CLKS"})
      BY <2>8, LockOther, SelectPllLeads
    <2>10. /\ d["IREFS"] = 0 /\ d["LP"] = 0 /\ d["PLLS"] = 1
           /\ d["PRDIV0"] = pll[1] - 1 /\ d["VDIV0"] = pll[2] - 24
           /\ d["FRDIV"] = c["FRDIV"] /\ d["RANGE0"] = c["RANGE0"]
      BY <2>8, <2>9 DEF Same, Fields
    <2>11. Ranged(d)
      BY <2>1, <2>2, <2>10 DEF Ranged
    <2>12. LeadsTo(TRUE, c, OnPll, script, d, OnPll) /\ script # <<>>
      <3>1. /\ LeadsTo(TRUE, c, OnPll, ToExternal, e, M)
            /\ LeadsTo(TRUE, e, M, Pll(pll), e1, Bypassed)
            /\ LeadsTo(TRUE, e1, Bypassed, AwaitPll, e1, Locked)
            /\ LeadsTo(TRUE, e1, Locked, SelectPll, d, OnPll)
        BY <2>4, <2>7, <2>9
      <3> QED
        BY ONLY <3>1, SwitchesHave, FourLead
    <2>13. At(d, PEE) /\ Agree(d, "new_pll_freq", PllFreq(pll[1], pll[2]))
      <3>1. pll[1] \in Int /\ pll[2] \in Int
        BY PllPairs
      <3> QED
        BY <2>9, <2>10, <3>1, ModeOf, PllAgrees
    <2> HIDE DEF script
    <2> QED
      BY <2>1, <2>11, <2>12, <2>13, LockOther, OtherModes, Plans
  <1>4. PllError(pll) \in 0 .. 255
    BY PllPairs
  <1>5. Call("new_pll_freq", PEE, PllError(pll), script, PllFreq(pll[1], pll[2]), PEE)
    BY <1>1
  <1> HIDE DEF script
  <1> QED
    BY <1>3, <1>4, <1>5, OtherModes, CallPlanned

LEMMA pbe_peePlanned == TypeInv /\ PlanInv /\ pbe_pee => PlanInv'
PROOF
  <1> SUFFICES ASSUME TypeInv, PlanInv, pbe_pee PROVE PlanInv'
    OBVIOUS
  <1>1. Call("pbe_pee", PBE, 0, Await("LOCK0", 1, 68) \o SelectPll, PllFreq(C["PRDIV0"] + 1, C["VDIV0"] + 24), PEE)
    BY DEF pbe_pee
  <1> DEFINE script == Await("LOCK0", 1, 68) \o SelectPll
  <1>2. todo = <<>>
    BY <1>1 DEF Call
  <1>3. ASSUME In(PBE),  late = 0
        PROVE  Plan(TRUE, script, "pbe_pee", PEE, PllFreq(C["PRDIV0"] + 1, C["VDIV0"] + 24))
    <2>1. PICK c \in Config : At(c, PBE) /\ Ranged(c) /\ Known(c, OnOther) /\ Good(TRUE, c, OnOther)
      BY <1>2, <1>3, OtherModes, StartOther
    <2>2. c["CLKS"] = 2 /\ c["IREFS"] = 0 /\ c["LP"] = 0 /\ c["PLLS"] = 1
      BY <2>1, AtFields
    <2> DEFINE M == OnOther \cup {"LOCK0"}
    <2>3. LeadsTo(TRUE, c, OnOther, Await("LOCK0", 1, 68), c, M)
      BY <2>1, <2>2, AwaitLockLeads
    <2>4. {"IREFST", "PLLST", "LOCK0"} \subseteq M
      BY DEF OnOther
    <2> HIDE DEF M
    <2>5. PICK d : /\ LeadsTo(TRUE, c, M, SelectPll, d, OnPll)
                   /\ d["CLKS"] = 0 /\ Same(c, d, {"CLKS"})
      BY <2>2, <2>4, SelectPllLeads
    <2>6. /\ d["IREFS"] = 0 /\ d["LP"] = 0 /\ d["PLLS"] = 1
          /\ d["PRDIV0"] = c["PRDIV0"] /\ d["VDIV0"] = c["VDIV0"]
          /\ d["FRDIV"] = c["FRDIV"] /\ d["RANGE0"] = c["RANGE0"]
      BY <2>2, <2>5 DEF Same, Fields
    <2>7. Ranged(d)
      BY <2>1, <2>2, <2>6 DEF Ranged
    <2>8. LeadsTo(TRUE, c, OnOther, script, d, OnPll) /\ script # <<>>
      <3>1. Await("LOCK0", 1, 68) # <<>>
        BY PiecesHave
      <3>2. /\ LeadsTo(TRUE, c, OnOther, Await("LOCK0", 1, 68), c, M)
            /\ LeadsTo(TRUE, c, M, SelectPll, d, OnPll)
        BY <2>3, <2>5
      <3> QED
        BY ONLY <3>1, <3>2, TwoLead
    <2>9. At(d, PEE)
      BY <2>5, <2>6, ModeOf
    <2>10. Agree(d, "pbe_pee", PllFreq(C["PRDIV0"] + 1, C["VDIV0"] + 24))
      <3> DEFINE p == C["PRDIV0"] + 1
                 v == C["VDIV0"] + 24
      <3>1. C = c /\ c["PRDIV0"] \in 0 .. 26 /\ c["VDIV0"] \in 0 .. 26
        BY <2>1, ConfigFields DEF Known
      <3>2. p \in Int /\ v \in Int /\ d["PRDIV0"] = p - 1 /\ d["VDIV0"] = v - 24
        BY <2>6, <3>1
      <3> HIDE DEF p
      <3> HIDE DEF v
      <3>3. Agree(d, "pbe_pee", PllFreq(p, v))
        BY <2>5, <2>6, <3>2, PllAgrees
      <3> QED
        BY <3>3 DEF p, v
    <2> HIDE DEF script
    <2> QED
      BY <2>1, <2>7, <2>8, <2>9, <2>10, LockOther, OtherModes, Plans
  <1>4. 0 \in 0 .. 255
    OBVIOUS
  <1>5. Call("pbe_pee", PBE, 0, script, PllFreq(C["PRDIV0"] + 1, C["VDIV0"] + 24), PEE)
    BY <1>1
  <1> HIDE DEF script
  <1> QED
    BY <1>3, <1>4, <1>5, OtherModes, CallPlanned

\* Into FEE, from FEI or FBI.
FeeFields(d, range) ==
    /\ d["CLKS"] = 0 /\ d["FRDIV"] = frdiv_val /\ d["IREFS"] = 0 /\ d["RANGE0"] = range
    /\ d["PLLS"] = 0 /\ d["LP"] = 0

LEMMA ExternalFllLeads ==
  ASSUME NEW c, Good(TRUE, c, OnOther), c["PLLS"] = 0, c["LP"] = 0, NEW range \in Int, NEW erefs \in {0, 1},
         NEW L, L \subseteq {"PLLST", "CLKST", NotPll}, "PLLST" \in L, NotPll \in L,
         "CLKST" \in L => c["CLKS"] = 0
  PROVE  \E d1, d : LET M == L \cup {"IREFST"} IN
           /\ LeadsTo(TRUE, c, OnOther, Oscillator(range, erefs), d1, OnOther)
           /\ LeadsTo(TRUE, d1, OnOther, ExternalReference(0, erefs), d, M) /\ Good(TRUE, d, M)
           /\ FeeFields(d, range)
PROOF
  <1>1. PICK d1 : /\ LeadsTo(TRUE, c, OnOther, Oscillator(range, erefs), d1, OnOther)
                  /\ Oscillates(d1, range, erefs) /\ Same(c, d1, C2Fields)
    BY QuietOther, erefs \in Int, OscillatorLeads
  <1>2. /\ d1["RANGE0"] = range /\ d1["EREFS0"] = erefs /\ d1["CLKS"] = c["CLKS"]
        /\ d1["PLLS"] = 0 /\ d1["LP"] = c["LP"]
    BY <1>1 DEF Oscillates, Same, C2Fields, Fields
  <1>3. /\ L \in SUBSET (OnOther \cap {"PLLST", "CLKST", NotPll})
    BY DEF OnOther, NotPll
  <1>4. PICK d : LET M == L \cup {"IREFST"} IN
           /\ LeadsTo(TRUE, d1, OnOther, ExternalReference(0, erefs), d, M) /\ Good(TRUE, d, M)
           /\ d["CLKS"] = 0 /\ d["FRDIV"] = frdiv_val /\ d["IREFS"] = 0
           /\ Same(d1, d, C1Fields)
    BY <1>2, <1>3, 0 \in {0, 2}, ReferenceLeads
  <1>5. FeeFields(d, range)
    BY <1>2, <1>4 DEF Same, C1Fields, Fields, FeeFields
  <1> QED
    BY <1>1, <1>4, <1>5

LEMMA MonitorOnLeads ==
  ASSUME NEW c, NEW K, K \subseteq Base \cup {NotPll}, Good(TRUE, c, K)
  PROVE  \E d : /\ LeadsTo(TRUE, c, K, ClockMonitor(1), d, K) /\ Same(c, d, {"CME0"})
PROOF
  <1>1. "OSCINIT0" \notin K /\ "IRCST" \notin K
    BY DEF Base, NotPll
  <1> QED
    BY <1>1, 1 \in Int, MonitorLeads

\* Without an error of the FLL.
LEMMA FeePlans ==
  ASSUME TypeInv, NEW c, Known(c, OnOther), Good(TRUE, c, OnOther),
         NEW erefs \in {0, 1}, NEW name, NEW rest,
         c["PLLS"] = 0, c["LP"] = 0,
         \/ c["CLKS"] = 0 /\ rest = ExternalReference(0, erefs) \o ClockMonitor(1)
         \/ rest = ExternalReference(0, erefs) \o ToClock(0) \o ClockMonitor(1),
         FllError(fll_freq(FllRef(range_val, frdiv_val))) = 0, Allowed
  PROVE  Plan(TRUE, Oscillator(range_val, erefs) \o rest, name, FEE,
              fll_freq(FllRef(range_val, frdiv_val)))
PROOF
  <1> DEFINE out == fll_freq(FllRef(range_val, frdiv_val))
             er == ExternalReference(0, erefs)
             script == Oscillator(range_val, erefs) \o rest
  <1>1. range_val \in Int
    BY RangesTyped
  <1>2. PICK d1, d, M : /\ LeadsTo(TRUE, c, OnOther, Oscillator(range_val, erefs), d1, OnOther)
                        /\ LeadsTo(TRUE, d1, OnOther, rest, d, M)
                        /\ Base \subseteq M
                        /\ FeeFields(d, range_val)
    <2>1. CASE c["CLKS"] = 0 /\ rest = er \o ClockMonitor(1)
      <3> DEFINE L == {"PLLST", "CLKST", NotPll}
                 M == L \cup {"IREFST"}
      <3>1. PICK d1, e : /\ LeadsTo(TRUE, c, OnOther, Oscillator(range_val, erefs), d1, OnOther)
                         /\ LeadsTo(TRUE, d1, OnOther, er, e, M) /\ Good(TRUE, e, M)
                         /\ FeeFields(e, range_val)
        <4>1. /\ L \subseteq {"PLLST", "CLKST", NotPll} /\ "PLLST" \in L /\ NotPll \in L
              /\ "CLKST" \in L => c["CLKS"] = 0
          BY <2>1
        <4> HIDE DEF L
        <4>2. \E d1, d :
                /\ LeadsTo(TRUE, c, OnOther, Oscillator(range_val, erefs), d1, OnOther)
                /\ LeadsTo(TRUE, d1, OnOther, ExternalReference(0, erefs), d, L \cup {"IREFST"})
                /\ Good(TRUE, d, L \cup {"IREFST"})
                /\ FeeFields(d, range_val)
          BY ONLY <1>1, <4>1, c["PLLS"] = 0, c["LP"] = 0, erefs \in {0, 1}, Good(TRUE, c, OnOther), ExternalFllLeads
        <4> QED
          BY <4>2
      <3>2. M \subseteq Base \cup {NotPll} /\ Base \subseteq M
        BY DEF Base
      <3> HIDE DEF M, er
      <3>3. PICK d : LeadsTo(TRUE, e, M, ClockMonitor(1), d, M) /\ Same(e, d, {"CME0"})
        BY <3>1, <3>2, MonitorOnLeads
      <3>4. FeeFields(d, range_val)
        BY <3>1, <3>3 DEF Same, Fields, FeeFields
      <3>5. LeadsTo(TRUE, d1, OnOther, er \o ClockMonitor(1), d, M)
        BY <3>1, <3>3, ConcatLeadsTo
      <3> QED
        BY <2>1, <3>1, <3>2, <3>4, <3>5
    <2>2. CASE rest = er \o ToClock(0) \o ClockMonitor(1)
      <3> DEFINE L == {"PLLST", NotPll}
                 N == L \cup {"IREFST"}
                 M == N \cup {"CLKST"}
      <3>1. PICK d1, e : /\ LeadsTo(TRUE, c, OnOther, Oscillator(range_val, erefs), d1, OnOther)
                         /\ LeadsTo(TRUE, d1, OnOther, er, e, N) /\ Good(TRUE, e, N)
                         /\ FeeFields(e, range_val)
        <4>1. /\ L \subseteq {"PLLST", "CLKST", NotPll} /\ "PLLST" \in L /\ NotPll \in L
              /\ "CLKST" \in L => c["CLKS"] = 0
          BY DEF NotPll
        <4> HIDE DEF L
        <4>2. \E d1, d :
                /\ LeadsTo(TRUE, c, OnOther, Oscillator(range_val, erefs), d1, OnOther)
                /\ LeadsTo(TRUE, d1, OnOther, ExternalReference(0, erefs), d, L \cup {"IREFST"})
                /\ Good(TRUE, d, L \cup {"IREFST"})
                /\ FeeFields(d, range_val)
          BY ONLY <1>1, <4>1, c["PLLS"] = 0, c["LP"] = 0, erefs \in {0, 1}, Good(TRUE, c, OnOther), ExternalFllLeads
        <4> QED
          BY <4>2
      <3>2. M \subseteq Base \cup {NotPll} /\ Base \subseteq M /\ "PLLST" \in N
        BY DEF Base
      <3> HIDE DEF N, er
      <3>3. LeadsTo(TRUE, e, N, ToClock(0), e, M) /\ Good(TRUE, e, M)
        <4>1. 0 = Aim(e, "CLKST") /\ 0 \in 0 .. 3 /\ e["CLKS"] \in 0 .. 2
          BY <3>1 DEF Aim, FeeFields
        <4> QED
          BY <3>1, <3>2, <4>1, ToClockLeads
      <3> HIDE DEF M
      <3>4. PICK d : LeadsTo(TRUE, e, M, ClockMonitor(1), d, M) /\ Same(e, d, {"CME0"})
        BY <3>2, <3>3, MonitorOnLeads
      <3>5. FeeFields(d, range_val)
        BY <3>1, <3>4 DEF Same, Fields, FeeFields
      <3>6. LeadsTo(TRUE, d1, OnOther, er \o ToClock(0), e, M)
        BY <3>1, <3>3, ConcatLeadsTo
      <3>7. LeadsTo(TRUE, d1, OnOther, er \o ToClock(0) \o ClockMonitor(1), d, M)
        BY <3>4, <3>6, ConcatLeadsTo
      <3> QED
        BY <2>2, <3>1, <3>2, <3>5, <3>7
    <2> QED
      BY <2>1, <2>2
  <1>3. LeadsTo(TRUE, c, OnOther, script, d, M) /\ script # <<>>
    <2>1. Oscillator(range_val, erefs) # <<>>
      BY PiecesHave
    <2>2. /\ LeadsTo(TRUE, c, OnOther, Oscillator(range_val, erefs), d1, OnOther)
          /\ LeadsTo(TRUE, d1, OnOther, rest, d, M)
      BY <1>2
    <2> QED
      BY ONLY <2>1, <2>2, TwoLead
  <1>4. At(d, FEE) /\ Ranged(d)
    BY <1>2, ModeOf DEF Ranged, FeeFields
  <1>5. FllInRange(d) /\ Agree(d, name, out)
    <2> DEFINE ref == FllRef(range_val, frdiv_val)
    <2>1. ref \in Int
      <3>1. FllRef(range_val, frdiv_val) \in Nat
        BY ONLY TypeInv, RangesTyped, FrdivBounded, FllRefTyped
      <3> QED
        BY ONLY <3>1
    <2>2. ref = FllRef(d["RANGE0"], d["FRDIV"])
      BY <1>2 DEF FeeFields
    <2> HIDE DEF ref
    <2>3. /\ fll_freq(ref) = ref * Multiplier
          /\ ref * Multiplier >= 20000000 * (DRS + 1)
          /\ ref * Multiplier <= 25000000 * (DRS + 1)
      BY SMT, <2>1, FllFreqValue DEF ref
    <2>4. Agree(d, name, FllRef(d["RANGE0"], d["FRDIV"]) * Multiplier)
      BY <1>2, <1>4, ExternalFllAgrees DEF FeeFields
    <2>5. FllInRange(d)
      BY SMT, <2>2, <2>3 DEF FllInRange
    <2>6. out = ref * Multiplier
      BY SMT, <2>3 DEF ref
    <2> HIDE DEF out
    <2>7. Agree(d, name, out)
      BY ONLY <2>2, <2>4, <2>6
    <2> QED
      BY <2>5, <2>7
  <1> HIDE DEF script, out
  <1>6. Plan(TRUE, script, name, FEE, out)
    BY <1>2, <1>3, <1>4, <1>5, OtherModes, Plans
  <1> QED
    BY <1>6 DEF script, out

\* And with one, which is found when C2 has been written.
LEMMA FeeErrorPlans ==
  ASSUME TypeInv, NEW c, Known(c, OnOther), Good(TRUE, c, OnOther),
         NEW from \in {FEI, FBI}, At(c, from), NEW erefs \in {0, 1}, NEW name,
         FllError(fll_freq(FllRef(range_val, frdiv_val))) # 0
  PROVE  Plan(TRUE, Oscillator(range_val, erefs) \o <<>>, name, FEE,
              fll_freq(FllRef(range_val, frdiv_val)))
PROOF
  <1> DEFINE out == fll_freq(FllRef(range_val, frdiv_val))
             osc == Oscillator(range_val, erefs)
  <1>1. ~Frequency(out)
    <2> DEFINE ref == FllRef(range_val, frdiv_val)
    <2>1. ref \in Int
      BY RangesTyped, FrdivBounded, FllRefTyped
    <2> HIDE DEF ref
    <2>2. fll_freq(ref) \in Nat /\ fll_freq(ref) < 60
      BY <2>1, FllFreqValue DEF ref
    <2> QED
      BY <2>2 DEF Frequency, ref
  <1> HIDE DEF out
  <1>2. range_val \in Int
    BY RangesTyped
  <1>3. PICK d : /\ LeadsTo(TRUE, c, OnOther, osc, d, OnOther)
                 /\ Oscillates(d, range_val, erefs) /\ Same(c, d, C2Fields)
    BY <1>2, QuietOther, erefs \in Int, OscillatorLeads
  <1>4. d["IREFS"] = 1 /\ At(d, from)
    <2>1. c["IREFS"] = 1
      BY AtFields
    <2> QED
      BY <1>3, <2>1 DEF Same, C2Fields, Fields, At
  <1>5. Ranged(d)
    BY <1>4 DEF Ranged
  <1>6. osc \o <<>> = osc /\ osc # <<>>
    <2>1. osc # <<>>
      BY PiecesHave
    <2>2. osc \in Seq(Op)
      BY <1>3 DEF LeadsTo
    <2> HIDE DEF osc
    <2> QED
      BY <2>1, <2>2
  <1>7. Base \subseteq OnOther /\ from \in Modes /\ from \notin {PEE, FEE}
    BY LockOther, ModesTyped DEF PEE, FEE, FEI, FBI
  <1> HIDE DEF osc
  <1>8. Plan(TRUE, osc, name, FEE, out)
    BY <1>1, <1>3, <1>4, <1>5, <1>6, <1>7, OtherModes, PlansError
  <1> QED
    BY <1>6, <1>8 DEF osc, out

LEMMA fei_feePlanned == TypeInv /\ PlanInv /\ fei_fee => PlanInv'
PROOF
  <1> SUFFICES ASSUME TypeInv, PlanInv, fei_fee PROVE PlanInv'
    OBVIOUS
  <1> DEFINE mcg_out == fll_freq(FllRef(range_val, frdiv_val))
  <1>1. PICK erefs \in {0, 1} :
          Call("fei_fee", FEI, OscError(erefs),
                 Oscillator(range_val, erefs) \o (IF FllError(mcg_out) # 0 THEN <<>>
                   ELSE ExternalReference(0, erefs) \o ClockMonitor(1)),
                 mcg_out, FEE)
    BY DEF fei_fee
  <1> DEFINE rest == ExternalReference(0, erefs) \o ClockMonitor(1)
             script == Oscillator(range_val, erefs) \o (IF FllError(mcg_out) # 0 THEN <<>> ELSE rest)
  <1>2. todo = <<>>
    BY <1>1 DEF Call
  <1>3. ASSUME In(FEI), OscError(erefs) = 0, late = 0
        PROVE  Plan(TRUE, script, "fei_fee", FEE, mcg_out)
    <2>1. PICK c \in Config : At(c, FEI) /\ Known(c, OnOther) /\ Good(TRUE, c, OnOther)
      BY <1>2, <1>3, OtherModes, StartOther
    <2>2. c["CLKS"] = 0 /\ c["LP"] = 0 /\ c["PLLS"] = 0
      BY <2>1, AtFields
    <2>3. CASE FllError(mcg_out) = 0
      <3>1. Plan(TRUE, Oscillator(range_val, erefs) \o rest, "fei_fee", FEE, mcg_out)
        BY <1>3, <2>1, <2>2, <2>3, NotTooFast, FeePlans
      <3>2. script = Oscillator(range_val, erefs) \o rest
        BY <2>3
      <3> HIDE DEF script, rest, mcg_out
      <3> QED
        BY <3>1, <3>2
    <2>4. CASE FllError(mcg_out) # 0
      <3>1. Plan(TRUE, Oscillator(range_val, erefs) \o <<>>, "fei_fee", FEE, mcg_out)
        BY <2>1, <2>4, FEI \in {FEI, FBI}, FeeErrorPlans
      <3>2. script = Oscillator(range_val, erefs) \o <<>>
        BY <2>4
      <3> HIDE DEF script, mcg_out
      <3> QED
        BY <3>1, <3>2
    <2> QED
      BY <2>3, <2>4
  <1>4. OscError(erefs) \in 0 .. 255
    BY OscTyped
  <1>5. Call("fei_fee", FEI, OscError(erefs), script, mcg_out, FEE)
    BY <1>1
  <1> HIDE DEF script, mcg_out
  <1> QED
    BY <1>3, <1>4, <1>5, OtherModes, CallPlanned

LEMMA fbi_feePlanned == TypeInv /\ PlanInv /\ fbi_fee => PlanInv'
PROOF
  <1> SUFFICES ASSUME TypeInv, PlanInv, fbi_fee PROVE PlanInv'
    OBVIOUS
  <1> DEFINE mcg_out == fll_freq(FllRef(range_val, frdiv_val))
  <1>1. PICK erefs \in {0, 1} :
          Call("fbi_fee", FBI, OscError(erefs),
                 Oscillator(range_val, erefs) \o (IF FllError(mcg_out) # 0 THEN <<>>
                   ELSE ExternalReference(0, erefs) \o ToClock(0) \o ClockMonitor(1)),
                 mcg_out, FEE)
    BY DEF fbi_fee
  <1> DEFINE rest == ExternalReference(0, erefs) \o ToClock(0) \o ClockMonitor(1)
             script == Oscillator(range_val, erefs) \o (IF FllError(mcg_out) # 0 THEN <<>> ELSE rest)
  <1>2. todo = <<>>
    BY <1>1 DEF Call
  <1>3. ASSUME In(FBI), OscError(erefs) = 0, late = 0
        PROVE  Plan(TRUE, script, "fbi_fee", FEE, mcg_out)
    <2>1. PICK c \in Config : At(c, FBI) /\ Known(c, OnOther) /\ Good(TRUE, c, OnOther)
      BY <1>2, <1>3, OtherModes, StartOther
    <2>2. c["CLKS"] = 1 /\ c["LP"] = 0 /\ c["PLLS"] = 0
      BY <2>1, AtFields
    <2>3. CASE FllError(mcg_out) = 0
      <3>1. Plan(TRUE, Oscillator(range_val, erefs) \o rest, "fbi_fee", FEE, mcg_out)
        BY <1>3, <2>1, <2>2, <2>3, NotTooFast, FeePlans
      <3>2. script = Oscillator(range_val, erefs) \o rest
        BY <2>3
      <3> HIDE DEF script, rest, mcg_out
      <3> QED
        BY <3>1, <3>2
    <2>4. CASE FllError(mcg_out) # 0
      <3>1. Plan(TRUE, Oscillator(range_val, erefs) \o <<>>, "fbi_fee", FEE, mcg_out)
        BY <2>1, <2>4, FBI \in {FEI, FBI}, FeeErrorPlans
      <3>2. script = Oscillator(range_val, erefs) \o <<>>
        BY <2>4
      <3> HIDE DEF script, mcg_out
      <3> QED
        BY <3>1, <3>2
    <2> QED
      BY <2>3, <2>4
  <1>4. OscError(erefs) \in 0 .. 255
    BY OscTyped
  <1>5. Call("fbi_fee", FBI, OscError(erefs), script, mcg_out, FEE)
    BY <1>1
  <1> HIDE DEF script, mcg_out
  <1> QED
    BY <1>3, <1>4, <1>5, OtherModes, CallPlanned

LEMMA fbe_feePlanned == TypeInv /\ PlanInv /\ fbe_fee => PlanInv'
PROOF
  <1> SUFFICES ASSUME TypeInv, PlanInv, fbe_fee PROVE PlanInv'
    OBVIOUS
  <1> DEFINE ref == IF C["RANGE0"] > 0 THEN FllRef(C["RANGE0"], C["FRDIV"])
                                       ELSE FllRef(0, C["RANGE0"])
             out == fll_freq(Short(ref))
             script == Write([CLKS |-> 0]) \o ToClock(0)
  <1>1. Call("fbe_fee", FBE, FllError(out), script, out, FEE)
    BY DEF fbe_fee
  <1>2. todo = <<>>
    BY <1>1 DEF Call
  <1>3. ASSUME In(FBE), FllError(out) = 0, late = 0
        PROVE  Plan(TRUE, script, "fbe_fee", FEE, out)
    <2>1. PICK c \in Config : At(c, FBE) /\ Ranged(c) /\ Known(c, OnOther) /\ Good(TRUE, c, OnOther)
      BY <1>2, <1>3, OtherModes, StartOther
    <2>2. C = c /\ c["CLKS"] = 2 /\ c["IREFS"] = 0 /\ c["LP"] = 0 /\ c["PLLS"] = 0
      BY <2>1, AtFields DEF Known
    <2> DEFINE L == {"IREFST", "PLLST", NotPll}
               M == L \cup {"CLKST"}
    <2>3. Switchable(TRUE, c, OnOther, 0, L)
      BY <2>2 DEF Switchable, OnOther, NotPll
    <2>4. "PLLST" \in L /\ Base \subseteq M
      BY DEF Base
    <2> HIDE DEF L
    <2>5. PICK d : /\ LeadsTo(TRUE, c, OnOther, Write([CLKS |-> 0]), d, L) /\ Good(TRUE, d, L)
                   /\ d["CLKS"] = 0 /\ Same(c, d, {"CLKS"})
      BY <2>3, 0 \in 0 .. 2, SwitchLeads
    <2>6. /\ d["IREFS"] = 0 /\ d["LP"] = 0 /\ d["PLLS"] = 0
          /\ d["FRDIV"] = c["FRDIV"] /\ d["RANGE0"] = c["RANGE0"]
      BY <2>2, <2>5 DEF Same, Fields
    <2>7. LeadsTo(TRUE, d, L, ToClock(0), d, M)
      <3>1. 0 = Aim(d, "CLKST") /\ 0 \in 0 .. 3 /\ d["CLKS"] \in 0 .. 2
        BY <2>5, <2>6 DEF Aim
      <3> QED
        BY <2>4, <2>5, <3>1, ToClockLeads
    <2> HIDE DEF M
    <2>8. LeadsTo(TRUE, c, OnOther, script, d, M) /\ script # <<>>
      <3>1. Write([CLKS |-> 0]) # <<>>
        BY PiecesHave
      <3>2. /\ LeadsTo(TRUE, c, OnOther, Write([CLKS |-> 0]), d, L)
            /\ LeadsTo(TRUE, d, L, ToClock(0), d, M)
        BY <2>5, <2>7
      <3> QED
        BY ONLY <3>1, <3>2, TwoLead
    <2>9. At(d, FEE) /\ Ranged(d)
      BY <2>1, <2>2, <2>5, <2>6, ModeOf DEF Ranged
    <2>10. FllInRange(d) /\ Agree(d, "fbe_fee", out)
      <3> DEFINE x == FllRef(d["RANGE0"], d["FRDIV"])
      <3>1. ref = x /\ x \in Nat /\ x < 65536
        BY <2>1, <2>2, <2>6, ReferenceFits
      <3>2. Agree(d, "fbe_fee", x * Multiplier)
        BY <2>5, <2>6, <2>9, ExternalFllAgrees
      <3> HIDE DEF ref, x
      <3>3. /\ fll_freq(Short(x)) = x * Multiplier
            /\ x * Multiplier >= 20000000 * (DRS + 1)
            /\ x * Multiplier <= 25000000 * (DRS + 1)
        BY SMT, <1>3, <3>1, ShortAccepted
      <3>4. FllInRange(d)
        BY SMT, <3>3 DEF FllInRange, x
      <3>5. out = x * Multiplier
        BY SMT, <3>1, <3>3
      <3> HIDE DEF out
      <3>6. Agree(d, "fbe_fee", out)
        BY ONLY <3>2, <3>5
      <3> QED
        BY <3>4, <3>6
    <2> HIDE DEF script, out
    <2> QED
      BY <2>1, <2>4, <2>8, <2>9, <2>10, OtherModes, Plans DEF M
  <1>4. FllError(out) \in 0 .. 255
    <2>1. Short(ref) \in Int
      <3>1. C["RANGE0"] \in 0 .. 2 /\ C["FRDIV"] \in 0 .. 5
        BY DEF TypeInv, Config, Fields, Highest
      <3>2. FllRef(C["RANGE0"], C["FRDIV"]) \in Int /\ (~(C["RANGE0"] > 0) => FllRef(0, C["RANGE0"]) \in Int)
        BY <3>1, FllRefTyped
      <3>3. ref \in Int
        BY <3>1, <3>2
      <3> HIDE DEF ref
      <3> QED
        BY SMT, <3>3 DEF Short
    <2> DEFINE short == Short(ref)
    <2> HIDE DEF short
    <2>2. FllError(fll_freq(short)) \in 0 .. 59
      BY <2>1, FllFreqValue DEF short
    <2> QED
      BY SMT, <2>2 DEF short
  <1> HIDE DEF script, out
  <1> QED
    BY <1>1, <1>3, <1>4, OtherModes, CallPlanned

\* pll_init, from what is known of a board in FEI or from nothing at all.
Ready(d, pll) ==
    /\ d["CLKS"] = 2 /\ d["IREFS"] = 0 /\ d["FRDIV"] = frdiv_val /\ d["RANGE0"] = pll_range
    /\ d["LP"] = 0 /\ d["PLLS"] = 1 /\ d["PRDIV0"] = pll[1] - 1 /\ d["VDIV0"] = pll[2] - 24

External(d, range) ==
    d["CLKS"] = 2 /\ d["IREFS"] = 0 /\ d["FRDIV"] = frdiv_val /\ d["RANGE0"] = range

LEMMA ReadyLeads ==
  ASSUME NEW strict \in BOOLEAN, NEW c, NEW L, {"IREFST", "CLKST"} \subseteq L, OffPll(c, L),
         NEW pll \in Int \X Int, c["CLKS"] = 2, c["IREFS"] = 0,
         c["FRDIV"] = frdiv_val, c["RANGE0"] = pll_range,
         c["LP"] = 0 \/ (c["LP"] = 1 /\ ~strict)
  PROVE  \E d, M, e : /\ LeadsTo(strict, c, L, Pll(pll), d, M)
                      /\ LeadsTo(strict, d, M, AwaitPll, e, Locked)
                      /\ Ready(e, pll)
PROOF
  <1>1. CASE c["LP"] = 0
    <2>1. PICK d : /\ LeadsTo(strict, c, L, Pll(pll), d, Bypassed)
                   /\ LeadsTo(strict, d, Bypassed, AwaitPll, d, Locked)
                   /\ Tuned(pll, c, d)
      BY <1>1, LockLeads
    <2>2. Ready(d, pll)
      BY <1>1, <2>1 DEF Tuned, Same, PllFields, Fields, Ready
    <2> QED
      BY <2>1, <2>2
  <1>2. CASE c["LP"] = 1 /\ ~strict
    <2>1. PICK d, e, M : /\ LeadsTo(FALSE, c, L, Pll(pll), d, M)
                         /\ LeadsTo(FALSE, d, M, AwaitPll, e, Locked)
                         /\ Tuned(pll, With(c, [LP |-> 0]), e)
      BY <1>2, NoLockLeads
    <2>2. Ready(e, pll)
      <3> DEFINE b == With(c, [LP |-> 0])
      <3>1. b["LP"] = 0 /\ \A f \in Fields \ {"LP"} : b[f] = c[f]
        BY DEF With, Fields
      <3> HIDE DEF b
      <3>2. Tuned(pll, b, e)
        BY <2>1 DEF b
      <3> QED
        BY <3>1, <3>2 DEF Tuned, Same, PllFields, Fields, Ready
    <2>3. strict = FALSE
      BY <1>2
    <2> QED
      BY <2>1, <2>2, <2>3
  <1> QED
    BY <1>1, <1>2

LEMMA BypassAny ==
  ASSUME NEW strict \in BOOLEAN, NEW c, NEW K, Good(strict, c, K),
         (K = OnOther /\ c["PLLS"] = 0) \/ (K = {} /\ ~strict),
         NEW range \in Int, NEW erefs \in {0, 1}, NEW s,
         s = Oscillator(range, erefs) \o ExternalReference(2, erefs)
                     \o ToClock(2) \o ClockMonitor(1)
  PROVE  \E d, L : /\ LeadsTo(strict, c, K, s, d, L) /\ s # <<>>
                   /\ {"IREFST", "CLKST"} \subseteq L /\ OffPll(d, L)
                   /\ External(d, range) /\ Same(c, d, OscFields)
PROOF
  <1> DEFINE t == Oscillator(range, erefs) \o ExternalReference(2, erefs)
                     \o ToClock(2) \o ClockMonitor(1)
  <1>1. /\ t # <<>>
        /\ \E d, L : /\ LeadsTo(strict, c, K, t, d, L) /\ Good(strict, d, L)
                     /\ {"IREFST", "CLKST"} \subseteq L /\ OffPll(d, L)
                     /\ K = OnOther => "PLLST" \in L /\ OnOther \subseteq L
                     /\ d["CLKS"] = 2 /\ d["IREFS"] = 0
                     /\ d["FRDIV"] = frdiv_val /\ d["RANGE0"] = range
                     /\ Same(c, d, OscFields)
    BY ONLY Good(strict, c, K), (K = OnOther /\ c["PLLS"] = 0) \/ (K = {} /\ ~strict),
            range \in Int, erefs \in {0, 1}, BypassLeads
  <1>2. s = t
    OBVIOUS
  <1> HIDE DEF t
  <1> QED
    BY ONLY <1>1, <1>2 DEF External

LEMMA InitPlans ==
  ASSUME TypeInv, NEW strict \in BOOLEAN, NEW c \in Config, NEW K, Known(c, K), Good(strict, c, K),
         \/ K = OnOther /\ c["PLLS"] = 0 /\ c["LP"] = 0
         \/ K = {} /\ ~strict,
         NEW erefs \in {0, 1}, NEW pll \in Int \X Int, Allowed
  PROVE  Plan(strict, Oscillator(pll_range, erefs) \o ExternalReference(2, erefs)
                        \o ToClock(2) \o ClockMonitor(1) \o Pll(pll) \o AwaitPll \o SelectPll,
              "pll_init", PEE, PllFreq(pll[1], pll[2]))
PROOF
  <1> DEFINE s == Oscillator(pll_range, erefs) \o ExternalReference(2, erefs)
                     \o ToClock(2) \o ClockMonitor(1)
             script == s \o Pll(pll) \o AwaitPll \o SelectPll
             out == PllFreq(pll[1], pll[2])
  <1>1. PICK d, L : /\ LeadsTo(strict, c, K, s, d, L) /\ s # <<>>
                    /\ {"IREFST", "CLKST"} \subseteq L /\ OffPll(d, L)
                    /\ External(d, pll_range) /\ Same(c, d, OscFields)
    <2>1. (K = OnOther /\ c["PLLS"] = 0) \/ (K = {} /\ ~strict)
      OBVIOUS
    <2>2. pll_range \in Int
      BY RangesTyped
    <2>3. s = Oscillator(pll_range, erefs) \o ExternalReference(2, erefs)
                \o ToClock(2) \o ClockMonitor(1)
      OBVIOUS
    <2> HIDE DEF s
    <2> QED
      BY ONLY Good(strict, c, K), strict \in BOOLEAN, <2>1, <2>2, <2>3, erefs \in {0, 1}, BypassAny
  <1> HIDE DEF s
  <1>2. d["LP"] = 0 \/ (d["LP"] = 1 /\ ~strict)
    <2>1. c["LP"] \in {0, 1} /\ d["LP"] = c["LP"]
      BY <1>1, ConfigFields DEF Same, OscFields, Fields
    <2> QED
      BY <2>1
  <1>3. PICK d1, M, e : /\ LeadsTo(strict, d, L, Pll(pll), d1, M)
                        /\ LeadsTo(strict, d1, M, AwaitPll, e, Locked)
                        /\ Ready(e, pll)
    BY <1>1, <1>2, ReadyLeads DEF External
  <1>4. PICK f : /\ LeadsTo(strict, e, Locked, SelectPll, f, OnPll)
                 /\ f["CLKS"] = 0 /\ Same(e, f, {"CLKS"})
    BY <1>3, LockOther, SelectPllLeads DEF Ready
  <1>5. /\ f["IREFS"] = 0 /\ f["FRDIV"] = frdiv_val /\ f["RANGE0"] = pll_range
        /\ f["LP"] = 0 /\ f["PLLS"] = 1 /\ f["PRDIV0"] = pll[1] - 1 /\ f["VDIV0"] = pll[2] - 24
    BY <1>3, <1>4 DEF Ready, Same, Fields
  <1>6. LeadsTo(strict, c, K, script, f, OnPll) /\ script # <<>>
    <2>1. /\ LeadsTo(strict, c, K, s, d, L)
          /\ LeadsTo(strict, d, L, Pll(pll), d1, M)
          /\ LeadsTo(strict, d1, M, AwaitPll, e, Locked)
          /\ LeadsTo(strict, e, Locked, SelectPll, f, OnPll)
      BY <1>1, <1>3, <1>4
    <2>2. s # <<>>
      BY <1>1
    <2> QED
      BY ONLY <2>1, <2>2, FourLead
  <1>7. At(f, PEE) /\ Ranged(f)
    BY <1>4, <1>5, ModeOf DEF Ranged
  <1>8. Agree(f, "pll_init", out)
    <2>1. pll[1] \in Int /\ pll[2] \in Int
      OBVIOUS
    <2> QED
      BY <1>4, <1>5, <2>1, PllAgrees
  <1> HIDE DEF script, out
  <1>9. Plan(strict, script, "pll_init", PEE, out)
    BY <1>6, <1>7, <1>8, LockOther, OtherModes, Plans
  <1> QED
    BY <1>9 DEF script, out, s

LEMMA pll_initPlanned == TypeInv /\ PlanInv /\ pll_init => PlanInv'
PROOF
  <1> SUFFICES ASSUME TypeInv, PlanInv, pll_init PROVE PlanInv'
    OBVIOUS
  <1>1. PICK erefs \in {0, 1}, pll \in PllSettings : PllInit(erefs, pll)
    BY DEF pll_init
  <1> DEFINE error == IF OscErrorForPll(erefs) # 0 THEN OscErrorForPll(erefs) ELSE PllError(pll)
             script == Oscillator(pll_range, erefs) \o ExternalReference(2, erefs)
                        \o ToClock(2) \o ClockMonitor(1) \o Pll(pll) \o AwaitPll \o SelectPll
             out == PllFreq(pll[1], pll[2])
  <1>2. Call("pll_init", FEI, error, script, out, PEE)
    BY <1>1 DEF PllInit
  <1>3. todo = <<>>
    BY <1>2 DEF Call
  <1>4. pll \in Int \X Int /\ error \in 0 .. 255 /\ (error = 0 => Allowed)
    BY PllPairs, OscTyped, NotTooFast
  <1>5. ASSUME In(FEI), error = 0, late = 0 PROVE Plan(TRUE, script, "pll_init", PEE, out)
    <2>1. PICK c \in Config : At(c, FEI) /\ Known(c, OnOther) /\ Good(TRUE, c, OnOther)
      BY <1>3, <1>5, OtherModes, StartOther
    <2>2. c["LP"] = 0 /\ c["PLLS"] = 0
      BY <2>1, AtFields
    <2> QED
      BY <1>4, <1>5, <2>1, <2>2, InitPlans
  <1>6. ASSUME error = 0 PROVE Plan(FALSE, script, "pll_init", PEE, out)
    <2>1. PICK c : c = C
      OBVIOUS
    <2>2. c \in Config
      BY <2>1 DEF TypeInv
    <2>3. PICK K : K = {}
      OBVIOUS
    <2>4. Known(c, K) /\ Good(FALSE, c, K)
      BY <2>1, <2>3 DEF Known, Good, Sound
    <2>5. FALSE \in BOOLEAN /\ (K = {} /\ ~FALSE)
      BY <2>3
    <2> QED
      BY ONLY TypeInv, <1>4, <1>6, <2>2, <2>4, <2>5, erefs \in {0, 1}, InitPlans
  <1> HIDE DEF error, script, out
  <1> QED
    BY <1>2, <1>4, <1>5, <1>6, OtherModes, CallPlanned

-----------------------------------------------------------------------------
\* The invariant.

LEMMA PlanNext == TypeInv /\ PlanInv /\ [Next]_vars => PlanInv'
PROOF
  <1> SUFFICES ASSUME TypeInv, PlanInv, [Next]_vars PROVE PlanInv'
    OBVIOUS
  <1>1. CASE FromFLL
    BY <1>1, fei_fbePlanned, fei_fbiPlanned, fei_feePlanned, fee_fbePlanned, fee_fbiPlanned,
       fee_feiPlanned, pll_initPlanned DEF FromFLL
  <1>2. CASE FromInternal
    BY <1>2, fbi_fbePlanned, fbi_blpiPlanned, fbi_feePlanned, fbi_feiPlanned, blpi_fbiPlanned
       DEF FromInternal
  <1>3. CASE FromExternal
    BY <1>3, fbe_pbePlanned, fbe_blpePlanned, fbe_feiPlanned, fbe_feePlanned, fbe_fbiPlanned,
       blpe_pbePlanned, blpe_fbePlanned DEF FromExternal
  <1>4. CASE FromPLL
    BY <1>4, pee_pbePlanned, pbe_peePlanned, pbe_fbePlanned, pbe_blpePlanned, new_pll_freqPlanned
       DEF FromPLL
  <1>5. CASE Step \/ Found
    <2>1. UNCHANGED <<fn, late>> /\ todo # <<>>
      BY <1>5 DEF Step, Found, Advance
    <2>2. ASSUME NEW strict, Planned(strict) PROVE Planned(strict)'
      BY <1>5, <2>2, RunPlanned
    <2>3. Planned(TRUE) => Planned(TRUE)'
      BY <2>2
    <2>4. Planned(FALSE) => Planned(FALSE)'
      BY <2>2
    <2> QED
      BY <2>1, <2>3, <2>4, Zenon DEF PlanInv
  <1>6. CASE TimeOut
    BY <1>6, TimeOutPlanned
  <1>7. ASSUME NEW bit \in Bits, Follow(bit) PROVE PlanInv'
    <2>1. UNCHANGED <<fn, late, todo, ret>>
      BY <1>7 DEF Follow
    <2>2. ASSUME NEW strict, Planned(strict) PROVE Planned(strict)'
      BY <1>7, <2>2, FollowPlanned
    <2>3. Planned(TRUE) => Planned(TRUE)'
      BY <2>2
    <2>4. Planned(FALSE) => Planned(FALSE)'
      BY <2>2
    <2>5. Frequency(ret)' = Frequency(ret)
      BY <2>1 DEF Frequency
    <2> QED
      BY <2>1, <2>3, <2>4, <2>5, Zenon DEF PlanInv
  <1>8. CASE UNCHANGED vars
    <2>1. UNCHANGED <<crystal, C, S, fn, todo, goal, result, ret, late>>
      BY <1>8 DEF vars
    <2>2. ASSUME NEW strict, Planned(strict) PROVE Planned(strict)'
      <3>1. PICK c, K, d, L :
              /\ Known(c, K) /\ Sound(c, K) /\ (strict => Safe(c, K))
              /\ LeadsTo(strict, c, K, todo, d, L)
              /\ Final(d, L, fn, goal, Outcome)
        BY <2>2 DEF Planned
      <3>2. Known(c, K)'
        BY <2>1, <3>1 DEF Known
      <3>3. PICK r : r = Outcome
        OBVIOUS
      <3>4. r = Outcome'
        BY <2>1, <3>3 DEF Outcome
      <3>5. PICK f, g, s : f = fn /\ g = goal /\ s = todo
        OBVIOUS
      <3>6. Final(d, L, f, g, r)'
        BY <2>1, <3>1, <3>3, <3>5, FinalSame
      <3>7. LeadsTo(strict, c, K, s, d, L) /\ f = fn' /\ g = goal' /\ s = todo'
        BY <2>1, <3>1, <3>5
      <3> QED
        BY <3>1, <3>2, <3>4, <3>6, <3>7 DEF Planned
    <2>3. Planned(TRUE) => Planned(TRUE)'
      BY <2>2
    <2>4. Planned(FALSE) => Planned(FALSE)'
      BY <2>2
    <2>5. Frequency(ret)' = Frequency(ret)
      BY <2>1 DEF Frequency
    <2> QED
      BY <2>1, <2>3, <2>4, <2>5, Zenon DEF PlanInv
  <1> QED
    BY <1>1, <1>2, <1>3, <1>4, <1>5, <1>6, <1>7, <1>8 DEF Next, Driver

-----------------------------------------------------------------------------
\* The results.

\* As long as no wait has timed out, a function that returns a frequency has led to
\* its mode, for every board and every sequence of calls (mcg.c).
THEOREM RightModeCorrect == Spec => []RightMode
  BY TypeInit, TypeNext, PlanInit, PlanNext, RightModeShows, PTL DEF Spec

\* And the system runs from no PLL that has not locked, at any moment of a call
\* (mcg.c:217-226).
THEOREM RunsLockedCorrect == Spec => []RunsLocked
  BY TypeInit, TypeNext, PlanInit, PlanNext, LockedShows, PTL DEF Spec

\* And the FLL runs from the external clock only within its range, also when fbe_fee
\* has computed it in a short and from the wrong field (mcg.c:1786-1849).
THEOREM FllInSpecCorrect == Spec => []FllInSpec
  BY TypeInit, TypeNext, PlanInit, PlanNext, FllShows, PTL DEF Spec

\* If callers name the internal references as CMSIS does, the frequency the driver
\* returns is the one SystemCoreClockUpdate makes of the control registers.
THEOREM CoreClockRightCorrect ==
  ASSUME Named
  PROVE  Spec => []CoreClockRight
PROOF
  <1>1. TypeInv /\ PlanInv => CoreClockRight
    BY ClockShows
  <1> QED
    BY <1>1, TypeInit, TypeNext, PlanInit, PlanNext, PTL DEF Spec

-----------------------------------------------------------------------------
\* What pll_init returns to main(): the frequency of a PLL it has accepted, or an
\* error code.
Accepted(r) == \E pll \in PllSettings : PllError(pll) = 0 /\ r = PllFreq(pll[1], pll[2])

ReturnInv ==
    fn = "pll_init" =>
        goal = PEE /\ (Accepted(Outcome) \/ (todo = <<>> /\ Outcome \in 1 .. 255))

\* Every frequency of a PLL within its range is a multiple of 256.
Tellable ==
    \A hz \in Crystals, pll \in PllSettings :
        LET ref == hz \div pll[1]
        IN  (/\ pll[1] \in 1 .. 25 /\ pll[2] \in 24 .. 50
             /\ 2000000 <= ref /\ ref <= 4000000
             /\ 48000000 <= ref * pll[2] /\ ref * pll[2] <= 100000000)
                => (ref * pll[2]) % 256 = 0

LEMMA AcceptedSame ==
  ASSUME crystal' = crystal, NEW r, Accepted(r)
  PROVE  Accepted(r)'
  BY DEF Accepted, PllError, DividerError, PllFreq, Outside

LEMMA ReturnInit == Init => ReturnInv
  BY DEF Init, ReturnInv

\* Another function is called.
LEMMA OthersReturn ==
  ASSUME NEW name, NEW from, NEW error, NEW script, NEW out, NEW to,
         Call(name, from, error, script, out, to), name # "pll_init"
  PROVE  fn' # "pll_init"
  BY DEF Call

LEMMA ReturnSame ==
  ASSUME ReturnInv, UNCHANGED <<crystal, fn, goal>>, Outcome' = Outcome,
         todo = <<>> => todo' = <<>>
  PROVE  ReturnInv'
PROOF
  <1> SUFFICES ASSUME fn' = "pll_init"
               PROVE  goal' = PEE /\ (Accepted(Outcome)' \/ (todo' = <<>> /\ Outcome' \in 1 .. 255))
    BY DEF ReturnInv
  <1>1. goal = PEE /\ (Accepted(Outcome) \/ (todo = <<>> /\ Outcome \in 1 .. 255))
    BY DEF ReturnInv
  <1>2. PICK r : r = Outcome
    OBVIOUS
  <1>3. Accepted(r) => Accepted(r)'
    BY AcceptedSame
  <1>4. r = Outcome'
    BY <1>2
  <1>5. Accepted(Outcome) => Accepted(r)
    BY <1>2
  <1>6. Accepted(r)' => Accepted(Outcome)'
    BY <1>4
  <1> QED
    BY <1>1, <1>2, <1>3, <1>5, <1>6

LEMMA TimeOutReturn ==
  ASSUME TypeInv, PlanInv, ReturnInv, TimeOut
  PROVE  ReturnInv'
PROOF
  <1>1. /\ todo # <<>> /\ todo' = <<>> /\ UNCHANGED <<fn, goal>>
    BY DEF TimeOut
  <1> SUFFICES ASSUME fn = "pll_init" PROVE goal' = PEE /\ Outcome' \in 1 .. 255
    BY <1>1 DEF ReturnInv
  <1>2. PICK strict : Planned(strict)
    BY <1>1 DEF PlanInv
  <1>3. PICK c, K, d, L : LeadsTo(strict, c, K, todo, d, L)
    BY <1>2 DEF Planned
  <1>4. PICK e, M : Leap(strict, Head(todo), c, K, e, M)
    BY <1>1, <1>3, TailLeads
  <1>5. ret' \in 1 .. 255
    BY <1>4, TimeOutReturns
  <1> QED
    BY <1>1, <1>5 DEF ReturnInv, Outcome

LEMMA InitReturns ==
  ASSUME TypeInv, NEW erefs \in {0, 1}, NEW pll \in PllSettings, PllInit(erefs, pll)
  PROVE  ReturnInv'
PROOF
  <1> DEFINE error == IF OscErrorForPll(erefs) # 0 THEN OscErrorForPll(erefs) ELSE PllError(pll)
             script == Oscillator(pll_range, erefs) \o ExternalReference(2, erefs)
                        \o ToClock(2) \o ClockMonitor(1) \o Pll(pll) \o AwaitPll \o SelectPll
             out == PllFreq(pll[1], pll[2])
  <1>1. Call("pll_init", FEI, error, script, out, PEE)
    BY DEF PllInit
  <1>2. ASSUME error = 0 PROVE script # <<>>
    <2>1. PICK c : c = C
      OBVIOUS
    <2>2. c \in Config
      BY <2>1 DEF TypeInv
    <2>3. PICK K : K = {}
      OBVIOUS
    <2>4. Known(c, K) /\ Good(FALSE, c, K)
      BY <2>1, <2>3 DEF Known, Good, Sound
    <2>5. FALSE \in BOOLEAN /\ (K = {} /\ ~FALSE)
      BY <2>3
    <2>6. pll \in Int \X Int /\ Allowed
      BY <1>2, PllPairs, NotTooFast
    <2>7. Plan(FALSE, script, "pll_init", PEE, out)
      BY ONLY TypeInv, <2>6, <2>2, <2>4, <2>5, erefs \in {0, 1}, InitPlans
    <2> HIDE DEF script
    <2> QED
      BY <2>7 DEF Plan
  <1>3. error \in 0 .. 255
    BY PllPairs, OscTyped
  <1>4. error = 0 => Accepted(out)
    <2>1. error = 0 => PllError(pll) = 0
      OBVIOUS
    <2> SUFFICES ASSUME error = 0 PROVE Accepted(out)
      OBVIOUS
    <2>2. PllError(pll) = 0 /\ out = PllFreq(pll[1], pll[2])
      BY <2>1
    <2> HIDE DEF error, out
    <2>3. \E p \in PllSettings : PllError(p) = 0 /\ out = PllFreq(p[1], p[2])
      BY ONLY <2>2, pll \in PllSettings
    <2> QED
      BY <2>3 DEF Accepted
  <1>5. NotIn(FEI) = 1
    BY DEF NotIn, FEI, FEE, FBI, FBE, BLPI, BLPE, PBE, PEE
  <1> HIDE DEF error, script, out
  <1>6. goal' = PEE /\ crystal' = crystal
    BY <1>1 DEF Call
  <1>7. CASE ~In(FEI) \/ error # 0
    <2>1. todo' = <<>> /\ ret' = IF In(FEI) THEN error ELSE NotIn(FEI)
      BY <1>1, <1>7, Zenon DEF Call
    <2>2. ret' \in 1 .. 255
      BY <1>3, <1>5, <1>7, <2>1
    <2> QED
      BY <1>6, <2>1, <2>2 DEF ReturnInv, Outcome
  <1>8. CASE In(FEI) /\ error = 0
    <2>1. todo' = script /\ result' = out
      BY <1>1, <1>8 DEF Call
    <2>2. PICK r : r = out
      OBVIOUS
    <2>3. Accepted(r)
      BY <1>4, <1>8, <2>2
    <2>4. Accepted(r)'
      BY <1>6, <2>3, AcceptedSame
    <2>5. Outcome' = r
      BY <1>2, <1>8, <2>1, <2>2 DEF Outcome
    <2>6. Accepted(Outcome)'
      BY <2>4, <2>5
    <2> QED
      BY <1>6, <2>6 DEF ReturnInv
  <1> QED
    BY <1>7, <1>8

LEMMA ReturnNext == TypeInv /\ PlanInv /\ ReturnInv /\ [Next]_vars => ReturnInv'
PROOF
  <1> SUFFICES ASSUME TypeInv, PlanInv, ReturnInv, [Next]_vars PROVE ReturnInv'
    OBVIOUS
  <1>1. fn' # "pll_init" => ReturnInv'
    BY DEF ReturnInv
  <1>2. CASE pll_init
    BY <1>2, InitReturns DEF pll_init
  <1>3. CASE FromFLL /\ ~pll_init
    BY <1>1, <1>3, OthersReturn
       DEF FromFLL, fei_fbe, fei_fbi, fei_fee, fee_fbe, fee_fbi, fee_fei
  <1>4. CASE FromInternal
    BY <1>1, <1>4, OthersReturn
       DEF FromInternal, fbi_fbe, fbi_blpi, fbi_fee, fbi_fei, blpi_fbi
  <1>5. CASE FromExternal
    BY <1>1, <1>5, OthersReturn
       DEF FromExternal, fbe_pbe, fbe_blpe, fbe_fei, fbe_fee, fbe_fbi, blpe_pbe, blpe_fbe
  <1>6. CASE FromPLL
    BY <1>1, <1>6, OthersReturn
       DEF FromPLL, pee_pbe, pbe_pee, pbe_fbe, pbe_blpe, new_pll_freq
  <1>7. CASE Step \/ Found
    <2>1. todo # <<>> /\ Advance
      BY <1>7 DEF Step, Found
    <2>2. UNCHANGED <<crystal, fn, goal>> /\ Outcome' = Outcome
      BY <2>1, OutcomeStays DEF Advance
    <2> QED
      BY <2>1, <2>2, ReturnSame
  <1>8. CASE TimeOut
    BY <1>8, TimeOutReturn
  <1>9. CASE \E bit \in Bits : Follow(bit)
    <2>1. UNCHANGED <<crystal, fn, goal, todo, result, ret>>
      BY <1>9 DEF Follow
    <2>2. Outcome' = Outcome
      BY <2>1 DEF Outcome
    <2> QED
      BY <2>1, <2>2, ReturnSame
  <1>10. CASE UNCHANGED vars
    <2>1. UNCHANGED <<crystal, fn, goal, todo, result, ret>>
      BY <1>10 DEF vars
    <2>2. Outcome' = Outcome
      BY <2>1 DEF Outcome
    <2> QED
      BY <2>1, <2>2, ReturnSame
  <1> QED
    BY <1>2, <1>3, <1>4, <1>5, <1>6, <1>7, <1>8, <1>9, <1>10 DEF Next, Driver

\* An accepted frequency passes for zero, and no error code does.
LEMMA AcceptedTells ==
  ASSUME TypeInv, Tellable, NEW r, Accepted(r)
  PROVE  r \in Nat /\ r > 255 /\ r % 256 = 0
PROOF
  <1>1. PICK pll \in PllSettings : PllError(pll) = 0 /\ r = PllFreq(pll[1], pll[2])
    BY DEF Accepted
  <1>2. PICK hz \in Crystals : hz = crystal
    BY DEF TypeInv
  <1> DEFINE ref == hz \div pll[1]
  <1>3. pll \in Int \X Int /\ hz \in Nat
    BY <1>2, PllTyped, CrystalTyped
  <1>4. DividerError(pll) = 0 /\ pll[1] \in 1 .. 25 /\ pll[2] \in 24 .. 50
    BY <1>1, <1>3, PllValue
  <1>5. ref \in Nat
    BY <1>3, <1>4
  <1>6. ~Outside(crystal \div pll[1], 2000000, 4000000)
    BY SMT, <1>4 DEF DividerError
  <1>7. ~Outside(PllFreq(pll[1], pll[2]), 48000000, 100000000)
    BY SMT, <1>1, <1>4 DEF PllError
  <1>8. PllFreq(pll[1], pll[2]) = ref * pll[2]
    BY <1>2, Zenon DEF PllFreq
  <1>9. ~Outside(ref, 2000000, 4000000) /\ ~Outside(ref * pll[2], 48000000, 100000000)
    BY ONLY SMT, <1>2, <1>6, <1>7, <1>8
  <1>10. Tellable =>
           ((/\ pll[1] \in 1 .. 25 /\ pll[2] \in 24 .. 50
             /\ 2000000 <= ref /\ ref <= 4000000
             /\ 48000000 <= ref * pll[2] /\ ref * pll[2] <= 100000000)
                => (ref * pll[2]) % 256 = 0)
    BY SMT DEF Tellable
  <1> HIDE DEF ref
  <1> DEFINE x == ref * pll[2]
  <1>11. x \in Nat
    BY <1>4, <1>5
  <1> HIDE DEF x
  <1>12. /\ 2000000 <= ref /\ ref <= 4000000 /\ 48000000 <= x /\ x <= 100000000
    BY SMT, <1>5, <1>9, <1>11 DEF Outside, x
  <1>13. x % 256 = 0
    BY SMT, <1>4, <1>10, <1>12 DEF x
  <1> QED
    BY SMT, <1>1, <1>8, <1>11, <1>12, <1>13 DEF x

LEMMA BootedShows == TypeInv /\ PlanInv /\ ReturnInv /\ Tellable => Booted
PROOF
  <1> SUFFICES ASSUME TypeInv, PlanInv, ReturnInv, Tellable, todo = <<>>, fn = "pll_init"
               PROVE  /\ MainAccepts <=> Frequency(ret)
                      /\ MainAccepts => what_mcg_mode = PEE /\ S["LOCK0"] = 1
    BY Zenon DEF Booted
  <1>1. goal = PEE /\ (Accepted(ret) \/ ret \in 1 .. 255)
    BY DEF ReturnInv, Outcome
  <1>2. CASE ret \in 1 .. 255
    <2>1. ~MainAccepts
      BY <1>2, SMT DEF MainAccepts
    <2>2. ~Frequency(ret)
      BY <1>2, SMT DEF Frequency
    <2> QED
      BY <2>1, <2>2
  <1>3. CASE Accepted(ret)
    <2>1. MainAccepts /\ Frequency(ret)
      <3>1. PICK r : r = ret
        OBVIOUS
      <3>2. r > 255 /\ r % 256 = 0
        BY <1>3, <3>1, AcceptedTells
      <3> QED
        BY <3>1, <3>2 DEF MainAccepts, Frequency
    <2>2. PICK strict : Planned(strict)
      BY <2>1 DEF PlanInv
    <2>3. PICK L : Known(C, L) /\ Sound(C, L) /\ Final(C, L, fn, goal, ret)
      BY <2>2, Rest
    <2>4. At(C, PEE) /\ Base \subseteq L /\ "LOCK0" \in L /\ C \in Config
      BY <1>1, <2>1, <2>3 DEF Final, TypeInv
    <2>5. what_mcg_mode = PEE
      BY <2>3, <2>4, OtherModes, WhatIsAt
    <2>6. S["LOCK0"] = 1
      <3>1. C["PLLS"] = 1 /\ C["LP"] = 0
        BY <2>4, AtFields
      <3> QED
        BY <2>3, <2>4, <3>1 DEF Known, Bits, Aim
    <2> QED
      BY <2>1, <2>5, <2>6
  <1> QED
    BY <1>1, <1>2, <1>3

\* If every frequency of a PLL within its range is a multiple of 256, main(), which
\* keeps what pll_init returns in a char, goes on exactly when that is a frequency,
\* and then the system runs from a PLL that has locked; whatever waits have timed out
\* before, in this call or in earlier ones (main.c:35, 53-59).
THEOREM BootedCorrect ==
  ASSUME Tellable
  PROVE  Spec => []Booted
PROOF
  <1>1. TypeInv /\ PlanInv /\ ReturnInv => Booted
    BY BootedShows
  <1> QED
    BY <1>1, TypeInit, TypeNext, PlanInit, PlanNext, ReturnInit, ReturnNext, PTL DEF Spec
=============================================================================
