--------------------------- MODULE TickPaceProofs ---------------------------
(***************************************************************************)
(* TickPace: the sleep of the ticker thread never wraps.                   *)
(***************************************************************************)
EXTENDS TickPace, TLAPS

\* Arithmetic of the phase and of the measurement.
LEMMA Remainder ==
    \A x \in Nat, y \in Nat \ {0} : x % y \in 0 .. y - 1
OBVIOUS

LEMMA Quotient ==
    \A x \in Int, y \in Nat \ {0} : x \div y \in Int
OBVIOUS

LEMMA Product == \A x, y \in Nat : x * y \in Nat
OBVIOUS

\* A number of ticks and a sleep leave phase and skew in their types.
LEMMA TicksType ==
    ASSUME TypeOK, sleep' \in Nat, NEW n \in Nat, Ticks(n)
    PROVE  phase' \in 0 .. Interval - 1 /\ skew' \in Int
<1>1. n * Period \in Nat /\ n * Period * Ms \in Nat
  BY PeriodAssumption, Product
<1>2. phase' = (phase + n * Period) % Interval /\ skew' = skew - n * Period * Ms + sleep' + overhead
  BY DEF Ticks
<1>3. phase \in Nat /\ skew \in Int /\ overhead \in Nat
  BY ClockAssumption, PeriodAssumption DEF TypeOK
<1>4. phase + n * Period \in Nat
  BY <1>1, <1>3
<1>5. phase' \in 0 .. Interval - 1
  BY <1>2, <1>4, Remainder, PeriodAssumption
<1>6. skew' \in Int
  BY <1>1, <1>2, <1>3
<1> QED
  BY <1>5, <1>6

\* The catch-up loop runs a whole number of times.
LEMMA CatchUpType ==
    \A diff \in Int : diff > 0 => CatchUp(diff) \in Nat
<1> SUFFICES ASSUME NEW diff \in Int, diff > 0 PROVE CatchUp(diff) \in Nat
  OBVIOUS
<1>1. Epoch + diff + Period - 1 \in Nat
  BY PeriodAssumption
<1>2. \A x \in Nat, y \in Nat \ {0} : x \div y \in Nat
  OBVIOUS
<1> QED
  BY <1>1, <1>2, PeriodAssumption DEF CatchUp

\* An adjustment leaves the sleep above zero.
LEMMA AdjustType ==
    ASSUME TypeOK, NEW diff \in Int, Adjust(diff)
    PROVE  sleep' \in Nat \ {0} /\ last' \in Int /\ phase' \in 0 .. Interval - 1 /\ skew' \in Int
<1> USE DEF TypeOK
<1>1. last' = diff
  BY DEF Adjust
<1>2. PICK n \in Nat : sleep' \in Nat \ {0} /\ Ticks(n)
  <2>1. CASE UNCHANGED sleep /\ Ticks(1)
    BY <2>1
  <2>2. CASE sleep > 1 /\ sleep' = sleep - 1 /\ Ticks(1)
    BY <2>2
  <2>3. CASE diff > 0 /\ UNCHANGED sleep /\ Ticks(1 + CatchUp(diff))
    <3>1. 1 + CatchUp(diff) \in Nat
      BY <2>3, CatchUpType
    <3> QED
      BY <2>3, <3>1
  <2>4. CASE sleep' = sleep + 1 /\ Ticks(1)
    BY <2>4
  <2> QED
    BY <2>1, <2>2, <2>3, <2>4 DEF Adjust
<1> QED
  BY <1>1, <1>2, TicksType

\* Every variable has its type; that is the sleep, an unsigned number lowered step by
\* step, never gets to zero or below (tickpoke.cpp:58-66).
THEOREM TypeCorrect == Spec => []TypeOK
<1>1. Init => TypeOK
  <2> SUFFICES ASSUME Init PROVE TypeOK
    OBVIOUS
  <2>1. Period * Ms \in Nat \ {0}
    BY PeriodAssumption
  <2> QED
    BY <2>1, PeriodAssumption, ClockAssumption DEF Init, TypeOK
<1>2. TypeOK /\ [Next]_vars => TypeOK'
  <2> SUFFICES ASSUME TypeOK, [Next]_vars PROVE TypeOK'
    OBVIOUS
  <2>1. CASE Iterate
    <3>1. UNCHANGED <<overhead, steps>>
      BY <2>1 DEF Iterate
    <3>2. CASE Adjust((skew - Period * Ms) \div Ms)
      <4>1. skew - Period * Ms \in Int
        BY PeriodAssumption, Product DEF TypeOK
      <4>2. (skew - Period * Ms) \div Ms \in Int
        BY <4>1, Quotient, PeriodAssumption
      <4> QED
        BY <3>1, <3>2, <4>2, AdjustType DEF TypeOK
    <3>3. CASE UNCHANGED <<sleep, last>> /\ Ticks(1)
      BY <3>1, <3>3, TicksType DEF TypeOK
    <3> QED
      BY <2>1, <3>2, <3>3 DEF Iterate
  <2>2. CASE Disturb
    <3>1. steps' \in 0 .. MaxSteps
      BY <2>2, ClockAssumption DEF Disturb, TypeOK
    <3>2. skew' \in Int /\ overhead' \in Overheads
      BY <2>2, ClockAssumption DEF Disturb, TypeOK
    <3> QED
      BY <2>2, <3>1, <3>2 DEF Disturb, TypeOK
  <2>3. CASE UNCHANGED vars
    BY <2>3 DEF vars, TypeOK
  <2> QED
    BY <2>1, <2>2, <2>3 DEF Next
<1> QED
  BY <1>1, <1>2, PTL DEF Spec
=============================================================================
