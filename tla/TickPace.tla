------------------------------ MODULE TickPace ------------------------------
(***************************************************************************)
(* The ticker thread of Core::TickPoke: it dispatches a tick and sleeps,   *)
(* and every 200 ms compares the time it has ticked with the system's      *)
(* clock to sleep a little less or more (tickpoke.cpp).                    *)
(*                                                                         *)
(* Times grow for ever; the state is their difference, the skew, in units  *)
(* of SLEEP_TIME_MIN_ADJUSTMENT_USECS like the sleep.  What an iteration   *)
(* takes besides its sleep, and the setting of the system's clock, are     *)
(* the environment.                                                        *)
(***************************************************************************)
EXTENDS Integers

CONSTANTS
    Ms,         \* adjustment units in a millisecond: 40
    Period,     \* targetsleeptimems: 50
    Interval,   \* ADJUSTMENT_INTERVAL_MS: 200
    Epoch,      \* the system's clock in ms when the ticker starts
    Overheads,  \* what an iteration may take besides its sleep
    Steps,      \* by how much the clock may be set, forward or back
    MaxSteps    \* bound: how often the clock is set or the overhead changes

ASSUME PeriodAssumption ==
    Ms \in Nat \ {0} /\ Period \in Nat \ {0} /\ Interval \in Nat \ {0} /\ Epoch \in Nat
ASSUME ClockAssumption ==
    Overheads \subseteq Nat /\ Steps \subseteq Nat /\ MaxSteps \in Nat

VARIABLES
    sleep,      \* actualsleeptimeusecs
    last,       \* lasttimediffms
    phase,      \* timepassedms % Interval
    skew,       \* the clock - basetimems - timepassedms
    overhead,   \* of an iteration now
    steps       \* how often it has changed, or the clock was set

vars == <<sleep, last, phase, skew, overhead, steps>>

\* The sleep is unsigned: 0 less one unit would be more than an hour.
TypeOK ==
    /\ sleep \in Nat \ {0}
    /\ last \in Int /\ phase \in 0 .. Interval - 1 /\ skew \in Int
    /\ overhead \in Overheads /\ steps \in 0 .. MaxSteps

Init ==
    /\ sleep = Period * Ms /\ last = 0 /\ phase = 0 /\ skew = 0
    /\ overhead \in Overheads /\ steps = 0

-----------------------------------------------------------------------------
(* tickIntern() and the usleep() behind it.                                *)

\* n ticks are dispatched, then the thread sleeps.
Ticks(n) ==
    /\ phase' = (phase + n * Period) % Interval
    /\ skew' = skew - n * Period * Ms + sleep' + overhead

\* The skew is already being corrected in the right direction.
Corrects(diff) == (last > diff /\ diff > 0) \/ (last < diff /\ diff < 0)

\* At minimum sleep: one tick after the other until the time ticked reaches the time
\* of day.
CatchUp(diff) == (Epoch + diff + Period - 1) \div Period

\* Seeded fault: what corrects itself is corrected further.
Adjust_Always(diff) ==
    /\ last' = diff
    /\ \/ diff = 0 /\ UNCHANGED sleep /\ Ticks(1)
       \/ diff > 0 /\ sleep > 1 /\ sleep' = sleep - 1 /\ Ticks(1)
       \/ diff > 0 /\ sleep = 1 /\ UNCHANGED sleep /\ Ticks(1 + CatchUp(diff))
       \/ diff < 0 /\ sleep' = sleep + 1 /\ Ticks(1)

\* diff: by how many milliseconds too much time has passed.
Adjust(diff) ==
    /\ last' = diff
    /\ \/ /\ Corrects(diff) \/ diff = 0
          /\ UNCHANGED sleep /\ Ticks(1)
       \/ /\ ~Corrects(diff) /\ diff > 0 /\ sleep > 1
          /\ sleep' = sleep - 1 /\ Ticks(1)
       \/ /\ ~Corrects(diff) /\ diff > 0 /\ sleep = 1
          /\ UNCHANGED sleep /\ Ticks(1 + CatchUp(diff))
       \/ /\ ~Corrects(diff) /\ diff < 0
          /\ sleep' = sleep + 1 /\ Ticks(1)

\* Every Interval the tick is followed by an adjustment.
Iterate ==
    /\ \/ /\ phase + Period >= Interval
          /\ Adjust((skew - Period * Ms) \div Ms)
       \/ /\ phase + Period < Interval
          /\ UNCHANGED <<sleep, last>> /\ Ticks(1)
    /\ UNCHANGED <<overhead, steps>>

-----------------------------------------------------------------------------
(* The environment: the clock is set, or an iteration takes another time.  *)

Disturb ==
    /\ steps < MaxSteps /\ steps' = steps + 1
    /\ \/ (\E j \in Steps : skew' \in {skew + j, skew - j}) /\ UNCHANGED overhead
       \/ (\E o \in Overheads : overhead' = o) /\ UNCHANGED skew
    /\ UNCHANGED <<sleep, last, phase>>

Next == Iterate \/ Disturb

Spec == Init /\ [][Next]_vars

\* Fairness: the thread runs on.
FairSpec == Spec /\ WF_vars(Iterate)

-----------------------------------------------------------------------------
(* Properties                                                              *)

\* The last disturbance corrected, the ticks stay in pace with the clock: the sleep
\* is adjusted in steps and against a late measurement, and must not swing for ever
\* wider (tickpoke.cpp:47-70).
InPace == skew \in -2 * Period * Ms .. 2 * Period * Ms
Settles == <>[]InPace

\* Where no clock is set, the ticks never run ahead of it by more than the adjustment
\* of one interval: what catches up stops at the present.  (tickpoke.h: "The call
\* interval in milliseconds".)
NotAhead == skew >= -2 * Period * Ms
=============================================================================
