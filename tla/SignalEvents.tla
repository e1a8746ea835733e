---------------------------- MODULE SignalEvents ----------------------------
(***************************************************************************)
(* Core::SignalEvents (src/core/signalevents.cpp): a fixed array of slots  *)
(* in which other threads leave signals for the worker thread, and the     *)
(* counter the worker tests.  A signal names its receiver and its number   *)
(* (with its value: the pair stands for (er, signal, value)).  Every       *)
(* method runs under signallock, so each is one step.                      *)
(***************************************************************************)
EXTENDS Integers, FiniteSets

CONSTANTS
    Signals,    \* the distinct (er, signal, value) triples that may be set
    NumSlots,   \* size of the array: 10 in the code
    NoSignal    \* what an unset slot holds here

ASSUME SignalsAssumption == NoSignal \notin Signals
ASSUME NumSlotsAssumption == NumSlots \in Nat \ {0}

Slots == 1 .. NumSlots

VARIABLES
    slots,      \* slots[i]: the signal of slot i, NoSignal when ~set
    hasevent,   \* the counter
    aborted     \* an assert(false) ended the process

signalVars == <<slots, hasevent, aborted>>

SetSlots == {i \in Slots : slots[i] # NoSignal}

SignalTypeOK ==
    /\ slots \in [Slots -> Signals \cup {NoSignal}]
    /\ hasevent \in Int
    /\ aborted \in BOOLEAN

SignalInit ==
    /\ slots = [i \in Slots |-> NoSignal]
    /\ hasevent = 0
    /\ aborted = FALSE

(***************************************************************************)
(* set() walks the array from its start and stops at the first slot that   *)
(* is free or that already holds the same signal.  Where the walk runs off *)
(* the end of the array, the process ends (assert(false)): neither of the  *)
(* two operators below is enabled.                                         *)
(***************************************************************************)
Stops(x) == {i \in Slots : slots[i] \in {NoSignal, x}}
First(S) == CHOOSE i \in S : \A j \in S : i <= j

\* The walk stops at a free slot: the signal is stored there.
Store(x) ==
    /\ Stops(x) # {}
    /\ slots[First(Stops(x))] = NoSignal
    /\ slots' = [slots EXCEPT ![First(Stops(x))] = x]
    /\ hasevent' = hasevent + 1
    /\ UNCHANGED aborted

\* The walk stops at an equal signal: set() returns false, nobody posts.
Coalesce(x) ==
    /\ Stops(x) # {}
    /\ slots[First(Stops(x))] = x
    /\ UNCHANGED signalVars

\* Seeded fault: the counter is not decremented.
TakeFirst_NoDecrement ==
    /\ SetSlots # {}
    /\ slots' = [slots EXCEPT ![First(SetSlots)] = NoSignal]
    /\ UNCHANGED <<hasevent, aborted>>

\* getClearFirst(): takes the signal of the lowest slot that is set.
TakeFirst ==
    /\ SetSlots # {}
    /\ slots' = [slots EXCEPT ![First(SetSlots)] = NoSignal]
    /\ hasevent' = hasevent - 1
    /\ UNCHANGED aborted

\* getClearFirst() with no slot set: its assert(false).
TakeFromEmpty ==
    /\ SetSlots = {}
    /\ aborted' = TRUE
    /\ UNCHANGED <<slots, hasevent>>

GetClearFirst == TakeFirst \/ TakeFromEmpty
=============================================================================
