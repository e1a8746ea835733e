-------------------------- MODULE WorkManagerProofs -------------------------
(***************************************************************************)
(* Theorems of WorkManager, for every set of sockets, threads and signals  *)
(* and every value of the sizes: its types, its semaphore, the records of  *)
(* a pause, the order of delivery and the bound that back-pressure keeps.  *)
(***************************************************************************)
EXTENDS WorkManager, FiniteSetTheorems, WellFoundedInduction, TLAPS

USE SignalsAssumption, NumSlotsAssumption, SocksAssumption, ThreadsAssumption, SizesAssumption

-----------------------------------------------------------------------------
(* The slots of SignalEvents.                                              *)

\* A set of naturals that is not empty has a least element: the walks of
\* set() and of getClearFirst() end at a slot of the array.
LEMMA FirstIsLeast ==
    ASSUME NEW S \in SUBSET Nat, S # {}
    PROVE  First(S) \in S /\ \A j \in S : First(S) <= j
<1> DEFINE R == {p \in Nat \X Nat : p[1] < p[2]}
<1>1. IsWellFoundedOn(R, Nat)
  BY NatLessThanWellFounded, Zenon DEF OpToRel
<1>2. \E i \in S : \A j \in S : ~ (<<j, i>> \in R)
  <2> HIDE DEF R
  <2> QED BY <1>1, WFMin, Zenon
<1>3. \E i \in S : \A j \in S : i <= j
  <2>1. PICK i \in S : \A j \in S : ~ (<<j, i>> \in R)
    BY <1>2
  <2>2. ASSUME NEW j \in S PROVE i <= j
    <3>1. <<j, i>> \in Nat \X Nat
      OBVIOUS
    <3>2. ~ (<<j, i>>[1] < <<j, i>>[2])
      BY <2>1, <3>1
    <3> QED BY <3>2
  <2> QED BY <2>2
<1> QED BY <1>3 DEF First

\* The counter is the number of slots that are set, and no assertion failed.
SignalCount == hasevent = Cardinality(SetSlots) /\ ~aborted

LEMMA SetSlotsFinite ==
    IsFiniteSet(SetSlots) /\ Cardinality(SetSlots) \in Nat
<1>1. IsFiniteSet(Slots)
  BY FS_Interval DEF Slots
<1> QED BY <1>1, FS_Subset, FS_CardinalityType DEF SetSlots

\* Store fills one slot that was free.
LEMMA StoreCounts ==
    ASSUME SignalTypeOK, SignalCount, NEW x \in Signals, Store(x)
    PROVE  SignalTypeOK' /\ SignalCount'
<1> DEFINE i == First(Stops(x))
<1>1. i \in Slots /\ slots[i] = NoSignal
  <2>1. Stops(x) \in SUBSET Nat /\ Stops(x) # {}
    BY DEF Stops, Slots, Store
  <2> QED BY <2>1, FirstIsLeast DEF Stops, Store
<1>2. slots' = [slots EXCEPT ![i] = x] /\ hasevent' = hasevent + 1 /\ aborted' = aborted
  BY DEF Store
<1> HIDE DEF i
<1>3. SetSlots' = SetSlots \cup {i} /\ i \notin SetSlots
  BY <1>1, <1>2 DEF SetSlots, SignalTypeOK
<1>4. Cardinality(SetSlots') = Cardinality(SetSlots) + 1
  BY <1>3, FS_AddElement, SetSlotsFinite
<1> QED BY <1>1, <1>2, <1>4, SetSlotsFinite DEF SignalTypeOK, SignalCount

\* TakeFirst empties one that was set.
LEMMA TakeFirstCounts ==
    ASSUME SignalTypeOK, SignalCount, TakeFirst
    PROVE  SignalTypeOK' /\ SignalCount'
<1> DEFINE i == First(SetSlots)
<1>1. i \in SetSlots
  <2>1. SetSlots \in SUBSET Nat /\ SetSlots # {}
    BY DEF SetSlots, Slots, TakeFirst
  <2> QED BY <2>1, FirstIsLeast
<1>2. /\ slots' = [slots EXCEPT ![i] = NoSignal]
      /\ hasevent' = hasevent - 1 /\ aborted' = aborted
  BY DEF TakeFirst
<1> HIDE DEF i
<1>3. SetSlots' = SetSlots \ {i}
  BY <1>1, <1>2 DEF SetSlots, SignalTypeOK
<1>4. Cardinality(SetSlots') = Cardinality(SetSlots) - 1
  BY <1>1, <1>3, FS_RemoveElement, SetSlotsFinite
<1>5. SignalTypeOK'
  BY <1>1, <1>2 DEF SignalTypeOK, SetSlots
<1>6. SignalCount'
  BY <1>2, <1>4, SetSlotsFinite DEF SignalCount
<1> QED BY <1>5, <1>6

-----------------------------------------------------------------------------
(* Type correctness.                                                       *)

\* While the IO thread handles a socket it knows which one.
CurOK == iopc \in {"read", "post", "size", "return", "after"} => cur \in Socks

\* Only the worker clears slots: what hasEvent() saw is still there.
SignalWaits == wpc = "signal" => hasevent # 0

TypeInv == TypeOK /\ SignalCount /\ CurOK /\ SignalWaits

\* The state that no step of a thread outside SignalEvents touches.
LEMMA SignalUnchanged ==
    ASSUME SignalTypeOK, SignalCount, UNCHANGED signalVars
    PROVE  SignalTypeOK' /\ SignalCount'
  BY DEF SignalTypeOK, SignalCount, signalVars, SetSlots

\* PushNext appends an event of the right type to one queue.
LEMMA PushNextType ==
    ASSUME TypeOK, NEW s \in Sources, NEW p, PushNext(s, p)
    PROVE  /\ highprioqueue' \in Seq(Events)
           /\ dataqueue' \in Seq(Events)
           /\ lowprioqueue' \in Seq(Events)
           /\ sent' \in [Sources -> Nat]
<1>1. NextOf(s) \in Events /\ sent[s] \in Nat
  BY DEF TypeOK, NextOf, Events
<1>2. sent' \in [Sources -> Nat]
  BY <1>1 DEF TypeOK, PushNext
<1>3. PushLow(NextOf(s)) \/ PushData(NextOf(s))
  BY DEF PushNext, Push
<1>4. CASE PushLow(NextOf(s))
  BY <1>1, <1>2, <1>4 DEF TypeOK, PushLow
<1>5. CASE PushData(NextOf(s))
  BY <1>1, <1>2, <1>5 DEF TypeOK, PushData
<1> QED BY <1>3, <1>4, <1>5

LEMMA InitType == Init => TypeInv
<1> SUFFICES ASSUME Init PROVE TypeInv
  OBVIOUS
<1>1. SetSlots = {}
  BY DEF Init, SignalInit, SetSlots
<1>2. SignalCount
  BY <1>1, FS_EmptySet DEF Init, SignalInit, SignalCount
<1>3. SignalTypeOK
  <2>1. slots \in [Slots -> Signals \cup {NoSignal}]
    BY DEF Init, SignalInit
  <2>2. hasevent \in Int
    BY DEF Init, SignalInit
  <2>3. aborted \in BOOLEAN
    BY Zenon DEF Init, SignalInit
  <2> QED BY <2>1, <2>2, <2>3 DEF SignalTypeOK
<1>4. TypeOK
  <2>1. overloaded \in BOOLEAN /\ lowpriooverloaded \in BOOLEAN
    BY Zenon DEF Init
  <2>2. paused \in [Socks -> BOOLEAN]
    BY Zenon DEF Init
  <2> QED BY <1>3, <2>1, <2>2 DEF Init, TypeOK
<1>5. CurOK /\ SignalWaits
  BY DEF Init, CurOK, SignalWaits
<1> QED BY <1>2, <1>4, <1>5 DEF TypeInv

LEMMA TypeStep == TypeInv /\ [Next]_vars => TypeInv'
<1> SUFFICES ASSUME TypeInv, [Next]_vars PROVE TypeInv'
  OBVIOUS
<1> USE DEF TypeInv, CurOK, SignalWaits, TypeOK
<1>1. CASE UNCHANGED vars
  <2>1. SignalTypeOK' /\ SignalCount' /\ hasevent' = hasevent
    BY <1>1, SignalUnchanged DEF vars, signalVars
  <2> QED BY <1>1, <2>1 DEF vars, queues, flags, iovars, locals, pauses, socks
<1>2. CASE IONext
  <2>0. SignalTypeOK' /\ SignalCount' /\ hasevent' = hasevent /\ wpc' = wpc
    <3>1. UNCHANGED signalVars /\ wpc' = wpc
      BY <1>2 DEF IONext, PollWait, Lock, NextEvent, Unlock, ReadNothing, ReadLast, ReadBlock,
                  ReadEnd, IOPost, ReadSize, SetFlags, Return, Dispatch
    <3> QED BY <3>1, SignalUnchanged DEF signalVars
  <2> USE <2>0
  <2>1. CASE PollWait
    BY <2>1 DEF PollWait, queues, flags, locals, pauses, socks
  <2>2. CASE Lock
    BY <2>2 DEF Lock, queues, flags, locals, pauses, socks
  <2>3. CASE NextEvent
    BY <2>3 DEF NextEvent, queues, flags, locals, pauses, socks
  <2>4. CASE Unlock
    BY <2>4 DEF Unlock, queues, flags, locals, pauses, socks
  <2>5. CASE ReadNothing
    BY <2>5 DEF ReadNothing, Handled, queues, flags, locals, pauses, socks
  <2>6. ASSUME NEW p, NEW next \in {"more", "stop", "close"}, Dispatch(p, next),
               iopc \in {"read", "after"},
               blocknum' \in Nat, prio' \in [Socks -> {"normal", "low"}]
        PROVE  TypeInv'
    <3>1. cur \in Sources
      BY <2>6 DEF Sources
    <3>2. /\ highprioqueue' \in Seq(Events)
          /\ dataqueue' \in Seq(Events)
          /\ lowprioqueue' \in Seq(Events)
          /\ sent' \in [Sources -> Nat]
      BY <2>6, <3>1, PushNextType DEF Dispatch
    <3> QED BY <2>6, <3>2 DEF Dispatch, flags, pauses, Threads
  <2>7. CASE ReadLast
    BY <2>6, <2>7 DEF ReadLast
  <2>8. CASE ReadBlock
    <3>1. blocknum' \in Nat /\ prio' \in [Socks -> {"normal", "low"}]
      BY <2>8 DEF ReadBlock
    <3>2. Dispatch(prio'[cur], "more") /\ iopc = "read"
      BY <2>8 DEF ReadBlock
    <3> QED BY <2>6, <3>1, <3>2
  <2>9. CASE ReadEnd
    BY <2>6, <2>9 DEF ReadEnd
  <2>10. CASE IOPost
    BY <2>10 DEF IOPost, Posted, Closed, Handled, queues, flags, pauses
  <2>11. CASE ReadSize
    <3>1. Sizes \in [{"high", "data", "low"} -> Nat]
      BY DEF Sizes
    <3>2. \A q \in unread : Sizes[q] \in Nat
      BY <3>1
    <3> QED BY <2>11, <3>2 DEF ReadSize, queues, flags, pauses, socks
  <2>12. CASE SetFlags
    BY <2>12 DEF SetFlags, queues, pauses, socks
  <2>13. CASE Return
    <3>1. /\ paused' \in [Socks -> BOOLEAN]
          /\ polled' \in SUBSET Socks
          /\ autopaused' \in SUBSET Socks
          /\ manuallypaused' \in SUBSET Socks
      <4>1. CASE AutoPause(cur)
        BY <2>13, <4>1 DEF Return, AutoPause
      <4>2. CASE UNCHANGED pauses
        BY <4>2 DEF pauses
      <4> QED BY <2>13, <4>1, <4>2 DEF Return
    <3>2. CASE Handled
      BY <2>13, <3>1, <3>2 DEF Return, Handled, queues, flags, socks
    <3>3. CASE /\ iopc' = IF last = "more" THEN "read" ELSE "after"
               /\ total' = 0
               /\ UNCHANGED <<cur, blocknum, last, unread>>
      BY <2>13, <3>1, <3>3 DEF Return, queues, flags, socks
    <3> QED BY <2>13, <3>2, <3>3 DEF Return
  <2> QED BY <1>2, <2>1, <2>2, <2>3, <2>4, <2>5, <2>7, <2>8, <2>9, <2>10, <2>11, <2>12, <2>13
          DEF IONext
<1>3. CASE WorkerNext
  <2>1. CASE HandleSignal
    <3>1. TakeFirst
      <4>1. SetSlots # {}
        BY <2>1, FS_EmptySet DEF HandleSignal, SignalCount
      <4> QED BY <2>1, <4>1 DEF HandleSignal, GetClearFirst, TakeFromEmpty
    <3>2. SignalTypeOK' /\ SignalCount'
      BY <3>1, TakeFirstCounts
    <3> QED BY <2>1, <3>2 DEF HandleSignal, queues, flags, iovars, locals, pauses, socks
  <2>2. CASE ~ HandleSignal
    <3>1. UNCHANGED signalVars
      BY <1>3, <2>2 DEF WorkerNext, Wait, HasEvent, PopHigh, PopData, PopLow, Enter, Skip,
           HandlerDispatch, HandlerReturn, CheckReady, ClearFlags, Notify, Pause, Resume, Close
    <3>2. SignalTypeOK' /\ SignalCount' /\ hasevent' = hasevent
      BY <3>1, SignalUnchanged DEF signalVars
    <3> USE <3>2
    <3>3. CASE Wait
      BY <3>3 DEF Wait, queues, flags, iovars, locals, pauses, socks
    <3>4. CASE HasEvent
      BY <3>4 DEF HasEvent, queues, flags, iovars, locals, pauses, socks
    <3>5. ASSUME NEW e \in Events, Enter(e),
                 highprioqueue' \in Seq(Events), dataqueue' \in Seq(Events),
                 lowprioqueue' \in Seq(Events)
          PROVE  TypeInv'
      <4>1. e.num \in Nat
        BY DEF Events, Tick
      <4> QED BY <3>5, <4>1 DEF Enter, flags, iovars, locals, pauses, socks
    <3>6. CASE PopHigh
      <4>1. Head(highprioqueue) \in Events /\ Tail(highprioqueue) \in Seq(Events)
        BY <3>6 DEF PopHigh
      <4> QED BY <3>5, <3>6, <4>1 DEF PopHigh
    <3>7. CASE PopData
      <4>1. Head(dataqueue) \in Events /\ Tail(dataqueue) \in Seq(Events)
        BY <3>7 DEF PopData
      <4> QED BY <3>5, <3>7, <4>1 DEF PopData
    <3>8. CASE PopLow
      <4>1. Head(lowprioqueue) \in Events /\ Tail(lowprioqueue) \in Seq(Events)
        BY <3>8 DEF PopLow
      <4> QED BY <3>5, <3>8, <4>1 DEF PopLow
    <3>9. CASE Skip
      BY <3>9 DEF Skip, queues, flags, iovars, locals, pauses, socks
    <3>10. CASE HandlerDispatch
      <4>1. /\ highprioqueue' \in Seq(Events) /\ dataqueue' \in Seq(Events)
            /\ lowprioqueue' \in Seq(Events) /\ sent' \in [Sources -> Nat]
        BY <3>10, PushNextType DEF HandlerDispatch, Sources
      <4> QED BY <3>10, <4>1 DEF HandlerDispatch, flags, iovars, locals, pauses, Threads
    <3>11. CASE HandlerReturn
      BY <3>11 DEF HandlerReturn, queues, flags, iovars, locals, pauses, socks
    <3>12. CASE CheckReady
      BY <3>12 DEF CheckReady, queues, flags, iovars, locals, pauses, socks
    <3>13. CASE ClearFlags
      BY <3>13 DEF ClearFlags, queues, iovars, locals, pauses, socks
    <3>14. CASE Notify
      BY <3>14 DEF Notify, WorkerReady, queues, flags, iovars, locals, socks
    <3>15. ASSUME NEW s \in Socks, Pause(s) PROVE TypeInv'
      BY <3>15 DEF Pause, queues, flags, iovars, locals, socks
    <3>16. ASSUME NEW s \in Socks, Resume(s) PROVE TypeInv'
      BY <3>16 DEF Resume, queues, flags, iovars, locals, socks
    <3>17. ASSUME NEW s \in Socks, Close(s) PROVE TypeInv'
      BY <3>17 DEF Close, Closed, queues, flags, iovars, locals
    <3> QED BY <1>3, <2>2, <3>3, <3>4, <3>6, <3>7, <3>8, <3>9, <3>10, <3>11, <3>12, <3>13,
               <3>14, <3>15, <3>16, <3>17 DEF WorkerNext
  <2> QED BY <2>1, <2>2
<1>4. CASE DispatchTick
  <2>1. SignalTypeOK' /\ SignalCount' /\ hasevent' = hasevent
    BY <1>4, SignalUnchanged DEF DispatchTick, signalVars
  <2> QED BY <1>4, <2>1 DEF DispatchTick, PushHigh, Events, Threads, flags, iovars, locals,
                            pauses, socks
<1>5. ASSUME NEW a \in Async, AsyncComplete(a) PROVE TypeInv'
  <2>1. SignalTypeOK' /\ SignalCount' /\ hasevent' = hasevent
    BY <1>5, SignalUnchanged DEF AsyncComplete, signalVars
  <2>2. /\ highprioqueue' \in Seq(Events) /\ dataqueue' \in Seq(Events)
        /\ lowprioqueue' \in Seq(Events) /\ sent' \in [Sources -> Nat]
    BY <1>5, PushNextType DEF AsyncComplete, Sources
  <2> QED BY <1>5, <2>1, <2>2 DEF AsyncComplete, flags, iovars, locals, pauses, Threads
<1>6. ASSUME NEW x \in Signals, DispatchSignal(x) PROVE TypeInv'
  <2>1. CASE Store(x) /\ posting' = posting \cup {x}
    <3>1. SignalTypeOK' /\ SignalCount'
      BY <2>1, StoreCounts
    <3>2. hasevent' # 0
      BY <2>1, SetSlotsFinite DEF Store, SignalCount
    <3> QED BY <1>6, <2>1, <3>1, <3>2 DEF DispatchSignal, queues, flags, iovars, locals,
                                          pauses, socks, Threads
  <2>2. CASE Coalesce(x) /\ UNCHANGED posting
    <3>1. SignalTypeOK' /\ SignalCount' /\ hasevent' = hasevent
      BY <2>2, SignalUnchanged DEF Coalesce, signalVars
    <3> QED BY <1>6, <2>2, <3>1 DEF DispatchSignal, queues, flags, iovars, locals, pauses, socks
  <2> QED BY <1>6, <2>1, <2>2 DEF DispatchSignal
<1>7. ASSUME NEW t \in Threads \ {IO}, Post(t) PROVE TypeInv'
  <2>1. SignalTypeOK' /\ SignalCount' /\ hasevent' = hasevent
    BY <1>7, SignalUnchanged DEF Post, signalVars
  <2> QED BY <1>7, <2>1 DEF Post, Posted, queues, flags, iovars, locals, pauses, socks
<1> QED BY <1>1, <1>2, <1>3, <1>4, <1>5, <1>6, <1>7 DEF Next

(* The queues, flags, program counters and records of WorkManager and of   *)
(* the IOManager keep their types.                                         *)
THEOREM TypeCorrect == Spec => []TypeOK
<1>1. TypeInv => TypeOK
  BY DEF TypeInv
<1> QED BY InitType, TypeStep, <1>1, PTL DEF Spec

(* getClearFirst() always finds a slot that is set: the counter the worker *)
(* tests is the number of such slots, and nobody but the worker clears one. *)
THEOREM SignalFound == Spec => []ClearFindsSignal
<1>1. TypeInv => ClearFindsSignal
  BY FS_EmptySet DEF TypeInv, SignalWaits, SignalCount, ClearFindsSignal
<1> QED BY InitType, TypeStep, <1>1, PTL DEF Spec

-----------------------------------------------------------------------------
(* The worker never blocks in lowprioqueue.pop().                          *)

PostingOK == IsFiniteSet(posting) /\ (IO \in posting <=> iopc = "post")

\* A worker that has found no signal holds the token of an event in a queue,
\* and a queue it passed by being empty cannot be the one.
Reached ==
    /\ wpc = "high" => Pending >= 1
    /\ wpc = "data" => Len(dataqueue) + Len(lowprioqueue) >= 1
    /\ wpc = "low" => Len(lowprioqueue) >= 1

WakeInv == TypeInv /\ PostingOK /\ Tokens /\ Reached

\* The lengths that Append and Tail give.
LEMMA Lengths ==
    ASSUME NEW S, NEW q \in Seq(S)
    PROVE  /\ Len(q) \in Nat
           /\ \A e \in S : Len(Append(q, e)) = Len(q) + 1
           /\ q # <<>> => Len(Tail(q)) = Len(q) - 1 /\ Len(q) >= 1
           /\ q = <<>> => Len(q) = 0
  OBVIOUS

\* One more event in the queues, none lost.
Longer ==
    /\ Len(highprioqueue') >= Len(highprioqueue)
    /\ Len(dataqueue') >= Len(dataqueue)
    /\ Len(lowprioqueue') >= Len(lowprioqueue)
    /\ Pending' = Pending + 1

LEMMA PushNextLonger ==
    ASSUME TypeInv, NEW s \in Sources, NEW p, PushNext(s, p)
    PROVE  Longer
<1>1. NextOf(s) \in Events
  BY DEF TypeInv, TypeOK, NextOf, Events
<1>2. PushLow(NextOf(s)) \/ PushData(NextOf(s))
  BY DEF PushNext, Push
<1>3. CASE PushLow(NextOf(s))
  BY <1>1, <1>3, Lengths DEF TypeInv, TypeOK, PushLow, Longer, Pending
<1>4. CASE PushData(NextOf(s))
  BY <1>1, <1>4, Lengths DEF TypeInv, TypeOK, PushData, Longer, Pending
<1> QED BY <1>2, <1>3, <1>4

\* A thread that pushes will post.
LEMMA PushKeeps ==
    ASSUME WakeInv, TypeInv', Longer, NEW t, t \notin posting, posting' = posting \cup {t},
           UNCHANGED <<event, wpc, hasevent>>
    PROVE  IsFiniteSet(posting') /\ Tokens' /\ Reached'
<1>1. IsFiniteSet(posting') /\ Cardinality(posting') = Cardinality(posting) + 1
  BY FS_AddElement DEF WakeInv, PostingOK
<1>2. Tokens'
  <2>1. Held' = Held /\ Held \in Nat
    BY DEF Held
  <2>2. Cardinality(posting) \in Nat /\ event \in Nat /\ hasevent \in Int
    BY FS_CardinalityType DEF WakeInv, PostingOK, TypeInv, TypeOK, SignalTypeOK
  <2>3. Pending \in Nat
    BY Lengths DEF WakeInv, TypeInv, TypeOK, Pending
  <2> QED BY <1>1, <2>1, <2>2, <2>3 DEF WakeInv, Tokens, Longer
<1>3. Reached'
  BY Lengths DEF WakeInv, TypeInv, TypeOK, Reached, Longer, Pending
<1> QED BY <1>1, <1>2, <1>3

\* A thread that posts turns its promise into a token.
LEMMA PostKeeps ==
    ASSUME WakeInv, NEW t, Posted(t), UNCHANGED <<queues, wpc, hasevent>>
    PROVE  IsFiniteSet(posting') /\ Tokens' /\ Reached'
<1>1. IsFiniteSet(posting') /\ Cardinality(posting') = Cardinality(posting) - 1
  BY FS_RemoveElement DEF WakeInv, PostingOK, Posted
<1>2. Pending' = Pending /\ Held' = Held /\ Held \in Nat /\ Pending \in Nat
  BY Lengths DEF queues, Pending, Held, WakeInv, TypeInv, TypeOK
<1>3. Cardinality(posting) \in Nat /\ event \in Nat /\ hasevent \in Int
  BY FS_CardinalityType DEF WakeInv, PostingOK, TypeInv, TypeOK, SignalTypeOK
<1>4. Tokens'
  BY <1>1, <1>2, <1>3 DEF WakeInv, Tokens, Posted
<1> QED BY <1>1, <1>2, <1>4 DEF WakeInv, Reached, queues

\* The worker takes the event that its token stands for.
LEMMA PopKeeps ==
    ASSUME WakeInv, Pending' = Pending - 1, Held = 1, wpc' = "handle",
           UNCHANGED <<event, posting, hasevent>>
    PROVE  IsFiniteSet(posting') /\ Tokens' /\ Reached'
<1>1. Cardinality(posting) \in Nat /\ event \in Nat /\ hasevent \in Int
  BY FS_CardinalityType DEF WakeInv, PostingOK, TypeInv, TypeOK, SignalTypeOK
<1>2. Pending \in Nat /\ Held' = 0
  BY Lengths DEF WakeInv, TypeInv, TypeOK, Pending, Held
<1> QED BY <1>1, <1>2 DEF WakeInv, PostingOK, Tokens, Reached

LEMMA InitWake == Init => WakeInv
<1> SUFFICES ASSUME Init PROVE WakeInv
  OBVIOUS
<1>1. IsFiniteSet(posting) /\ Cardinality(posting) = 0
  BY FS_EmptySet DEF Init
<1> QED BY <1>1, InitType DEF Init, SignalInit, WakeInv, PostingOK, Tokens, Held, Pending, Reached

\* A step that leaves queues, tokens and promises alone, and moves the worker
\* nowhere but between points that need no event.
LEMMA QuietKeeps ==
    ASSUME WakeInv, UNCHANGED <<queues, event, posting, hasevent>>, Held' = Held, Reached'
    PROVE  IsFiniteSet(posting') /\ Tokens' /\ Reached'
  BY DEF WakeInv, PostingOK, Tokens, Pending, queues

LEMMA WakeStep == WakeInv /\ [Next]_vars => WakeInv'
<1> SUFFICES ASSUME WakeInv, [Next]_vars PROVE WakeInv'
  OBVIOUS
<1>0. TypeInv'
  BY TypeStep DEF WakeInv
<1> SUFFICES (IsFiniteSet(posting') /\ Tokens' /\ Reached') /\ (IO \in posting' <=> iopc' = "post")
  BY <1>0 DEF WakeInv, PostingOK
<1>1. CASE UNCHANGED vars
  BY <1>1 DEF vars, WakeInv, PostingOK, Tokens, Pending, Held, Reached, queues, iovars,
              signalVars
<1>2. CASE IONext
  <2>1. UNCHANGED wpc /\ UNCHANGED hasevent
    BY <1>2 DEF IONext, PollWait, Lock, NextEvent, Unlock, ReadNothing, ReadLast, ReadBlock,
                ReadEnd, IOPost, ReadSize, SetFlags, Return, Dispatch, signalVars
  <2>2. CASE ReadLast \/ ReadBlock \/ ReadEnd
    <3>1. PICK p, next : Dispatch(p, next)
      BY <2>2 DEF ReadLast, ReadBlock, ReadEnd
    <3>2. cur \in Sources /\ IO \notin posting
      BY <2>2 DEF ReadLast, ReadBlock, ReadEnd, WakeInv, PostingOK, TypeInv, CurOK, Sources
    <3>3. Longer
      BY <3>1, <3>2, PushNextLonger DEF Dispatch, WakeInv
    <3>4. IsFiniteSet(posting') /\ Tokens' /\ Reached'
      BY <1>0, <2>1, <3>1, <3>2, <3>3, PushKeeps DEF Dispatch
    <3> QED BY <3>1, <3>4 DEF Dispatch
  <2>3. CASE IOPost
    <3>1. IsFiniteSet(posting') /\ Tokens' /\ Reached'
      BY <2>1, <2>3, PostKeeps DEF IOPost
    <3>2. IO \notin posting' /\ iopc' # "post"
      BY <2>3 DEF IOPost, Posted, Handled
    <3> QED BY <3>1, <3>2
  <2>4. CASE ~ (ReadLast \/ ReadBlock \/ ReadEnd \/ IOPost)
    <3>1. UNCHANGED <<queues, event, posting>> /\ iopc # "post" /\ iopc' # "post"
      BY <1>2, <2>4 DEF IONext, PollWait, Lock, NextEvent, Unlock, ReadNothing, ReadSize,
                        SetFlags, Return, Handled
    <3>2. Held' = Held /\ Reached'
      BY <2>1, <3>1 DEF Held, WakeInv, Reached, Pending, queues
    <3>3. IsFiniteSet(posting') /\ Tokens' /\ Reached'
      BY <2>1, <3>1, <3>2, QuietKeeps
    <3> QED BY <3>1, <3>3 DEF WakeInv, PostingOK
  <2> QED BY <2>2, <2>3, <2>4
<1>3. CASE WorkerNext
  <2>1. iopc' = iopc
    BY <1>3 DEF WorkerNext, Wait, HasEvent, HandleSignal, PopHigh, PopData, PopLow, Enter, Skip,
         HandlerDispatch, HandlerReturn, CheckReady, ClearFlags, Notify, Pause, Resume, Close,
         iovars
  <2>2. Cardinality(posting) \in Nat /\ event \in Nat /\ hasevent \in Int /\ Pending \in Nat
    BY FS_CardinalityType, Lengths DEF WakeInv, PostingOK, TypeInv, TypeOK, SignalTypeOK, Pending
  <2>3. CASE Wait
    <3>1. Held = 0 /\ Held' = 1 /\ event' = event - 1
      BY <2>3 DEF Wait, Held
    <3>2. UNCHANGED <<queues, posting, hasevent>>
      BY <2>3 DEF Wait, signalVars
    <3>3. Tokens'
      BY <2>2, <3>1, <3>2 DEF WakeInv, Tokens, Pending, queues
    <3> QED BY <2>1, <2>3, <3>2, <3>3 DEF WakeInv, PostingOK, Wait, Reached
  <2>4. CASE HasEvent
    <3>1. UNCHANGED <<queues, event, posting, hasevent>> /\ Held' = Held /\ Held = 1
      BY <2>4 DEF HasEvent, Held, signalVars
    <3>2. Reached'
      <4>1. CASE hasevent # 0
        BY <2>4, <4>1 DEF HasEvent, Reached
      <4>2. CASE hasevent = 0
        <5>1. Pending >= 1
          BY <2>2, <3>1, <4>2 DEF WakeInv, Tokens
        <5> QED BY <2>4, <3>1, <4>2, <5>1 DEF HasEvent, Reached, Pending, queues
      <4> QED BY <4>1, <4>2
    <3> QED BY <2>1, <3>1, <3>2, QuietKeeps DEF WakeInv, PostingOK
  <2>5. CASE HandleSignal
    <3>1. TakeFirst
      <4>1. SetSlots # {}
        BY <2>5, FS_EmptySet DEF HandleSignal, WakeInv, TypeInv, SignalCount, SignalWaits
      <4> QED BY <2>5, <4>1 DEF HandleSignal, GetClearFirst, TakeFromEmpty
    <3>2. UNCHANGED <<queues, event, posting>> /\ hasevent' = hasevent - 1
      BY <2>5, <3>1 DEF HandleSignal, TakeFirst
    <3>3. Held = 1 /\ Held' = 0
      BY <2>5 DEF HandleSignal, Held
    <3>4. Tokens'
      BY <2>2, <3>2, <3>3 DEF WakeInv, Tokens, Pending, queues
    <3> QED BY <2>1, <2>5, <3>2, <3>4 DEF WakeInv, PostingOK, HandleSignal, Reached
  <2>6. CASE PopHigh \/ PopData \/ PopLow
    <3>1. Held = 1 /\ wpc' = "handle" /\ UNCHANGED <<event, posting, hasevent>>
      BY <2>6 DEF PopHigh, PopData, PopLow, Enter, Held, signalVars
    <3>2. Pending' = Pending - 1
      <4>1. CASE PopHigh
        BY <4>1, Lengths DEF PopHigh, Pending, WakeInv, TypeInv, TypeOK
      <4>2. CASE PopData
        BY <4>2, Lengths DEF PopData, Pending, WakeInv, TypeInv, TypeOK
      <4>3. CASE PopLow
        BY <4>3, Lengths DEF PopLow, Pending, WakeInv, TypeInv, TypeOK
      <4> QED BY <2>6, <4>1, <4>2, <4>3
    <3> QED BY <2>1, <3>1, <3>2, PopKeeps DEF WakeInv, PostingOK
  <2>7. CASE Skip
    <3>1. UNCHANGED <<queues, event, posting, hasevent>> /\ Held' = Held
      BY <2>7 DEF Skip, Held, signalVars
    <3>2. Reached'
      BY <2>7, <3>1, Lengths DEF Skip, Reached, WakeInv, Pending, queues, TypeInv, TypeOK
    <3> QED BY <2>1, <3>1, <3>2, QuietKeeps DEF WakeInv, PostingOK
  <2>8. CASE HandlerDispatch
    <3>1. Longer
      BY <2>8, PushNextLonger DEF HandlerDispatch, Sources, WakeInv
    <3>2. IsFiniteSet(posting') /\ Tokens' /\ Reached'
      BY <1>0, <2>8, <3>1, PushKeeps DEF HandlerDispatch, signalVars
    <3> QED BY <2>1, <2>8, <3>2 DEF HandlerDispatch, WakeInv, PostingOK
  <2>9. CASE HandlerReturn \/ CheckReady \/ ClearFlags \/ Notify
             \/ \E s \in Socks : Pause(s) \/ Resume(s) \/ Close(s)
    <3>1. UNCHANGED <<queues, event, posting, hasevent>>
      BY <2>9 DEF HandlerReturn, CheckReady, ClearFlags, Notify, Pause, Resume, Close, signalVars
    <3>2. /\ wpc \in {"handle", "ready", "clear", "notify"}
          /\ wpc' \in {"handle", "ready", "clear", "notify", "wait"}
      BY <2>9 DEF HandlerReturn, CheckReady, ClearFlags, Notify, Pause, Resume, Close
    <3>3. Held' = Held /\ Reached'
      BY <3>2 DEF Held, Reached
    <3> QED BY <2>1, <3>1, <3>3, QuietKeeps DEF WakeInv, PostingOK
  <2> QED BY <1>3, <2>3, <2>4, <2>5, <2>6, <2>7, <2>8, <2>9 DEF WorkerNext
<1>4. CASE DispatchTick
  <2>1. Tick \in Events
    BY DEF Events
  <2>2. Longer
    BY <1>4, <2>1, Lengths DEF DispatchTick, PushHigh, Longer, Pending, WakeInv, TypeInv, TypeOK
  <2>3. IsFiniteSet(posting') /\ Tokens' /\ Reached'
    BY <1>0, <1>4, <2>2, PushKeeps DEF DispatchTick, signalVars
  <2> QED BY <1>4, <2>3 DEF DispatchTick, WakeInv, PostingOK, iovars
<1>5. ASSUME NEW a \in Async, AsyncComplete(a)
      PROVE  (IsFiniteSet(posting') /\ Tokens' /\ Reached') /\ (IO \in posting' <=> iopc' = "post")
  <2>1. Longer
    BY <1>5, PushNextLonger DEF AsyncComplete, Sources, WakeInv
  <2>2. IsFiniteSet(posting') /\ Tokens' /\ Reached'
    BY <1>0, <1>5, <2>1, PushKeeps DEF AsyncComplete, signalVars
  <2> QED BY <1>5, <2>2 DEF AsyncComplete, WakeInv, PostingOK, iovars
<1>6. ASSUME NEW x \in Signals, DispatchSignal(x)
      PROVE  (IsFiniteSet(posting') /\ Tokens' /\ Reached') /\ (IO \in posting' <=> iopc' = "post")
  <2>0. UNCHANGED <<queues, event, wpc, iopc>>
    BY <1>6 DEF DispatchSignal, iovars
  <2>1. CASE x \notin posting /\ Store(x) /\ posting' = posting \cup {x}
    <3>1. IsFiniteSet(posting') /\ Cardinality(posting') = Cardinality(posting) + 1
      BY <2>1, FS_AddElement DEF WakeInv, PostingOK
    <3>2. Cardinality(posting) \in Nat /\ event \in Nat /\ hasevent \in Int /\ Pending \in Nat
      BY FS_CardinalityType, Lengths DEF WakeInv, PostingOK, TypeInv, TypeOK, SignalTypeOK, Pending
    <3>3. Tokens'
      <4>1. Held' = Held /\ Held \in Nat /\ Pending' = Pending /\ hasevent' = hasevent + 1
        BY <2>0, <2>1 DEF Held, Pending, queues, Store
      <4> QED BY <2>0, <3>1, <3>2, <4>1 DEF WakeInv, Tokens
    <3> QED BY <2>0, <2>1, <3>1, <3>3 DEF WakeInv, PostingOK, Reached, Pending, queues
  <2>2. CASE Coalesce(x) /\ UNCHANGED posting
    <3>1. Held' = Held /\ Reached' /\ hasevent' = hasevent
      BY <2>0, <2>2 DEF Held, WakeInv, Reached, Pending, queues, Coalesce, signalVars
    <3> QED BY <2>0, <2>2, <3>1, QuietKeeps DEF WakeInv, PostingOK
  <2> QED BY <1>6, <2>1, <2>2 DEF DispatchSignal
<1>7. ASSUME NEW t \in Threads \ {IO}, Post(t)
      PROVE  (IsFiniteSet(posting') /\ Tokens' /\ Reached') /\ (IO \in posting' <=> iopc' = "post")
  <2>1. IsFiniteSet(posting') /\ Tokens' /\ Reached'
    BY <1>7, PostKeeps DEF Post, signalVars
  <2> QED BY <1>7, <2>1 DEF Post, Posted, WakeInv, PostingOK, iovars
<1> QED BY <1>1, <1>2, <1>3, <1>4, <1>5, <1>6, <1>7 DEF Next

(* One token of the semaphore for every event in a queue and every slot    *)
(* set.                                                                    *)
THEOREM TokensConserved == Spec => []Tokens
<1>1. WakeInv => Tokens
  BY DEF WakeInv
<1> QED BY InitWake, WakeStep, <1>1, PTL DEF Spec

(* WorkManager::run, having found no signal and two queues empty, never    *)
(* blocks in lowprioqueue.pop(), where ticks and signals could not wake it.*)
THEOREM PopDoesNotBlock == Spec => []PopNeverBlocks
<1>1. WakeInv => PopNeverBlocks
  BY Lengths DEF WakeInv, TypeInv, TypeOK, Reached, PopNeverBlocks
<1> QED BY InitWake, WakeStep, <1>1, PTL DEF Spec

-----------------------------------------------------------------------------
(* The IOManager's records of a pause.                                     *)

LEMMA InitPauses == Init => PauseConsistent
  BY DEF Init, PauseConsistent

LEMMA PausesStep == TypeInv /\ PauseConsistent /\ [Next]_vars => PauseConsistent'
<1> SUFFICES ASSUME TypeInv, PauseConsistent, [Next]_vars PROVE PauseConsistent'
  OBVIOUS
<1> USE DEF PauseConsistent, TypeInv, TypeOK
<1>1. ASSUME NEW s \in Socks, Closed(s) PROVE PauseConsistent'
  BY <1>1 DEF Closed
<1>2. CASE UNCHANGED <<pauses, open>>
  BY <1>2 DEF pauses
<1>3. CASE IONext
  <2>1. CASE IOPost
    <3>1. cur \in Socks
      BY <2>1 DEF IOPost, CurOK
    <3> QED BY <1>1, <1>2, <2>1, <3>1 DEF IOPost
  <2>2. CASE Return
    <3>1. CASE AutoPause(cur)
      BY <2>2, <3>1 DEF Return, AutoPause, socks, CurOK
    <3>2. CASE UNCHANGED pauses
      BY <1>2, <2>2, <3>2 DEF Return, socks
    <3> QED BY <2>2, <3>1, <3>2 DEF Return
  <2>3. CASE ~ (IOPost \/ Return)
    BY <1>2, <1>3, <2>3 DEF IONext, PollWait, Lock, NextEvent, Unlock, ReadNothing, ReadLast,
       ReadBlock, ReadEnd, ReadSize, SetFlags, Dispatch, socks
  <2> QED BY <2>1, <2>2, <2>3
<1>4. CASE WorkerNext
  <2>1. ASSUME NEW s \in Socks, Pause(s) PROVE PauseConsistent'
    BY <2>1 DEF Pause, socks
  <2>2. ASSUME NEW s \in Socks, Resume(s) PROVE PauseConsistent'
    BY <2>2 DEF Resume, socks
  <2>3. ASSUME NEW s \in Socks, Close(s) PROVE PauseConsistent'
    BY <1>1, <2>3 DEF Close
  <2>4. CASE Notify
    BY <2>4 DEF Notify, WorkerReady, socks
  <2>5. CASE Wait \/ HasEvent \/ HandleSignal \/ PopHigh \/ PopData \/ PopLow \/ Skip
             \/ HandlerDispatch \/ HandlerReturn \/ CheckReady \/ ClearFlags
    BY <1>2, <2>5 DEF Wait, HasEvent, HandleSignal, PopHigh, PopData, PopLow, Enter, Skip,
       HandlerDispatch, HandlerReturn, CheckReady, ClearFlags, socks
  <2> QED BY <1>4, <2>1, <2>2, <2>3, <2>4, <2>5 DEF WorkerNext
<1>5. CASE DispatchTick
  BY <1>2, <1>5 DEF DispatchTick, socks
<1>6. ASSUME NEW a \in Async, AsyncComplete(a) PROVE PauseConsistent'
  BY <1>2, <1>6 DEF AsyncComplete
<1>7. ASSUME NEW x \in Signals, DispatchSignal(x) PROVE PauseConsistent'
  BY <1>2, <1>7 DEF DispatchSignal, socks
<1>8. ASSUME NEW t \in Threads \ {IO}, Post(t) PROVE PauseConsistent'
  BY <1>2, <1>8 DEF Post, socks
<1>9. CASE UNCHANGED vars
  BY <1>2, <1>9 DEF vars, socks
<1> QED BY <1>3, <1>4, <1>5, <1>6, <1>7, <1>8, <1>9 DEF Next

(* A socket is in the epoll set exactly when it is not paused, and paused  *)
(* exactly when it is on one of the two lists, whatever order pauses,      *)
(* resumes, overloads and closings come in.                                *)
THEOREM PausesAgree == Spec => []PauseConsistent
<1>1. Spec => []TypeInv
  BY InitType, TypeStep, PTL DEF Spec
<1> QED BY <1>1, InitPauses, PausesStep, PTL DEF Spec

-----------------------------------------------------------------------------
(* The order of delivery.                                                  *)

\* What waits in the two queues that carry events of the sources, and the
\* ticks, which wait in a queue of their own.
Mail == [src : Sources, num : Nat]
Sorted ==
    /\ highprioqueue \in Seq({Tick})
    /\ dataqueue \in Seq(Mail)
    /\ lowprioqueue \in Seq(Mail)

\* The numbers of the events of s in queue q.
Nums(q, s) == {q[i].num : i \in {j \in DOMAIN q : q[j].src = s}}

\* The events of one source are in q in the order of their numbers.
Rising(q) ==
    \A i, j \in DOMAIN q : i < j /\ q[i].src = q[j].src => q[i].num < q[j].num

\* What a source has sent and the worker has not handled is in the queues.
Waiting(s) ==
    /\ recv[s] <= sent[s]
    /\ Nums(dataqueue, s) \cup Nums(lowprioqueue, s) = (recv[s] + 1) .. sent[s]

\* A source has events in lowprioqueue only after its prio has dropped, so
\* they are younger than those it has in dataqueue.
Lowered(s) ==
    /\ Nums(lowprioqueue, s) # {} => s \in Socks /\ prio[s] = "low"
    /\ \A m \in Nums(dataqueue, s), n \in Nums(lowprioqueue, s) : m < n

\* The worker is about to pop lowprioqueue: dataqueue was empty when it looked,
\* and the socket of the event at the head has sent nothing there since.
Turn == wpc = "low" => Nums(dataqueue, Head(lowprioqueue).src) = {}

OrderInv ==
    /\ Sorted
    /\ Rising(dataqueue) /\ Rising(lowprioqueue)
    /\ \A s \in Sources : Waiting(s) /\ Lowered(s)
    /\ Turn

LEMMA NumsOf ==
    ASSUME NEW q, NEW s
    PROVE  \A n : n \in Nums(q, s) <=> \E i \in DOMAIN q : q[i].src = s /\ q[i].num = n
  BY DEF Nums

\* A younger event at the end keeps a queue rising.
LEMMA RisingAppend ==
    ASSUME NEW q \in Seq(Mail), NEW e \in Mail, Rising(q), \A n \in Nums(q, e.src) : n < e.num
    PROVE  /\ Append(q, e) \in Seq(Mail)
           /\ Rising(Append(q, e))
           /\ Nums(Append(q, e), e.src) = Nums(q, e.src) \cup {e.num}
           /\ \A s \in Sources : s # e.src => Nums(Append(q, e), s) = Nums(q, s)
           /\ q # <<>> => Head(Append(q, e)) = Head(q)
<1> DEFINE r == Append(q, e)
<1>1. /\ r \in Seq(Mail) /\ Len(q) \in Nat /\ Len(r) = Len(q) + 1
      /\ DOMAIN q = 1 .. Len(q) /\ DOMAIN r = 1 .. (Len(q) + 1)
      /\ r[Len(q) + 1] = e
      /\ \A i \in 1 .. Len(q) : r[i] = q[i]
  OBVIOUS
<1>2. q # <<>> => Head(r) = Head(q)
  OBVIOUS
<1> HIDE DEF r
<1>3. ASSUME NEW s
      PROVE  Nums(r, s) = Nums(q, s) \cup (IF e.src = s THEN {e.num} ELSE {})
  <2>1. ASSUME NEW n
        PROVE  n \in Nums(r, s)
               <=> n \in Nums(q, s) \/ (e.src = s /\ n = e.num)
    <3>1. DOMAIN r = DOMAIN q \cup {Len(q) + 1}
      BY <1>1
    <3>2. \A i \in DOMAIN q : r[i] = q[i]
      BY <1>1
    <3> QED BY <1>1, <3>1, <3>2, NumsOf
  <2> QED BY <2>1
<1>4. Rising(r)
  <2>1. ASSUME NEW i \in DOMAIN r, NEW j \in DOMAIN r, i < j, r[i].src = r[j].src
        PROVE  r[i].num < r[j].num
    <3>1. i \in DOMAIN q /\ r[i] = q[i]
      BY <1>1, <2>1
    <3>2. CASE j \in DOMAIN q
      BY <1>1, <2>1, <3>1, <3>2 DEF Rising
    <3>3. CASE j \notin DOMAIN q
      <4>1. r[j] = e
        BY <1>1, <3>3
      <4>2. q[i].num \in Nums(q, e.src)
        BY <2>1, <3>1, <4>1, NumsOf
      <4> QED BY <3>1, <4>1, <4>2
    <3> QED BY <3>2, <3>3
  <2> QED BY <2>1 DEF Rising
<1> QED BY <1>1, <1>2, <1>3, <1>4 DEF r

\* The head of a rising queue is the oldest of its source there.
LEMMA RisingTail ==
    ASSUME NEW q \in Seq(Mail), q # <<>>, Rising(q)
    PROVE  /\ Head(q) \in Mail
           /\ Tail(q) \in Seq(Mail)
           /\ Rising(Tail(q))
           /\ Head(q).num \in Nums(q, Head(q).src)
           /\ \A n \in Nums(q, Head(q).src) : Head(q).num <= n
           /\ Nums(Tail(q), Head(q).src) = Nums(q, Head(q).src) \ {Head(q).num}
           /\ \A s \in Sources : s # Head(q).src => Nums(Tail(q), s) = Nums(q, s)
<1> DEFINE r == Tail(q)  e == Head(q)
<1>1. /\ r \in Seq(Mail) /\ e \in Mail /\ Len(q) \in Nat /\ Len(q) >= 1
      /\ DOMAIN q = 1 .. Len(q) /\ DOMAIN r = 1 .. (Len(q) - 1)
      /\ e = q[1]
      /\ \A i \in DOMAIN q : q[i] \in Mail
      /\ \A i \in 1 .. (Len(q) - 1) : r[i] = q[i + 1]
  OBVIOUS
<1> HIDE DEF r, e
<1>2. e.num \in Nums(q, e.src)
  BY <1>1, NumsOf
<1>3. ASSUME NEW i \in DOMAIN q, i # 1, q[i].src = e.src
      PROVE  e.num < q[i].num
  <2>1. 1 \in DOMAIN q /\ 1 < i
    BY <1>1, <1>3
  <2>2. q[1].src = q[i].src
    BY <1>1, <1>3
  <2> QED BY <1>1, <2>1, <2>2 DEF Rising
<1>4. \A n \in Nums(q, e.src) : e.num <= n
  <2>1. ASSUME NEW n \in Nums(q, e.src) PROVE e.num <= n
    <3>1. PICK i \in DOMAIN q : q[i].src = e.src /\ q[i].num = n
      BY NumsOf
    <3>2. e.num \in Nat /\ n \in Nat
      BY <1>1, <3>1 DEF Mail
    <3>3. CASE i = 1
      BY <1>1, <3>1, <3>2, <3>3
    <3>4. CASE i # 1
      BY <1>3, <3>1, <3>2, <3>4
    <3> QED BY <3>3, <3>4
  <2> QED BY <2>1
<1>5. ASSUME NEW s
      PROVE  Nums(r, s) = IF s = e.src THEN Nums(q, s) \ {e.num} ELSE Nums(q, s)
  <2>1. ASSUME NEW n \in Nums(r, s)
        PROVE  n \in Nums(q, s) /\ (s = e.src => n # e.num)
    <3>1. PICK i \in DOMAIN r : r[i].src = s /\ r[i].num = n
      BY NumsOf
    <3>2. i + 1 \in DOMAIN q /\ i + 1 # 1 /\ q[i + 1] = r[i]
      BY <1>1
    <3>3. n \in Nums(q, s)
      BY <3>1, <3>2, NumsOf
    <3>4. e.num \in Nat /\ n \in Nat
      BY <1>1, <3>1, <3>2 DEF Mail
    <3> QED BY <1>3, <3>1, <3>2, <3>3, <3>4
  <2>2. ASSUME NEW n \in Nums(q, s), ~ (s = e.src /\ n = e.num)
        PROVE  n \in Nums(r, s)
    <3>1. PICK i \in DOMAIN q : q[i].src = s /\ q[i].num = n
      BY NumsOf
    <3>2. i # 1
      BY <1>1, <2>2, <3>1
    <3>3. i - 1 \in DOMAIN r /\ r[i - 1] = q[i]
      BY <1>1, <3>2
    <3> QED BY <3>1, <3>3, NumsOf
  <2> QED BY <2>1, <2>2
<1>6. Rising(r)
  <2>1. ASSUME NEW i \in DOMAIN r, NEW j \in DOMAIN r, i < j, r[i].src = r[j].src
        PROVE  r[i].num < r[j].num
    <3>1. /\ i + 1 \in DOMAIN q /\ q[i + 1] = r[i]
          /\ j + 1 \in DOMAIN q /\ q[j + 1] = r[j]
          /\ i + 1 < j + 1
      BY <1>1, <2>1
    <3> QED BY <2>1, <3>1 DEF Rising
  <2> QED BY <2>1 DEF Rising
<1> QED BY <1>1, <1>2, <1>4, <1>5, <1>6 DEF r, e

\* A socket's prio never goes back up.
Falling == \A s \in Socks : prio[s] = "low" => prio'[s] = "low"

\* A source dispatches to the queue its events must be in.
LEMMA PushOrder ==
    ASSUME WakeInv, OrderInv, NEW s \in Sources, NEW p, PushNext(s, p), Falling,
           p = "low" => s \in Socks /\ prio'[s] = "low",
           p # "low" => ~ (s \in Socks /\ prio[s] = "low"),
           UNCHANGED <<wpc, recv>>
    PROVE  OrderInv' /\ Delivery!Send(s)
<1> DEFINE e == NextOf(s)
<1>1. /\ e \in Mail /\ e.src = s /\ e.num = sent[s] + 1
      /\ sent \in [Sources -> Nat] /\ recv \in [Sources -> Nat]
      /\ sent' = [sent EXCEPT ![s] = @ + 1]
  BY DEF NextOf, Mail, WakeInv, TypeInv, TypeOK, PushNext
<1>2. Push(p, e)
  BY DEF PushNext
<1> HIDE DEF e
<1>3. Delivery!Send(s)
  BY <1>1 DEF Delivery!Send
<1>4. ASSUME NEW n \in Nums(dataqueue, s) \cup Nums(lowprioqueue, s)
      PROVE  n \in Nat /\ n < e.num
  BY <1>1, <1>4 DEF OrderInv, Waiting
<1>5. recv[s] + 1 .. sent[s] + 1 = (recv[s] + 1 .. sent[s]) \cup {e.num} /\ recv[s] <= sent[s] + 1
  <2>1. recv[s] <= sent[s] /\ recv[s] \in Nat /\ sent[s] \in Nat
    BY <1>1 DEF OrderInv, Waiting
  <2> QED BY <1>1, <2>1
<1>6. CASE p = "low"
  <2>1. PushLow(e)
    BY <1>2, <1>6 DEF Push
  <2>2. /\ lowprioqueue' \in Seq(Mail) /\ Rising(lowprioqueue')
        /\ Nums(lowprioqueue', s) = Nums(lowprioqueue, s) \cup {e.num}
        /\ \A t \in Sources : t # s => Nums(lowprioqueue', t) = Nums(lowprioqueue, t)
        /\ lowprioqueue # <<>> => Head(lowprioqueue') = Head(lowprioqueue)
    <3>1. \A n \in Nums(lowprioqueue, e.src) : n < e.num
      BY <1>1, <1>4
    <3>2. lowprioqueue \in Seq(Mail) /\ Rising(lowprioqueue) /\ e \in Mail
      BY <1>1 DEF OrderInv, Sorted
    <3>3. lowprioqueue' = Append(lowprioqueue, e)
      BY <2>1 DEF PushLow
    <3> QED BY <1>1, <3>1, <3>2, <3>3, RisingAppend, Zenon
  <2>3. dataqueue' = dataqueue /\ highprioqueue' = highprioqueue
    BY <2>1 DEF PushLow
  <2>4. ASSUME NEW t \in Sources PROVE Waiting(t)' /\ Lowered(t)'
    <3>1. CASE t = s
      <4>1. Waiting(t)'
        BY <1>1, <1>5, <2>2, <2>3, <3>1 DEF OrderInv, Waiting
      <4>2. Lowered(t)'
        BY <1>1, <1>4, <1>6, <2>2, <2>3, <3>1 DEF OrderInv, Lowered
      <4> QED BY <4>1, <4>2
    <3>2. CASE t # s
      BY <1>1, <2>2, <2>3, <3>2 DEF OrderInv, Waiting, Lowered, Falling
    <3> QED BY <3>1, <3>2
  <2>5. Turn'
    <3>1. wpc = "low" => lowprioqueue # <<>>
      BY Lengths DEF WakeInv, TypeInv, TypeOK, Reached
    <3> QED BY <2>2, <2>3, <3>1 DEF OrderInv, Turn
  <2> QED BY <1>3, <2>2, <2>3, <2>4, <2>5 DEF OrderInv, Sorted
<1>7. CASE p # "low"
  <2>1. PushData(e)
    BY <1>2, <1>7 DEF Push
  <2>2. /\ dataqueue' \in Seq(Mail) /\ Rising(dataqueue')
        /\ Nums(dataqueue', s) = Nums(dataqueue, s) \cup {e.num}
        /\ \A t \in Sources : t # s => Nums(dataqueue', t) = Nums(dataqueue, t)
    <3>1. \A n \in Nums(dataqueue, e.src) : n < e.num
      BY <1>1, <1>4
    <3>2. dataqueue \in Seq(Mail) /\ Rising(dataqueue) /\ e \in Mail
      BY <1>1 DEF OrderInv, Sorted
    <3>3. dataqueue' = Append(dataqueue, e)
      BY <2>1 DEF PushData
    <3> QED BY <1>1, <3>1, <3>2, <3>3, RisingAppend, Zenon
  <2>3. lowprioqueue' = lowprioqueue /\ highprioqueue' = highprioqueue
    BY <2>1 DEF PushData
  <2>4. Nums(lowprioqueue, s) = {}
    BY <1>7 DEF OrderInv, Lowered
  <2>5. ASSUME NEW t \in Sources PROVE Waiting(t)' /\ Lowered(t)'
    <3>1. CASE t = s
      <4>1. Waiting(t)'
        BY <1>1, <1>5, <2>2, <2>3, <3>1 DEF OrderInv, Waiting
      <4>2. Lowered(t)'
        BY <2>3, <2>4, <3>1 DEF Lowered
      <4> QED BY <4>1, <4>2
    <3>2. CASE t # s
      BY <1>1, <2>2, <2>3, <3>2 DEF OrderInv, Waiting, Lowered, Falling
    <3> QED BY <3>1, <3>2
  <2>6. Turn'
    <3>1. ASSUME wpc = "low" PROVE Head(lowprioqueue).src \in Sources \ {s}
      <4>1. lowprioqueue # <<>>
        BY <3>1, Lengths DEF WakeInv, TypeInv, TypeOK, Reached
      <4>2. /\ Head(lowprioqueue) \in Mail
            /\ Head(lowprioqueue).num \in Nums(lowprioqueue, Head(lowprioqueue).src)
        BY <4>1, RisingTail DEF OrderInv, Sorted
      <4> QED BY <2>4, <4>2 DEF Mail
    <3> QED BY <2>2, <2>3, <3>1 DEF OrderInv, Turn
  <2> QED BY <1>3, <2>2, <2>3, <2>5, <2>6 DEF OrderInv, Sorted
<1> QED BY <1>6, <1>7

\* The worker handles the oldest event that waits of some source.
LEMMA EnterOrder ==
    ASSUME TypeInv, OrderInv, NEW e \in Mail, Enter(e), UNCHANGED highprioqueue,
           dataqueue' \in Seq(Mail) /\ Rising(dataqueue'),
           lowprioqueue' \in Seq(Mail) /\ Rising(lowprioqueue'),
           e.num \in Nums(dataqueue, e.src) \cup Nums(lowprioqueue, e.src),
           \A n \in Nums(dataqueue, e.src) \cup Nums(lowprioqueue, e.src) : e.num <= n,
           Nums(dataqueue', e.src) = Nums(dataqueue, e.src) \ {e.num},
           Nums(lowprioqueue', e.src) = Nums(lowprioqueue, e.src) \ {e.num},
           \A s \in Sources : s # e.src => /\ Nums(dataqueue', s) = Nums(dataqueue, s)
                                           /\ Nums(lowprioqueue', s) = Nums(lowprioqueue, s)
    PROVE  OrderInv' /\ Delivery!Deliver(e.src)
<1> DEFINE s == e.src
<1>1. s \in Sources /\ e.num \in Nat
  BY DEF Mail
<1>2. /\ sent \in [Sources -> Nat] /\ recv \in [Sources -> Nat]
      /\ recv' = [recv EXCEPT ![s] = e.num] /\ sent' = sent /\ prio' = prio /\ wpc' = "handle"
  BY <1>1 DEF TypeInv, TypeOK, Enter, socks
<1>3. e.num = recv[s] + 1 /\ recv[s] < sent[s]
  <2>1. Nums(dataqueue, s) \cup Nums(lowprioqueue, s) = (recv[s] + 1) .. sent[s]
    BY <1>1 DEF OrderInv, Waiting
  <2>2. recv[s] \in Nat /\ sent[s] \in Nat
    BY <1>1, <1>2
  <2>3. e.num \in (recv[s] + 1) .. sent[s]
    BY <2>1
  <2>4. recv[s] + 1 \in Nums(dataqueue, s) \cup Nums(lowprioqueue, s)
    <3>1. recv[s] + 1 \in (recv[s] + 1) .. sent[s]
      BY <2>2, <2>3
    <3> QED BY <2>1, <3>1
  <2>5. e.num <= recv[s] + 1
    BY <2>4
  <2> QED BY <1>1, <2>2, <2>3, <2>5
<1>4. Delivery!Deliver(s)
  BY <1>1, <1>2, <1>3 DEF Delivery!Deliver
<1>5. ASSUME NEW t \in Sources PROVE Waiting(t)' /\ Lowered(t)'
  <2>1. CASE t = s
    <3>1. (recv[s] + 2) .. sent[s] = ((recv[s] + 1) .. sent[s]) \ {e.num}
      BY <1>1, <1>2, <1>3
    <3>2. recv'[s] = recv[s] + 1 /\ sent'[s] = sent[s] /\ recv[s] \in Nat /\ sent[s] \in Nat
      BY <1>1, <1>2, <1>3
    <3>3. recv'[s] + 1 = recv[s] + 2 /\ recv'[s] <= sent'[s]
      BY <1>3, <3>2
    <3>4. Nums(dataqueue', s) \cup Nums(lowprioqueue', s) = (recv[s] + 2) .. sent[s]
      BY <1>1, <3>1 DEF OrderInv, Waiting
    <3>5. Waiting(t)'
      BY <2>1, <3>2, <3>3, <3>4 DEF Waiting
    <3>6. Lowered(t)'
      BY <1>1, <1>2, <2>1 DEF OrderInv, Lowered
    <3> QED BY <3>5, <3>6
  <2>2. CASE t # s
    BY <1>1, <1>2, <2>2 DEF OrderInv, Waiting, Lowered
  <2> QED BY <2>1, <2>2
<1>6. Turn'
  BY <1>2 DEF Turn
<1> QED BY <1>4, <1>5, <1>6 DEF OrderInv, Sorted

\* A step that neither dispatches nor handles an event of a source.
LEMMA RestOrder ==
    ASSUME OrderInv, UNCHANGED <<dataqueue, lowprioqueue, sent, recv, prio>>,
           highprioqueue' \in Seq({Tick}), Turn'
    PROVE  OrderInv' /\ UNCHANGED <<sent, recv>>
  BY DEF OrderInv, Sorted, Waiting, Lowered

LEMMA InitOrder == Init => OrderInv
<1> SUFFICES ASSUME Init PROVE OrderInv
  OBVIOUS
<1>1. \A s : Nums(<<>>, s) = {}
  BY DEF Nums
<1>2. \A s \in Sources : Waiting(s) /\ Lowered(s)
  BY <1>1 DEF Init, Waiting, Lowered
<1> QED BY <1>1, <1>2 DEF Init, OrderInv, Sorted, Rising, Turn

\* Every step keeps OrderInv, and is a step of OrderedDelivery or leaves sent
\* and recv as they are.
Ordered == OrderInv' /\ [Delivery!Next]_<<sent, recv>>

LEMMA OrderStep == WakeInv /\ OrderInv /\ [Next]_vars => Ordered
<1> SUFFICES ASSUME WakeInv, OrderInv, [Next]_vars PROVE Ordered
  OBVIOUS
<1>1. ASSUME OrderInv', UNCHANGED <<sent, recv>> PROVE Ordered
  BY <1>1 DEF Ordered
<1>2. ASSUME NEW s \in Sources, OrderInv', Delivery!Send(s) \/ Delivery!Deliver(s) PROVE Ordered
  BY <1>2 DEF Ordered, Delivery!Next
<1>3. ASSUME UNCHANGED <<queues, sent, recv, prio>>, wpc' = "low" => wpc = "low" PROVE Ordered
  <2>1. highprioqueue' \in Seq({Tick}) /\ Turn'
    BY <1>3 DEF OrderInv, Sorted, Turn, queues
  <2> QED BY <1>1, <1>3, <2>1, RestOrder DEF queues
<1>4. prio \in [Socks -> {"normal", "low"}] /\ (prio' = prio => Falling)
  BY DEF WakeInv, TypeInv, TypeOK, Falling
<1>5. CASE IONext
  <2>1. UNCHANGED wpc
    BY <1>5 DEF IONext, PollWait, Lock, NextEvent, Unlock, ReadNothing, ReadLast, ReadBlock,
                ReadEnd, IOPost, ReadSize, SetFlags, Return, Dispatch
  <2>2. ASSUME NEW next, Dispatch(prio'[cur], next), cur \in Socks, Falling PROVE Ordered
    <3>1. cur \in Sources
      BY <2>2 DEF Sources
    <3>2. PushNext(cur, prio'[cur]) /\ UNCHANGED recv
      BY <2>2 DEF Dispatch
    <3>3. OrderInv' /\ Delivery!Send(cur)
      BY <2>1, <2>2, <3>1, <3>2, PushOrder DEF Falling
    <3> QED BY <1>2, <3>1, <3>3
  <2>3. CASE ReadLast \/ ReadEnd
    BY <1>4, <2>2, <2>3 DEF ReadLast, ReadEnd, WakeInv, TypeInv, CurOK
  <2>4. CASE ReadBlock
    <3>1. Falling /\ cur \in Socks
      BY <1>4, <2>4 DEF ReadBlock, Falling, WakeInv, TypeInv, CurOK
    <3> QED BY <2>2, <2>4, <3>1 DEF ReadBlock
  <2>5. CASE ~ (ReadLast \/ ReadEnd \/ ReadBlock)
    <3>1. UNCHANGED <<queues, sent, recv, prio>>
      BY <1>5, <2>5 DEF IONext, PollWait, Lock, NextEvent, Unlock, ReadNothing, IOPost, ReadSize,
                        SetFlags, Return, socks
    <3> QED BY <1>3, <2>1, <3>1
  <2> QED BY <2>3, <2>4, <2>5
<1>6. CASE WorkerNext
  <2>1. CASE PopHigh
    <3>1. Head(highprioqueue) = Tick /\ highprioqueue' \in Seq({Tick})
      BY <2>1 DEF PopHigh, OrderInv, Sorted
    <3>2. UNCHANGED <<dataqueue, lowprioqueue, sent, recv, prio>> /\ wpc' = "handle"
      BY <2>1, <3>1 DEF PopHigh, Enter, Tick, socks
    <3> QED BY <1>1, <3>1, <3>2, RestOrder DEF Turn
  <2>2. CASE PopData
    <3> DEFINE e == Head(dataqueue)
    <3>1. /\ dataqueue # <<>> /\ dataqueue' = Tail(dataqueue)
          /\ UNCHANGED <<highprioqueue, lowprioqueue>> /\ Enter(e)
      BY <2>2 DEF PopData
    <3>2. /\ e \in Mail /\ dataqueue' \in Seq(Mail) /\ Rising(dataqueue')
          /\ e.num \in Nums(dataqueue, e.src)
          /\ \A n \in Nums(dataqueue, e.src) : e.num <= n
          /\ Nums(dataqueue', e.src) = Nums(dataqueue, e.src) \ {e.num}
          /\ \A s \in Sources : s # e.src => Nums(dataqueue', s) = Nums(dataqueue, s)
      BY <3>1, RisingTail DEF OrderInv, Sorted
    <3> HIDE DEF e
    <3>3. e.src \in Sources /\ e.num \in Nat
      BY <3>2 DEF Mail
    <3>4. \A n \in Nums(lowprioqueue, e.src) : e.num < n /\ n \in Int
      BY <3>2, <3>3 DEF OrderInv, Lowered, Waiting
    <3>5. OrderInv' /\ Delivery!Deliver(e.src)
      <4>1. /\ Nums(lowprioqueue', e.src) = Nums(lowprioqueue, e.src) \ {e.num}
            /\ \A n \in Nums(dataqueue, e.src) \cup Nums(lowprioqueue, e.src) : e.num <= n
        BY <3>1, <3>2, <3>3, <3>4
      <4> QED BY <3>1, <3>2, <4>1, EnterOrder DEF WakeInv, OrderInv, Sorted
    <3> QED BY <1>2, <3>3, <3>5
  <2>3. CASE PopLow
    <3> DEFINE e == Head(lowprioqueue)
    <3>1. /\ lowprioqueue # <<>> /\ lowprioqueue' = Tail(lowprioqueue)
          /\ UNCHANGED <<highprioqueue, dataqueue>> /\ Enter(e)
          /\ Nums(dataqueue, e.src) = {}
      BY <2>3 DEF PopLow, OrderInv, Turn
    <3>2. /\ e \in Mail /\ lowprioqueue' \in Seq(Mail) /\ Rising(lowprioqueue')
          /\ e.num \in Nums(lowprioqueue, e.src)
          /\ \A n \in Nums(lowprioqueue, e.src) : e.num <= n
          /\ Nums(lowprioqueue', e.src) = Nums(lowprioqueue, e.src) \ {e.num}
          /\ \A s \in Sources : s # e.src => Nums(lowprioqueue', s) = Nums(lowprioqueue, s)
      BY <3>1, RisingTail DEF OrderInv, Sorted
    <3> HIDE DEF e
    <3>3. e.src \in Sources
      BY <3>2 DEF Mail
    <3>4. OrderInv' /\ Delivery!Deliver(e.src)
      BY <3>1, <3>2, EnterOrder DEF WakeInv, OrderInv, Sorted
    <3> QED BY <1>2, <3>3, <3>4
  <2>4. CASE HandlerDispatch
    <3>1. PushNext(Worker, "normal") /\ UNCHANGED <<wpc, recv, prio>>
      BY <2>4 DEF HandlerDispatch
    <3>2. Worker \in Sources /\ Worker \notin Socks
      BY DEF Sources, Threads
    <3>3. OrderInv' /\ Delivery!Send(Worker)
      BY <1>4, <3>1, <3>2, PushOrder
    <3> QED BY <1>2, <3>2, <3>3
  <2>5. CASE Skip
    <3>1. UNCHANGED <<queues, sent, recv, prio>>
      BY <2>5 DEF Skip, socks
    <3>2. highprioqueue' \in Seq({Tick})
      BY <3>1 DEF OrderInv, Sorted, queues
    <3>3. Turn'
      BY <2>5, <3>1 DEF Skip, Turn, Nums, queues
    <3> QED BY <1>1, <3>1, <3>2, <3>3, RestOrder DEF queues
  <2>6. CASE Wait \/ HasEvent \/ HandleSignal \/ HandlerReturn \/ CheckReady \/ ClearFlags
             \/ Notify \/ \E s \in Socks : Pause(s) \/ Resume(s) \/ Close(s)
    <3>1. UNCHANGED <<queues, sent, recv, prio>> /\ wpc' # "low"
      BY <2>6 DEF Wait, HasEvent, HandleSignal, HandlerReturn, CheckReady, ClearFlags, Notify,
                  Pause, Resume, Close, socks
    <3> QED BY <1>3, <3>1
  <2> QED BY <1>6, <2>1, <2>2, <2>3, <2>4, <2>5, <2>6 DEF WorkerNext
<1>7. CASE DispatchTick
  <2>1. highprioqueue' \in Seq({Tick})
    BY <1>7 DEF DispatchTick, PushHigh, OrderInv, Sorted
  <2>2. UNCHANGED <<dataqueue, lowprioqueue, sent, recv, prio, wpc>>
    BY <1>7 DEF DispatchTick, PushHigh, socks
  <2> QED BY <1>1, <2>1, <2>2, RestOrder DEF OrderInv, Turn
<1>8. ASSUME NEW a \in Async, AsyncComplete(a) PROVE Ordered
  <2>1. PushNext(a, "normal") /\ UNCHANGED <<wpc, recv, prio>>
    BY <1>8 DEF AsyncComplete
  <2>2. a \in Sources /\ a \notin Socks
    BY DEF Sources, Threads
  <2>3. OrderInv' /\ Delivery!Send(a)
    BY <1>4, <2>1, <2>2, PushOrder
  <2> QED BY <1>2, <2>2, <2>3
<1>9. ASSUME NEW x \in Signals, DispatchSignal(x) PROVE Ordered
  BY <1>3, <1>9 DEF DispatchSignal, socks
<1>10. ASSUME NEW t \in Threads \ {IO}, Post(t) PROVE Ordered
  BY <1>3, <1>10 DEF Post, socks
<1>11. CASE UNCHANGED vars
  BY <1>3, <1>11 DEF vars, socks
<1> QED BY <1>5, <1>6, <1>7, <1>8, <1>9, <1>10, <1>11 DEF Next

(* The queues implement OrderedDelivery: each event a source dispatched is *)
(* handled once and in its turn, although a socket's prio may drop while   *)
(* its earlier events wait in the other queue.                             *)
THEOREM DeliveredInOrder == Spec => InOrder
<1>1. Init => Delivery!Init
  BY DEF Init, Delivery!Init
<1>2. Spec => []WakeInv
  BY InitWake, WakeStep, PTL DEF Spec
<1>3. WakeInv /\ OrderInv /\ [Next]_vars => OrderInv' /\ [Delivery!Next]_<<sent, recv>>
  BY OrderStep DEF Ordered
<1> QED BY <1>1, <1>2, <1>3, InitOrder, PTL DEF Spec, InOrder, Delivery!Spec

-----------------------------------------------------------------------------
(* Back-pressure: the hypotheses under which reading stops in time.  The   *)
(* sockets are read once per event, there are finitely many of them, and   *)
(* READY_SIZE is below OVERLOAD_SIZE.                                      *)
Plain == TLS = {} /\ IsFiniteSet(Socks) /\ ReadySize < OverloadSize

\* Events of sockets that wait.
Load == SockEvents(dataqueue) + SockEvents(lowprioqueue)

\* The socket being handled has dispatched its event and will be paused for it.
Counted == iopc \in {"post", "size"} \/ (iopc = "return" /\ overloaded)

\* The sockets that may still dispatch one more event before they are paused.
Free == (open \ autopaused) \ (IF Counted THEN {cur} ELSE {})

\* How far the queue may fill: the worker found it drained, then cleared the
\* flags, then had the sockets read again.
Allowed ==
    CASE wpc = "clear"  -> OverloadSize - 1 + Cardinality(Socks)
      [] wpc = "notify" -> OverloadSize + Cardinality(Socks)
      [] OTHER          -> OverloadSize + 2 * Cardinality(Socks)

\* No socket's prio drops, and none is read twice for one event.
OnceEach ==
    /\ \A s \in Socks : prio[s] = "normal"
    /\ lowprioqueue = <<>>
    /\ iopc # "after" /\ last # "more"
    /\ iopc \in {"size", "return"} => last = "stop"

\* A socket that is paused for overload is not about to be handled.
Handling ==
    /\ iopc \in {"read", "post", "size", "return"} => cur \in (open \ autopaused) \ batch
    /\ batch \cap open \cap autopaused = {}

\* overload() has seen the data queue; if that was not enough, it was not full.
Sized == iopc = "size" /\ "data" \notin unread => total >= OverloadSize \/ Load < OverloadSize

Room == Load + Cardinality(Free) <= Allowed

BoundInv == Room /\ OnceEach /\ Handling /\ Sized

\* Counting the events of sockets in a queue.
LEMMA CountBounds ==
    ASSUME NEW q \in Seq(Events)
    PROVE  SockEvents(q) \in Nat /\ SockEvents(q) <= Len(q)
<1> DEFINE S == {i \in DOMAIN q : q[i].src \in Socks}
<1>1. Len(q) \in Nat /\ S \in SUBSET (1 .. Len(q))
  OBVIOUS
<1>2. IsFiniteSet(1 .. Len(q)) /\ Cardinality(1 .. Len(q)) = Len(q)
  <2>1. Cardinality(1 .. Len(q)) = IF 1 > Len(q) THEN 0 ELSE Len(q) - 1 + 1
    BY <1>1, FS_Interval
  <2> QED BY <1>1, <2>1, FS_Interval
<1>3. IsFiniteSet(S) /\ Cardinality(S) <= Len(q)
  BY <1>1, <1>2, FS_Subset
<1>4. Cardinality(S) \in Nat
  BY <1>3, FS_CardinalityType
<1> QED BY <1>3, <1>4 DEF SockEvents

LEMMA CountAppend ==
    ASSUME NEW q \in Seq(Events), NEW e \in Events
    PROVE  SockEvents(Append(q, e))
             = IF e.src \in Socks THEN SockEvents(q) + 1 ELSE SockEvents(q)
<1> DEFINE S == {i \in DOMAIN q : q[i].src \in Socks}
           r == Append(q, e)
           T == {i \in DOMAIN r : r[i].src \in Socks}
<1>1. /\ Len(q) \in Nat /\ DOMAIN q = 1 .. Len(q) /\ DOMAIN r = 1 .. (Len(q) + 1)
      /\ r[Len(q) + 1] = e /\ \A i \in 1 .. Len(q) : r[i] = q[i]
  OBVIOUS
<1> HIDE DEF r
<1>2. IsFiniteSet(S) /\ Len(q) + 1 \notin S
  <2>1. S \in SUBSET (1 .. Len(q)) /\ IsFiniteSet(1 .. Len(q))
    BY <1>1, FS_Interval
  <2> QED BY <1>1, <2>1, FS_Subset
<1>3. T = IF e.src \in Socks THEN S \cup {Len(q) + 1} ELSE S
  BY <1>1
<1>4. Cardinality(T) = IF e.src \in Socks THEN Cardinality(S) + 1 ELSE Cardinality(S)
  <2> HIDE DEF S, T
  <2> QED BY <1>2, <1>3, FS_AddElement
<1> QED BY <1>4 DEF SockEvents, r

LEMMA CountTail ==
    ASSUME NEW q \in Seq(Events), q # <<>>
    PROVE  SockEvents(Tail(q)) <= SockEvents(q)
<1> DEFINE S == {i \in DOMAIN q : q[i].src \in Socks}
           r == Tail(q)
           T == {i \in DOMAIN r : r[i].src \in Socks}
           f == [i \in T |-> i + 1]
<1>1. /\ Len(q) \in Nat /\ DOMAIN q = 1 .. Len(q) /\ DOMAIN r = 1 .. (Len(q) - 1)
      /\ \A i \in 1 .. (Len(q) - 1) : r[i] = q[i + 1]
  OBVIOUS
<1> HIDE DEF r
<1>2. IsFiniteSet(S)
  <2>1. S \in SUBSET (1 .. Len(q)) /\ IsFiniteSet(1 .. Len(q))
    BY <1>1, FS_Interval
  <2> QED BY <2>1, FS_Subset
<1>3. f \in Injection(T, S)
  <2>1. f \in [T -> S]
    BY <1>1
  <2>2. \A i, j \in T : f[i] = f[j] => i = j
    BY <1>1
  <2> QED BY <2>1, <2>2 DEF Injection, IsInjective
<1>4. Cardinality(T) <= Cardinality(S)
  <2> HIDE DEF S, T, f
  <2> QED BY <1>2, <1>3, FS_Injection
<1> QED BY <1>4 DEF SockEvents, r

LEMMA SubsetCounts ==
    ASSUME Plain, NEW S \in SUBSET Socks
    PROVE  /\ IsFiniteSet(S) /\ Cardinality(S) \in Nat
           /\ Cardinality(Socks) \in Nat /\ Cardinality(S) <= Cardinality(Socks)
  BY FS_Subset, FS_CardinalityType DEF Plain

\* The numbers that Room compares.
Numbers ==
    /\ Load \in Nat /\ Cardinality(Free) \in Nat
    /\ IsFiniteSet(Free) /\ Cardinality(Free) <= Cardinality(Socks)
    /\ Cardinality(Socks) \in Nat /\ OverloadSize \in Nat /\ OverloadSize >= 1

LEMMA NumbersType == ASSUME Plain, TypeInv, TypeInv' PROVE Numbers /\ Numbers'
<1>1. Free \in SUBSET Socks /\ Free' \in SUBSET Socks
  BY DEF TypeInv, TypeOK, Free
<1>2. Load \in Nat /\ Load' \in Nat
  BY CountBounds DEF TypeInv, TypeOK, Load
<1>3. OverloadSize >= 1
  BY DEF Plain
<1> HIDE DEF Plain
<1> QED BY <1>1, <1>2, <1>3, SubsetCounts DEF Numbers

\* With fewer than OVERLOAD_SIZE events of sockets there is room for one of
\* each socket, wherever the worker is.
LEMMA Slack == ASSUME Numbers', Load' < OverloadSize PROVE Room'
<1> USE DEF Numbers
<1>1. CASE wpc' = "clear"
  BY <1>1 DEF Room, Allowed
<1>2. CASE wpc' = "notify"
  BY <1>2 DEF Room, Allowed
<1>3. CASE wpc' \notin {"clear", "notify"}
  BY <1>3 DEF Room, Allowed
<1> QED BY <1>1, <1>2, <1>3

LEMMA Shrinks ==
    ASSUME Numbers, Numbers', Room, Load' <= Load, Free' \subseteq Free,
           wpc' = wpc \/ {wpc, wpc'} \cap {"clear", "notify"} = {}
    PROVE  Room'
<1>1. Cardinality(Free') <= Cardinality(Free)
  BY FS_Subset DEF Numbers
<1>2. Allowed' = Allowed
  <2>1. CASE wpc' = wpc
    BY <2>1 DEF Allowed
  <2>2. CASE wpc' # wpc
    <3>1. wpc \notin {"clear", "notify"} /\ wpc' \notin {"clear", "notify"}
      BY <2>2
    <3> QED BY <3>1 DEF Allowed
  <2> QED BY <2>1, <2>2
<1>3. Allowed \in Int
  BY DEF Allowed, Numbers
<1> QED BY <1>1, <1>2, <1>3 DEF Room, Numbers

\* A step beside the IO thread that adds no event of a socket.
LEMMA SidelineKeeps ==
    ASSUME BoundInv, Numbers, Numbers', UNCHANGED <<iovars, prio, overloaded>>,
           UNCHANGED <<open, autopaused>>, lowprioqueue' = <<>>, Load' <= Load,
           wpc' = wpc \/ {wpc, wpc'} \cap {"clear", "notify"} = {}
    PROVE  BoundInv'
<1>1. UNCHANGED <<iopc, batch, cur, last, unread, total>>
  BY DEF iovars, locals
<1>2. Free' = Free
  BY <1>1 DEF Free, Counted
<1>3. Room'
  BY <1>2, Shrinks DEF BoundInv
<1>4. OnceEach' /\ Handling'
  BY <1>1 DEF BoundInv, OnceEach, Handling
<1>5. Sized'
  BY <1>1 DEF BoundInv, Sized, Numbers
<1> QED BY <1>3, <1>4, <1>5 DEF BoundInv

\* What a dispatch adds.
LEMMA PushCounts ==
    ASSUME TypeInv, lowprioqueue = <<>>, NEW s \in Sources, PushNext(s, "normal")
    PROVE  /\ lowprioqueue' = <<>>
           /\ Load' = IF s \in Socks THEN Load + 1 ELSE Load
<1>1. NextOf(s) \in Events /\ NextOf(s).src = s
  BY DEF TypeInv, TypeOK, NextOf, Events
<1>2. dataqueue' = Append(dataqueue, NextOf(s)) /\ lowprioqueue' = lowprioqueue
  BY DEF PushNext, Push, PushData
<1>3. SockEvents(dataqueue') = IF s \in Socks THEN SockEvents(dataqueue) + 1
                                              ELSE SockEvents(dataqueue)
  BY <1>1, <1>2, CountAppend DEF TypeInv, TypeOK
<1>4. SockEvents(dataqueue) \in Nat /\ SockEvents(lowprioqueue) \in Nat
  BY CountBounds DEF TypeInv, TypeOK
<1> QED BY <1>2, <1>3, <1>4 DEF Load

LEMMA InitBound == ASSUME Plain PROVE Init => BoundInv
<1> SUFFICES ASSUME Init PROVE BoundInv
  OBVIOUS
<1>1. SockEvents(<<>>) = 0
  <2>1. {i \in DOMAIN <<>> : <<>>[i].src \in Socks} = {}
    OBVIOUS
  <2> QED BY <2>1, FS_EmptySet DEF SockEvents
<1>2. Load = 0 /\ Free = Socks
  BY <1>1 DEF Init, Load, Free, Counted
<1>3. Cardinality(Socks) \in Nat /\ OverloadSize \in Nat
  BY FS_CardinalityType DEF Plain
<1>4. Room
  BY <1>2, <1>3 DEF Init, Room, Allowed
<1> QED BY <1>4 DEF Init, BoundInv, OnceEach, Handling, Sized

\* A step of the IO thread that changes no queue and lets nothing more in.
LEMMA ReaderKeeps ==
    ASSUME BoundInv, Numbers, Numbers', UNCHANGED <<queues, wpc, prio>>, Free' \subseteq Free
    PROVE  Room' /\ Load' = Load /\ lowprioqueue' = <<>> /\ prio' = prio
<1>1. Load' = Load
  BY DEF Load, queues
<1>2. Room'
  BY <1>1, Shrinks DEF BoundInv, Numbers
<1> QED BY <1>1, <1>2 DEF BoundInv, OnceEach, queues

LEMMA IOBound ==
    ASSUME Plain, TypeInv, PauseConsistent, BoundInv, Numbers, Numbers', IONext
    PROVE  BoundInv'
<1> USE DEF BoundInv
<1>0. UNCHANGED wpc
  BY DEF IONext, PollWait, Lock, NextEvent, Unlock, ReadNothing, ReadLast, ReadBlock, ReadEnd,
         IOPost, ReadSize, SetFlags, Return, Dispatch
<1>1. CASE PollWait
  <2>1. UNCHANGED <<queues, prio, last, open, autopaused>> /\ iopc = "poll" /\ iopc' = "lock"
    BY <1>1 DEF PollWait, locals, pauses, socks
  <2>2. Free' \subseteq Free
    BY <2>1 DEF Free, Counted
  <2>3. Handling'
    <3>1. batch' \subseteq polled
      BY <1>1 DEF PollWait
    <3>2. polled \cap open \cap autopaused = {}
      BY DEF PauseConsistent, TypeInv, TypeOK
    <3> QED BY <2>1, <3>1, <3>2 DEF Handling
  <2> QED BY <1>0, <2>1, <2>2, <2>3, ReaderKeeps DEF OnceEach, Sized
<1>2. CASE Lock
  <2>1. /\ UNCHANGED <<queues, prio, last, open, autopaused, batch>>
        /\ iopc = "lock" /\ iopc' = "next"
    BY <1>2 DEF Lock, locals, pauses, socks
  <2>2. Free' \subseteq Free
    BY <2>1 DEF Free, Counted
  <2> QED BY <1>0, <2>1, <2>2, ReaderKeeps DEF OnceEach, Sized, Handling
<1>3. CASE NextEvent
  <2>1. /\ UNCHANGED <<queues, prio, last, open, autopaused>>
        /\ iopc = "next" /\ iopc' \in {"next", "read"}
    BY <1>3 DEF NextEvent, pauses, socks
  <2>2. Free' \subseteq Free
    BY <2>1 DEF Free, Counted
  <2>3. Handling'
    <3>1. PICK s \in batch :
             /\ batch' = batch \ {s}
             /\ iopc' = "read" => s \in open /\ cur' = s
      BY <1>3, <2>1 DEF NextEvent
    <3>2. s \in open => s \notin autopaused
      BY DEF Handling
    <3> QED BY <2>1, <3>1, <3>2 DEF Handling
  <2> QED BY <1>0, <2>1, <2>2, <2>3, ReaderKeeps DEF OnceEach, Sized
<1>4. CASE Unlock
  <2>1. /\ UNCHANGED <<queues, prio, last, open, autopaused, batch>>
        /\ iopc = "next" /\ iopc' = "poll"
    BY <1>4 DEF Unlock, locals, pauses, socks
  <2>2. Free' \subseteq Free
    BY <2>1 DEF Free, Counted
  <2> QED BY <1>0, <2>1, <2>2, ReaderKeeps DEF OnceEach, Sized, Handling
<1>5. CASE ReadNothing
  <2>1. /\ UNCHANGED <<queues, prio, open, autopaused, batch>>
        /\ iopc \in {"read", "after"} /\ iopc' = "next" /\ last' = "stop"
    BY <1>5 DEF ReadNothing, Handled, pauses, socks
  <2>2. Free' \subseteq Free
    BY <2>1 DEF Free, Counted
  <2> QED BY <1>0, <2>1, <2>2, ReaderKeeps DEF OnceEach, Sized, Handling
<1>6. CASE ReadLast \/ ReadEnd
  <2>1. PICK next \in {"stop", "close"} : Dispatch(prio[cur], next) /\ prio' = prio
    BY <1>6 DEF ReadLast, ReadEnd
  <2>2. /\ iopc = "read" /\ iopc' = "post" /\ last' = next
        /\ UNCHANGED <<open, autopaused, batch, cur>>
    BY <1>6, <2>1 DEF ReadLast, ReadEnd, Dispatch, OnceEach, pauses
  <2>3. cur \in Socks /\ cur \in Sources /\ cur \in open \ autopaused
    BY <2>2 DEF Handling, TypeInv, CurOK, Sources
  <2>4. lowprioqueue' = <<>> /\ Load' = Load + 1
    <3>1. PushNext(cur, "normal")
      BY <2>1, <2>3 DEF Dispatch, OnceEach
    <3> QED BY <2>3, <3>1, PushCounts DEF OnceEach
  <2>5. cur \in Free /\ Free' = Free \ {cur}
    BY <2>2, <2>3 DEF Free, Counted
  <2>6. Room'
    <3>1. Cardinality(Free') = Cardinality(Free) - 1
      BY <2>5, FS_RemoveElement DEF Numbers
    <3>2. Allowed' = Allowed
      BY <1>0 DEF Allowed
    <3>3. Allowed \in Int
      BY DEF Allowed, Numbers
    <3> QED BY <2>4, <3>1, <3>2, <3>3 DEF Room, Numbers
  <2> QED BY <2>1, <2>2, <2>4, <2>6 DEF OnceEach, Sized, Handling
<1>7. CASE ReadBlock
  BY <1>7 DEF ReadBlock, Plain
<1>8. CASE IOPost
  <2>1. UNCHANGED <<queues, prio, batch>> /\ iopc = "post"
    BY <1>8 DEF IOPost
  <2>2. CASE last = "close"
    <3>1. /\ open' = open \ {cur} /\ autopaused' = autopaused \ {cur}
          /\ iopc' = "next" /\ last' = "stop"
      BY <1>8, <2>2 DEF IOPost, Closed, Handled
    <3>2. Free' \subseteq Free
      BY <2>1, <3>1 DEF Free, Counted
    <3> QED BY <1>0, <2>1, <3>1, <3>2, ReaderKeeps DEF OnceEach, Sized, Handling
  <2>3. CASE last # "close"
    <3>1. /\ iopc' = "size" /\ UNCHANGED <<cur, last, open, autopaused>>
          /\ "data" \in unread'
      BY <1>8, <2>3 DEF IOPost, pauses
    <3>2. Free' \subseteq Free
      BY <2>1, <3>1 DEF Free, Counted
    <3>3. last' = "stop"
      BY <2>3, <3>1 DEF OnceEach, TypeInv, TypeOK
    <3> QED BY <1>0, <2>1, <3>1, <3>2, <3>3, ReaderKeeps DEF OnceEach, Sized, Handling
  <2> QED BY <2>2, <2>3
<1>9. CASE ReadSize
  <2>1. /\ UNCHANGED <<queues, prio, batch, cur, last, open, autopaused, iopc>>
        /\ iopc = "size"
    BY <1>9 DEF ReadSize, pauses, socks
  <2>2. Free' \subseteq Free
    BY <2>1 DEF Free, Counted
  <2>3. Room' /\ Load' = Load /\ lowprioqueue' = <<>> /\ prio' = prio
    BY <1>0, <2>1, <2>2, ReaderKeeps
  <2>4. Sized'
    <3>1. PICK q \in unread : total' = total + Sizes[q] /\ unread' = unread \ {q}
      BY <1>9 DEF ReadSize
    <3>2. total \in Nat /\ Sizes[q] \in Nat
      BY <3>1 DEF TypeInv, TypeOK, Sizes
    <3>3. CASE q = "data"
      <4>1. Sizes[q] = Len(dataqueue) /\ Len(dataqueue) \in Nat
        BY <3>3 DEF Sizes, TypeInv, TypeOK
      <4>2. /\ SockEvents(dataqueue) \in Nat /\ SockEvents(dataqueue) <= Len(dataqueue)
            /\ SockEvents(lowprioqueue) \in Nat /\ SockEvents(lowprioqueue) <= 0
        BY CountBounds DEF OnceEach, TypeInv, TypeOK
      <4>3. Load <= Len(dataqueue)
        BY <4>1, <4>2 DEF Load
      <4> QED BY <2>3, <3>1, <3>2, <4>1, <4>3 DEF Sized, Numbers
    <3>4. CASE q # "data"
      <4>1. "data" \notin unread' => "data" \notin unread
        BY <3>1, <3>4
      <4>2. total' >= total
        BY <3>1, <3>2
      <4> QED BY <2>1, <2>3, <3>1, <3>2, <4>1, <4>2 DEF Sized, Numbers
    <3> QED BY <3>3, <3>4
  <2> QED BY <2>1, <2>3, <2>4 DEF OnceEach, Handling
<1>10. CASE SetFlags
  <2>1. /\ UNCHANGED <<queues, prio, batch, cur, last, open, autopaused>>
        /\ iopc = "size" /\ iopc' = "return" /\ unread = {}
        /\ overloaded' = (overloaded \/ (prio[cur] # "low" /\ total >= OverloadSize))
    BY <1>10 DEF SetFlags, pauses, socks
  <2>2. Load' = Load /\ lowprioqueue' = <<>> /\ prio' = prio
    BY <2>1 DEF Load, OnceEach, queues
  <2>3. prio[cur] = "normal"
    BY <2>1 DEF OnceEach, TypeInv, CurOK
  <2>4. Room'
    <3>1. CASE overloaded'
      <4>1. Free' \subseteq Free
        BY <2>1, <3>1 DEF Free, Counted
      <4> QED BY <1>0, <2>1, <4>1, ReaderKeeps
    <3>2. CASE ~ overloaded'
      <4>1. Load' < OverloadSize
        BY <2>1, <2>2, <2>3, <3>2 DEF Sized
      <4> QED BY <4>1, Slack
    <3> QED BY <3>1, <3>2
  <2> QED BY <2>1, <2>2, <2>4 DEF OnceEach, Sized, Handling
<1>11. CASE Return
  <2>1. UNCHANGED <<queues, prio, batch, open, overloaded>> /\ iopc = "return"
    BY <1>11 DEF Return, flags, socks
  <2>2. last = "stop" /\ prio[cur] = "normal" /\ cur \in (open \ autopaused) \ batch
    BY <2>1 DEF OnceEach, Handling, TypeInv, CurOK
  <2>3. iopc' = "next" /\ last' = "stop"
    BY <1>11 DEF Return, Plain, Handled, TypeInv, CurOK
  <2>4. autopaused' = IF overloaded THEN autopaused \cup {cur} ELSE autopaused
    <3>1. CASE overloaded
      BY <1>11, <2>2, <3>1 DEF Return, AutoPause
    <3>2. CASE ~ overloaded
      BY <1>11, <2>2, <3>2 DEF Return, pauses
    <3> QED BY <3>1, <3>2
  <2>5. Free' \subseteq Free
    BY <2>1, <2>3, <2>4 DEF Free, Counted
  <2>6. Handling'
    BY <2>1, <2>2, <2>3, <2>4 DEF Handling
  <2> QED BY <1>0, <2>1, <2>3, <2>5, <2>6, ReaderKeeps DEF OnceEach, Sized
<1> QED BY <1>1, <1>2, <1>3, <1>4, <1>5, <1>6, <1>7, <1>8, <1>9, <1>10, <1>11 DEF IONext

LEMMA WorkerBound ==
    ASSUME Plain, TypeInv, BoundInv, Numbers, Numbers', WorkerNext
    PROVE  BoundInv'
<1>1. UNCHANGED <<iovars, prio>>
  BY DEF WorkerNext, Wait, HasEvent, HandleSignal, PopHigh, PopData, PopLow, Enter, Skip,
         HandlerDispatch, HandlerReturn, CheckReady, ClearFlags, Notify, Pause, Resume, Close,
         socks
<1>2. UNCHANGED <<iopc, batch, cur, last, unread, total>>
  BY <1>1 DEF iovars, locals
<1>3. ASSUME lowprioqueue' = <<>>, Load' <= Load PROVE OnceEach' /\ Sized'
  <2>1. OnceEach'
    BY <1>1, <1>2, <1>3 DEF BoundInv, OnceEach
  <2>2. Sized'
    BY <1>2, <1>3 DEF BoundInv, Sized, Numbers
  <2> QED BY <2>1, <2>2
<1>4. lowprioqueue = <<>>
  BY DEF BoundInv, OnceEach
<1>5. ASSUME UNCHANGED queues PROVE Load' = Load /\ Load' <= Load /\ lowprioqueue' = <<>>
  BY <1>4, <1>5 DEF Load, queues, Numbers
<1>6. CASE Wait \/ HasEvent \/ HandleSignal \/ Skip \/ HandlerReturn
           \/ \E s \in Socks : Pause(s) \/ Resume(s)
  <2>1. /\ UNCHANGED <<queues, overloaded, open, autopaused>>
        /\ {wpc, wpc'} \cap {"clear", "notify"} = {}
    BY <1>6 DEF Wait, HasEvent, HandleSignal, Skip, HandlerReturn, Pause, Resume, flags, pauses,
                socks
  <2> QED BY <1>1, <1>5, <2>1, SidelineKeeps
<1>7. CASE PopHigh \/ PopData \/ PopLow
  <2>1. /\ UNCHANGED <<overloaded, open, autopaused>>
        /\ {wpc, wpc'} \cap {"clear", "notify"} = {}
    BY <1>7 DEF PopHigh, PopData, PopLow, Enter, flags, pauses, socks
  <2>2. lowprioqueue' = <<>> /\ Load' <= Load
    <3>1. SockEvents(dataqueue) \in Nat /\ SockEvents(lowprioqueue) \in Nat
      BY CountBounds DEF TypeInv, TypeOK
    <3>2. CASE PopHigh
      BY <1>4, <3>1, <3>2 DEF PopHigh, Load
    <3>3. CASE PopData
      <4>1. SockEvents(dataqueue') <= SockEvents(dataqueue) /\ lowprioqueue' = lowprioqueue
        BY <3>3, CountTail DEF PopData, TypeInv, TypeOK
      <4>2. SockEvents(dataqueue') \in Nat
        <5>1. dataqueue' \in Seq(Events)
          BY <3>3 DEF PopData, TypeInv, TypeOK
        <5> QED BY <5>1, CountBounds
      <4> QED BY <1>4, <3>1, <4>1, <4>2 DEF Load
    <3>4. CASE PopLow
      BY <1>4, <3>4 DEF PopLow
    <3> QED BY <1>7, <3>2, <3>3, <3>4
  <2> QED BY <1>1, <2>1, <2>2, SidelineKeeps
<1>8. CASE HandlerDispatch
  <2>1. /\ UNCHANGED <<overloaded, open, autopaused, wpc>>
        /\ PushNext(Worker, "normal")
    BY <1>8 DEF HandlerDispatch, flags, pauses
  <2>2. Worker \in Sources /\ Worker \notin Socks
    BY DEF Sources, Threads
  <2>3. lowprioqueue' = <<>> /\ Load' = Load
    BY <1>4, <2>1, <2>2, PushCounts
  <2> QED BY <1>1, <2>1, <2>3, SidelineKeeps DEF Numbers
<1>9. CASE CheckReady
  <2>1. UNCHANGED <<queues, overloaded, open, autopaused>> /\ wpc = "ready"
    BY <1>9 DEF CheckReady, flags, pauses, socks
  <2>2. CASE wpc' = "clear"
    <3>1. Pending <= ReadySize
      BY <1>9, <2>2 DEF CheckReady
    <3>2. /\ SockEvents(dataqueue) \in Nat /\ SockEvents(dataqueue) <= Len(dataqueue)
          /\ SockEvents(lowprioqueue) \in Nat /\ SockEvents(lowprioqueue) <= Len(lowprioqueue)
      BY CountBounds DEF TypeInv, TypeOK
    <3>3. /\ Len(highprioqueue) \in Nat /\ Len(dataqueue) \in Nat /\ Len(lowprioqueue) \in Nat
      BY DEF TypeInv, TypeOK
    <3>4. Load <= Pending
      BY <3>2, <3>3 DEF Load, Pending
    <3>5. Pending \in Nat
      BY <3>3 DEF Pending
    <3>6. Load' < OverloadSize
      BY <1>5, <2>1, <3>1, <3>4, <3>5 DEF Numbers, Plain
    <3>7. Handling'
      BY <1>2, <2>1 DEF BoundInv, Handling
    <3> QED BY <1>3, <1>5, <2>1, <3>6, <3>7, Slack DEF BoundInv
  <2>3. CASE wpc' # "clear"
    <3>1. {wpc, wpc'} \cap {"clear", "notify"} = {}
      BY <1>9, <2>1, <2>3 DEF CheckReady
    <3> QED BY <1>1, <1>5, <2>1, <3>1, SidelineKeeps
  <2> QED BY <2>2, <2>3
<1>10. CASE ClearFlags
  <2>1. UNCHANGED <<queues, open, autopaused>> /\ wpc = "clear" /\ wpc' = "notify"
    BY <1>10 DEF ClearFlags, pauses, socks
  <2>2. Free' \subseteq Free \cup {cur}
    BY <1>2, <2>1 DEF Free, Counted
  <2>3. Cardinality(Free') <= Cardinality(Free) + 1
    <3>1. /\ IsFiniteSet(Free \cup {cur})
          /\ Cardinality(Free \cup {cur}) <= Cardinality(Free) + 1
          /\ Cardinality(Free \cup {cur}) \in Nat
      <4>1. /\ IsFiniteSet(Free \cup {cur})
            /\ Cardinality(Free \cup {cur}) = IF cur \in Free THEN Cardinality(Free)
                                                             ELSE Cardinality(Free) + 1
        BY FS_AddElement DEF Numbers
      <4> QED BY <4>1 DEF Numbers
    <3>2. Cardinality(Free') <= Cardinality(Free \cup {cur})
      BY <2>2, <3>1, FS_Subset
    <3> QED BY <3>1, <3>2 DEF Numbers
  <2>4. Room'
    <3>1. /\ Allowed = OverloadSize - 1 + Cardinality(Socks)
          /\ Allowed' = OverloadSize + Cardinality(Socks)
      BY <2>1 DEF Allowed
    <3> QED BY <1>5, <2>1, <2>3, <3>1 DEF BoundInv, Room, Numbers
  <2>5. Handling'
    BY <1>2, <2>1 DEF BoundInv, Handling
  <2> QED BY <1>3, <1>5, <2>1, <2>4, <2>5 DEF BoundInv
<1>11. CASE Notify
  <2>1. /\ UNCHANGED <<queues, open>> /\ autopaused' = {} /\ LockFree
        /\ wpc = "notify" /\ wpc' = "wait"
    BY <1>11 DEF Notify, WorkerReady, socks
  <2>2. Room'
    <3>1. /\ Allowed = OverloadSize + Cardinality(Socks)
          /\ Allowed' = OverloadSize + 2 * Cardinality(Socks)
      BY <2>1 DEF Allowed
    <3>2. Load' <= OverloadSize + Cardinality(Socks)
      BY <1>5, <2>1, <3>1 DEF BoundInv, Room, Numbers
    <3> QED BY <3>1, <3>2 DEF Room, Numbers
  <2>3. Handling'
    BY <1>2, <2>1 DEF LockFree, Handling
  <2> QED BY <1>3, <1>5, <2>1, <2>2, <2>3 DEF BoundInv
<1>12. ASSUME NEW s \in Socks, Close(s) PROVE BoundInv'
  <2>1. /\ UNCHANGED <<queues, wpc>> /\ LockFree
        /\ open' = open \ {s} /\ autopaused' = autopaused \ {s}
    BY <1>12 DEF Close, Closed
  <2>2. Free' \subseteq Free
    BY <1>2, <2>1 DEF Free, Counted, LockFree
  <2>3. Room'
    BY <1>5, <2>1, <2>2, Shrinks DEF BoundInv
  <2>4. Handling'
    BY <1>2, <2>1 DEF BoundInv, Handling, LockFree
  <2> QED BY <1>3, <1>5, <2>1, <2>3, <2>4 DEF BoundInv
<1> QED BY <1>6, <1>7, <1>8, <1>9, <1>10, <1>11, <1>12 DEF WorkerNext

LEMMA BoundStep ==
    ASSUME Plain
    PROVE  TypeInv /\ PauseConsistent /\ BoundInv /\ [Next]_vars => BoundInv'
<1> SUFFICES ASSUME TypeInv, PauseConsistent, BoundInv, [Next]_vars PROVE BoundInv'
  OBVIOUS
<1>1. Numbers /\ Numbers'
  <2>1. TypeInv'
    BY TypeStep
  <2> QED BY <2>1, NumbersType
<1>2. ASSUME UNCHANGED <<iovars, prio, overloaded, open, autopaused, wpc>>,
             lowprioqueue' = <<>>, Load' <= Load
      PROVE  BoundInv'
  BY <1>1, <1>2, SidelineKeeps
<1>3. lowprioqueue = <<>> /\ Load <= Load
  BY <1>1 DEF BoundInv, OnceEach, Numbers
<1>4. CASE IONext
  BY <1>1, <1>4, IOBound
<1>5. CASE WorkerNext
  BY <1>1, <1>5, WorkerBound
<1>6. CASE DispatchTick
  BY <1>2, <1>3, <1>6 DEF DispatchTick, PushHigh, Load, flags, pauses, socks
<1>7. ASSUME NEW a \in Async, AsyncComplete(a) PROVE BoundInv'
  <2>1. a \in Sources /\ a \notin Socks
    BY DEF Sources, Threads
  <2>2. PushNext(a, "normal")
    BY <1>7 DEF AsyncComplete
  <2>3. lowprioqueue' = <<>> /\ Load' = Load
    BY <1>3, <2>1, <2>2, PushCounts
  <2> QED BY <1>2, <1>3, <1>7, <2>3 DEF AsyncComplete, flags, pauses
<1>8. ASSUME NEW x \in Signals, DispatchSignal(x) PROVE BoundInv'
  BY <1>2, <1>3, <1>8 DEF DispatchSignal, Load, queues, flags, pauses, socks
<1>9. ASSUME NEW t \in Threads \ {IO}, Post(t) PROVE BoundInv'
  BY <1>2, <1>3, <1>9 DEF Post, Load, queues, flags, pauses, socks
<1>10. CASE UNCHANGED vars
  BY <1>2, <1>3, <1>10 DEF vars, Load, queues, flags, pauses, socks
<1> QED BY <1>4, <1>5, <1>6, <1>7, <1>8, <1>9, <1>10 DEF Next

(* Reading stops in time: whatever the threads do, at most OVERLOAD_SIZE   *)
(* events of sockets wait for the worker, and two more of each socket.     *)
THEOREM BackPressure == ASSUME Plain PROVE Spec => []QueueBounded
<1>1. BoundInv /\ TypeInv => QueueBounded
  <2> SUFFICES ASSUME BoundInv, TypeInv PROVE QueueBounded
    OBVIOUS
  <2>1. Free \in SUBSET Socks /\ IsFiniteSet(Socks)
    BY DEF TypeInv, TypeOK, Free, Plain
  <2>2. Cardinality(Free) \in Nat /\ Cardinality(Socks) \in Nat
    BY <2>1, FS_Subset, FS_CardinalityType
  <2>3. Load \in Nat
    BY CountBounds DEF TypeInv, TypeOK, Load
  <2>4. Allowed <= OverloadSize + 2 * Cardinality(Socks) /\ Allowed \in Int
    BY <2>2 DEF Allowed
  <2> QED BY <2>2, <2>3, <2>4 DEF BoundInv, Room, QueueBounded, Load
<1>2. Spec => []TypeInv
  BY InitType, TypeStep, PTL DEF Spec
<1>3. Spec => []PauseConsistent
  BY PausesAgree
<1>4. Init => BoundInv
  BY InitBound
<1>5. TypeInv /\ PauseConsistent /\ BoundInv /\ [Next]_vars => BoundInv'
  BY BoundStep
<1> QED BY <1>1, <1>2, <1>3, <1>4, <1>5, PTL DEF Spec
=============================================================================
