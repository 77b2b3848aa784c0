---------------------- MODULE SamplingSchedulerProofs ----------------------
(***************************************************************************)
(* Proofs about SamplingScheduler, for any set of items, any intervals and *)
(* any bound on lateness. IInv is inductive:                               *)
(*  - ItemsConsistent ties the list to the life of an item: what is in the *)
(*    list still has its pointer or is unregistering through it, so it     *)
(*    cannot be freed; CallConsistent is that for the item being called;   *)
(*  - OwedConsistent is why a round given up for stop() loses no request:  *)
(*    once running is false under a live thread, nothing is owed;          *)
(*  - ServedConsistent: an item sampled since b became due has a later     *)
(*    deadline than b, so min_element takes b first;                       *)
(*  - HostConsistent follows the destructor through its sweep.             *)
(***************************************************************************)
EXTENDS SamplingScheduler, TLAPS

\* advanceDeadline of an overdue deadline is in the future, and no further
\* than one interval (of at least one unit).
LEMMA AdvanceDeadlineBounds ==
  ASSUME NEW d \in Int, NEW interval \in Nat, d <= 0
  PROVE  /\ AdvanceDeadline(d, interval) \in Int
         /\ AdvanceDeadline(d, interval) >= 1
         /\ AdvanceDeadline(d, interval) <= IF interval < 1 THEN 1 ELSE interval
BY DEF AdvanceDeadline

\* The inductive invariant holds initially.
LEMMA InitIInv == Init => IInv
<1> SUFFICES ASSUME Init PROVE IInv
  OBVIOUS
<1>1. TypeOK
  <2>1. running \in BOOLEAN /\ revalidatePending \in BOOLEAN
        /\ connected \in BOOLEAN /\ announce \in BOOLEAN
    BY Zenon DEF Init
  <2>2. /\ ext \in [Items -> BOOLEAN] /\ sched \in [Items -> BOOLEAN]
        /\ detaching \in [Items -> BOOLEAN]
    BY DEF Init
  <2> QED BY <2>1, <2>2 DEF Init, TypeOK, LoopPcs, Waiting, InCall, HostPcs
<1>2. ItemsConsistent /\ CallConsistent /\ HostConsistent
  BY DEF Init, ItemsConsistent, CallConsistent, HostConsistent
<1>3. OwedConsistent /\ ReconnectNotLost /\ ServedConsistent
  BY DEF Init, OwedConsistent, ReconnectNotLost, ServedConsistent
<1> QED BY <1>1, <1>2, <1>3 DEF IInv

\* Every step preserves it: one case per action.
LEMMA StepIInv == IInv /\ [Next]_vars => IInv'
<1> SUFFICES ASSUME IInv, [Next]_vars PROVE IInv'
  OBVIOUS
<1> USE ItemsAssumption, IntervalsAssumption
    DEF IInv, TypeOK, ItemsConsistent, CallConsistent, OwedConsistent,
        ReconnectNotLost, ServedConsistent, HostConsistent, LoopPcs, Waiting, InCall,
        HostPcs, loopVars, entryVars, linkVars, itemVars, hostVars, history
<1>1. CASE LoopHead
  BY <1>1 DEF LoopHead
<1>2. CASE DisconnectedWait
  BY <1>2 DEF DisconnectedWait
<1>3. CASE EmptyWait
  BY <1>3 DEF EmptyWait
<1>4. CASE LoopBreak
  BY <1>4 DEF LoopBreak
<1>5. CASE BeginRevalidation
  BY <1>5 DEF BeginRevalidation
<1>6. CASE WaitForItem
  BY <1>6 DEF WaitForItem
<1>7. CASE WaitForDeadline
  BY <1>7 DEF WaitForDeadline
<1>8. ASSUME NEW i \in Items, DropDyingItem(i) PROVE IInv'
  BY <1>8 DEF DropDyingItem, Erase, Selects, Earliest, Acquirable
<1>9. ASSUME NEW i \in Items, BeginSample(i) PROVE IInv'
  <2>1. PICK interval \in Intervals :
           due' = [due EXCEPT ![i] = AdvanceDeadline(@, interval)]
    BY <1>9 DEF BeginSample
  <2>2. due' \in [Items -> Int] /\ due'[i] >= 1
        /\ \A j \in Items \ {i} : due'[j] = due[j]
    BY <1>9, <2>1, AdvanceDeadlineBounds DEF BeginSample, Selects
  <2>3. ServedConsistent'
    BY <1>9, <2>2 DEF BeginSample, Selects, Earliest, NoteSample
  <2> QED BY <1>9, <2>2, <2>3 DEF BeginSample, Selects, Earliest, Acquirable, NoteSample
<1>10. CASE EndRevalidation
  BY <1>10 DEF EndRevalidation
<1>11. ASSUME NEW i \in Items, SkipRevalidation(i) PROVE IInv'
  BY <1>11 DEF SkipRevalidation, Acquirable
<1>12. ASSUME NEW i \in Items, BeginRestore(i) PROVE IInv'
  BY <1>12 DEF BeginRestore, Acquirable
<1>13. CASE EndCall
  BY <1>13 DEF EndCall, ResumeLoop
<1>14. CASE PollTimeout
  BY <1>14 DEF PollTimeout
<1>15. CASE DeadlineReached
  BY <1>15 DEF DeadlineReached
<1>16. ASSUME NEW i \in Items, Create(i) PROVE IInv'
  BY <1>16 DEF Create
<1>17. ASSUME NEW i \in Items, RegisterItem(i) PROVE IInv'
  BY <1>17 DEF RegisterItem, Notified
<1>18. ASSUME NEW i \in Items, TakePointer(i) PROVE IInv'
  BY <1>18 DEF TakePointer
<1>19. ASSUME NEW i \in Items, UnregisterItem(i) PROVE IInv'
  BY <1>19 DEF UnregisterItem, Erase, Notified
<1>20. ASSUME NEW i \in Items, DropReference(i) PROVE IInv'
  BY <1>20 DEF DropReference, HeldByLoop
<1>21. ASSUME NEW i \in Items, DestroyItem(i) PROVE IInv'
  BY <1>21 DEF DestroyItem, ResumeLoop, Detached
<1>22. CASE Start
  BY <1>22 DEF Start
<1>23. CASE Stop
  BY <1>23 DEF Stop, RequestStop, Notified
<1>24. CASE Join
  BY <1>24 DEF Join
<1>25. CASE Destroy
  BY <1>25 DEF Destroy, RequestStop, Notified
<1>26. CASE SwapItems
  <2>1. items' = {} /\ owed' = {} /\ leftover' = items
        /\ \A b \in Items : served'[b] = {}
    BY <1>26 DEF SwapItems, Erase
  <2>2. TypeOK'
    BY <1>26 DEF SwapItems, Erase
  <2>3. ServedConsistent' /\ ReconnectNotLost'
    BY <2>1
  <2>4. ItemsConsistent' /\ CallConsistent'
    BY <1>26, <2>1 DEF SwapItems
  <2>5. OwedConsistent' /\ HostConsistent'
    BY <1>26, <2>1 DEF SwapItems
  <2> QED BY <2>2, <2>3, <2>4, <2>5
<1>27. ASSUME NEW i \in Items, ForgetScheduler(i) PROVE IInv'
  BY <1>27 DEF ForgetScheduler, Acquirable
<1>28. CASE Destroyed
  BY <1>28 DEF Destroyed
<1>29. CASE SpuriousWakeup
  BY <1>29 DEF SpuriousWakeup, Notified, Waiting
<1>30. CASE Tick
  BY <1>30 DEF Tick
<1>31. CASE LinkDown
  <2>1. connected' \in BOOLEAN /\ announce' = announce
        /\ UNCHANGED <<loopVars, running, revalidatePending, entryVars, itemVars,
                       hostVars, history>>
    BY <1>31 DEF LinkDown
  <2> QED BY <2>1
<1>32. CASE LinkUp
  BY <1>32 DEF LinkUp
<1>33. CASE OnReconnected
  BY <1>33 DEF OnReconnected, Notified
<1>34. CASE UNCHANGED vars
  BY <1>34 DEF vars
<1> QED BY <1>1, <1>2, <1>3, <1>4, <1>5, <1>6, <1>7, <1>8, <1>9, <1>10, <1>11, <1>12, <1>13, <1>14, <1>15, <1>16, <1>17, <1>18, <1>19, <1>20, <1>21, <1>22, <1>23, <1>24, <1>25, <1>26, <1>27, <1>28, <1>29, <1>30, <1>31, <1>32, <1>33, <1>34
       DEF Next, Loop, Item, Host, Environment

\* The inductive invariant is an invariant of the scheduler.
THEOREM SchedulerIInv == Spec => []IInv
<1>1. Init => IInv
  BY InitIInv
<1>2. IInv /\ [Next]_vars => IInv'
  BY StepIInv
<1> QED BY <1>1, <1>2, PTL DEF Spec

\* The variables keep their types.
THEOREM SchedulerTypeOK == Spec => []TypeOK
<1>1. IInv => TypeOK
  BY DEF IInv
<1> QED BY <1>1, SchedulerIInv, PTL

\* No call is ever made into an item whose destructor has begun, and the list
\* never holds freed memory.
THEOREM SchedulerCallsSafe == Spec => [](CallsOnlyLiveItems /\ NoDanglingEntry)
<1>1. IInv => CallsOnlyLiveItems /\ NoDanglingEntry
  BY DEF IInv, CallConsistent, ItemsConsistent, TypeOK, CallsOnlyLiveItems,
         NoDanglingEntry
<1> QED BY <1>1, SchedulerIInv, PTL

\* No announced reconnect is forgotten for a registered item.
THEOREM SchedulerReconnectNotLost == Spec => []ReconnectNotLost
<1>1. IInv => ReconnectNotLost
  BY DEF IInv
<1> QED BY <1>1, SchedulerIInv, PTL

\* Nothing that outlives the scheduler still points to it, destructors under
\* way excepted.
THEOREM SchedulerForgotten == Spec => []LiveItemsForgetScheduler
<1>1. IInv => LiveItemsForgetScheduler
  BY DEF IInv, HostConsistent, ItemsConsistent, LiveItemsForgetScheduler, TypeOK
<1> QED BY <1>1, SchedulerIInv, PTL

\* While an item is overdue no other item is sampled twice.
THEOREM SchedulerNoOvertaking == Spec => NoOvertaking
<1> DEFINE Fair == \A a \in Items : SampleBegins(a) => \A b \in items : a \notin served[b]
<1>1. IInv /\ [Next]_vars => [Fair]_vars
  <2> SUFFICES ASSUME IInv, Next, NEW a \in Items, SampleBegins(a), NEW b \in items
               PROVE a \notin served[b]
    OBVIOUS
  <2>1. BeginSample(a)
    <3>1. CASE Loop
      BY <3>1 DEF Loop, SampleBegins, LoopHead, DisconnectedWait, EmptyWait, LoopBreak,
            BeginRevalidation, WaitForItem, WaitForDeadline, DropDyingItem, BeginSample,
            EndRevalidation, SkipRevalidation, BeginRestore, EndCall, PollTimeout,
            DeadlineReached, Selects
    <3>2. CASE \E i \in Items : Item(i)
      BY <3>2 DEF SampleBegins, Item, Create, RegisterItem, TakePointer, UnregisterItem,
            DropReference, DestroyItem, ResumeLoop, Notified, loopVars
    <3>3. CASE Host
      BY <3>3 DEF Host, SampleBegins, Start, Stop, Join, Destroy, SwapItems,
            ForgetScheduler, Destroyed, RequestStop, Notified, loopVars
    <3>4. CASE Environment
      BY <3>4 DEF Environment, SampleBegins, SpuriousWakeup, Tick, LinkDown, LinkUp,
            OnReconnected, Notified, Waiting, loopVars
    <3> QED BY <3>1, <3>2, <3>3, <3>4 DEF Next
  <2>2. due[a] <= due[b]
    BY <2>1 DEF BeginSample, Selects, Earliest
  <2>3. a \in served[b] => due[a] > due[b]
    BY DEF IInv, TypeOK, ServedConsistent
  <2> QED BY <2>1, <2>2, <2>3 DEF IInv, TypeOK, BeginSample, Selects, Earliest
<1> QED BY <1>1, SchedulerIInv, PTL DEF Spec, NoOvertaking

\* The detailed scheduler implements the abstract service: every step of the
\* loop, of an item or of the host maps to a step of ItemCalls or to none.
THEOREM SchedulerImplementsItemCalls == Spec => PromiseKept
<1> DEFINE alive == {i \in Items : life[i] = "live"}
           calling == IF pc = "call" THEN cur ELSE None
<1>1. Init => Promise!Init
  BY DEF Init, Promise!Init
<1>2. IInv /\ IInv' /\ [Next]_vars => [Promise!Next]_Promise!vars
  <2> SUFFICES ASSUME IInv, IInv', [Next]_vars
               PROVE  Promise!Next \/ UNCHANGED <<alive, items, calling, owed>>
    BY DEF Promise!vars
  <2> USE ItemsAssumption DEF IInv, TypeOK
  <2>1. CASE LoopHead \/ DisconnectedWait \/ EmptyWait \/ LoopBreak \/ BeginRevalidation
              \/ WaitForItem \/ WaitForDeadline \/ EndRevalidation \/ PollTimeout
              \/ DeadlineReached \/ SpuriousWakeup
    BY <2>1 DEF LoopHead, DisconnectedWait, EmptyWait, LoopBreak, BeginRevalidation,
         WaitForItem, WaitForDeadline, EndRevalidation, PollTimeout, DeadlineReached,
         SpuriousWakeup, Notified, Waiting, entryVars, itemVars, history
  <2>2. CASE Tick \/ LinkDown \/ LinkUp \/ Start \/ Join \/ Destroyed
    BY <2>2 DEF Tick, LinkDown, LinkUp, Start, Join, Destroyed, loopVars, entryVars,
         itemVars, history
  <2>3. ASSUME NEW i \in Items,
               SkipRevalidation(i) \/ TakePointer(i) \/ ForgetScheduler(i)
        PROVE  UNCHANGED <<alive, items, calling, owed>>
    BY <2>3 DEF SkipRevalidation, TakePointer, ForgetScheduler, loopVars, entryVars,
         itemVars, history
  <2>4. ASSUME NEW i \in Items, DropDyingItem(i) \/ UnregisterItem(i)
        PROVE  Promise!Unregister({i})
    BY <2>4 DEF DropDyingItem, UnregisterItem, Selects, Erase, Notified, itemVars,
         Promise!Unregister
  <2>5. ASSUME NEW i \in Items, BeginSample(i) PROVE Promise!Sample(i)
    BY <2>5 DEF BeginSample, Selects, Earliest, CallConsistent, itemVars,
         Promise!Sample, Promise!Begin
  <2>6. ASSUME NEW i \in Items, BeginRestore(i) PROVE Promise!Restore(i)
    BY <2>6 DEF BeginRestore, CallConsistent, entryVars, itemVars, Promise!Restore,
         Promise!Begin
  <2>7. CASE EndCall
    <3>1. cur \in Items /\ calling = cur /\ calling' = None
      BY <2>7 DEF EndCall, ResumeLoop, CallConsistent
    <3>2. alive' \in {alive, alive \ {cur}}
      BY <2>7, <3>1 DEF EndCall
    <3>3. UNCHANGED <<items, owed>>
      BY <2>7 DEF EndCall, entryVars, history
    <3> QED BY <3>1, <3>2, <3>3 DEF Promise!Next, Promise!End
  <2>8. ASSUME NEW i \in Items, Create(i) PROVE Promise!Create(i)
    BY <2>8 DEF Create, ItemsConsistent, loopVars, entryVars, history, Promise!Create
  <2>9. ASSUME NEW i \in Items, RegisterItem(i) PROVE Promise!Register(i)
    BY <2>9 DEF RegisterItem, ItemsConsistent, Notified, itemVars, history,
         Promise!Register
  <2>10. ASSUME NEW i \in Items, DropReference(i)
         PROVE  Promise!Die(i) \/ UNCHANGED <<alive, items, calling, owed>>
    <3>1. UNCHANGED <<items, calling, owed>>
      BY <2>10 DEF DropReference, loopVars, entryVars, history
    <3>2. CASE HeldByLoop(i)
      BY <2>10, <3>1, <3>2 DEF DropReference
    <3>3. CASE ~HeldByLoop(i)
      <4>1. i \in alive /\ alive' = alive \ {i}
        BY <2>10, <3>3 DEF DropReference, ItemsConsistent
      <4>2. calling # i
        BY <2>10, <3>3 DEF DropReference, HeldByLoop
      <4> QED BY <3>1, <4>1, <4>2 DEF Promise!Die
    <3> QED BY <3>2, <3>3
  <2>11. ASSUME NEW i \in Items, DestroyItem(i)
         PROVE  UNCHANGED <<alive, items, calling, owed>>
    BY <2>11 DEF DestroyItem, ResumeLoop, entryVars, history
  <2>12. CASE Stop \/ Destroy
    <3>1. Promise!Stop
      BY <2>12 DEF Stop, Destroy, RequestStop, Notified, entryVars, itemVars, Promise!Stop
    <3> QED BY <3>1 DEF Promise!Next
  <2>13. CASE SwapItems
    <3>1. Promise!Unregister(items)
      BY <2>13 DEF SwapItems, Erase, itemVars, Promise!Unregister
    <3> QED BY <3>1 DEF Promise!Next
  <2>14. CASE OnReconnected
    <3>1. Promise!Reconnected
      BY <2>14 DEF OnReconnected, Notified, entryVars, itemVars, Promise!Reconnected
    <3> QED BY <3>1 DEF Promise!Next
  <2>15. CASE UNCHANGED vars
    BY <2>15 DEF vars, loopVars, entryVars, itemVars, history
  <2>16. ASSUME NEW i \in Items,
                \/ Promise!Create(i) \/ Promise!Die(i) \/ Promise!Register(i)
                \/ Promise!Sample(i) \/ Promise!Restore(i) \/ Promise!Unregister({i})
         PROVE  Promise!Next
    BY <2>16 DEF Promise!Next
  <2> HIDE DEF IInv, TypeOK, alive, calling
  <2> QED BY <2>1, <2>2, <2>3, <2>4, <2>5, <2>6, <2>7, <2>8, <2>9, <2>10, <2>11, <2>12,
             <2>13, <2>14, <2>15, <2>16 DEF Next, Loop, Item, Host, Environment
<1> QED BY <1>1, <1>2, SchedulerIInv, PTL DEF Spec, PromiseKept, Promise!Spec
=============================================================================
