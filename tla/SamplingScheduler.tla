------------------------- MODULE SamplingScheduler -------------------------
(***************************************************************************)
(* The sampling scheduler of the generic OPC UA client device: one thread  *)
(* that serves every monitored item at its own deadline and re-validates   *)
(* all of them after a reconnect (opcuageneric_client/src/                 *)
(* sampling_scheduler.cpp), together with the part of a monitored item     *)
(* that talks to it: the back-pointer, removed() and the destructor.       *)
(*                                                                         *)
(* Every critical section of the scheduler's mutex is one action. The loop *)
(* keeps the mutex over several actions only while it walks the snapshot   *)
(* of a revalidation round (pc = "reval"), which is what MutexFree says.   *)
(* Time is relative: due[i] is nextDue - now, and Tick passes one unit.    *)
(***************************************************************************)
EXTENDS Integers

CONSTANTS
  Items,      \* ISampledItem objects (memory the items live in, reused)
  Owned,      \* items registered with an owner reference
  Intervals,  \* what getSamplingInterval() may return, 0 included
  MaxLate,    \* bound: no deadline is ever more than MaxLate units ago
  None        \* "no item"

ASSUME ItemsAssumption == Owned \subseteq Items /\ None \notin Items
ASSUME IntervalsAssumption == Intervals \subseteq Nat
ASSUME MaxLateAssumption == MaxLate \in Nat

VARIABLES
  pc,                \* where the loop thread is
  cur, kind,         \* the item it is calling, and which call
  pending,           \* the rest of the snapshot of a revalidation round
  running, revalidatePending,
  items, due,        \* the entries: registered items and their deadlines
  connected,         \* what isConnected() returns
  announce,          \* reconnected, onReconnected() not called yet
  life, ext,         \* of an item: its memory, a reference held elsewhere
  sched, detaching,  \* its back-pointer; a pointer taken by detachFromScheduler
  host, leftover,    \* the thread that starts, stops and destroys the scheduler
  owed, served       \* history: see OnReconnected and NoteSample

loopVars  == <<pc, cur, kind, pending>>
entryVars == <<items, due>>
linkVars  == <<connected, announce>>
itemVars  == <<life, ext, sched, detaching>>
hostVars  == <<host, leftover>>
history   == <<owed, served>>
vars == <<loopVars, running, revalidatePending, entryVars, linkVars, itemVars,
          hostVars, history>>

Waiting  == {"waitDisc", "waitEmpty", "waitDue"}
InCall   == {"call", "dtor"}
LoopPcs  == {"none", "head", "lockDisc", "lockLoop", "lockEmpty", "reval", "exited"}
              \cup Waiting \cup InCall
HostPcs  == {"idle", "joining", "destroying", "sweeping", "destroyed"}

TypeOK ==
  /\ pc \in LoopPcs
  /\ cur \in Items \cup {None}
  /\ kind \in {"sample", "restore"}
  /\ pending \subseteq Items
  /\ running \in BOOLEAN /\ revalidatePending \in BOOLEAN
  /\ items \subseteq Items
  /\ due \in [Items -> Int]
  /\ connected \in BOOLEAN /\ announce \in BOOLEAN
  /\ life \in [Items -> {"free", "live", "dying"}]
  /\ ext \in [Items -> BOOLEAN]
  /\ sched \in [Items -> BOOLEAN]
  /\ detaching \in [Items -> BOOLEAN]
  /\ host \in HostPcs
  /\ leftover \subseteq Items
  /\ owed \subseteq Items
  /\ served \in [Items -> SUBSET Items]

Init ==
  /\ pc = "none" /\ cur = None /\ kind = "sample" /\ pending = {}
  /\ running = FALSE /\ revalidatePending = FALSE
  /\ items = {} /\ due = [i \in Items |-> 0]
  /\ connected = TRUE /\ announce = FALSE
  /\ life = [i \in Items |-> "free"]
  /\ ext = [i \in Items |-> FALSE]
  /\ sched = [i \in Items |-> FALSE]
  /\ detaching = [i \in Items |-> FALSE]
  /\ host = "idle" /\ leftover = {}
  /\ owed = {} /\ served = [i \in Items |-> {}]

-----------------------------------------------------------------------------
(* Helpers. *)

\* Mutants: a deadline that is not shifted, one that is not yet in the future.
AdvanceDeadlineStuck(d, interval) == d
AdvanceDeadlineNow(d, interval) ==
  LET step == IF interval < 1 THEN 1 ELSE interval
  IN  IF d + step >= 0 THEN d + step ELSE step

\* advanceDeadline, with both time points relative to now: one interval past
\* the deadline, or past now when that is in the past already.
AdvanceDeadline(d, interval) ==
  LET step == IF interval < 1 THEN 1 ELSE interval
  IN  IF d + step > 0 THEN d + step ELSE step

\* Mutant: the owner is not asked.
AcquirableAlways(i) == TRUE

\* acquireOwner: a weak reference yields the object until its last strong
\* reference is gone; an item without an owner is always callable.
Acquirable(i) == i \notin Owned \/ life[i] = "live"

\* Mutant: the reference is let go before the call.
HeldByNobody(i) == FALSE

\* The reference that invokeUnlocked keeps for the duration of a call.
HeldByLoop(i) == pc = "call" /\ cur = i /\ i \in Owned

\* The loop keeps the mutex from one action to the next only in "reval".
MutexFree == pc # "reval"

\* Mutant: the wait for an item is not notified.
NotifiedUnlessEmpty == CASE pc = "waitDisc" -> "lockDisc"
                         [] pc = "waitDue"  -> "head"
                         [] OTHER           -> pc

\* cv.notify_all(): a waiting loop thread goes on to re-evaluate what it waits for.
Notified == CASE pc = "waitDisc"  -> "lockDisc"
              [] pc = "waitEmpty" -> "lockEmpty"
              [] pc = "waitDue"   -> "head"
              [] OTHER            -> pc

\* Mutant: any entry, not the earliest.
AnyEntry == items

\* min_element over nextDue; entries with equal deadlines in any order.
Earliest == {i \in items : \A j \in items : due[i] <= due[j]}

\* invokeUnlocked takes the mutex again and returns to its caller.
ResumeLoop ==
  /\ pc' = IF kind = "restore" THEN "reval" ELSE "head"
  /\ cur' = None /\ kind' = "sample"

\* History: served[b] is the set of items sampled since b became due.
NoteSample(a) ==
  served' = [b \in Items |-> IF b # a /\ b \in items /\ due[b] <= 0
                               THEN served[b] \cup {a} ELSE {}]

\* The entries of the items in S leave the list.
Erase(S) ==
  /\ items' = items \ S
  /\ due' = [i \in Items |-> IF i \in S THEN 0 ELSE due[i]]
  /\ owed' = owed \ S
  /\ served' = [b \in Items |-> IF b \in S THEN {} ELSE served[b] \ S]

-----------------------------------------------------------------------------
(* SamplingScheduler::loop *)

LoopHead ==
  /\ pc = "head"
  /\ pc' = IF ~running THEN "exited"
           ELSE IF connected THEN "lockLoop" ELSE "lockDisc"
  /\ UNCHANGED <<cur, kind, pending, running, revalidatePending, entryVars,
                 linkVars, itemVars, hostVars, history>>

DisconnectedWait ==
  /\ pc = "lockDisc"
  /\ pc' = IF ~running \/ revalidatePending THEN "head" ELSE "waitDisc"
  /\ UNCHANGED <<cur, kind, pending, running, revalidatePending, entryVars,
                 linkVars, itemVars, hostVars, history>>

EmptyWait ==
  /\ pc = "lockEmpty"
  /\ pc' = IF ~running \/ items # {} THEN "head" ELSE "waitEmpty"
  /\ UNCHANGED <<cur, kind, pending, running, revalidatePending, entryVars,
                 linkVars, itemVars, hostVars, history>>

LoopBreak ==
  /\ pc = "lockLoop" /\ ~running
  /\ pc' = "exited"
  /\ UNCHANGED <<cur, kind, pending, running, revalidatePending, entryVars,
                 linkVars, itemVars, hostVars, history>>

\* revalidatePending = false; revalidateItems takes its snapshot.
BeginRevalidation ==
  /\ pc = "lockLoop" /\ running /\ revalidatePending
  /\ revalidatePending' = FALSE
  /\ pending' = items
  /\ pc' = "reval"
  /\ UNCHANGED <<cur, kind, running, entryVars, linkVars, itemVars, hostVars,
                 history>>

WaitForItem ==
  /\ pc = "lockLoop" /\ running /\ ~revalidatePending /\ items = {}
  /\ pc' = "waitEmpty"
  /\ UNCHANGED <<cur, kind, pending, running, revalidatePending, entryVars,
                 linkVars, itemVars, hostVars, history>>

\* cv.wait_until(lock, next->nextDue)
WaitForDeadline ==
  /\ pc = "lockLoop" /\ running /\ ~revalidatePending /\ items # {}
  /\ \A i \in items : due[i] > 0
  /\ pc' = "waitDue"
  /\ UNCHANGED <<cur, kind, pending, running, revalidatePending, entryVars,
                 linkVars, itemVars, hostVars, history>>

Selects(i) ==
  /\ pc = "lockLoop" /\ running /\ ~revalidatePending
  /\ i \in Earliest /\ due[i] <= 0

\* The owner is being destroyed on another thread: its entry goes.
DropDyingItem(i) ==
  /\ Selects(i) /\ ~Acquirable(i)
  /\ Erase({i})
  /\ pc' = "head"
  /\ UNCHANGED <<cur, kind, pending, running, revalidatePending, linkVars,
                 itemVars, hostVars>>

BeginSample(i) ==
  /\ Selects(i) /\ Acquirable(i)
  /\ \E interval \in Intervals :
        due' = [due EXCEPT ![i] = AdvanceDeadline(@, interval)]
  /\ NoteSample(i)
  /\ pc' = "call" /\ cur' = i /\ kind' = "sample"
  /\ UNCHANGED <<pending, running, revalidatePending, items, linkVars,
                 itemVars, hostVars, owed>>

-----------------------------------------------------------------------------
(* SamplingScheduler::revalidateItems, the mutex held *)

\* Mutant: revalidatePending is cleared after the round instead of before it.
EndRevalidationClearing ==
  /\ pc = "reval" /\ (~running \/ pending = {})
  /\ pending' = {} /\ revalidatePending' = FALSE
  /\ pc' = "head"
  /\ UNCHANGED <<cur, kind, running, entryVars, linkVars, itemVars, hostVars,
                 history>>

EndRevalidation ==
  /\ pc = "reval" /\ (~running \/ pending = {})
  /\ pending' = {}
  /\ pc' = "head"
  /\ UNCHANGED <<cur, kind, running, revalidatePending, entryVars, linkVars,
                 itemVars, hostVars, history>>

SkipRevalidation(i) ==
  /\ pc = "reval" /\ running /\ i \in pending
  /\ i \notin items \/ ~Acquirable(i)
  /\ pending' = pending \ {i}
  /\ UNCHANGED <<pc, cur, kind, running, revalidatePending, entryVars,
                 linkVars, itemVars, hostVars, history>>

BeginRestore(i) ==
  /\ pc = "reval" /\ running /\ i \in pending
  /\ i \in items /\ Acquirable(i)
  /\ pending' = pending \ {i}
  /\ pc' = "call" /\ cur' = i /\ kind' = "restore"
  /\ owed' = owed \ {i}
  /\ UNCHANGED <<running, revalidatePending, entryVars, linkVars, itemVars,
                 hostVars, served>>

-----------------------------------------------------------------------------
(* SamplingScheduler::invokeUnlocked, the mutex released *)

\* The call returns, or throws and is swallowed. owner.release(): the last
\* reference destroys the item right here, before the mutex is taken again.
EndCall ==
  /\ pc = "call"
  /\ IF cur \in Owned /\ ~ext[cur]
       THEN /\ life' = [life EXCEPT ![cur] = "dying"]
            /\ pc' = "dtor"
            /\ UNCHANGED <<cur, kind>>
       ELSE /\ life' = life
            /\ ResumeLoop
  /\ UNCHANGED <<pending, running, revalidatePending, entryVars, linkVars, ext,
                 sched, detaching, hostVars, history>>

\* Waits of the loop that end by themselves: the poll interval while
\* disconnected, the awaited deadline, a spurious wake-up.
PollTimeout ==
  /\ pc = "waitDisc"
  /\ pc' = "head"
  /\ UNCHANGED <<cur, kind, pending, running, revalidatePending, entryVars,
                 linkVars, itemVars, hostVars, history>>

DeadlineReached ==
  /\ pc = "waitDue" /\ \E i \in items : due[i] <= 0
  /\ pc' = "head"
  /\ UNCHANGED <<cur, kind, pending, running, revalidatePending, entryVars,
                 linkVars, itemVars, hostVars, history>>

SpuriousWakeup ==
  /\ pc \in Waiting
  /\ pc' = Notified
  /\ UNCHANGED <<cur, kind, pending, running, revalidatePending, entryVars,
                 linkVars, itemVars, hostVars, history>>

Tick ==
  /\ items # {}
  /\ \A i \in items : due[i] > -MaxLate
  /\ due' = [i \in Items |-> IF i \in items THEN due[i] - 1 ELSE due[i]]
  /\ UNCHANGED <<loopVars, running, revalidatePending, items, linkVars,
                 itemVars, hostVars, history>>

-----------------------------------------------------------------------------
(* The connection, and the reconnect thread of the device *)

LinkDown ==
  /\ connected
  /\ connected' = FALSE
  /\ UNCHANGED <<loopVars, running, revalidatePending, entryVars, announce,
                 itemVars, hostVars, history>>

LinkUp ==
  /\ ~connected
  /\ connected' = TRUE /\ announce' = TRUE
  /\ UNCHANGED <<loopVars, running, revalidatePending, entryVars, itemVars,
                 hostVars, history>>

\* History: owed is the set of items registered at the latest request that
\* have not been called back since.
OnReconnected ==
  /\ announce /\ host = "idle" /\ MutexFree
  /\ announce' = FALSE
  /\ revalidatePending' = TRUE
  /\ owed' = items
  /\ pc' = Notified
  /\ UNCHANGED <<cur, kind, pending, running, entryVars, connected, itemVars,
                 hostVars, served>>

-----------------------------------------------------------------------------
(* The monitored items *)

\* Constructed with a pointer to the scheduler; the device and its caller
\* keep a reference.
Create(i) ==
  /\ life[i] = "free" /\ host \in {"idle", "joining"}
  /\ life' = [life EXCEPT ![i] = "live"]
  /\ ext' = [ext EXCEPT ![i] = TRUE]
  /\ sched' = [sched EXCEPT ![i] = TRUE]
  /\ UNCHANGED <<loopVars, running, revalidatePending, entryVars, linkVars,
                 detaching, hostVars, history>>

RegisterItem(i) ==
  /\ ext[i] /\ sched[i] /\ i \notin items
  /\ host \in {"idle", "joining"} /\ MutexFree
  /\ items' = items \cup {i}
  /\ due' = [due EXCEPT ![i] = 0]
  /\ pc' = Notified
  /\ UNCHANGED <<cur, kind, pending, running, revalidatePending, linkVars,
                 itemVars, hostVars, history>>

\* detachFromScheduler takes the pointer, either from removed() or from the
\* destructor of the item ...
TakePointer(i) ==
  /\ sched[i]
  /\ ext[i] \/ life[i] = "dying"
  /\ sched' = [sched EXCEPT ![i] = FALSE]
  /\ detaching' = [detaching EXCEPT ![i] = TRUE]
  /\ UNCHANGED <<loopVars, running, revalidatePending, entryVars, linkVars,
                 life, ext, hostVars, history>>

\* ... and calls unregisterItem through it.
UnregisterItem(i) ==
  /\ detaching[i] /\ MutexFree
  /\ Erase({i})
  /\ detaching' = [detaching EXCEPT ![i] = FALSE]
  /\ pc' = Notified
  /\ UNCHANGED <<cur, kind, pending, running, revalidatePending, linkVars,
                 life, ext, sched, hostVars>>

\* The last reference outside the scheduler goes (not while removed() runs,
\* whose caller holds one, nor before it is registered: the thread adding it
\* holds one). An item without an owner is kept by its user until it has left
\* the list and no call can be in progress.
DropReference(i) ==
  /\ ext[i] /\ ~detaching[i]
  /\ sched[i] => i \in items
  /\ i \in Owned \/ (pc = "none" /\ i \notin items \cup leftover)
  /\ ext' = [ext EXCEPT ![i] = FALSE]
  /\ life' = IF HeldByLoop(i) THEN life ELSE [life EXCEPT ![i] = "dying"]
  /\ UNCHANGED <<loopVars, running, revalidatePending, entryVars, linkVars,
                 sched, detaching, hostVars, history>>

Detached(i) == ~sched[i] /\ ~detaching[i]

\* The destructor has detached the item; its memory is free again.
DestroyItem(i) ==
  /\ life[i] = "dying" /\ Detached(i)
  /\ life' = [life EXCEPT ![i] = "free"]
  /\ IF pc = "dtor" /\ cur = i
       THEN ResumeLoop
       ELSE UNCHANGED <<pc, cur, kind>>
  /\ UNCHANGED <<pending, running, revalidatePending, entryVars,
                 linkVars, ext, sched, detaching, hostVars, history>>

-----------------------------------------------------------------------------
(* start, stop and the destructor, called by the device *)

Start ==
  /\ host = "idle" /\ pc = "none"
  /\ running' = TRUE
  /\ pc' = "head"
  /\ UNCHANGED <<cur, kind, pending, revalidatePending, entryVars, linkVars,
                 itemVars, hostVars, history>>

\* The first half of stop(); nothing is owed to the items any more.
RequestStop(next) ==
  /\ host = "idle" /\ MutexFree
  /\ running' = FALSE
  /\ pc' = Notified
  /\ host' = next
  /\ owed' = {}
  /\ UNCHANGED <<cur, kind, pending, revalidatePending, entryVars, linkVars,
                 itemVars, leftover, served>>

Stop == RequestStop("joining")

Join ==
  /\ host = "joining" /\ pc \in {"none", "exited"}
  /\ pc' = "none"
  /\ host' = "idle"
  /\ UNCHANGED <<cur, kind, pending, running, revalidatePending, entryVars,
                 linkVars, itemVars, leftover, history>>

\* ~SamplingScheduler: stop() first. The device is not destroyed while it is
\* still adding a function block.
Destroy ==
  /\ \A i \in Items : sched[i] /\ life[i] = "live" => i \in items
  /\ RequestStop("destroying")

SwapItems ==
  /\ host = "destroying" /\ pc \in {"none", "exited"}
  /\ pc' = "none"
  /\ host' = "sweeping"
  /\ leftover' = items
  /\ Erase(items)
  /\ UNCHANGED <<cur, kind, pending, running, revalidatePending, linkVars,
                 itemVars>>

\* Mutant: the entries that are left are not told.
ForgetSilently(i) ==
  /\ host = "sweeping" /\ i \in leftover
  /\ leftover' = leftover \ {i}
  /\ UNCHANGED <<loopVars, running, revalidatePending, entryVars, linkVars,
                 itemVars, host, history>>

\* onSchedulerDestroyed for an entry whose owner can still be acquired.
ForgetScheduler(i) ==
  /\ host = "sweeping" /\ i \in leftover
  /\ leftover' = leftover \ {i}
  /\ sched' = IF Acquirable(i) THEN [sched EXCEPT ![i] = FALSE] ELSE sched
  /\ UNCHANGED <<loopVars, running, revalidatePending, entryVars, linkVars,
                 life, ext, detaching, host, history>>

Destroyed ==
  /\ host = "sweeping" /\ leftover = {}
  /\ host' = "destroyed"
  /\ UNCHANGED <<loopVars, running, revalidatePending, entryVars, linkVars,
                 itemVars, leftover, history>>

-----------------------------------------------------------------------------
Loop ==
  \/ LoopHead \/ DisconnectedWait \/ EmptyWait \/ LoopBreak
  \/ BeginRevalidation \/ WaitForItem \/ WaitForDeadline
  \/ \E i \in Items : DropDyingItem(i) \/ BeginSample(i)
  \/ EndRevalidation
  \/ \E i \in Items : SkipRevalidation(i) \/ BeginRestore(i)
  \/ EndCall
  \/ PollTimeout \/ DeadlineReached

Item(i) ==
  \/ Create(i) \/ RegisterItem(i) \/ TakePointer(i) \/ UnregisterItem(i)
  \/ DropReference(i) \/ DestroyItem(i)

Host ==
  \/ Start \/ Stop \/ Join \/ Destroy \/ SwapItems
  \/ \E i \in Items : ForgetScheduler(i)
  \/ Destroyed

Environment == SpuriousWakeup \/ Tick \/ LinkDown \/ LinkUp \/ OnReconnected

Next == Loop \/ (\E i \in Items : Item(i)) \/ Host \/ Environment

\* The loop thread is scheduled, calls into items return, time passes, and
\* threads inside detachFromScheduler, a destructor, stop() or the reconnect
\* handler go on; the mutex is granted to whoever keeps asking for it.
HostGoesOn ==
  Join \/ SwapItems \/ (\E i \in Items : ForgetScheduler(i)) \/ Destroyed
DestructorGoesOn(i) == (TakePointer(i) /\ life[i] = "dying") \/ DestroyItem(i)

Fairness ==
  /\ WF_vars(Loop) /\ WF_vars(Tick) /\ WF_vars(HostGoesOn)
  /\ SF_vars(OnReconnected)
  /\ \A i \in Items : WF_vars(DestructorGoesOn(i)) /\ SF_vars(UnregisterItem(i))

Spec == Init /\ [][Next]_vars
FairSpec == Spec /\ Fairness

-----------------------------------------------------------------------------
(* Correctness *)

\* A call into an item finds it alive: the owner reference taken under the
\* mutex outlasts the call, whatever removes or releases the item meanwhile
\* (acquireOwner, invokeUnlocked).
CallsOnlyLiveItems == pc = "call" => life[cur] = "live"

\* Memory that has been freed is never in the list: a destructor detaches
\* the item before it ends (detachFromScheduler, unregisterItem).
NoDanglingEntry == \A i \in items : life[i] # "free"

\* A reconnect is never forgotten: every item registered when onReconnected()
\* was called and not called back yet is covered by a round that is requested
\* or under way, unless its destructor has begun.
ReconnectNotLost ==
  \A i \in owed : revalidatePending \/ i \in pending \/ life[i] = "dying"

\* Earliest deadline first (loop, advanceDeadline): while an item is overdue,
\* no other item is sampled twice.
SampleBegins(a) == pc = "lockLoop" /\ pc' = "call" /\ cur' = a
NoOvertaking ==
  [][\A a \in Items : SampleBegins(a) => \A b \in items : a \notin served[b]]_vars

\* Once the scheduler is destroyed no living item still points to it: those
\* never removed() were told by the destructor's sweep.
LiveItemsForgetScheduler ==
  host = "destroyed" => \A i \in Items : sched[i] => life[i] = "dying"

\* What the comment in ~SamplingScheduler is after: the destructor of an item
\* that outlives the scheduler never unregisters from one that is gone.
NoDestructorReachesFreedScheduler ==
  host = "destroyed" => \A i \in Items : life[i] = "dying" => Detached(i)

\* The inductive strengthening of the above: what the parts say is in its
\* conjuncts, and why it is needed in SamplingSchedulerProofs.
ItemsConsistent ==
  \A i \in Items :
    /\ ext[i] => life[i] = "live"
    /\ sched[i] \/ detaching[i] => life[i] # "free"
    /\ ~(sched[i] /\ detaching[i])
    /\ i \in items => life[i] # "free" /\ (sched[i] \/ detaching[i])
    /\ i \in (items \cup leftover) \ Owned => life[i] = "live"
CallConsistent ==
  /\ pc = "call" => cur \in Items /\ life[cur] = "live"
  /\ pc = "dtor" => cur \in Items /\ life[cur] = "dying"
OwedConsistent ==
  /\ owed \subseteq items
  /\ ~running /\ pc # "none" => host # "idle" /\ owed = {}
ServedConsistent ==
  \A b \in Items : \A a \in served[b] : a \in items /\ b \in items /\ due[a] > due[b]
HostConsistent ==
  /\ host \in {"sweeping", "destroyed"} => items = {}
  /\ host # "sweeping" => leftover = {}
  /\ host \in {"destroying", "sweeping", "destroyed"} =>
       \A i \in Items : sched[i] /\ life[i] = "live" => i \in items \cup leftover
IInv ==
  /\ TypeOK /\ ItemsConsistent /\ CallConsistent /\ OwedConsistent
  /\ ReconnectNotLost /\ ServedConsistent /\ HostConsistent

-----------------------------------------------------------------------------
(* What the scheduler promises to its items, and liveness *)

Promise == INSTANCE ItemCalls WITH
  alive      <- {i \in Items : life[i] = "live"},
  registered <- items,
  calling    <- IF pc = "call" THEN cur ELSE None,
  owed       <- owed
PromiseKept == Promise!Spec

Stable == <>[](running /\ connected)

\* Once the connection stays up, every item a reconnect was announced for is
\* revalidated, or leaves.
ReconnectServed == Stable => \A i \in Items : i \in owed ~> i \notin owed

\* Once the connection stays up, no registered item starves.
Sampled(i) == pc = "call" /\ cur = i /\ kind = "sample"
NoStarvation == Stable => \A i \in Items : []<>(i \notin items \/ Sampled(i))

\* stop() returns, and so does a destructor of an item: neither the thread
\* joined nor the mutex taken by unregisterItem is ever held for good, not
\* even when the loop thread itself drops the last reference to an item.
StopReturns == host \in {"joining", "destroying"} ~> host \in {"idle", "sweeping"}
DestructorReturns == \A i \in Items : life[i] = "dying" ~> life[i] # "dying"

\* Both: whoever ends the scheduler or an item comes to an end.
TeardownReturns == StopReturns /\ DestructorReturns
=============================================================================
