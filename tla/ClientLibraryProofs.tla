------------------------ MODULE ClientLibraryProofs -------------------------
(***************************************************************************)
(* Proofs about the client library.  The timer tasks, for any helpers,     *)
(* jobs and number of timers: the maps, the timers of the stack and the    *)
(* helpers agree whatever is started, stopped, fired and disconnected.     *)
(* The reference browser, for any graph of finitely many nodes, any batch  *)
(* size and any refusals: an entry is one answer of the server, and what a *)
(* browse leaves is complete.  The attribute reader, for any attributes    *)
(* and batches: a value is of its attribute and not older than the read(). *)
(***************************************************************************)
EXTENDS ClientLibrary, WellFoundedInduction, SequenceTheorems, FiniteSetTheorems, TLAPS

USE ClientTasksAssumption

\* An entry of the map is found under the identifier its helper remembers.
EntryOfItsHelper ==
  \A i \in Ids : callbacks[i] # None => ident[callbacks[i]] = i

\* As long as no helper was started beside a leftover one, identifiers are not
\* shared, and those that are greater than the last one the UA client gave are
\* of helpers that were started with the UA client before.
IdentifiersDiffer ==
  /\ leftover \subseteq {h \in Helpers : ident[h] # 0}
  /\ \A h \in Helpers \ leftover : ~mixed => ident[h] <= lastId
  /\ ~mixed => \A h, g \in Helpers : ident[h] = ident[g] /\ ident[h] # 0 => h = g

\* The entry a callback was found by is there until it is erased.
FiringIsFound ==
  firing # None /\ ~mixed =>
    /\ firing.id <= lastId
    /\ callbacks[firing.id] \in {None, firing.runs}

\* A job is in the queue once, and not while it runs.
JobsOnce ==
  /\ \A i, j \in 1..Len(queue) : queue[i] = queue[j] => i = j
  /\ current # None => /\ future[current] = "pending"
                       /\ \A i \in 1..Len(queue) : queue[i] # current

TimersInv == /\ TimerTasksHold
             /\ EntryOfItsHelper /\ IdentifiersDiffer /\ FiringIsFound

TasksInv == TimersInv /\ JobsOnce

\* What timers depend on and what the processor does to its jobs change apart.
timerState == <<ua, lock, timerVars, firing, iterating, historyVars>>
jobState == <<stopping, queue, current, future>>

-----------------------------------------------------------------------------

LEMMA TasksInitially == ClientTasksInit => TasksInv
<1> SUFFICES ASSUME ClientTasksInit PROVE TasksInv
  OBVIOUS
<1> USE DEF ClientTasksInit, Ids, Firing
<1>1. ClientTasksTypeOK
  <2>1. queue \in Seq(Jobs)
    OBVIOUS
  <2>2. callbacks \in [Ids -> Helpers \cup {None}] /\ ident \in [Helpers -> 0..MaxId]
    OBVIOUS
  <2>3. terminated \in [Helpers -> BOOLEAN] /\ future \in [Jobs -> {"none", "pending", "ready", "broken"}]
    OBVIOUS
  <2>4. lock \in {None, "processor", "iterator"} /\ firing \in Firing \cup {None}
    BY Zenon
  <2>5. timers \subseteq [id : Ids, context : Helpers] /\ leftover \subseteq Helpers
    OBVIOUS
  <2>6. lastId \in 0..MaxId
    OBVIOUS
  <2>7. mixed \in BOOLEAN /\ stopping \in BOOLEAN
    BY Zenon
  <2>8. /\ ua \in {"null", "idle", "connected"} /\ iterating \in {"off", "on", "ended"}
        /\ processor \in {"off", "loop", "job", "iterate", "callback", "ended"}
        /\ current \in Jobs \cup {None}
    OBVIOUS
  <2> HIDE DEF Firing, Ids, ClientTasksInit
  <2> QED BY <2>1, <2>2, <2>3, <2>4, <2>5, <2>6, <2>7, <2>8 DEF ClientTasksTypeOK
<1>2. ClientTasksConsistent
  BY DEF ClientTasksConsistent
<1>3. TimerRunsItsTask /\ StartedHelperIsScheduled
  BY DEF TimerRunsItsTask, StartedHelperIsScheduled
<1>4. EntryOfItsHelper /\ IdentifiersDiffer /\ FiringIsFound /\ JobsOnce
  BY DEF EntryOfItsHelper, IdentifiersDiffer, FiringIsFound, JobsOnce
<1> QED BY <1>1, <1>2, <1>3, <1>4 DEF TasksInv, TimersInv, TimerTasksHold, ClientTasksInv

\* Where the timers and the connection stand still, so does what holds of them.
LEMMA TimersStay ==
  ASSUME TasksInv, UNCHANGED timerState
  PROVE  /\ TimerRunsItsTask' /\ StartedHelperIsScheduled'
         /\ EntryOfItsHelper' /\ IdentifiersDiffer' /\ FiringIsFound'
BY DEF timerState, timerVars, historyVars, TasksInv, TimersInv, TimerTasksHold, TimerRunsItsTask,
       StartedHelperIsScheduled, EntryOfItsHelper, IdentifiersDiffer, FiringIsFound

LEMMA JobsStay ==
  ASSUME TasksInv, UNCHANGED jobState
  PROVE  JobsOnce'
BY DEF jobState, TasksInv, JobsOnce

\* A helper is started under the next identifier.
LEMMA StartKeeps ==
  ASSUME TasksInv, NEW h \in Helpers, NEW t \in {Application, "processor", "iterator"}, StartHelper(t, h)
  PROVE  TasksInv'
<1> USE DEF TasksInv, TimersInv, TimerTasksHold, ClientTasksInv, StartHelper, ScheduleTimerTask
<1>0. ~mixed' => ~mixed /\ leftover = {}
  BY Zenon
<1>1. ClientTasksTypeOK'
  BY DEF ClientTasksTypeOK, Ids, Firing, timerVars, processorVars, historyVars
<1>2. ClientTasksConsistent'
  <2>1. ASSUME ~mixed', NEW timer \in timers'
        PROVE  callbacks'[timer.id] = timer.context /\ ident'[timer.context] = timer.id
    <3>1. leftover = {} /\ ~mixed /\ lastId + 1 \in Ids
      BY <1>0, <2>1 DEF ClientTasksTypeOK, Ids
    <3>2. callbacks[lastId + 1] = None
      BY <3>1 DEF ClientTasksTypeOK, EntryOfItsHelper, IdentifiersDiffer, Ids
    <3>3. CASE timer \in timers
      BY <2>1, <3>1, <3>2, <3>3 DEF ClientTasksTypeOK, ClientTasksConsistent, Ids
    <3>4. CASE timer = [id |-> lastId + 1, context |-> h]
      BY <3>1, <3>2, <3>4 DEF ClientTasksTypeOK, Ids
    <3> QED BY <3>3, <3>4
  <2>2. \A timer \in timers' : timer.id <= lastId'
    BY DEF ClientTasksTypeOK, ClientTasksConsistent, Ids
  <2> QED BY <2>1, <2>2 DEF ClientTasksConsistent, processorVars
<1>3. TimerRunsItsTask'
  BY DEF TimerRunsItsTask, ClientTasksTypeOK, ClientTasksConsistent, IdentifiersDiffer, EntryOfItsHelper, FiringIsFound, Ids, Firing, timerVars, processorVars, historyVars
<1>4. StartedHelperIsScheduled'
  BY DEF StartedHelperIsScheduled, ClientTasksTypeOK, ClientTasksConsistent, IdentifiersDiffer, EntryOfItsHelper, FiringIsFound, Ids, Firing, timerVars, processorVars, historyVars
<1>5. EntryOfItsHelper'
  BY DEF EntryOfItsHelper, ClientTasksTypeOK, ClientTasksConsistent, IdentifiersDiffer, EntryOfItsHelper, FiringIsFound, Ids, Firing, timerVars, processorVars, historyVars
<1>6. IdentifiersDiffer'
  <2>1. \A g \in Helpers \ leftover : ~mixed' => ident'[g] <= lastId'
    BY DEF ClientTasksTypeOK, IdentifiersDiffer
  <2>2. ~mixed' => \A g \in Helpers : ident[g] < lastId + 1
    <3> SUFFICES ASSUME ~mixed', NEW g \in Helpers PROVE ident[g] < lastId + 1
      OBVIOUS
    <3>1. ~mixed /\ g \in Helpers \ leftover
      BY <1>0
    <3>2. ident[g] <= lastId
      BY <3>1 DEF IdentifiersDiffer
    <3> QED BY <3>2 DEF ClientTasksTypeOK
  <2>3. ~mixed' => \A f, g \in Helpers : ident'[f] = ident'[g] /\ ident'[f] # 0 => f = g
    BY <2>2 DEF ClientTasksTypeOK, IdentifiersDiffer
  <2>4. leftover' \subseteq {g \in Helpers : ident'[g] # 0}
    BY DEF ClientTasksTypeOK, IdentifiersDiffer
  <2> QED BY <2>1, <2>3, <2>4 DEF IdentifiersDiffer
<1>7. FiringIsFound'
  BY DEF FiringIsFound, ClientTasksTypeOK, ClientTasksConsistent, IdentifiersDiffer, EntryOfItsHelper, FiringIsFound, Ids, Firing, timerVars, processorVars, historyVars
<1>8. UNCHANGED jobState
  BY DEF jobState, Ids, Firing, timerVars, processorVars, historyVars
<1> QED BY <1>1, <1>2, <1>3, <1>4, <1>5, <1>6, <1>7, <1>8, JobsStay

\* A helper is stopped: its timer and its entry go.
LEMMA StopKeeps ==
  ASSUME TasksInv, NEW h \in Helpers, NEW t \in {Application, "processor", "iterator"}, StopHelper(t, h)
  PROVE  TasksInv'
<1> USE DEF TasksInv, TimersInv, TimerTasksHold, ClientTasksInv, StopHelper, Unscheduled, Erased
<1>1. ClientTasksTypeOK'
  BY DEF ClientTasksTypeOK, Ids, Firing, timerVars, processorVars, historyVars
<1>2. ClientTasksConsistent'
  BY DEF ClientTasksTypeOK, ClientTasksConsistent, Ids, Firing, timerVars, processorVars, historyVars
<1>3. TimerRunsItsTask'
  BY DEF TimerRunsItsTask, ClientTasksTypeOK, ClientTasksConsistent, IdentifiersDiffer, EntryOfItsHelper, FiringIsFound, Ids, Firing, timerVars, processorVars, historyVars
<1>4. StartedHelperIsScheduled'
  BY DEF StartedHelperIsScheduled, ClientTasksTypeOK, ClientTasksConsistent, IdentifiersDiffer, EntryOfItsHelper, FiringIsFound, Ids, Firing, timerVars, processorVars, historyVars
<1>5. EntryOfItsHelper'
  BY DEF EntryOfItsHelper, ClientTasksTypeOK, ClientTasksConsistent, IdentifiersDiffer, EntryOfItsHelper, FiringIsFound, Ids, Firing, timerVars, processorVars, historyVars
<1>6. IdentifiersDiffer'
  BY DEF IdentifiersDiffer, ClientTasksTypeOK, ClientTasksConsistent, IdentifiersDiffer, EntryOfItsHelper, FiringIsFound, Ids, Firing, timerVars, processorVars, historyVars
<1>7. FiringIsFound'
  BY DEF FiringIsFound, ClientTasksTypeOK, ClientTasksConsistent, IdentifiersDiffer, EntryOfItsHelper, FiringIsFound, Ids, Firing, timerVars, processorVars, historyVars
<1>8. UNCHANGED jobState
  BY DEF jobState, Ids, Firing, timerVars, processorVars, historyVars
<1> QED BY <1>1, <1>2, <1>3, <1>4, <1>5, <1>6, <1>7, <1>8, JobsStay

\* A helper is told to end.
LEMMA TerminateKeeps ==
  ASSUME TasksInv, NEW h \in Helpers, TerminateHelper(h)
  PROVE  TasksInv'
<1> USE DEF TasksInv, TimersInv, TimerTasksHold, ClientTasksInv, TerminateHelper
<1>1. ClientTasksTypeOK'
  BY DEF ClientTasksTypeOK, Ids, Firing, timerVars, processorVars, historyVars
<1>2. ClientTasksConsistent'
  BY DEF ClientTasksTypeOK, ClientTasksConsistent, Ids, Firing, timerVars, processorVars, historyVars
<1>3. TimerRunsItsTask'
  BY DEF TimerRunsItsTask, ClientTasksTypeOK, ClientTasksConsistent, IdentifiersDiffer, EntryOfItsHelper, FiringIsFound, Ids, Firing, timerVars, processorVars, historyVars
<1>4. StartedHelperIsScheduled'
  BY DEF StartedHelperIsScheduled, ClientTasksTypeOK, ClientTasksConsistent, IdentifiersDiffer, EntryOfItsHelper, FiringIsFound, Ids, Firing, timerVars, processorVars, historyVars
<1>5. EntryOfItsHelper'
  BY DEF EntryOfItsHelper, ClientTasksTypeOK, ClientTasksConsistent, IdentifiersDiffer, EntryOfItsHelper, FiringIsFound, Ids, Firing, timerVars, processorVars, historyVars
<1>6. IdentifiersDiffer'
  BY DEF IdentifiersDiffer, ClientTasksTypeOK, ClientTasksConsistent, IdentifiersDiffer, EntryOfItsHelper, FiringIsFound, Ids, Firing, timerVars, processorVars, historyVars
<1>7. FiringIsFound'
  BY DEF FiringIsFound, ClientTasksTypeOK, ClientTasksConsistent, IdentifiersDiffer, EntryOfItsHelper, FiringIsFound, Ids, Firing, timerVars, processorVars, historyVars
<1>8. UNCHANGED jobState
  BY DEF jobState, Ids, Firing, timerVars, processorVars, historyVars
<1> QED BY <1>1, <1>2, <1>3, <1>4, <1>5, <1>6, <1>7, <1>8, JobsStay

\* A timer fires, on the thread of the processor or on the client's own.
LEMMA FireKeeps ==
  ASSUME TasksInv, ProcessorFires \/ IteratorFires
  PROVE  TasksInv'
<1> USE DEF TasksInv, TimersInv, TimerTasksHold, ClientTasksInv, ProcessorFires, IteratorFires, FireTimer
<1>1. ClientTasksTypeOK'
  BY DEF ClientTasksTypeOK, Ids, Firing, timerVars, processorVars, historyVars
<1>2. ClientTasksConsistent'
  BY DEF ClientTasksTypeOK, ClientTasksConsistent, Ids, Firing, timerVars, processorVars, historyVars
<1>3. TimerRunsItsTask'
  BY DEF TimerRunsItsTask, ClientTasksTypeOK, ClientTasksConsistent, IdentifiersDiffer, EntryOfItsHelper, FiringIsFound, Ids, Firing, timerVars, processorVars, historyVars
<1>4. StartedHelperIsScheduled'
  BY DEF StartedHelperIsScheduled, ClientTasksTypeOK, ClientTasksConsistent, IdentifiersDiffer, EntryOfItsHelper, FiringIsFound, Ids, Firing, timerVars, processorVars, historyVars
<1>5. EntryOfItsHelper'
  BY DEF EntryOfItsHelper, ClientTasksTypeOK, ClientTasksConsistent, IdentifiersDiffer, EntryOfItsHelper, FiringIsFound, Ids, Firing, timerVars, processorVars, historyVars
<1>6. IdentifiersDiffer'
  BY DEF IdentifiersDiffer, ClientTasksTypeOK, ClientTasksConsistent, IdentifiersDiffer, EntryOfItsHelper, FiringIsFound, Ids, Firing, timerVars, processorVars, historyVars
<1>7. FiringIsFound'
  BY DEF FiringIsFound, ClientTasksTypeOK, ClientTasksConsistent, IdentifiersDiffer, EntryOfItsHelper, FiringIsFound, Ids, Firing, timerVars, processorVars, historyVars
<1>8. UNCHANGED jobState
  BY DEF jobState, Ids, Firing, timerVars, processorVars, historyVars
<1> QED BY <1>1, <1>2, <1>3, <1>4, <1>5, <1>6, <1>7, <1>8, JobsStay

\* A callback ends, and with it a task that was told to.
LEMMA EndKeeps ==
  ASSUME TasksInv, ProcessorEndsCallback \/ IteratorEndsCallback
  PROVE  TasksInv'
<1> USE DEF TasksInv, TimersInv, TimerTasksHold, ClientTasksInv, ProcessorEndsCallback, IteratorEndsCallback, EndCallback, Unscheduled, Erased
<1>1. ClientTasksTypeOK'
  BY DEF ClientTasksTypeOK, Ids, Firing, timerVars, processorVars, historyVars
<1>2. ClientTasksConsistent'
  BY DEF ClientTasksTypeOK, ClientTasksConsistent, Ids, Firing, timerVars, processorVars, historyVars
<1>3. TimerRunsItsTask'
  BY DEF TimerRunsItsTask, ClientTasksTypeOK, ClientTasksConsistent, IdentifiersDiffer, EntryOfItsHelper, FiringIsFound, Ids, Firing, timerVars, processorVars, historyVars
<1>4. StartedHelperIsScheduled'
  BY DEF StartedHelperIsScheduled, ClientTasksTypeOK, ClientTasksConsistent, IdentifiersDiffer, EntryOfItsHelper, FiringIsFound, Ids, Firing, timerVars, processorVars, historyVars
<1>5. EntryOfItsHelper'
  BY DEF EntryOfItsHelper, ClientTasksTypeOK, ClientTasksConsistent, IdentifiersDiffer, EntryOfItsHelper, FiringIsFound, Ids, Firing, timerVars, processorVars, historyVars
<1>6. IdentifiersDiffer'
  BY DEF IdentifiersDiffer, ClientTasksTypeOK, ClientTasksConsistent, IdentifiersDiffer, EntryOfItsHelper, FiringIsFound, Ids, Firing, timerVars, processorVars, historyVars
<1>7. FiringIsFound'
  BY DEF FiringIsFound, ClientTasksTypeOK, ClientTasksConsistent, IdentifiersDiffer, EntryOfItsHelper, FiringIsFound, Ids, Firing, timerVars, processorVars, historyVars
<1>8. UNCHANGED jobState
  BY DEF jobState, Ids, Firing, timerVars, processorVars, historyVars
<1> QED BY <1>1, <1>2, <1>3, <1>4, <1>5, <1>6, <1>7, <1>8, JobsStay

\* The connection comes and goes, and the iterate thread with it.
LEMMA ConnectionKeeps ==
  ASSUME TasksInv, Connect \/ ConnectionLost \/ RunIterate \/ IterateFails
  PROVE  TasksInv'
<1> USE DEF TasksInv, TimersInv, TimerTasksHold, ClientTasksInv, Connect, ConnectionLost, RunIterate, IterateFails, CanLock
<1>1. ClientTasksTypeOK'
  BY DEF ClientTasksTypeOK, Ids, Firing, timerVars, processorVars, historyVars
<1>2. ClientTasksConsistent'
  BY DEF ClientTasksTypeOK, ClientTasksConsistent, Ids, Firing, timerVars, processorVars, historyVars
<1>3. TimerRunsItsTask'
  BY DEF TimerRunsItsTask, ClientTasksTypeOK, ClientTasksConsistent, IdentifiersDiffer, EntryOfItsHelper, FiringIsFound, Ids, Firing, timerVars, processorVars, historyVars
<1>4. StartedHelperIsScheduled'
  BY DEF StartedHelperIsScheduled, ClientTasksTypeOK, ClientTasksConsistent, IdentifiersDiffer, EntryOfItsHelper, FiringIsFound, Ids, Firing, timerVars, processorVars, historyVars
<1>5. EntryOfItsHelper'
  BY DEF EntryOfItsHelper, ClientTasksTypeOK, ClientTasksConsistent, IdentifiersDiffer, EntryOfItsHelper, FiringIsFound, Ids, Firing, timerVars, processorVars, historyVars
<1>6. IdentifiersDiffer'
  BY DEF IdentifiersDiffer, ClientTasksTypeOK, ClientTasksConsistent, IdentifiersDiffer, EntryOfItsHelper, FiringIsFound, Ids, Firing, timerVars, processorVars, historyVars
<1>7. FiringIsFound'
  BY DEF FiringIsFound, ClientTasksTypeOK, ClientTasksConsistent, IdentifiersDiffer, EntryOfItsHelper, FiringIsFound, Ids, Firing, timerVars, processorVars, historyVars
<1>8. UNCHANGED jobState
  BY DEF jobState, Ids, Firing, timerVars, processorVars, historyVars
<1> QED BY <1>1, <1>2, <1>3, <1>4, <1>5, <1>6, <1>7, <1>8, JobsStay

\* A disconnect may delete the UA client with its timers.
LEMMA DisconnectKeeps ==
  ASSUME TasksInv, Disconnect(TRUE) \/ Disconnect(FALSE)
  PROVE  TasksInv'
<1> USE DEF TasksInv, TimersInv, TimerTasksHold, ClientTasksInv, Disconnect
<1>1. ClientTasksTypeOK'
  BY DEF ClientTasksTypeOK, Ids, Firing, timerVars, processorVars, historyVars
<1>2. ClientTasksConsistent'
  BY DEF ClientTasksTypeOK, ClientTasksConsistent, Ids, Firing, timerVars, processorVars, historyVars
<1>3. TimerRunsItsTask'
  BY DEF TimerRunsItsTask, ClientTasksTypeOK, ClientTasksConsistent, IdentifiersDiffer, EntryOfItsHelper, FiringIsFound, Ids, Firing, timerVars, processorVars, historyVars
<1>4. StartedHelperIsScheduled'
  BY DEF StartedHelperIsScheduled, ClientTasksTypeOK, ClientTasksConsistent, IdentifiersDiffer, EntryOfItsHelper, FiringIsFound, Ids, Firing, timerVars, processorVars, historyVars
<1>5. EntryOfItsHelper'
  BY DEF EntryOfItsHelper, ClientTasksTypeOK, ClientTasksConsistent, IdentifiersDiffer, EntryOfItsHelper, FiringIsFound, Ids, Firing, timerVars, processorVars, historyVars
<1>6. IdentifiersDiffer'
  BY DEF IdentifiersDiffer, ClientTasksTypeOK, ClientTasksConsistent, IdentifiersDiffer, EntryOfItsHelper, FiringIsFound, Ids, Firing, timerVars, processorVars, historyVars
<1>7. FiringIsFound'
  BY DEF FiringIsFound, ClientTasksTypeOK, ClientTasksConsistent, IdentifiersDiffer, EntryOfItsHelper, FiringIsFound, Ids, Firing, timerVars, processorVars, historyVars
<1>8. UNCHANGED jobState
  BY DEF jobState, Ids, Firing, timerVars, processorVars, historyVars
<1> QED BY <1>1, <1>2, <1>3, <1>4, <1>5, <1>6, <1>7, <1>8, JobsStay

\* The processor and its queue.
LEMMA ProcessorKeeps ==
  ASSUME TasksInv, StartProcessor \/ StopProcessor \/ DestroyProcessor \/ IterateOnce
  PROVE  TasksInv'
<1> USE DEF TasksInv, TimersInv, TimerTasksHold, ClientTasksInv,
            StartProcessor, StopProcessor, DestroyProcessor, IterateOnce
<1>1. ClientTasksTypeOK'
  <2>1. CASE DestroyProcessor
    <3>1. queue' \in Seq(Jobs) /\ queue' = << >>
      BY <2>1
    <3>2. future' \in [Jobs -> {"none", "pending", "ready", "broken"}]
      BY <2>1 DEF ClientTasksTypeOK
    <3> QED BY <2>1, <3>1, <3>2 DEF ClientTasksTypeOK, timerVars, historyVars
  <2>2. CASE StartProcessor \/ StopProcessor \/ IterateOnce
    BY <2>2 DEF ClientTasksTypeOK, timerVars, historyVars
  <2> QED BY <2>1, <2>2
<1>2. ClientTasksConsistent'
  BY DEF ClientTasksTypeOK, ClientTasksConsistent, timerVars, historyVars
<1>3. UNCHANGED timerState
  BY DEF timerState
<1>4. JobsOnce'
  <2>1. CASE DestroyProcessor
    <3>1. current' = None
      BY <2>1 DEF ClientTasksConsistent
    <3>2. queue' = << >>
      BY <2>1
    <3> QED BY <3>1, <3>2 DEF JobsOnce
  <2>2. CASE StartProcessor \/ StopProcessor \/ IterateOnce
    BY <2>2 DEF JobsOnce
  <2> QED BY <2>1, <2>2
<1> QED BY <1>1, <1>2, <1>3, <1>4, TimersStay

LEMMA JobsKeep ==
  ASSUME TasksInv, (\E j \in Jobs : Push(j)) \/ TakeJob \/ RunJob
  PROVE  TasksInv'
<1> USE DEF TasksInv, TimersInv, TimerTasksHold, ClientTasksInv
<1>1. UNCHANGED timerState
  BY DEF timerState, Push, TakeJob, RunJob
<1>2. ASSUME NEW j \in Jobs, Push(j)
      PROVE  ClientTasksTypeOK' /\ ClientTasksConsistent' /\ JobsOnce'
  <2> USE <1>2 DEF Push
  <2>1. ClientTasksTypeOK'
    BY DEF ClientTasksTypeOK, timerVars, historyVars
  <2>2. /\ Len(queue') = Len(queue) + 1 /\ queue'[Len(queue) + 1] = j
        /\ \A i \in 1..Len(queue) : queue'[i] = queue[i] /\ queue[i] # j
    BY DEF ClientTasksTypeOK, ClientTasksConsistent
  <2>3. ClientTasksConsistent'
    BY <2>2 DEF ClientTasksTypeOK, ClientTasksConsistent, timerVars, historyVars
  <2>4. JobsOnce'
    BY <2>2 DEF JobsOnce, ClientTasksTypeOK
  <2> QED BY <2>1, <2>3, <2>4
<1>3. ASSUME TakeJob
      PROVE  ClientTasksTypeOK' /\ ClientTasksConsistent' /\ JobsOnce'
  <2> USE DEF TakeJob
  <2>1. CASE UNCHANGED <<queue, current>> /\ processor' \in {"ended", "iterate"}
    <3>1. ClientTasksTypeOK'
      BY <1>3, <2>1 DEF ClientTasksTypeOK, timerVars, historyVars
    <3>2. ClientTasksConsistent'
      BY <1>3, <2>1 DEF ClientTasksTypeOK, ClientTasksConsistent, timerVars, historyVars
    <3>3. JobsOnce'
      BY <1>3, <2>1 DEF JobsOnce
    <3> QED BY <3>1, <3>2, <3>3
  <2>2. CASE queue # <<>> /\ current' = Head(queue) /\ queue' = Tail(queue) /\ processor' = "job"
    <3>1. /\ queue' \in Seq(Jobs) /\ Len(queue') = Len(queue) - 1 /\ current' = queue[1]
          /\ \A i \in 1..Len(queue') : queue'[i] = queue[i + 1]
          /\ Len(queue) \in Nat /\ Len(queue) >= 1 /\ current' \in Jobs
      BY <2>2 DEF ClientTasksTypeOK
    <3>2. ClientTasksTypeOK'
      BY <1>3, <2>2, <3>1 DEF ClientTasksTypeOK, timerVars, historyVars
    <3>3. ClientTasksConsistent'
      BY <1>3, <2>2, <3>1 DEF ClientTasksTypeOK, ClientTasksConsistent, timerVars, historyVars
    <3>4. JobsOnce'
      BY <1>3, <2>2, <3>1 DEF ClientTasksConsistent, JobsOnce
    <3> QED BY <3>2, <3>3, <3>4
  <2> QED BY <1>3, <2>1, <2>2
<1>4. ASSUME RunJob
      PROVE  ClientTasksTypeOK' /\ ClientTasksConsistent' /\ JobsOnce'
  <2> USE <1>4 DEF RunJob
  <2>1. PICK nested \in SUBSET {j \in Jobs : future[j] = "none"} :
          future' = [j \in Jobs |-> IF j \in nested \cup {current} THEN "ready" ELSE future[j]]
    OBVIOUS
  <2>2. ClientTasksTypeOK'
    BY <2>1 DEF ClientTasksTypeOK, timerVars, historyVars
  <2>3. \A i \in 1..Len(queue) : queue[i] \in Jobs /\ future'[queue[i]] = "pending"
    BY <2>1 DEF ClientTasksTypeOK, ClientTasksConsistent, JobsOnce
  <2>4. ClientTasksConsistent'
    BY <2>3 DEF ClientTasksTypeOK, ClientTasksConsistent, timerVars, historyVars
  <2>5. JobsOnce'
    BY DEF JobsOnce
  <2> QED BY <2>2, <2>4, <2>5
<1> QED BY <1>1, <1>2, <1>3, <1>4, TimersStay

-----------------------------------------------------------------------------

LEMMA TasksStep ==
  ASSUME TasksInv, [ClientTasksNext]_clientTaskVars
  PROVE  TasksInv'
<1>1. CASE UNCHANGED clientTaskVars
  <2>1. UNCHANGED timerState /\ UNCHANGED jobState /\ UNCHANGED processor
    BY <1>1 DEF clientTaskVars, timerState, jobState, processorVars
  <2>2. ClientTasksInv'
    BY <2>1 DEF timerState, jobState, timerVars, historyVars, TasksInv, TimersInv, TimerTasksHold,
                ClientTasksInv, ClientTasksTypeOK, ClientTasksConsistent
  <2> QED BY <2>1, <2>2, TimersStay, JobsStay DEF TasksInv, TimersInv, TimerTasksHold
<1>2. CASE UseTimers
  <2>1. {Application} \cup ({lock} \ {None}) \subseteq {Application, "processor", "iterator"}
    BY DEF TasksInv, TimersInv, TimerTasksHold, ClientTasksInv, ClientTasksTypeOK
  <2> QED BY <1>2, <2>1, StartKeeps, StopKeeps, TerminateKeeps DEF UseTimers
<1> QED BY <1>1, <1>2, FireKeeps, EndKeeps, ConnectionKeeps, DisconnectKeeps, ProcessorKeeps, JobsKeep
        DEF ClientTasksNext, ProcessorStep

\* Of the library a behaviour follows one part: the timers take their steps or stay.
LEMMA LibraryTasks == Spec => []TasksInv
<1>1. Init => TasksInv
  BY TasksInitially DEF Init
<1>2. TasksInv /\ [Next]_libraryVars => TasksInv'
  <2>1. [Next]_libraryVars => [ClientTasksNext]_clientTaskVars
    BY DEF Next, libraryVars
  <2> QED BY <2>1, TasksStep
<1> QED BY <1>1, <1>2, PTL DEF Spec

\* The maps of the client, the timers of the stack and the helpers agree across
\* callbacks and disconnects, and a timer runs the task it was scheduled with.
THEOREM LibraryTimerTasks == Spec => []TimerTasksHold
<1>1. TasksInv => TimerTasksHold
  BY DEF TasksInv, TimersInv
<1> QED BY <1>1, LibraryTasks, PTL

\* No callback of a helper begins after OpcUaTimerTaskHelper::stop(): the entry
\* it would be found by is the helper's own, and stop() erases it.
THEOREM LibraryStoppedIsSilent == Spec => StoppedHelperIsSilent
<1>1. TasksInv /\ [Next]_libraryVars
        => [firing = None /\ firing' # None => ident[firing'.runs] # 0]_clientTaskVars
  <2> SUFFICES ASSUME TasksInv, [Next]_libraryVars, firing = None, firing' # None
               PROVE  ident[firing'.runs] # 0
    OBVIOUS
  <2>1. ClientTasksNext
    BY DEF Next, libraryVars, clientTaskVars
  <2>2. PICK t \in {"processor", "iterator"} : FireTimer(t)
    BY <2>1 DEF ClientTasksNext, UseTimers, StartHelper, StopHelper, TerminateHelper, Connect, ConnectionLost,
       Disconnect, RunIterate, IterateFails, IteratorFires, IteratorEndsCallback, EndCallback,
       StartProcessor, StopProcessor, DestroyProcessor, Push, ProcessorStep, TakeJob, RunJob,
       IterateOnce, ProcessorFires, ProcessorEndsCallback
  <2>3. PICK timer \in timers : /\ callbacks[timer.id] # None
                                /\ firing' = [id |-> timer.id, context |-> timer.context, runs |-> callbacks[timer.id]]
    BY <2>2 DEF FireTimer
  <2> QED BY <2>3 DEF TasksInv, TimersInv, TimerTasksHold, ClientTasksInv, ClientTasksTypeOK,
                      EntryOfItsHelper, Ids
<1> QED BY <1>1, LibraryTasks, PTL DEF Spec, StoppedHelperIsSilent

-----------------------------------------------------------------------------
(* Sequences *)

HIDE ClientTasksAssumption

\* A set of numbers that has 0, and with a number the next, has them all.
LEMMA AllNumbers ==
  ASSUME NEW S, 0 \in S, \A n \in Nat : n \in S => n + 1 \in S
  PROVE  Nat \subseteq S
<1> SUFFICES ASSUME Nat \ S # {} PROVE FALSE
  OBVIOUS
<1>1. PICK m \in Nat \ S : \A n \in Nat \ S : <<n, m>> \notin OpToRel(<, Nat)
  BY NatLessThanWellFounded, WFMin
<1>2. \A n \in Nat \ S : ~(n < m)
  BY <1>1 DEF OpToRel
<1>3. m \in Nat /\ m # 0
  BY <1>1
<1>4. m - 1 \in Nat /\ m - 1 < m /\ m - 1 + 1 = m
  BY <1>3
<1> QED BY <1>1, <1>2, <1>4

\* The sequence of a finite set has its elements.
LEMMA SequenceOfSet ==
  ASSUME NEW S, IsFiniteSet(S)
  PROVE  SetToSeq(S) \in Seq(S) /\ \A x \in S : Contains(SetToSeq(S), x)
<1> DEFINE n == Cardinality(S)
<1>1. n \in Nat /\ ExistsBijection(1..n, S)
  BY FS_CardinalityType
<1>2. PICK b \in Bijection(1..n, S) : TRUE
  BY <1>1 DEF ExistsBijection
<1>3. b \in [1..n -> S] /\ \A i, j \in 1..n : b[i] = b[j] => i = j
  BY <1>2 DEF Bijection, Injection, IsInjective
<1>4. \E f \in [1..n -> S] : IsInjective(f)
  BY <1>3 DEF IsInjective
<1>5. SetToSeq(S) = CHOOSE f \in [1..n -> S] : IsInjective(f)
  BY DEF SetToSeq
<1> DEFINE s == SetToSeq(S)
<1>6. s \in [1..n -> S] /\ IsInjective(s)
  BY <1>4, <1>5
<1>7. s \in Injection(1..n, S)
  BY <1>6 DEF Injection, IsInjective
<1>8. Cardinality(1..n) = n
  BY <1>1, FS_Interval
<1>9. s \in Surjection(1..n, S)
  BY <1>7, <1>8, FS_Injection
<1>10. s \in Seq(S) /\ Len(s) = n
  BY <1>1, <1>6
<1>11. \A x \in S : \E i \in 1..n : s[i] = x
  BY <1>9 DEF Surjection
<1> QED BY <1>10, <1>11 DEF Contains

\* Joined sequences have the elements of both.
LEMMA JoinedHasBoth ==
  ASSUME NEW S, NEW a \in Seq(S), NEW b \in Seq(S)
  PROVE  a \o b \in Seq(S) /\ \A x : Contains(a, x) \/ Contains(b, x) => Contains(a \o b, x)
<1>1. /\ a \o b \in Seq(S) /\ Len(a \o b) = Len(a) + Len(b) /\ Len(a) \in Nat /\ Len(b) \in Nat
      /\ \A k \in 1..Len(a) : (a \o b)[k] = a[k]
      /\ \A k \in 1..Len(b) : (a \o b)[Len(a) + k] = b[k]
  OBVIOUS
<1>2. ASSUME NEW x, NEW k \in 1..Len(a), a[k] = x PROVE Contains(a \o b, x)
  <2>1. k \in 1..Len(a \o b) /\ (a \o b)[k] = x
    BY <1>1, <1>2
  <2> QED BY <2>1 DEF Contains
<1>3. ASSUME NEW x, NEW k \in 1..Len(b), b[k] = x PROVE Contains(a \o b, x)
  <2>1. Len(a) + k \in 1..Len(a \o b) /\ (a \o b)[Len(a) + k] = x
    BY <1>1, <1>3
  <2> QED BY <2>1 DEF Contains
<1> QED BY <1>1, <1>2, <1>3 DEF Contains

\* Flattened sequences have the elements of each of them.
FlatteningsOf(S, seqs, n) ==
  {flat \in [1..n -> Seq(S)] : \A i \in 1..n : flat[i] = IF i = 1 THEN seqs[i] ELSE flat[i - 1] \o seqs[i]}

LEMMA FlatteningExists ==
  ASSUME NEW S, NEW seqs \in Seq(Seq(S)), NEW n \in Nat, n <= Len(seqs)
  PROVE  FlatteningsOf(S, seqs, n) # {}
<1> DEFINE N == {m \in Nat : m <= Len(seqs) => FlatteningsOf(S, seqs, m) # {}}
<1>1. 0 \in N
  <2> DEFINE flat == [i \in 1..0 |-> <<>>]
  <2>1. flat \in [1..0 -> Seq(S)] /\ ~(\E i \in 1..0 : TRUE)
    OBVIOUS
  <2> QED BY <2>1 DEF FlatteningsOf
<1>2. ASSUME NEW m \in Nat, m \in N PROVE m + 1 \in N
  <2> SUFFICES ASSUME m + 1 <= Len(seqs) PROVE FlatteningsOf(S, seqs, m + 1) # {}
    OBVIOUS
  <2>1. m <= Len(seqs) /\ m + 1 \in 1..Len(seqs) /\ seqs[m + 1] \in Seq(S)
    OBVIOUS
  <2>2. PICK flat \in FlatteningsOf(S, seqs, m) : TRUE
    BY <1>2, <2>1
  <2>3. flat \in [1..m -> Seq(S)] /\ \A i \in 1..m : flat[i] = IF i = 1 THEN seqs[i] ELSE flat[i - 1] \o seqs[i]
    BY <2>2 DEF FlatteningsOf
  <2> DEFINE last == IF m + 1 = 1 THEN seqs[m + 1] ELSE flat[m] \o seqs[m + 1]
             more == [i \in 1..(m + 1) |-> IF i <= m THEN flat[i] ELSE last]
  <2>4. last \in Seq(S)
    <3>1. CASE m = 0
      BY <2>1, <3>1
    <3>2. CASE m # 0
      <4>1. flat[m] \in Seq(S)
        BY <2>3, <3>2
      <4> QED BY <2>1, <3>2, <4>1, ConcatProperties
    <3> QED BY <3>1, <3>2
  <2>5. more \in [1..(m + 1) -> Seq(S)]
    <3> HIDE DEF last
    <3> QED BY <2>3, <2>4
  <2>6. ASSUME NEW i \in 1..(m + 1) PROVE more[i] = IF i = 1 THEN seqs[i] ELSE more[i - 1] \o seqs[i]
    <3>1. CASE i <= m
      <4>1. i \in 1..m /\ (i # 1 => i - 1 \in 1..m /\ i - 1 <= m)
        BY <3>1
      <4>2. more[i] = flat[i] /\ (i # 1 => more[i - 1] = flat[i - 1])
        BY <4>1
      <4> QED BY <2>3, <4>1, <4>2
    <3>2. CASE i = m + 1
      <4>1. more[i] = last
        BY <3>2
      <4>2. i # 1 => i - 1 = m /\ more[i - 1] = flat[m]
        BY <3>2
      <4> QED BY <3>2, <4>1, <4>2
    <3> QED BY <3>1, <3>2
  <2> HIDE DEF more
  <2> QED BY <2>5, <2>6 DEF FlatteningsOf
<1> HIDE DEF N
<1>3. Nat \subseteq N
  BY <1>1, <1>2, AllNumbers
<1> QED BY <1>3 DEF N

LEMMA FlattenedHasAll ==
  ASSUME NEW S, NEW seqs \in Seq(Seq(S))
  PROVE  /\ FlattenSeq(seqs) \in Seq(S)
         /\ \A i \in 1..Len(seqs) : \A x : Contains(seqs[i], x) => Contains(FlattenSeq(seqs), x)
<1>1. CASE Len(seqs) = 0
  <2>1. FlattenSeq(seqs) = seqs /\ seqs = <<>>
    BY <1>1 DEF FlattenSeq
  <2> QED BY <1>1, <2>1
<1>2. CASE Len(seqs) # 0
  <2> DEFINE n == Len(seqs)
             Flat == CHOOSE flat : flat = [i \in 1..n |-> IF i = 1 THEN seqs[i] ELSE flat[i - 1] \o seqs[i]]
  <2>1. n \in Nat /\ n >= 1
    BY <1>2
  <2>2. FlattenSeq(seqs) = Flat[n]
    BY <1>2 DEF FlattenSeq
  <2>3. PICK flat \in FlatteningsOf(S, seqs, n) : TRUE
    BY <2>1, FlatteningExists
  <2>4. flat \in [1..n -> Seq(S)] /\ \A i \in 1..n : flat[i] = IF i = 1 THEN seqs[i] ELSE flat[i - 1] \o seqs[i]
    BY <2>3 DEF FlatteningsOf
  <2>5. flat = [i \in 1..n |-> IF i = 1 THEN seqs[i] ELSE flat[i - 1] \o seqs[i]]
    BY <2>4
  <2>6. Flat = [i \in 1..n |-> IF i = 1 THEN seqs[i] ELSE Flat[i - 1] \o seqs[i]]
    BY <2>5, Zenon
  <2> HIDE DEF Flat
  <2>7. \A i \in 1..n : Flat[i] = IF i = 1 THEN seqs[i] ELSE Flat[i - 1] \o seqs[i]
    BY <2>6
  <2> DEFINE Has(m) == /\ Flat[m] \in Seq(S)
                       /\ \A i \in 1..m : \A x : Contains(seqs[i], x) => Contains(Flat[m], x)
             N == {m \in Nat : m + 1 <= n => Has(m + 1)}
  <2>8. 0 \in N
    <3>1. Flat[1] = seqs[1] /\ seqs[1] \in Seq(S)
      BY <2>1, <2>7
    <3>2. \A i \in 1..1 : i = 1
      OBVIOUS
    <3> QED BY <3>1, <3>2
  <2>9. ASSUME NEW m \in Nat, m \in N PROVE m + 1 \in N
    <3> SUFFICES ASSUME m + 1 + 1 <= n PROVE Has(m + 1 + 1)
      OBVIOUS
    <3>1. m + 1 <= n /\ m + 1 + 1 \in 1..n /\ m + 1 + 1 # 1 /\ m + 1 + 1 - 1 = m + 1 /\ Has(m + 1)
      BY <2>9
    <3>2. PICK a \in Seq(S), b \in Seq(S) : a = Flat[m + 1] /\ b = seqs[m + 1 + 1]
      BY <3>1
    <3>3. Flat[m + 1 + 1] = a \o b
      <4>1. PICK up \in 1..n : up = m + 1 + 1
        BY <3>1
      <4>2. up # 1 /\ up - 1 = m + 1
        BY <4>1
      <4>3. Flat[up] = Flat[up - 1] \o seqs[up]
        <5> HIDE <3>1, <3>2, <2>9
        <5> QED BY <2>7, <4>2
      <4>4. Flat[m + 1] = a /\ seqs[up] = b
        BY <3>2, <4>1
      <4> QED BY <4>1, <4>2, <4>3, <4>4
    <3>4. a \o b \in Seq(S) /\ (\A x : Contains(a, x) \/ Contains(b, x) => Contains(a \o b, x))
      BY JoinedHasBoth
    <3>5. ASSUME NEW i \in 1..(m + 1 + 1), NEW x, Contains(seqs[i], x)
          PROVE  Contains(a \o b, x)
      <4>1. CASE i <= m + 1
        <5>1. i \in 1..(m + 1)
          BY <4>1
        <5>2. Contains(a, x)
          BY <3>1, <3>2, <3>5, <5>1
        <5> QED BY <3>4, <5>2
      <4>2. CASE i = m + 1 + 1
        <5>1. Contains(b, x)
          BY <3>2, <3>5, <4>2
        <5> QED BY <3>4, <5>1
      <4> QED BY <4>1, <4>2
    <3> QED BY <3>3, <3>4, <3>5
  <2>10. PICK m \in N : m + 1 = n
    <3> HIDE DEF N
    <3>1. Nat \subseteq N
      BY <2>8, <2>9, AllNumbers
    <3>2. n - 1 \in Nat /\ n - 1 + 1 = n
      BY <2>1
    <3> HIDE DEF n
    <3> QED BY <3>1, <3>2
  <2>11. Has(m + 1)
    BY <2>1, <2>10
  <2>12. Has(n)
    <3> HIDE DEF Has
    <3> QED BY <2>10, <2>11
  <2> QED BY <2>2, <2>12
<1> QED BY <1>1, <1>2
-----------------------------------------------------------------------------

Entries == [ids : SUBSET Nodes, names : [Names -> Nodes \cup {Missing}]]

BrowserTypes ==
  /\ tree \in Trees
  /\ cache \in [Nodes -> Entries \cup {Missing}]
  /\ told \in [Nodes -> (SUBSET Nodes) \cup {Missing}]
  /\ op \in {"idle", "many"} /\ level \in Seq(Nodes) /\ next \in Seq(Nodes) /\ at \in Nat
  /\ op = "many" <=> at < Len(level)
  /\ op = "idle" => next = <<>>
  /\ touched \subseteq Nodes /\ spoiled \subseteq Nodes

\* What a running browse has found and not asked for yet is ahead of it: in the
\* rest of its level, or in the next one.
Ahead(m) == op = "many" /\ (Contains(next, m) \/ \E i \in (at + 1)..Len(level) : level[i] = m)

FoundIsAhead ==
  \A n \in touched : Cached(n) /\ \A m \in cache[n].ids : Cached(m) \/ Ahead(m)

BrowserInv == BrowserTypes /\ EntryIsOneAnswer /\ FoundIsAhead

LEMMA BrowserInitially == ReferenceBrowserInit => BrowserInv
<1> SUFFICES ASSUME ReferenceBrowserInit PROVE BrowserInv
  OBVIOUS
<1> USE DEF ReferenceBrowserInit
<1>1. BrowserTypes
  <2>1. cache \in [Nodes -> Entries \cup {Missing}] /\ told \in [Nodes -> (SUBSET Nodes) \cup {Missing}]
    OBVIOUS
  <2>2. level \in Seq(Nodes) /\ next \in Seq(Nodes) /\ Len(level) = 0
    OBVIOUS
  <2> QED BY <2>1, <2>2 DEF BrowserTypes
<1>2. EntryIsOneAnswer /\ FoundIsAhead
  BY DEF EntryIsOneAnswer, FoundIsAhead, Cached
<1> QED BY <1>1, <1>2 DEF BrowserInv

LEMMA BrowserInvImplies ==
  BrowserInv => ReferenceBrowserTypeOK /\ EntryIsOneAnswer /\ BrowseReachesAll
<1> SUFFICES ASSUME BrowserInv PROVE ReferenceBrowserTypeOK /\ BrowseReachesAll
  BY DEF BrowserInv
<1>1. ReferenceBrowserTypeOK
  BY DEF BrowserInv, BrowserTypes, Entries, ReferenceBrowserTypeOK, Cached
<1> QED BY <1>1 DEF BrowserInv, FoundIsAhead, BrowseReachesAll, Ahead

-----------------------------------------------------------------------------

\* Entries of answers and of marks are entries.
LEMMA AnswersAreEntries ==
  ASSUME BrowserInv, NEW n \in Nodes
  PROVE  /\ Answer(n) \in Entries /\ Answer(n) # Missing /\ Answer(n).ids = tree[n]
         /\ \A x \in Names : Answer(n).names[x] = Missing <=> \A m \in tree[n] : NameOf[m] # x
         /\ Empty \in Entries /\ Empty # Missing /\ Empty.ids = {} /\ \A x \in Names : Empty.names[x] = Missing
<1>1. tree[n] \in SUBSET Nodes /\ Missing \notin Entries /\ Missing \notin Nodes
  BY ReferenceBrowserAssumption DEF BrowserInv, BrowserTypes, Entries
<1>2. Empty \in Entries /\ Empty.ids = {} /\ \A x \in Names : Empty.names[x] = Missing
  BY DEF Empty, NoName, Entries
<1> DEFINE Named(x) == {m \in tree[n] : NameOf[m] = x}
           First(x) == IF Named(x) = {} THEN Missing ELSE CHOOSE m \in Named(x) : TRUE
<1>3. \A x : /\ First(x) \in Nodes \cup {Missing}
             /\ First(x) = Missing <=> \A m \in tree[n] : NameOf[m] # x
  <2> TAKE x
  <2>1. CASE Named(x) = {}
    BY <2>1
  <2>2. CASE Named(x) # {}
    <3>1. First(x) \in Named(x)
      BY <2>2
    <3> QED BY <1>1, <2>2, <3>1
  <2> QED BY <2>1, <2>2
<1>4. Answer(n) = [ids |-> tree[n], names |-> [x \in Names |-> First(x)]]
  BY DEF Answer, Entry
<1> HIDE DEF First
<1>5. Answer(n) \in Entries /\ Answer(n).ids = tree[n] /\ \A x \in Names : Answer(n).names[x] = First(x)
  BY <1>1, <1>3, <1>4 DEF Entries
<1> QED BY <1>1, <1>2, <1>3, <1>5

\* The nodes of a batch are marked; entries that were there stay.
LEMMA MarkedStay ==
  ASSUME BrowserInv, NEW ns \in SUBSET Nodes
  PROVE  /\ MarkAsCached(ns) \in [Nodes -> Entries \cup {Missing}]
         /\ \A n \in Nodes : /\ Cached(n) => MarkAsCached(ns)[n] = cache[n]
                             /\ ~Cached(n) /\ n \in ns => MarkAsCached(ns)[n] = Empty
                             /\ ~Cached(n) /\ n \notin ns => MarkAsCached(ns)[n] = Missing
<1>1. \A n \in Nodes : Empty \in Entries
  BY AnswersAreEntries
<1> QED BY <1>1 DEF MarkAsCached, Cached, BrowserInv, BrowserTypes

\* What processing a batch leaves: the answers that are kept are entries, and
\* what they refer to without an entry is browsed next.
LEMMA ProcessedKeepsAnswers ==
  ASSUME BrowserInv, NEW batch \in Seq(Nodes), NEW marked \in [Nodes -> Entries \cup {Missing}],
         NEW access \in [Nodes -> {"ok", "denied", "bad"}], NEW done, done = Processed(batch, marked, access)
  PROVE  /\ done.bad = Stops(batch, access)
         /\ done.cache \in [Nodes -> Entries \cup {Missing}]
         /\ \A n \in Nodes : /\ (\E i \in Kept(batch, access) : batch[i] = n) => done.cache[n] = Answer(n)
                             /\ (\A i \in Kept(batch, access) : batch[i] # n) => done.cache[n] = marked[n]
         /\ done.next \in Seq(Nodes)
         /\ \A m : Contains(next, m) => Contains(done.next, m)
         /\ \A i \in Kept(batch, access) : \A m \in tree[batch[i]] : marked[m] = Missing => Contains(done.next, m)
<1> DEFINE kept == Kept(batch, access)
           answered == {batch[i] : i \in kept}
           lists == [i \in 1..Len(batch) |->
                       IF i \in kept THEN SetToSeq(Follow(marked, tree[batch[i]])) ELSE <<>>]
<1>1. done = [cache |-> [n \in Nodes |-> IF n \in answered THEN Answer(n) ELSE marked[n]],
              next |-> next \o FlattenSeq(lists), bad |-> Stops(batch, access)]
  BY Zenon DEF Processed
<1>2. kept \subseteq 1..Len(batch) /\ \A i \in kept : batch[i] \in Nodes
  BY DEF Kept
<1>3. \A i \in kept : /\ SetToSeq(Follow(marked, tree[batch[i]])) \in Seq(Nodes)
                      /\ \A m \in Follow(marked, tree[batch[i]]) : Contains(SetToSeq(Follow(marked, tree[batch[i]])), m)
  <2> SUFFICES ASSUME NEW i \in kept
               PROVE  /\ SetToSeq(Follow(marked, tree[batch[i]])) \in Seq(Nodes)
                      /\ \A m \in Follow(marked, tree[batch[i]]) : Contains(SetToSeq(Follow(marked, tree[batch[i]])), m)
    OBVIOUS
  <2>1. tree[batch[i]] \subseteq Nodes
    BY <1>2, ReferenceBrowserAssumption DEF BrowserInv, BrowserTypes
  <2>2. PICK s \in SUBSET Nodes : s = Follow(marked, tree[batch[i]])
    BY <2>1 DEF Follow
  <2>3. IsFiniteSet(s)
    BY ReferenceBrowserAssumption, FS_Subset
  <2>4. SetToSeq(s) \in Seq(s) /\ \A m \in s : Contains(SetToSeq(s), m)
    BY <2>3, SequenceOfSet
  <2>5. SetToSeq(s) \in Seq(Nodes)
    BY <2>4
  <2> QED BY <2>2, <2>4, <2>5
<1>4. lists \in Seq(Seq(Nodes)) /\ Len(lists) = Len(batch)
  <2> HIDE DEF kept
  <2>1. ASSUME NEW i \in 1..Len(batch) PROVE lists[i] \in Seq(Nodes)
    BY <1>3
  <2> QED BY <2>1
<1>5. PICK flat \in Seq(Nodes) :
        /\ flat = FlattenSeq(lists)
        /\ \A i \in 1..Len(lists) : \A x : Contains(lists[i], x) => Contains(flat, x)
  <2> HIDE DEF lists
  <2> QED BY <1>4, FlattenedHasAll
<1>6. next \in Seq(Nodes)
  BY DEF BrowserInv, BrowserTypes
<1>7. next \o flat \in Seq(Nodes) /\ \A x : Contains(next, x) \/ Contains(flat, x) => Contains(next \o flat, x)
  BY <1>6, JoinedHasBoth
<1>8. done.next = next \o flat /\ done.bad = Stops(batch, access)
      /\ done.cache = [n \in Nodes |-> IF n \in answered THEN Answer(n) ELSE marked[n]]
  <2> HIDE DEF lists, answered
  <2> QED BY <1>1, <1>5
<1>9. ASSUME NEW i \in kept, NEW m \in tree[batch[i]], marked[m] = Missing
      PROVE  Contains(done.next, m)
  <2>1. m \in Follow(marked, tree[batch[i]]) /\ i \in 1..Len(lists)
    BY <1>2, <1>4, <1>9 DEF Follow
  <2>2. lists[i] = SetToSeq(Follow(marked, tree[batch[i]]))
    BY <1>2
  <2>3. Contains(lists[i], m)
    BY <1>3, <2>1, <2>2
  <2>4. Contains(flat, m)
    <3> HIDE DEF lists
    <3> QED BY <1>5, <2>1, <2>3
  <2> QED BY <1>7, <1>8, <2>4
<1>10. \A n \in Nodes : Answer(n) \in Entries
  BY AnswersAreEntries
<1>11. done.cache \in [Nodes -> Entries \cup {Missing}]
  BY <1>8, <1>10
<1>12. \A n \in Nodes : /\ (\E i \in kept : batch[i] = n) => done.cache[n] = Answer(n)
                        /\ (\A i \in kept : batch[i] # n) => done.cache[n] = marked[n]
  BY <1>8
<1> HIDE DEF kept, answered, lists
<1>13. /\ \A m : Contains(next, m) => Contains(done.next, m)
       /\ done.next \in Seq(Nodes)
  BY <1>7, <1>8
<1> QED BY <1>8, <1>9, <1>11, <1>12, <1>13 DEF kept

\* The nodes of a batch are nodes, and there are some.
LEMMA BatchOfLevel ==
  ASSUME BrowserInv, op = "many"
  PROVE  /\ BatchSize \in 1..(Len(level) - at)
         /\ Batch \in Seq(Nodes) /\ Len(Batch) = BatchSize
         /\ \A i \in 1..BatchSize : Batch[i] = level[at + i]
<1>1. /\ level \in Seq(Nodes) /\ Len(level) \in Nat /\ at \in Nat /\ at < Len(level) /\ MaxNodes \in Nat
  BY ReferenceBrowserAssumption DEF BrowserInv, BrowserTypes
<1>2. BatchSize \in 1..(Len(level) - at)
  BY <1>1 DEF BatchSize
<1>3. \A i \in (at + 1)..(at + BatchSize) : level[i] \in Nodes
  BY <1>1, <1>2
<1> QED BY <1>1, <1>2, <1>3 DEF Batch

\* A batch whose results were processed: the cache has whole answers, and what
\* was found and has no entry is ahead.
LEMMA ResultsKeep ==
  ASSUME BrowserInv, op = "many", NEW access \in Statuses,
         NEW done, done = Processed(Batch, MarkAsCached(ToSet(Batch)), access),
         NEW looked, looked = Looked(Batch, done.bad, access),
         told' = Tells(looked, access), cache' = done.cache,
         \/ done.bad /\ spoiled' = spoiled \cup ({n \in ToSet(Batch) : ~Cached(n)} \ looked)
         \/ ~done.bad /\ spoiled' = spoiled \ {n \in looked : access[n] = "ok"}
  PROVE  /\ cache' \in [Nodes -> Entries \cup {Missing}]
         /\ told' \in [Nodes -> (SUBSET Nodes) \cup {Missing}]
         /\ spoiled' \subseteq Nodes
         /\ EntryIsOneAnswer'
         /\ \A n \in Nodes : Cached(n) => cache'[n] # Missing
         /\ \A n \in ToSet(Batch) : cache'[n] # Missing
<1> DEFINE batch == Batch
           marked == MarkAsCached(ToSet(batch))
<1>1. access \in [Nodes -> {"ok", "denied", "bad"}]
  BY DEF Statuses
<1>2. batch \in Seq(Nodes) /\ DOMAIN batch = 1..Len(batch) /\ ToSet(batch) \subseteq Nodes
  BY BatchOfLevel DEF ToSet
<1>3. /\ marked \in [Nodes -> Entries \cup {Missing}]
      /\ \A n \in Nodes : /\ Cached(n) => marked[n] = cache[n]
                          /\ ~Cached(n) /\ n \in ToSet(batch) => marked[n] = Empty
                          /\ ~Cached(n) /\ n \notin ToSet(batch) => marked[n] = Missing
  BY <1>2, MarkedStay
<1> DEFINE Answered(n) == \E i \in Kept(batch, access) : batch[i] = n
<1>4. /\ done.bad = Stops(batch, access)
      /\ cache' \in [Nodes -> Entries \cup {Missing}]
      /\ \A n \in Nodes : /\ Answered(n) => cache'[n] = Answer(n)
                          /\ ~Answered(n) => cache'[n] = marked[n]
  <2> HIDE DEF batch, marked
  <2>1. done = Processed(batch, marked, access)
    BY DEF batch, marked
  <2> QED BY <1>1, <1>2, <1>3, <2>1, ProcessedKeepsAnswers
<1>5. \A n \in Nodes : Answered(n) <=> n \in looked /\ access[n] = "ok"
  <2>1. CASE Stops(batch, access)
    <3>1. looked = {n \in ToSet(batch) : \E i \in DOMAIN batch : batch[i] = n /\ \A j \in 1..i : access[batch[j]] # "bad"}
      BY <1>4, <2>1, Zenon DEF Looked
    <3> QED BY <1>2, <3>1 DEF Kept, ToSet
  <2>2. CASE ~Stops(batch, access)
    <3>1. looked = ToSet(batch)
      BY <1>4, <2>2, Zenon DEF Looked
    <3>2. \A i \in 1..Len(batch) : access[batch[i]] # "bad"
      BY <1>2, <2>2 DEF Stops, ToSet
    <3>3. \A i \in 1..Len(batch) : \A j \in 1..i : j \in 1..Len(batch)
      OBVIOUS
    <3> QED BY <1>2, <3>1, <3>2, <3>3 DEF Kept, ToSet
  <2> QED BY <2>1, <2>2
<1>6. looked \subseteq ToSet(batch) /\ \A n \in looked : access[n] # "bad"
  <2>1. CASE done.bad
    <3>1. looked = {n \in ToSet(batch) : \E i \in DOMAIN batch : batch[i] = n /\ \A j \in 1..i : access[batch[j]] # "bad"}
      BY <2>1, Zenon DEF Looked
    <3> QED BY <1>2, <3>1
  <2>2. CASE ~done.bad
    <3>1. looked = ToSet(batch)
      BY <2>2, Zenon DEF Looked
    <3> QED BY <1>4, <2>2, <3>1 DEF Stops
  <2> QED BY <2>1, <2>2
<1>7. /\ tree \in [Nodes -> SUBSET Nodes] /\ told \in [Nodes -> (SUBSET Nodes) \cup {Missing}]
      /\ spoiled \subseteq Nodes /\ \A ns \in SUBSET Nodes : ns # Missing
  BY ReferenceBrowserAssumption DEF BrowserInv, BrowserTypes
<1>8. told' \in [Nodes -> (SUBSET Nodes) \cup {Missing}]
  BY <1>7 DEF Tells
<1>9. spoiled' \subseteq Nodes
  BY <1>2, <1>7
<1> HIDE DEF batch, marked, Answered
<1>10. ASSUME NEW n \in Nodes, cache'[n] # Missing, n \notin spoiled'
       PROVE  /\ cache'[n].ids = told'[n]
              /\ \A x \in Names : cache'[n].names[x] = Missing <=> \A m \in told'[n] : NameOf[m] # x
  <2>1. CASE n \in looked /\ access[n] = "ok"
    <3>1. cache'[n] = Answer(n) /\ told'[n] = tree[n]
      BY <1>4, <1>5, <2>1 DEF Tells
    <3> QED BY <3>1, AnswersAreEntries
  <2>2. CASE ~(n \in looked /\ access[n] = "ok")
    <3>1. cache'[n] = marked[n]
      BY <1>4, <1>5, <2>2
    <3>2. CASE Cached(n)
      <4>1. n \notin spoiled
        BY <2>2, <1>10
      <4>2. /\ cache[n].ids = told[n]
            /\ \A x \in Names : cache[n].names[x] = Missing <=> \A m \in told[n] : NameOf[m] # x
        BY <3>2, <4>1 DEF BrowserInv, EntryIsOneAnswer
      <4>3. cache[n].ids \in SUBSET Nodes
        BY <3>2 DEF BrowserInv, BrowserTypes, Cached, Entries
      <4>4. told'[n] = told[n]
        BY <1>7, <2>2, <3>2, <4>2, <4>3 DEF Tells
      <4> QED BY <1>3, <3>1, <3>2, <4>2, <4>4
    <3>3. CASE ~Cached(n)
      <4>1. n \in ToSet(batch) /\ cache'[n] = Empty
        BY <1>3, <1>10, <3>1, <3>3
      <4>2. n \in looked
        BY <1>4, <1>10, <3>3, <4>1, Zenon DEF Looked, batch
      <4>3. told'[n] = {}
        BY <2>2, <3>3, <4>2 DEF Tells
      <4> QED BY <4>1, <4>3, AnswersAreEntries
    <3> QED BY <3>2, <3>3
  <2> QED BY <2>1, <2>2
<1>11. ASSUME NEW n \in Nodes, Cached(n) \/ n \in ToSet(batch) PROVE cache'[n] # Missing
  <2>1. Answer(n) # Missing /\ Empty # Missing
    BY AnswersAreEntries
  <2>2. marked[n] # Missing
    BY <1>3, <1>11, <2>1 DEF Cached
  <2> QED BY <1>4, <2>1, <2>2
<1> QED BY <1>2, <1>4, <1>8, <1>9, <1>10, <1>11 DEF EntryIsOneAnswer, Cached, batch

\* An answer's references are found: they have an entry or are browsed next.
LEMMA AnswerIsFollowed ==
  ASSUME BrowserInv, NEW batch \in Seq(Nodes), NEW ns \in SUBSET Nodes,
         NEW access \in [Nodes -> {"ok", "denied", "bad"}],
         NEW done, done = Processed(batch, MarkAsCached(ns), access),
         NEW i \in Kept(batch, access)
  PROVE  /\ done.cache[batch[i]] = Answer(batch[i])
         /\ \A m \in tree[batch[i]] : done.cache[m] # Missing \/ Contains(done.next, m)
<1>1. PICK marked \in [Nodes -> Entries \cup {Missing}] : marked = MarkAsCached(ns)
  BY MarkedStay
<1>2. batch[i] \in Nodes /\ tree[batch[i]] \subseteq Nodes
  BY ReferenceBrowserAssumption DEF Kept, BrowserInv, BrowserTypes
<1>3. done = Processed(batch, marked, access)
  BY <1>1
<1>4. /\ \A n \in Nodes : /\ (\E j \in Kept(batch, access) : batch[j] = n) => done.cache[n] = Answer(n)
                          /\ (\A j \in Kept(batch, access) : batch[j] # n) => done.cache[n] = marked[n]
      /\ \A j \in Kept(batch, access) : \A k \in tree[batch[j]] : marked[k] = Missing => Contains(done.next, k)
  BY <1>3, ProcessedKeepsAnswers
<1>5. ASSUME NEW m \in tree[batch[i]] PROVE done.cache[m] # Missing \/ Contains(done.next, m)
  <2>1. Answer(m) # Missing
    BY <1>2, AnswersAreEntries
  <2>2. CASE marked[m] = Missing
    BY <1>4, <2>2
  <2>3. CASE marked[m] # Missing
    BY <1>2, <1>4, <2>1, <2>3
  <2> QED BY <2>2, <2>3
<1> QED BY <1>2, <1>4, <1>5

LEMMA ProcessedBatch ==
  ASSUME BrowserInv, op = "many", NEW access \in Statuses,
         NEW done, done = Processed(Batch, MarkAsCached(ToSet(Batch)), access)
  PROVE  /\ done.bad = Stops(Batch, access)
         /\ \A n \in Nodes : (\A i \in Kept(Batch, access) : Batch[i] # n)
                               => done.cache[n] = MarkAsCached(ToSet(Batch))[n]
         /\ done.next \in Seq(Nodes)
         /\ \A m : Contains(next, m) => Contains(done.next, m)
<1>1. access \in [Nodes -> {"ok", "denied", "bad"}]
  BY DEF Statuses
<1>2. Batch \in Seq(Nodes) /\ ToSet(Batch) \in SUBSET Nodes
  BY BatchOfLevel DEF ToSet
<1>3. MarkAsCached(ToSet(Batch)) \in [Nodes -> Entries \cup {Missing}]
  BY <1>2, MarkedStay
<1>4. PICK batch \in Seq(Nodes), marked \in [Nodes -> Entries \cup {Missing}] :
        batch = Batch /\ marked = MarkAsCached(ToSet(Batch))
  BY <1>2, <1>3
<1>5. done = Processed(batch, marked, access)
  BY <1>4
<1>6. done.bad = Stops(batch, access)
  BY <1>1, <1>5, ProcessedKeepsAnswers
<1>7. \A n \in Nodes : (\A i \in Kept(batch, access) : batch[i] # n) => done.cache[n] = marked[n]
  BY <1>1, <1>5, ProcessedKeepsAnswers
<1>8. done.next \in Seq(Nodes)
  BY <1>1, <1>5, ProcessedKeepsAnswers
<1>9. \A m : Contains(next, m) => Contains(done.next, m)
  BY <1>1, <1>5, ProcessedKeepsAnswers
<1> QED BY <1>4, <1>6, <1>7, <1>8, <1>9

\* browseBatch() with all results taken.
LEMMA BatchFollows ==
  ASSUME BrowserInv, BrowseBatch, NEW access \in Statuses,
         NEW done, done = Processed(Batch, MarkAsCached(ToSet(Batch)), access), ~done.bad,
         cache' = done.cache,
         touched' = touched \cup {n \in ToSet(Batch) : access[n] = "ok"},
         \/ at + BatchSize < Len(level) /\ at' = at + BatchSize /\ next' = done.next /\ op' = "many" /\ level' = level
         \/ ~(at + BatchSize < Len(level)) /\ op' = "many" /\ level' = done.next /\ at' = 0 /\ next' = <<>>
         \/ ~(at + BatchSize < Len(level)) /\ done.next = <<>> /\ op' = "idle" /\ level' = <<>> /\ at' = 0 /\ next' = <<>>,
         \A n \in Nodes : Cached(n) => cache'[n] # Missing,
         \A n \in ToSet(Batch) : cache'[n] # Missing
  PROVE  FoundIsAhead'
<1> DEFINE size == BatchSize
<1>0. op = "many" /\ UNCHANGED tree
  BY DEF BrowseBatch
<1>1. /\ size \in 1..(Len(level) - at) /\ at \in Nat /\ Len(level) \in Nat
      /\ Batch \in Seq(Nodes) /\ DOMAIN Batch = 1..size /\ Len(Batch) = size
      /\ \A i \in 1..size : Batch[i] = level[at + i]
  BY <1>0, BatchOfLevel DEF BrowserInv, BrowserTypes
<1>2. /\ ToSet(Batch) \in SUBSET Nodes /\ access \in [Nodes -> {"ok", "denied", "bad"}]
      /\ MarkAsCached(ToSet(Batch)) \in [Nodes -> Entries \cup {Missing}]
  <2>1. ToSet(Batch) \in SUBSET Nodes
    BY <1>1 DEF ToSet
  <2> QED BY <2>1, MarkedStay DEF Statuses
<1>3. /\ done.next \in Seq(Nodes)
      /\ \A m : Contains(next, m) => Contains(done.next, m)
      /\ \A n \in Nodes : (\A i \in Kept(Batch, access) : Batch[i] # n) => cache'[n] = MarkAsCached(ToSet(Batch))[n]
      /\ ~Stops(Batch, access)
  <2>1. done.bad = Stops(Batch, access)
    BY <1>0, ProcessedBatch
  <2>2. \A n \in Nodes : (\A i \in Kept(Batch, access) : Batch[i] # n) => done.cache[n] = MarkAsCached(ToSet(Batch))[n]
    BY <1>0, ProcessedBatch
  <2>3. done.next \in Seq(Nodes) /\ \A m : Contains(next, m) => Contains(done.next, m)
    BY <1>0, ProcessedBatch
  <2>4. ~Stops(Batch, access)
    BY <2>1, Zenon
  <2> QED BY <2>2, <2>3, <2>4
<1> DEFINE Rest(m) == \E i \in (at + size + 1)..Len(level) : level[i] = m
<1>4. \A m : Contains(done.next, m) => Ahead(m)'
  <2> SUFFICES ASSUME NEW m, Contains(done.next, m) PROVE Ahead(m)'
    OBVIOUS
  <2>1. CASE at' = at + BatchSize /\ next' = done.next /\ op' = "many"
    BY <2>1 DEF Ahead
  <2>2. CASE op' = "many" /\ level' = done.next /\ at' = 0
    <3>1. PICK i \in 1..Len(done.next) : done.next[i] = m
      BY DEF Contains
    <3>2. i \in (at' + 1)..Len(level') /\ level'[i] = m
      BY <2>2, <3>1
    <3> QED BY <2>2, <3>2 DEF Ahead
  <2>3. CASE done.next = <<>>
    BY <2>3 DEF Contains
  <2> QED BY <2>1, <2>2, <2>3
<1>5. \A m : Rest(m) => Ahead(m)'
  <2> SUFFICES ASSUME NEW m, NEW i \in (at + size + 1)..Len(level), level[i] = m PROVE Ahead(m)'
    OBVIOUS
  <2>1. at + size < Len(level)
    BY <1>1
  <2>2. at' = at + size /\ op' = "many" /\ level' = level
    BY <2>1
  <2>3. i \in (at' + 1)..Len(level') /\ level'[i] = m
    BY <2>2
  <2> QED BY <2>2, <2>3 DEF Ahead
<1>6. \A m \in Nodes : Cached(m) \/ Ahead(m) => cache'[m] # Missing \/ Ahead(m)'
  <2> SUFFICES ASSUME NEW m \in Nodes, Ahead(m), ~Cached(m) PROVE cache'[m] # Missing \/ Ahead(m)'
    OBVIOUS
  <2>1. CASE Contains(next, m)
    BY <1>3, <1>4, <2>1
  <2>2. ASSUME NEW i \in (at + 1)..Len(level), level[i] = m PROVE cache'[m] # Missing \/ Ahead(m)'
    <3>1. CASE i <= at + size
      <4>1. i - at \in 1..size /\ at + (i - at) = i
        BY <1>1, <3>1
      <4>2. Batch[i - at] = m
        BY <1>1, <2>2, <4>1
      <4>3. m \in ToSet(Batch)
        BY <1>1, <4>1, <4>2 DEF ToSet
      <4> QED BY <4>3
    <3>2. CASE i > at + size
      <4>1. i \in (at + size + 1)..Len(level)
        BY <1>1, <3>2
      <4> HIDE DEF size
      <4> QED BY <1>5, <2>2, <4>1
    <3> QED BY <1>1, <3>1, <3>2
  <2> QED BY <2>1, <2>2 DEF Ahead
<1> HIDE DEF Rest, size
<1>7. ASSUME NEW n \in touched' PROVE cache'[n] # Missing /\ \A m \in cache'[n].ids : cache'[m] # Missing \/ Ahead(m)'
  <2>1. n \in Nodes
    BY <1>2 DEF BrowserInv, BrowserTypes
  <2>2. ASSUME NEW i \in Kept(Batch, access), Batch[i] = n
        PROVE  cache'[n] # Missing /\ \A m \in cache'[n].ids : cache'[m] # Missing \/ Ahead(m)'
    <3>1. cache'[n] = Answer(n)
      BY <1>1, <1>2, <2>1, <2>2, ProcessedKeepsAnswers
    <3>2. cache'[n] # Missing /\ cache'[n].ids = tree[n]
      BY <2>1, <3>1, AnswersAreEntries
    <3>3. \A m \in tree[n] : cache'[m] # Missing \/ Contains(done.next, m)
      BY <1>1, <1>2, <2>2, AnswerIsFollowed
    <3> QED BY <1>4, <3>2, <3>3
  <2>3. CASE \A i \in Kept(Batch, access) : Batch[i] # n
    <3>1. n \in touched
      <4> SUFFICES ASSUME n \in ToSet(Batch), access[n] = "ok" PROVE FALSE
        BY <1>7
      <4>1. PICK i \in 1..Len(Batch) : Batch[i] = n
        BY <1>1 DEF ToSet
      <4>2. \A j \in 1..i : Batch[j] \in ToSet(Batch)
        <5>1. \A j \in 1..i : j \in DOMAIN Batch
          BY <1>1, <4>1
        <5> QED BY <5>1 DEF ToSet
      <4>3. i \in Kept(Batch, access)
        BY <1>1, <1>3, <4>1, <4>2 DEF Kept, Stops
      <4> QED BY <2>3, <4>1, <4>3
    <3>2. Cached(n) /\ \A m \in cache[n].ids : Cached(m) \/ Ahead(m)
      BY <3>1 DEF BrowserInv, FoundIsAhead
    <3>3. cache'[n] = cache[n]
      BY <1>2, <1>3, <2>1, <2>3, <3>2, MarkedStay
    <3>4. cache[n].ids \subseteq Nodes
      BY <2>1, <3>2 DEF Cached, BrowserInv, BrowserTypes, Entries
    <3> QED BY <1>6, <3>2, <3>3, <3>4 DEF Cached
  <2> QED BY <2>2, <2>3
<1> QED BY <1>7 DEF FoundIsAhead, Cached

-----------------------------------------------------------------------------

\* The end of an operation leaves nothing to do.
LEMMA EndLeavesNothing ==
  ASSUME Ends, UNCHANGED tree, BrowserInv, cache' \in [Nodes -> Entries \cup {Missing}],
         told' \in [Nodes -> (SUBSET Nodes) \cup {Missing}], touched' \subseteq Nodes, spoiled' \subseteq Nodes
  PROVE  BrowserTypes'
<1>1. level' = <<>> /\ next' = <<>> /\ <<>> \in Seq(Nodes) /\ Len(<<>>) = 0 /\ at' = 0 /\ op' = "idle"
  BY DEF Ends
<1>2. tree' \in Trees
  BY DEF BrowserInv, BrowserTypes
<1> QED BY <1>1, <1>2 DEF BrowserTypes

LEMMA BatchKeepsCache ==
  ASSUME BrowserInv, BrowseBatch
  PROVE  BrowserInv'
<1> DEFINE marked == MarkAsCached(ToSet(Batch))
           new == {n \in ToSet(Batch) : ~Cached(n)}
<1>1. op = "many" /\ UNCHANGED tree /\ ToSet(Batch) \in SUBSET Nodes
  <2>1. op = "many" /\ UNCHANGED tree
    BY DEF BrowseBatch
  <2> QED BY <2>1, BatchOfLevel DEF ToSet
<1>2. ASSUME Throws(marked, new), UNCHANGED told PROVE BrowserInv'
  <2>1. /\ cache' = marked /\ spoiled' = spoiled \cup new /\ touched' = {} /\ Ends
    BY <1>2 DEF Throws
  <2>2. /\ marked \in [Nodes -> Entries \cup {Missing}]
        /\ \A n \in Nodes : /\ Cached(n) => marked[n] = cache[n]
                            /\ ~Cached(n) /\ n \notin ToSet(Batch) => marked[n] = Missing
    BY <1>1, MarkedStay
  <2>3. BrowserTypes'
    <3>1. told' \in [Nodes -> (SUBSET Nodes) \cup {Missing}] /\ spoiled' \subseteq Nodes
      BY <1>1, <1>2, <2>1 DEF BrowserInv, BrowserTypes
    <3> QED BY <1>1, <2>1, <2>2, <3>1, EndLeavesNothing
  <2>4. EntryIsOneAnswer'
    <3> HIDE DEF marked
    <3>1. ASSUME NEW n \in Nodes, cache'[n] # Missing, n \notin spoiled' PROVE Cached(n) /\ n \notin spoiled
      BY <1>1, <2>1, <2>2, <3>1
    <3> QED BY <1>2, <2>1, <2>2, <3>1 DEF EntryIsOneAnswer, BrowserInv, Cached
  <2>5. FoundIsAhead'
    BY <2>1 DEF FoundIsAhead
  <2> QED BY <2>3, <2>4, <2>5 DEF BrowserInv
<1>3. ASSUME NEW access \in Statuses,
             NEW done, done = Processed(Batch, marked, access),
             NEW looked, looked = Looked(Batch, done.bad, access), told' = Tells(looked, access),
             IF done.bad THEN Throws(done.cache, new \ looked)
             ELSE /\ cache' = done.cache
                  /\ touched' = touched \cup {n \in looked : access[n] = "ok"}
                  /\ spoiled' = spoiled \ {n \in looked : access[n] = "ok"}
                  /\ IF at + BatchSize < Len(level)
                     THEN at' = at + BatchSize /\ next' = done.next /\ UNCHANGED <<op, level>>
                     ELSE IF done.next # <<>>
                     THEN level' = done.next /\ at' = 0 /\ next' = <<>> /\ UNCHANGED op
                     ELSE Ends
      PROVE  BrowserInv'
  <2>1. CASE done.bad
    <3>1. cache' = done.cache /\ spoiled' = spoiled \cup (new \ looked) /\ touched' = {} /\ Ends
      BY <1>3, <2>1, Zenon DEF Throws
    <3>2. /\ cache' \in [Nodes -> Entries \cup {Missing}] /\ told' \in [Nodes -> (SUBSET Nodes) \cup {Missing}]
          /\ spoiled' \subseteq Nodes /\ EntryIsOneAnswer'
      BY <1>1, <1>3, <2>1, <3>1, ResultsKeep
    <3>3. BrowserTypes'
      BY <1>1, <3>1, <3>2, EndLeavesNothing
    <3>4. FoundIsAhead'
      BY <3>1 DEF FoundIsAhead
    <3> QED BY <3>2, <3>3, <3>4 DEF BrowserInv
  <2>2. CASE ~done.bad
    <3>1. looked = ToSet(Batch)
      BY <1>3, <2>2, Zenon DEF Looked
    <3>2. /\ cache' = done.cache
          /\ touched' = touched \cup {n \in looked : access[n] = "ok"}
          /\ spoiled' = spoiled \ {n \in looked : access[n] = "ok"}
          /\ IF at + BatchSize < Len(level)
             THEN at' = at + BatchSize /\ next' = done.next /\ UNCHANGED <<op, level>>
             ELSE IF done.next # <<>>
             THEN level' = done.next /\ at' = 0 /\ next' = <<>> /\ UNCHANGED op
             ELSE Ends
      BY <1>3, <2>2, Zenon
    <3>3. \/ at + BatchSize < Len(level) /\ at' = at + BatchSize /\ next' = done.next /\ op' = "many" /\ level' = level
          \/ /\ ~(at + BatchSize < Len(level)) /\ op' = "many" /\ level' = done.next /\ at' = 0 /\ next' = <<>>
             /\ done.next # <<>>
          \/ /\ ~(at + BatchSize < Len(level)) /\ done.next = <<>>
             /\ op' = "idle" /\ level' = <<>> /\ at' = 0 /\ next' = <<>>
      BY <1>1, <3>2 DEF Ends
    <3>4. /\ cache' \in [Nodes -> Entries \cup {Missing}] /\ told' \in [Nodes -> (SUBSET Nodes) \cup {Missing}]
          /\ spoiled' \subseteq Nodes /\ EntryIsOneAnswer'
          /\ \A n \in Nodes : Cached(n) => cache'[n] # Missing
          /\ \A n \in ToSet(Batch) : cache'[n] # Missing
      BY <1>1, <1>3, <2>2, <3>2, ResultsKeep
    <3>5. done.next \in Seq(Nodes)
      BY <1>1, <1>3, ProcessedBatch
    <3>6. BrowserTypes'
      <4>1. tree' \in Trees /\ touched' \subseteq Nodes
        BY <1>1, <3>1, <3>2 DEF BrowserInv, BrowserTypes
      <4>2. level \in Seq(Nodes) /\ at \in Nat /\ BatchSize \in Nat /\ <<>> \in Seq(Nodes) /\ Len(<<>>) = 0
        BY <1>1, BatchOfLevel DEF BrowserInv, BrowserTypes
      <4>3. done.next # <<>> => 0 < Len(done.next)
        BY <3>5
      <4>4. level' \in Seq(Nodes) /\ next' \in Seq(Nodes) /\ at' \in Nat /\ op' \in {"idle", "many"}
        <5>1. at + BatchSize \in Nat
          BY <4>2
        <5>2. op' \in {"idle", "many"}
          BY <3>3
        <5>3. level' = level \/ level' = done.next \/ level' = <<>>
          BY <3>3
        <5>4. next' = done.next \/ next' = <<>>
          BY <3>3
        <5>5. at' = at + BatchSize \/ at' = 0
          BY <3>3
        <5>6. level' \in Seq(Nodes)
          BY <3>5, <4>2, <5>3
        <5>7. next' \in Seq(Nodes)
          BY <3>5, <4>2, <5>4
        <5>8. at' \in Nat
          BY <5>1, <5>5
        <5> QED BY <5>2, <5>6, <5>7, <5>8
      <4>5. (op' = "many" <=> at' < Len(level')) /\ (op' = "idle" => next' = <<>>)
        BY <3>3, <4>2, <4>3
      <4> QED BY <3>4, <4>1, <4>4, <4>5 DEF BrowserTypes
    <3>7. FoundIsAhead'
      <4>1. touched' = touched \cup {n \in ToSet(Batch) : access[n] = "ok"} /\ cache' = done.cache
        BY <3>1, <3>2
      <4> QED BY <1>3, <2>2, <3>3, <3>4, <4>1, BatchFollows
    <3> QED BY <3>4, <3>6, <3>7 DEF BrowserInv
  <2> QED BY <2>1, <2>2
<1> QED BY <1>2, <1>3 DEF BrowseBatch

\* browseOne(): the node and what it refers to.
LEMMA OneKeepsCache ==
  ASSUME BrowserInv, NEW n \in Nodes, BrowseOne(n)
  PROVE  BrowserInv'
<1>1. PICK access \in [Nodes -> {"ok", "denied", "bad"}] : access = [m \in Nodes |-> "ok"]
  OBVIOUS
<1>2. PICK batch \in Seq(Nodes) : batch = <<n>> /\ Len(batch) = 1 /\ batch[1] = n /\ DOMAIN batch = 1..1
  <2>1. <<n>> \in Seq(Nodes) /\ Len(<<n>>) = 1 /\ <<n>>[1] = n
    OBVIOUS
  <2>2. DOMAIN <<n>> = 1..1
    BY <2>1
  <2> QED BY <2>1, <2>2
<1>3. PICK done : done = Processed(batch, MarkAsCached({n}), access)
  OBVIOUS
<1>4. /\ cache' = done.cache /\ level' = done.next
      /\ op' = IF done.next = <<>> THEN "idle" ELSE "many"
      /\ told' = [told EXCEPT ![n] = tree[n]] /\ touched' = {n} /\ spoiled' = spoiled \ {n}
      /\ at' = 0 /\ next' = <<>> /\ UNCHANGED tree /\ op = "idle"
  BY <1>1, <1>2, <1>3, Zenon DEF BrowseOne
<1>5. PICK marked \in [Nodes -> Entries \cup {Missing}] :
        /\ marked = MarkAsCached({n})
        /\ \A m \in Nodes : m # n => marked[m] = cache[m]
  <2>1. {n} \in SUBSET Nodes
    OBVIOUS
  <2> QED BY <2>1, MarkedStay DEF Cached
<1>6. done = Processed(batch, marked, access)
  BY <1>3, <1>5
<1>7. Kept(batch, access) = {1}
  BY <1>1, <1>2 DEF Kept
<1>8. done.cache \in [Nodes -> Entries \cup {Missing}]
  BY <1>6, ProcessedKeepsAnswers
<1>9. \A m \in Nodes : (\A i \in Kept(batch, access) : batch[i] # m) => done.cache[m] = marked[m]
  BY <1>6, ProcessedKeepsAnswers
<1>10. done.next \in Seq(Nodes)
  BY <1>6, ProcessedKeepsAnswers
<1>11. /\ done.cache[n] = Answer(n)
       /\ \A m \in tree[n] : done.cache[m] # Missing \/ Contains(done.next, m)
  <2>1. 1 \in Kept(batch, access) /\ batch[1] = n /\ {n} \in SUBSET Nodes
    BY <1>2, <1>7
  <2>2. /\ done.cache[batch[1]] = Answer(batch[1])
        /\ \A m \in tree[batch[1]] : done.cache[m] # Missing \/ Contains(done.next, m)
    <3>1. PICK ns \in SUBSET Nodes : ns = {n}
      BY <2>1
    <3>2. done = Processed(batch, MarkAsCached(ns), access)
      BY <1>3, <3>1
    <3>3. PICK i \in Kept(batch, access) : i = 1
      BY <2>1
    <3>4. /\ done.cache[batch[i]] = Answer(batch[i])
          /\ \A m \in tree[batch[i]] : done.cache[m] # Missing \/ Contains(done.next, m)
      BY <3>2, AnswerIsFollowed
    <3> QED BY <3>3, <3>4
  <2> QED BY <2>1, <2>2
<1>12. \A m \in Nodes : m # n => cache'[m] = cache[m]
  BY <1>2, <1>4, <1>5, <1>7, <1>9
<1>13. BrowserTypes'
  <2>1. tree' \in Trees /\ touched' \subseteq Nodes /\ spoiled' \subseteq Nodes
    BY <1>4 DEF BrowserInv, BrowserTypes
  <2>2. tree[n] \in SUBSET Nodes
    BY ReferenceBrowserAssumption DEF BrowserInv, BrowserTypes
  <2>3. told' \in [Nodes -> (SUBSET Nodes) \cup {Missing}]
    BY <1>4, <2>2 DEF BrowserInv, BrowserTypes
  <2>4. done.next # <<>> <=> 0 < Len(done.next)
    BY <1>10
  <2>5. /\ level' \in Seq(Nodes) /\ next' \in Seq(Nodes) /\ at' \in Nat /\ op' \in {"idle", "many"}
        /\ op' = "many" <=> at' < Len(level')
        /\ op' = "idle" => next' = <<>>
    BY <1>4, <1>10, <2>4
  <2> QED BY <1>4, <1>8, <2>1, <2>3, <2>5 DEF BrowserTypes
<1>14. /\ cache'[n] = Answer(n) /\ Answer(n) # Missing /\ Answer(n).ids = tree[n]
       /\ \A x \in Names : Answer(n).names[x] = Missing <=> \A m \in tree[n] : NameOf[m] # x
  BY <1>4, <1>11, AnswersAreEntries
<1>15. EntryIsOneAnswer'
  <2>1. told'[n] = tree[n] /\ \A m \in Nodes : m # n => told'[m] = told[m]
    BY <1>4 DEF BrowserInv, BrowserTypes
  <2>2. \A m \in Nodes : m # n /\ m \notin spoiled' => m \notin spoiled
    BY <1>4
  <2> QED BY <1>12, <1>14, <2>1, <2>2 DEF EntryIsOneAnswer, BrowserInv, Cached
<1>16. FoundIsAhead'
  <2>1. ASSUME NEW m \in tree[n] PROVE cache'[m] # Missing \/ Ahead(m)'
    <3>1. CASE done.cache[m] # Missing
      BY <1>4, <3>1
    <3>2. ASSUME NEW i \in 1..Len(done.next), done.next[i] = m PROVE Ahead(m)'
      <4>1. op' = "many"
        BY <1>4, <3>2
      <4>2. i \in (at' + 1)..Len(level') /\ level'[i] = m
        BY <1>4, <3>2
      <4> QED BY <4>1, <4>2 DEF Ahead
    <3> QED BY <1>11, <3>1, <3>2 DEF Contains
  <2> QED BY <1>4, <1>14, <2>1 DEF FoundIsAhead, Cached
<1> QED BY <1>13, <1>15, <1>16 DEF BrowserInv

LEMMA BrowserStep ==
  ASSUME BrowserInv, [ReferenceBrowserNext]_browserVars
  PROVE  BrowserInv'
<1>1. CASE UNCHANGED browserVars
  BY <1>1 DEF browserVars, BrowserInv, BrowserTypes, EntryIsOneAnswer, FoundIsAhead, Cached, Ahead
<1>2. CASE ServerChanges
  BY <1>2 DEF ServerChanges, BrowserInv, BrowserTypes, EntryIsOneAnswer, FoundIsAhead, Cached, Ahead
<1>3. ASSUME NEW ns \in Seq(Nodes), BrowseMultiple(ns) PROVE BrowserInv'
  <2>1. 0 < Len(ns) /\ <<>> \in Seq(Nodes)
    BY <1>3 DEF BrowseMultiple
  <2>2. BrowserTypes'
    BY <1>3, <2>1 DEF BrowseMultiple, BrowserInv, BrowserTypes
  <2> QED BY <1>3, <2>2 DEF BrowseMultiple, BrowserInv, EntryIsOneAnswer, FoundIsAhead, Cached
<1>4. ASSUME NEW n \in Nodes, Browse(n) PROVE BrowserInv'
  <2>1. <<n>> \in Seq(Nodes)
    OBVIOUS
  <2> QED BY <1>3, <1>4, <2>1 DEF Browse
<1>5. ASSUME NEW n \in Nodes, NEW m \in Nodes, BrowseMultiple(<<n, m>>) PROVE BrowserInv'
  <2>1. <<n, m>> \in Seq(Nodes)
    OBVIOUS
  <2> QED BY <1>3, <1>5, <2>1
<1>6. ASSUME NEW n \in Nodes, NEW recursive \in BOOLEAN, Invalidate(n, recursive) PROVE BrowserInv'
  <2>1. PICK gone : /\ cache' = [m \in Nodes |-> IF m \in gone THEN Missing ELSE cache[m]]
                    /\ spoiled' = spoiled \ gone
    BY <1>6, Zenon DEF Invalidate
  <2>2. touched' = {} /\ UNCHANGED <<tree, op, level, at, next, told>>
    BY <1>6 DEF Invalidate
  <2>3. BrowserTypes'
    BY <2>1, <2>2 DEF BrowserInv, BrowserTypes
  <2>4. EntryIsOneAnswer'
    BY <2>1, <2>2 DEF BrowserInv, BrowserTypes, EntryIsOneAnswer, Cached
  <2>5. FoundIsAhead'
    BY <2>2 DEF FoundIsAhead
  <2> QED BY <2>3, <2>4, <2>5 DEF BrowserInv
<1> QED BY <1>1, <1>2, <1>4, <1>5, <1>6, BatchKeepsCache, OneKeepsCache DEF ReferenceBrowserNext

-----------------------------------------------------------------------------
(* The attribute reader *)

USE DEF At

\* What the reader keeps and remembers.
ReaderTypes ==
  /\ age \in [Attributes -> Nat] /\ since \in [Attributes -> Nat]
  /\ good \in [Attributes -> BOOLEAN] /\ steady \subseteq Attributes
  /\ asked \in Seq(Attributes)
  /\ \A a \in Attributes : result[a] # Unread => result[a] \in [of : {a}, age : Nat]
  /\ pos \in Int /\ (pos = -1 \/ pos \in 0..(Len(asked) - 1))
  /\ outcome = "running" <=> pos >= 0

\* No attribute is asked for twice: a place in the response is one attribute's.
AskedOnce == \A i, j \in 1..Len(asked) : asked[i] = asked[j] => i = j

\* What the batches so far have left: while read() runs, what it began with is
\* not newer than what there is, and what is steady can be read.
ReadSoFar ==
  pos >= 0 =>
    /\ \A a \in Attributes : since[a] <= age[a]
    /\ \A a \in steady : good[a]
    /\ \A i \in 1..pos : asked[i] \in steady =>
         result[asked[i]] # Unread /\ result[asked[i]].age >= since[asked[i]]

ReaderInv == ReaderTypes /\ AskedOnce /\ ReadSoFar

LEMMA ReaderInitially == AttributeReaderInit => ReaderInv
BY DEF AttributeReaderInit, ReaderInv, ReaderTypes, AskedOnce, ReadSoFar

\* The batch of a read is not empty, and within what is asked for.
LEMMA BatchOfRead ==
  ASSUME ReaderInv, pos >= 0
  PROVE  ToRead \in 1..(Len(asked) - pos)
BY AttributeReaderAssumption DEF ReaderInv, ReaderTypes, ToRead

\* What a batch stores for an attribute is its present value.
LEMMA StoredIsPresent ==
  ASSUME ReaderInv, pos >= 0, NEW a \in Attributes
  PROVE  /\ StoredFor(a) = {} => AddBatch[a] = result[a]
         /\ StoredFor(a) # {} => AddBatch[a] = [of |-> a, age |-> age[a]]
<1>1. CASE StoredFor(a) = {}
  BY <1>1 DEF AddBatch
<1>2. CASE StoredFor(a) # {}
  <2>1. PICK i \in StoredFor(a) : i = CHOOSE j \in StoredFor(a) : TRUE
    BY <1>2
  <2>2. asked[pos + i] = a
    BY <2>1 DEF StoredFor
  <2>3. AddBatch[a] = [of |-> asked[pos + i], age |-> age[asked[pos + i]]]
    BY <1>2, <2>1 DEF AddBatch
  <2> QED BY <1>2, <2>2, <2>3
<1> QED BY <1>1, <1>2

LEMMA BatchKeeps ==
  ASSUME ReaderInv, ReadBatch
  PROVE  /\ ReaderInv'
         /\ outcome' = "returned" =>
              \A a \in ToSet(asked) \cap steady : result'[a] # Unread /\ result'[a].age >= since[a]
<1> USE DEF ReadBatch
<1>1. ToRead \in 1..(Len(asked) - pos) /\ Len(asked) \in Nat /\ pos \in Nat
  BY BatchOfRead DEF ReaderInv, ReaderTypes
<1>2. \A a \in Attributes : /\ StoredFor(a) = {} => result'[a] = result[a]
                            /\ StoredFor(a) # {} => result'[a] = [of |-> a, age |-> age[a]]
  BY StoredIsPresent
<1>3. \A a \in Attributes : [of |-> a, age |-> age[a]] # Unread
  BY AttributeReaderAssumption DEF ReaderInv, ReaderTypes
<1>4. ASSUME NEW i \in 1..(pos + ToRead), asked[i] \in steady
      PROVE  result'[asked[i]] # Unread /\ result'[asked[i]].age >= since[asked[i]]
  <2>0. i \in 1..Len(asked) /\ asked[i] \in Attributes /\ age[asked[i]] >= since[asked[i]]
    BY <1>1 DEF ReaderInv, ReaderTypes, ReadSoFar
  <2>1. CASE StoredFor(asked[i]) # {}
    <3>1. result'[asked[i]] = [of |-> asked[i], age |-> age[asked[i]]] /\ result'[asked[i]] # Unread
      BY <1>2, <1>3, <2>0, <2>1
    <3>2. result'[asked[i]].age = age[asked[i]]
      BY <3>1
    <3> QED BY <2>0, <3>1, <3>2
  <2>2. CASE StoredFor(asked[i]) = {}
    <3>1. i <= pos
      <4> SUFFICES ASSUME i > pos PROVE FALSE
        BY <1>1
      <4>1. i - pos \in 1..ToRead /\ pos + (i - pos) = i
        BY <1>1
      <4>2. good[asked[i]]
        BY <1>1, <1>4 DEF ReaderInv, ReadSoFar
      <4>3. i - pos \in StoredFor(asked[i])
        BY <4>1, <4>2, <2>0 DEF StoredFor, ReaderInv, ReaderTypes
      <4> QED BY <2>2, <4>3
    <3>2. i \in 1..pos
      BY <1>1, <3>1
    <3> QED BY <1>1, <1>2, <1>4, <2>0, <2>2, <3>2 DEF ReaderInv, ReadSoFar
  <2> QED BY <2>1, <2>2
<1>5. ASSUME NEW a \in Attributes, result'[a] # Unread PROVE result'[a] \in [of : {a}, age : Nat]
  <2>1. age[a] \in Nat /\ (result[a] # Unread => result[a] \in [of : {a}, age : Nat])
    BY DEF ReaderInv, ReaderTypes
  <2>2. CASE StoredFor(a) = {}
    BY <1>2, <1>5, <2>1, <2>2
  <2>3. CASE StoredFor(a) # {}
    <3>1. result'[a] = [of |-> a, age |-> age[a]]
      BY <1>2, <2>3
    <3> QED BY <2>1, <3>1
  <2> QED BY <2>2, <2>3
<1>6. \/ pos + ToRead = Len(asked) /\ pos' = -1 /\ outcome' = "returned"
      \/ pos + ToRead < Len(asked) /\ pos' = pos + ToRead /\ outcome' = outcome
  BY <1>1 DEF Advance
<1>7. ReaderTypes'
  BY <1>1, <1>5, <1>6 DEF ReaderInv, ReaderTypes
<1>8. AskedOnce'
  BY DEF ReaderInv, AskedOnce
<1>9. ReadSoFar'
  BY <1>1, <1>4, <1>6 DEF ReaderInv, ReadSoFar
<1>10. ASSUME outcome' = "returned", NEW a \in ToSet(asked) \cap steady
       PROVE  result'[a] # Unread /\ result'[a].age >= since[a]
  <2>1. PICK i \in 1..Len(asked) : asked[i] = a
    <3>1. DOMAIN asked = 1..Len(asked)
      BY DEF ReaderInv, ReaderTypes
    <3> QED BY <1>10, <3>1 DEF ToSet
  <2>2. pos + ToRead = Len(asked)
    BY <1>6, <1>10 DEF ReaderInv, ReaderTypes
  <2> QED BY <1>4, <1>10, <2>1, <2>2
<1> QED BY <1>7, <1>8, <1>9, <1>10 DEF ReaderInv

LEMMA ReaderStep ==
  ASSUME ReaderInv, [AttributeReaderNext]_readerVars
  PROVE  /\ ReaderInv'
         /\ outcome = "running" /\ outcome' = "returned" =>
              \A a \in ToSet(asked) \cap steady : result'[a] # Unread /\ result'[a].age >= since[a]
<1> USE DEF ReaderInv
<1>1. CASE UNCHANGED readerVars
  BY <1>1 DEF readerVars, ReaderTypes, AskedOnce, ReadSoFar
<1>2. ASSUME NEW a \in Attributes, ValueChanges(a) PROVE ReaderInv' /\ outcome' = outcome
  <2>1. /\ age' \in [Attributes -> Nat] /\ good' \in [Attributes -> BOOLEAN]
        /\ \A b \in Attributes : age[b] <= age'[b]
    <3>1. CASE age' = [age EXCEPT ![a] = @ + 1] /\ UNCHANGED good
      BY <3>1 DEF ReaderTypes
    <3>2. CASE good' = [good EXCEPT ![a] = ~@] /\ UNCHANGED age
      <4>1. good' \in [Attributes -> BOOLEAN]
        <5>1. good \in [Attributes -> BOOLEAN]
          BY DEF ReaderTypes
        <5>2. (~good[a]) \in BOOLEAN
          BY Zenon
        <5> QED BY <3>2, <5>1, <5>2
      <4> QED BY <3>2, <4>1 DEF ReaderTypes
    <3> QED BY <1>2, <3>1, <3>2 DEF ValueChanges
  <2>2. steady' \subseteq steady /\ \A b \in steady' : good'[b]
    BY <1>2 DEF ValueChanges
  <2>3. UNCHANGED <<asked, result, pos, outcome, since>>
    BY <1>2 DEF ValueChanges
  <2>4. ReaderTypes'
    BY <2>1, <2>2, <2>3 DEF ReaderTypes
  <2>5. AskedOnce'
    BY <2>3 DEF AskedOnce
  <2>6. ReadSoFar'
    <3>1. \A b \in Attributes : age[b] \in Nat /\ age'[b] \in Nat /\ since[b] \in Nat
      BY <2>1 DEF ReaderTypes
    <3> QED BY <2>1, <2>2, <2>3, <3>1 DEF ReadSoFar
  <2> QED BY <2>3, <2>4, <2>5, <2>6
<1>3. ASSUME NEW a \in Attributes, AddAttribute(a) PROVE ReaderInv' /\ outcome' = outcome
  <2>1. ReaderTypes'
    BY <1>3 DEF AddAttribute, ReaderTypes
  <2>2. AskedOnce'
    <3>1. CASE asked' = asked
      BY <3>1 DEF AskedOnce
    <3>2. CASE asked' = Append(asked, a) /\ ~Contains(asked, a)
      <4>1. Len(asked') = Len(asked) + 1 /\ asked'[Len(asked) + 1] = a /\ \A i \in 1..Len(asked) : asked'[i] = asked[i]
        BY <3>2 DEF ReaderTypes
      <4>2. \A i \in 1..Len(asked) : asked[i] # a
        BY <3>2 DEF Contains
      <4>3. Len(asked) \in Nat
        BY DEF ReaderTypes
      <4> QED BY <4>1, <4>2, <4>3 DEF AskedOnce
    <3> QED BY <1>3, <3>1, <3>2 DEF AddAttribute
  <2> QED BY <1>3, <2>1, <2>2 DEF AddAttribute, ReadSoFar
<1>4. CASE ClearAttributes
  BY <1>4 DEF ClearAttributes, ReaderTypes, AskedOnce, ReadSoFar
<1>5. CASE ClearResults
  BY <1>5 DEF ClearResults, ReaderTypes, AskedOnce, ReadSoFar
<1>6. CASE StartRead
  BY <1>6 DEF StartRead, ReaderTypes, AskedOnce, ReadSoFar
<1>7. CASE ReadFails
  BY <1>7 DEF ReadFails, ReaderTypes, AskedOnce, ReadSoFar
<1> QED BY <1>1, <1>2, <1>3, <1>4, <1>5, <1>6, <1>7, BatchKeeps DEF AttributeReaderNext

-----------------------------------------------------------------------------

LEMMA LibraryBrowserAndReader == Spec => [](BrowserInv /\ ReaderInv)
<1>1. Init => BrowserInv /\ ReaderInv
  BY BrowserInitially, ReaderInitially DEF Init
<1>2. BrowserInv /\ ReaderInv /\ [Next]_libraryVars => (BrowserInv /\ ReaderInv)'
  <2>1. [Next]_libraryVars => [ReferenceBrowserNext]_browserVars /\ [AttributeReaderNext]_readerVars
    BY DEF Next, libraryVars
  <2> QED BY <2>1, BrowserStep, ReaderStep
<1> QED BY <1>1, <1>2, PTL DEF Spec

\* The cache holds for every node one whole answer of the server, a browse that
\* ends has left no reference unanswered, and a read value is stored under the
\* attribute it was read for.
THEOREM LibraryDataIsTheServers == Spec => []DataIsTheServers
<1>1. ReaderInv => ValueIsOfItsAttribute
  BY DEF ReaderInv, ReaderTypes, ValueIsOfItsAttribute
<1>2. BrowserInv /\ ReaderInv => DataIsTheServers
  BY <1>1, BrowserInvImplies DEF DataIsTheServers
<1> QED BY <1>2, LibraryBrowserAndReader, PTL

\* Nothing old is used: neither the callback of a helper that was stopped, nor
\* a value from before the read() that returned it.
THEOREM LibraryUsesNothingStale == Spec => NothingStaleIsUsed
<1>1. BrowserInv /\ ReaderInv /\ [Next]_libraryVars
        => [outcome = "running" /\ outcome' = "returned" =>
              \A a \in ToSet(asked) \cap steady :
                result'[a] # Unread /\ result'[a].age >= since[a]]_readerVars
  <2> SUFFICES ASSUME ReaderInv, [Next]_libraryVars, outcome = "running" /\ outcome' = "returned"
               PROVE  \A a \in ToSet(asked) \cap steady : result'[a] # Unread /\ result'[a].age >= since[a]
    OBVIOUS
  <2>1. [AttributeReaderNext]_readerVars
    BY DEF Next, libraryVars
  <2> QED BY <2>1, ReaderStep
<1>2. Spec => ReadIsFresh
  BY <1>1, LibraryBrowserAndReader, PTL DEF Spec, ReadIsFresh
<1> QED BY <1>2, LibraryStoppedIsSilent DEF NothingStaleIsUsed
=============================================================================
