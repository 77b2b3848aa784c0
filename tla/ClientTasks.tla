---------------------------- MODULE ClientTasks ----------------------------
(***************************************************************************)
(* ClientTasks: an OpcUaClient with its timer tasks, the two threads that  *)
(* can iterate it (its own iterate thread and the thread of an             *)
(* OpcUaTaskProcessor) and the application, which starts and stops timer   *)
(* tasks through OpcUaTimerTaskHelper, hands jobs to the processor, and    *)
(* connects and disconnects the client.                                    *)
(*                                                                         *)
(* Every operation of the client holds its recursive lock and is one step, *)
(* except the callback of a timer task, which runs in iterate() with the   *)
(* lock held: it begins (FireTimer), may use the client on the same thread *)
(* and ends (EndCallback).                                                 *)
(*                                                                         *)
(* The UA client of the stack is external: it numbers its timers from 1,   *)
(* and a new one starts anew.  Assumed of the application: it has one      *)
(* thread, clears the client only while the processor does not run (which  *)
(* would iterate without a UA client), and destroys the processor when it  *)
(* has stopped.                                                            *)
(***************************************************************************)
EXTENDS Integers, Sequences

CONSTANTS Helpers,   \* objects of OpcUaTimerTaskHelper
          Jobs,      \* tasks for the processor, each pushed once
          MaxId,     \* bound on the timers of one UA client
          None

ASSUME ClientTasksAssumption ==
  /\ MaxId \in Nat \ {0}
  /\ None \notin Helpers \cup Jobs \cup {"processor", "iterator", "application"}
  /\ None \notin [id : 1..MaxId, context : Helpers, runs : Helpers]

VARIABLES
  ua,         \* "null", "idle", "connected": OpcUaClient::uaclient
  lock,       \* the thread that is in a timer callback, which holds the lock
  timers,     \* timers of the UA client: [id, context], context a helper
  lastId,     \* the last identifier the UA client gave
  callbacks,  \* TimerTaskContextCollection::taskCallbacks, by identifier
  ident,      \* OpcUaTimerTaskHelper::callbackIdent, 0 when it has no value
  terminated, \* OpcUaTimerTaskHelper::terminated
  firing,     \* the callback in progress: [id, context, runs] or None
  iterating,  \* the iterate thread: "off", "on", "ended"
  processor,  \* the thread of the processor
  stopping,   \* ThreadEx::terminated of the processor
  queue,      \* OpcUaTaskProcessor::queue
  current,    \* the job the processor runs, or None
  future,     \* what the caller of executeTaskAwait() holds
  leftover,   \* history: helpers started before the UA client was deleted
  mixed       \* history: a helper was started while there were leftovers

timerVars == <<timers, lastId, callbacks, ident, terminated>>
processorVars == <<processor, stopping, queue, current, future>>
historyVars == <<leftover, mixed>>
clientTaskVars == <<ua, lock, timerVars, firing, iterating, processorVars, historyVars>>

Ids == 1..MaxId
Firing == [id : Ids, context : Helpers, runs : Helpers]

ClientTasksInit ==
  /\ ua = "idle" /\ lock = None
  /\ timers = {} /\ lastId = 0
  /\ callbacks = [i \in Ids |-> None]
  /\ ident = [h \in Helpers |-> 0]
  /\ terminated = [h \in Helpers |-> FALSE]
  /\ firing = None
  /\ iterating = "off"
  /\ processor = "off" /\ stopping = FALSE
  /\ queue = <<>> /\ current = None
  /\ future = [j \in Jobs |-> "none"]
  /\ leftover = {} /\ mixed = FALSE

\* Who may take the lock: nobody is in a callback, or t itself is.
CanLock(t) == lock \in {None, t}
Application == "application"

-----------------------------------------------------------------------------
(* Timer tasks *)

\* removeTimerTask(): the timer of the stack and the entry of the map.
Unscheduled(i) == {t \in timers : t.id # i}

\* Mutant: the entry of the map stays.
NotErased(i) == callbacks

Erased(i) == [callbacks EXCEPT ![i] = None]

\* scheduleTimerTask(): the stack arms a timer for a new context; the map
\* keeps the entry it has when an equal identifier is in it.
ScheduleTimerTask(h, i) ==
  /\ timers' = timers \cup {[id |-> i, context |-> h]}
  /\ lastId' = i
  /\ callbacks' = IF callbacks[i] = None THEN [callbacks EXCEPT ![i] = h] ELSE callbacks

\* OpcUaTimerTaskHelper::start() on thread t.
StartHelper(t, h) ==
  /\ CanLock(t) /\ ua # "null"
  /\ ident[h] = 0 /\ lastId < MaxId
  /\ ScheduleTimerTask(h, lastId + 1)
  /\ terminated' = [terminated EXCEPT ![h] = FALSE]
  /\ ident' = [ident EXCEPT ![h] = lastId + 1]
  /\ mixed' = (mixed \/ leftover # {})
  /\ UNCHANGED <<ua, lock, firing, iterating, processorVars, leftover>>

\* Mutant: stop() leaves the removal to the next callback.
StopHelperLazily(t, h) ==
  /\ CanLock(t)
  /\ ident[h] # 0
  /\ terminated' = [terminated EXCEPT ![h] = TRUE]
  /\ ident' = [ident EXCEPT ![h] = 0]
  /\ leftover' = leftover \ {h}
  /\ UNCHANGED <<ua, lock, timers, callbacks, lastId, firing, iterating, processorVars, mixed>>

\* OpcUaTimerTaskHelper::stop() on thread t; also the destructor.
StopHelper(t, h) ==
  /\ CanLock(t)
  /\ ident[h] # 0
  /\ terminated' = [terminated EXCEPT ![h] = TRUE]
  /\ timers' = Unscheduled(ident[h])
  /\ callbacks' = Erased(ident[h])
  /\ ident' = [ident EXCEPT ![h] = 0]
  /\ leftover' = leftover \ {h}
  /\ UNCHANGED <<ua, lock, lastId, firing, iterating, processorVars, mixed>>

\* terminate() only leaves word for the callback; it needs no lock.
TerminateHelper(h) ==
  /\ ident[h] # 0 /\ ~terminated[h]
  /\ terminated' = [terminated EXCEPT ![h] = TRUE]
  /\ UNCHANGED <<ua, lock, timers, lastId, callbacks, ident, firing, iterating,
                 processorVars, historyVars>>

\* iterate() on thread t finds a timer that is due: timerTaskCallback() takes
\* the function from the map by the identifier in the context.
FireTimer(t) ==
  /\ lock = None
  /\ \E timer \in timers :
       /\ callbacks[timer.id] # None
       /\ firing' = [id |-> timer.id, context |-> timer.context,
                     runs |-> callbacks[timer.id]]
  /\ lock' = t
  /\ UNCHANGED <<ua, timerVars, iterating, historyVars>>

\* The end of execute() and of timerTaskCallback().
EndCallback(t) ==
  /\ lock = t
  /\ lock' = None /\ firing' = None
  /\ IF terminated[firing.runs]
     THEN /\ timers' = Unscheduled(firing.id)
          /\ callbacks' = Erased(firing.id)
     ELSE UNCHANGED <<timers, callbacks>>
  /\ UNCHANGED <<ua, lastId, ident, terminated, iterating, historyVars>>

-----------------------------------------------------------------------------
(* The client and its iterate thread *)

\* connect(), which first makes a UA client if there is none.
Connect ==
  /\ CanLock(Application) /\ ua # "connected"
  /\ ua' \in {"idle", "connected"}
  /\ UNCHANGED <<lock, timerVars, firing, iterating, processorVars, historyVars>>

ConnectionLost ==
  /\ ua = "connected" /\ ua' = "idle"
  /\ UNCHANGED <<lock, timerVars, firing, iterating, processorVars, historyVars>>

\* disconnect(): stopIterate() joins the thread; clear() deletes the UA client
\* and its timers but leaves the map and the helpers as they are.
Disconnect(doClear) ==
  /\ lock = None /\ ua # "null"
  /\ iterating' = "off"
  /\ IF doClear
     THEN /\ processor \in {"off", "ended"}
          /\ ua' = "null" /\ timers' = {} /\ lastId' = 0
          /\ leftover' = leftover \cup {h \in Helpers : ident[h] # 0}
     ELSE ua' = "idle" /\ UNCHANGED <<timers, lastId, leftover>>
  /\ UNCHANGED <<lock, callbacks, ident, terminated, firing, processorVars, mixed>>

\* runIterate(), which throws when the thread was started before.
RunIterate ==
  /\ ua # "null" /\ iterating = "off"
  /\ iterating' = "on"
  /\ UNCHANGED <<ua, lock, timerVars, firing, processorVars, historyVars>>

\* executeIterateCallback() ends the thread when iterate() fails.
IterateFails ==
  /\ iterating = "on" /\ lock = None /\ ua # "connected"
  /\ iterating' = "ended"
  /\ UNCHANGED <<ua, lock, timerVars, firing, processorVars, historyVars>>

-----------------------------------------------------------------------------
(* OpcUaTaskProcessor *)

StartProcessor ==
  /\ processor = "off" /\ ua # "null"
  /\ processor' = "loop"
  /\ UNCHANGED <<ua, lock, timerVars, firing, iterating, stopping, queue, current,
                 future, historyVars>>

StopProcessor ==
  /\ processor \notin {"off", "ended"} /\ ~stopping
  /\ stopping' = TRUE
  /\ UNCHANGED <<ua, lock, timerVars, firing, iterating, processor, queue, current,
                 future, historyVars>>

\* The destructor breaks the promises in the queue; a new processor follows.
DestroyProcessor ==
  /\ processor \in {"off", "ended"}
  /\ processor' = "off" /\ stopping' = FALSE /\ queue' = <<>>
  /\ future' = [j \in Jobs |-> IF future[j] = "pending" THEN "broken" ELSE future[j]]
  /\ UNCHANGED <<ua, lock, timerVars, firing, iterating, current, historyVars>>

\* executeTaskAwait() on another thread than the processor's.
Push(j) ==
  /\ future[j] = "none"
  /\ queue' = Append(queue, j)
  /\ future' = [future EXCEPT ![j] = "pending"]
  /\ UNCHANGED <<ua, lock, timerVars, firing, iterating, processor, stopping, current,
                 historyVars>>

\* execute(): the condition of the loop, and the next job if there is one.
TakeJob ==
  /\ processor = "loop"
  /\ \/ /\ stopping /\ processor' = "ended"
        /\ UNCHANGED <<queue, current>>
     \/ /\ ~stopping /\ queue = <<>> /\ processor' = "iterate"
        /\ UNCHANGED <<queue, current>>
     \/ /\ ~stopping /\ queue # <<>>
        /\ processor' = "job" /\ current' = Head(queue) /\ queue' = Tail(queue)
  /\ UNCHANGED <<ua, lock, timerVars, firing, iterating, stopping, future, historyVars>>

\* Mutant: a job that throws leaves its future without an answer.
RunJobUnanswered ==
  /\ processor = "job"
  /\ \E nested \in SUBSET {j \in Jobs : future[j] = "none"}, done \in SUBSET {current} :
       future' = [j \in Jobs |-> IF j \in nested \cup done THEN "ready" ELSE future[j]]
  /\ processor' = "loop" /\ current' = None
  /\ UNCHANGED <<ua, lock, timerVars, firing, iterating, stopping, queue, historyVars>>

\* A job returns or throws: its future has an answer.  Jobs it hands to the
\* processor itself are run at once, in executeTaskAwait().
RunJob ==
  /\ processor = "job"
  /\ \E nested \in SUBSET {j \in Jobs : future[j] = "none"} :
       future' = [j \in Jobs |-> IF j \in nested \cup {current} THEN "ready" ELSE future[j]]
  /\ processor' = "loop" /\ current' = None
  /\ UNCHANGED <<ua, lock, timerVars, firing, iterating, stopping, queue, historyVars>>

\* iterate() with no timer due, successful or not.
IterateOnce ==
  /\ processor = "iterate" /\ lock = None
  /\ processor' = "loop"
  /\ UNCHANGED <<ua, lock, timerVars, firing, iterating, stopping, queue, current,
                 future, historyVars>>

ProcessorFires ==
  /\ processor = "iterate" /\ FireTimer("processor")
  /\ processor' = "callback"
  /\ UNCHANGED <<stopping, queue, current, future>>

ProcessorEndsCallback ==
  /\ processor = "callback" /\ EndCallback("processor")
  /\ processor' = "loop"
  /\ UNCHANGED <<stopping, queue, current, future>>

IteratorFires ==
  /\ iterating = "on" /\ FireTimer("iterator") /\ UNCHANGED processorVars

IteratorEndsCallback ==
  EndCallback("iterator") /\ UNCHANGED processorVars

-----------------------------------------------------------------------------

\* What the application does, and what callbacks do on the thread they run on.
UseTimers ==
  \E h \in Helpers :
    \/ \E t \in {Application} \cup ({lock} \ {None}) : StartHelper(t, h) \/ StopHelper(t, h)
    \/ TerminateHelper(h)

ProcessorStep == TakeJob \/ RunJob \/ IterateOnce \/ ProcessorFires \/ ProcessorEndsCallback

ClientTasksNext ==
  \/ UseTimers
  \/ Connect \/ ConnectionLost \/ Disconnect(TRUE) \/ Disconnect(FALSE)
  \/ RunIterate \/ IterateFails \/ IteratorFires \/ IteratorEndsCallback
  \/ StartProcessor \/ StopProcessor \/ DestroyProcessor
  \/ \E j \in Jobs : Push(j)
  \/ ProcessorStep

\* The processor goes on; a callback returns; iterate() gets the lock, which
\* nobody keeps, some time.
ClientTasksFairness ==
  /\ WF_clientTaskVars(TakeJob) /\ WF_clientTaskVars(RunJob)
  /\ WF_clientTaskVars(ProcessorEndsCallback) /\ WF_clientTaskVars(IteratorEndsCallback)
  /\ SF_clientTaskVars(IterateOnce \/ ProcessorFires)

-----------------------------------------------------------------------------
(* Properties *)

ClientTasksTypeOK ==
  /\ ua \in {"null", "idle", "connected"}
  /\ lock \in {None, "processor", "iterator"}
  /\ timers \subseteq [id : Ids, context : Helpers]
  /\ lastId \in 0..MaxId
  /\ callbacks \in [Ids -> Helpers \cup {None}]
  /\ ident \in [Helpers -> 0..MaxId]
  /\ terminated \in [Helpers -> BOOLEAN]
  /\ firing \in Firing \cup {None}
  /\ iterating \in {"off", "on", "ended"}
  /\ processor \in {"off", "loop", "job", "iterate", "callback", "ended"}
  /\ stopping \in BOOLEAN
  /\ queue \in Seq(Jobs)
  /\ current \in Jobs \cup {None}
  /\ future \in [Jobs -> {"none", "pending", "ready", "broken"}]
  /\ leftover \subseteq Helpers
  /\ mixed \in BOOLEAN

\* A callback holds the lock; the timers of the stack are those of helpers
\* that are started, each under its own number, as long as no helper was
\* started beside one that a deleted UA client has left over.
ClientTasksConsistent ==
  /\ lock = None <=> firing = None
  /\ lock = "processor" <=> processor = "callback"
  /\ lock = "iterator" => iterating = "on"
  /\ \A t \in timers : t.id <= lastId
  /\ ua = "null" => timers = {} /\ iterating # "on"
  /\ processor = "job" <=> current # None
  /\ \A i \in 1..Len(queue) : future[queue[i]] = "pending"
  /\ ~mixed => \A t \in timers : callbacks[t.id] = t.context /\ ident[t.context] = t.id

ClientTasksInv == ClientTasksTypeOK /\ ClientTasksConsistent

\* A timer runs the task it was scheduled with.  The exception: a helper that
\* was started before the UA client was deleted has not been stopped, and its
\* entry in the map is found in place of the one of a new task with the same
\* number (TimerTaskContextCollection::insertTimerTask).
TimerRunsItsTask == firing # None => firing.runs = firing.context \/ mixed

\* A helper that is started and was not told to end has a timer, so it runs
\* again (OpcUaTimerTaskHelper::start, stop), with the same exception.
StartedHelperIsScheduled ==
  \A h \in Helpers \ leftover :
    ident[h] # 0 /\ ~terminated[h] /\ ~mixed =>
      [id |-> ident[h], context |-> h] \in timers

\* After stop() no callback of the helper begins, so that it may be destroyed
\* (OpcUaTimerTaskHelper::~OpcUaTimerTaskHelper); this needs no exception.
StoppedHelperIsSilent ==
  [][firing = None /\ firing' # None => ident[firing'.runs] # 0]_clientTaskVars

\* A job that was pushed is answered, unless the processor ends before.
PushedJobIsAnswered ==
  \A j \in Jobs : future[j] = "pending" ~> (future[j] # "pending" \/ processor \in {"off", "ended"})

\* stop() of the processor returns, whatever is in its queue.
ProcessorStops == (stopping ~> processor \in {"off", "ended"})
=============================================================================
