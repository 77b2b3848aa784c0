--------------------------- MODULE ClientLibrary ----------------------------
(***************************************************************************)
(* The parts of the client library side by side.  They share no state:     *)
(* a behaviour follows one part and the others stand still, so that what   *)
(* is explored is the sum and not the product of their states.             *)
(***************************************************************************)
EXTENDS ClientTasks, ReferenceBrowser, AttributeReader

VARIABLE part

libraryVars == <<clientTaskVars, browserVars, readerVars, part>>

\* The node 3 is below 2 or below 1 and 2, and refers back: a browse must end
\* although the references run in circles, and two children share a name.
Nodes_ == {1, 2, 3}
Trees_ == {<<{2, 3}, {1}, {}>>, <<{2}, {3}, {1}>>}
NameOf_ == <<"a", "b", "b">>

Init ==
  /\ ClientTasksInit /\ ReferenceBrowserInit /\ AttributeReaderInit
  /\ part \in {"tasks", "browser", "reader"}
  /\ part # "browser" => tree = <<{2}, {3}, {1}>>

Next ==
  /\ UNCHANGED part
  /\ \/ part = "tasks" /\ ClientTasksNext /\ UNCHANGED <<browserVars, readerVars>>
     \/ part = "browser" /\ ReferenceBrowserNext /\ UNCHANGED <<clientTaskVars, readerVars>>
     \/ part = "reader" /\ AttributeReaderNext /\ UNCHANGED <<clientTaskVars, browserVars>>

\* Where a part stands still, none of its fair actions is possible: it has not
\* been started.
Fairness == ClientTasksFairness /\ ReferenceBrowserFairness

Spec == Init /\ [][Next]_libraryVars /\ Fairness

-----------------------------------------------------------------------------
(* Properties of the parts *)

\* Invariant of the timer tasks: the maps, the timers of the stack and the
\* helpers agree across disconnects.
TimerTasksHold == ClientTasksInv /\ TimerRunsItsTask /\ StartedHelperIsScheduled

\* What was read is what the server has said: of every node that was browsed to,
\* of every attribute under its own name.
DataIsTheServers ==
  /\ ReferenceBrowserTypeOK /\ EntryIsOneAnswer /\ BrowseReachesAll
  /\ ValueIsOfItsAttribute

\* Nothing old is used: no callback of a helper that was stopped, no value from
\* before the call that read it.
NothingStaleIsUsed == StoppedHelperIsSilent /\ ReadIsFresh

\* Whoever waits for the library is answered: the one who pushed a job, the one
\* who stops the processor, the one who browses.
WaitersAreAnswered == PushedJobIsAnswered /\ ProcessorStops /\ BrowseEnds
=============================================================================
