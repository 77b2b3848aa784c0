--------------------- MODULE GenericClientDeviceProofs ---------------------
(***************************************************************************)
(* Proofs about GenericClientDevice, for any set of blocks and of names a   *)
(* caller may ask for. IInv adds to the properties what each thread has     *)
(* established on its way: the reconnect thread has stopped the iterate     *)
(* thread before it connects, refused credentials have cleared              *)
(* reconnectRunning before the monitor can look again, and the removal has  *)
(* stopped the sampler before it waits for the call in progress.            *)
(***************************************************************************)
EXTENDS GenericClientDevice, TLAPS

USE BlocksAssumption, NamesAssumption

\* A freshly constructed device satisfies the invariant.
LEMMA InitIInv == Init => IInv
<1> SUFFICES ASSUME Init PROVE IInv
  OBVIOUS
<1>1. TypeOK  BY DEF Init, TypeOK, Sampler!Init
<1>2. Rest  BY DEF Init, Rest, FolderNamesUnique, NoCallDuringTeardown, Sampler!Init
<1> QED  BY <1>1, <1>2 DEF IInv

\* Every step preserves type correctness.
LEMMA StepTypeOK == TypeOK /\ [Next]_vars => TypeOK'
<1> SUFFICES ASSUME TypeOK, [Next]_vars PROVE TypeOK'
  OBVIOUS
<1> USE DEF TypeOK, linkVars, monVars,
            blockVars, removalVars, samplerVars
<1>1. CASE ServerChanges  BY <1>1 DEF ServerChanges
<1>2. CASE ConnectionLost
  <2>1. /\ connected' = FALSE
        /\ UNCHANGED <<server, iterating, monVars, blockVars, removalVars, restoring, samplerVars>>
    BY <1>2 DEF ConnectionLost
  <2>2. server' \in {"up", "down", "denying"} /\ connected' \in BOOLEAN /\ iterating' \in BOOLEAN
    BY <2>1
  <2>3. UNCHANGED <<monVars, blockVars, removalVars, restoring, samplerVars>>
    BY <2>1
  <2> QED  BY <2>2, <2>3
<1>3. CASE MonCheck  BY <1>3 DEF MonCheck
<1>4. CASE MonDisconnect  BY <1>4 DEF MonDisconnect
<1>5. CASE MonConnect
  <2>1. /\ connected' \in BOOLEAN /\ reconnectRunning' \in BOOLEAN
        /\ mon' \in {"iterate", "sleep"} /\ status' \in {status, "Unrecoverable"}
    BY <1>5 DEF MonConnect
  <2>2. UNCHANGED <<server, iterating, blockVars, removalVars, restoring, samplerVars>>
    BY <1>5 DEF MonConnect
  <2> QED  BY <2>1, <2>2
<1>6. CASE MonIterate  BY <1>6 DEF MonIterate
<1>7. CASE MonAnnounce  BY <1>7 DEF MonAnnounce, Sampler!Reconnected
<1>8. CASE MonSleep  BY <1>8 DEF MonSleep
<1>9. CASE EndCall  BY <1>9 DEF EndCall, Sampler!End, Validated
<1>10. ASSUME NEW i \in Blocks, BeginSample(i) PROVE TypeOK'
  <2>1. /\ restoring' = FALSE /\ calling' = i
        /\ UNCHANGED <<linkVars, monVars, blockVars, removalVars, alive, registered, owed>>
    BY <1>10 DEF BeginSample, Sampler!Sample, Sampler!Begin
  <2>2. restoring' \in BOOLEAN /\ calling' \in Blocks \cup {None}
    BY <2>1
  <2>3. UNCHANGED <<linkVars, monVars, blockVars, removalVars, alive, registered, owed>>
    BY <2>1
  <2> QED  BY <2>2, <2>3
<1>11. ASSUME NEW i \in Blocks, BeginRestore(i) PROVE TypeOK'
  BY <1>11 DEF BeginRestore, Sampler!Restore, Sampler!Begin
<1>12. ASSUME NEW i \in Blocks, PickLocalId(i) PROVE TypeOK'
  <2>1. \A user \in UserNames \cup {NoName} :
          BuildMILocalId(user) \in UserNames \cup Nat \cup {NoName}
    BY DEF BuildMILocalId
  <2> QED  BY <1>12, <2>1 DEF PickLocalId
<1>13. ASSUME NEW i \in Blocks, Construct(i) PROVE TypeOK'
  BY <1>13 DEF Construct, Sampler!Create, Validated
<1>14. ASSUME NEW i \in Blocks, AddNested(i) PROVE TypeOK'
  BY <1>14 DEF AddNested, Sampler!Die
<1>15. ASSUME NEW i \in Blocks, Register(i) PROVE TypeOK'
  BY <1>15 DEF Register, Sampler!Register
<1>16. ASSUME NEW i \in Blocks, RemoveBlock(i) PROVE TypeOK'
  BY <1>16 DEF RemoveBlock, Detach, Sampler!Unregister
<1>17. CASE BeginRemoval  BY <1>17 DEF BeginRemoval
<1>18. CASE JoinMonitor  BY <1>18 DEF JoinMonitor
<1>19. CASE StopSampler  BY <1>19 DEF StopSampler, Sampler!Stop
<1>20. CASE JoinSampler  BY <1>20 DEF JoinSampler
<1>21. CASE RemoveBlocks
  BY <1>21 DEF RemoveBlocks, Detach, Sampler!Unregister
<1>22. CASE Disconnect  BY <1>22 DEF Disconnect
<1>23. CASE UNCHANGED vars  BY <1>23 DEF vars
<1> QED
  BY <1>1, <1>2, <1>3, <1>4, <1>5, <1>6, <1>7, <1>8, <1>9, <1>10, <1>11, <1>12,
     <1>13, <1>14, <1>15, <1>16, <1>17, <1>18, <1>19, <1>20, <1>21, <1>22, <1>23
     DEF Next, Monitor, AddStep, Removal

\* Every step preserves the rest of the invariant: a name enters the folder
\* only when no block there has it, and the name of a block in the folder does
\* not change.
LEMMA StepRest == IInv /\ [Next]_vars => Rest'
<1> SUFFICES ASSUME IInv, [Next]_vars PROVE Rest'
  OBVIOUS
<1>0. /\ adding \in [Blocks -> {"idle", "named", "constructed", "added", "done", "failed"}]
      /\ name \in [Blocks -> UserNames \cup Nat \cup {NoName}]
      /\ folder \subseteq Blocks
  BY DEF IInv, TypeOK
<1> Rest  BY DEF IInv
<1> USE <1>0 DEF Rest, FolderNamesUnique, NoCallDuringTeardown,
            linkVars, monVars,
            blockVars, removalVars, samplerVars
<1>1. CASE ServerChanges  BY <1>1 DEF ServerChanges
<1>2. CASE ConnectionLost  BY <1>2 DEF ConnectionLost
<1>3. CASE MonCheck  BY <1>3 DEF MonCheck
<1>4. CASE MonDisconnect  BY <1>4 DEF MonDisconnect
<1>5. CASE MonConnect  BY <1>5 DEF MonConnect
<1>6. CASE MonIterate  BY <1>6 DEF MonIterate
<1>7. CASE MonAnnounce  BY <1>7 DEF MonAnnounce, Sampler!Reconnected
<1>8. CASE MonSleep  BY <1>8 DEF MonSleep
<1>9. CASE EndCall  BY <1>9 DEF EndCall, Sampler!End, Validated
<1>10. ASSUME NEW i \in Blocks, BeginSample(i) PROVE Rest'
  BY <1>10 DEF BeginSample, Sampler!Sample, Sampler!Begin
<1>11. ASSUME NEW i \in Blocks, BeginRestore(i) PROVE Rest'
  BY <1>11 DEF BeginRestore, Sampler!Restore, Sampler!Begin
<1>12. ASSUME NEW i \in Blocks, PickLocalId(i) PROVE Rest'
  BY <1>12 DEF PickLocalId
<1>13. ASSUME NEW i \in Blocks, Construct(i) PROVE Rest'
  BY <1>13 DEF Construct, Sampler!Create, Validated
<1>14. ASSUME NEW i \in Blocks, AddNested(i) PROVE Rest'
  BY <1>14 DEF AddNested, Sampler!Die, Names
<1>15. ASSUME NEW i \in Blocks, Register(i) PROVE Rest'
  BY <1>15 DEF Register, Sampler!Register
<1>16. ASSUME NEW i \in Blocks, RemoveBlock(i) PROVE Rest'
  BY <1>16 DEF RemoveBlock, Detach, Sampler!Unregister
<1>17. CASE BeginRemoval  BY <1>17 DEF BeginRemoval
<1>18. CASE JoinMonitor  BY <1>18 DEF JoinMonitor
<1>19. CASE StopSampler  BY <1>19 DEF StopSampler, Sampler!Stop
<1>20. CASE JoinSampler  BY <1>20 DEF JoinSampler
<1>21. CASE RemoveBlocks
  BY <1>21 DEF RemoveBlocks, Detach, Sampler!Unregister
<1>22. CASE Disconnect  BY <1>22 DEF Disconnect
<1>23. CASE UNCHANGED vars  BY <1>23 DEF vars
<1> QED
  BY <1>1, <1>2, <1>3, <1>4, <1>5, <1>6, <1>7, <1>8, <1>9, <1>10, <1>11, <1>12,
     <1>13, <1>14, <1>15, <1>16, <1>17, <1>18, <1>19, <1>20, <1>21, <1>22, <1>23
     DEF Next, Monitor, AddStep, Removal

\* Every step preserves the invariant.
LEMMA StepIInv == IInv /\ [Next]_vars => IInv'
  BY StepTypeOK, StepRest DEF IInv

\* The inductive invariant of the device holds, whatever blocks are added
\* and removed and however often the connection is lost.
THEOREM DeviceIInv == Spec => []IInv
  BY InitIInv, StepIInv, PTL DEF Spec

\* Type correctness of the device.
THEOREM DeviceTypeOK == Spec => []TypeOK
<1>1. IInv => TypeOK  BY DEF IInv
<1> QED  BY <1>1, DeviceIInv, PTL

\* The reconnect thread never starts an iterate thread that is started
\* (OpcUaClient::runIterate would throw what the loop does not catch).
THEOREM DeviceMonitorSurvives == Spec => []MonitorSurvives
<1>1. IInv => MonitorSurvives  BY DEF IInv, Rest, MonitorSurvives
<1> QED  BY <1>1, DeviceIInv, PTL

\* No call into a block is in progress while blocks are torn down.
THEOREM DeviceTeardown == Spec => []NoCallDuringTeardown
<1>1. IInv => NoCallDuringTeardown  BY DEF IInv, Rest
<1> QED  BY <1>1, DeviceIInv, PTL

\* Local IDs in the folder stay unique under concurrent additions.
THEOREM DeviceNamesUnique == Spec => []FolderNamesUnique
<1>1. IInv => FolderNamesUnique  BY DEF IInv, Rest
<1> QED  BY <1>1, DeviceIInv, PTL

\* Once credentials were refused the status stays Unrecoverable: the reconnect
\* loop can neither report an attempt nor a success any more.
THEOREM DeviceUnrecoverableIsFinal == Spec => UnrecoverableIsFinal
<1>1. IInv /\ [Next]_vars => [status = "Unrecoverable" => UNCHANGED status]_vars
  <2> SUFFICES ASSUME IInv, Next, status = "Unrecoverable" PROVE UNCHANGED status
    OBVIOUS
  <2>1. ~reconnectRunning /\ mon \in {"check", "sleep", "exited"}  BY DEF IInv, Rest
  <2>2. CASE Monitor
    BY <2>1, <2>2 DEF Monitor, MonCheck, MonDisconnect, MonConnect, MonIterate,
                      MonAnnounce, MonSleep
  <2>3. CASE \E i \in Blocks : AddStep(i)
    BY <2>3 DEF AddStep, Construct, AddNested, Register, monVars
  <2>4. CASE Removal
    BY <2>4 DEF Removal, JoinMonitor, StopSampler, JoinSampler, RemoveBlocks, Disconnect, monVars
  <2> QED
    BY <2>2, <2>3, <2>4 DEF Next, ServerChanges, ConnectionLost, EndCall, BeginSample,
       BeginRestore, PickLocalId, RemoveBlock, BeginRemoval, monVars
<1> QED  BY <1>1, DeviceIInv, PTL DEF Spec, UnrecoverableIsFinal
=============================================================================
