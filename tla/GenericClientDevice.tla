------------------------ MODULE GenericClientDevice ------------------------
(***************************************************************************)
(* The generic OPC UA client device: its reconnect thread, the threads that *)
(* add and remove monitored-item function blocks, and its removal           *)
(* (opcuageneric_client/src/generic_client_device_impl.cpp). The sampling   *)
(* scheduler is used through what it promises, ItemCalls, which             *)
(* SamplingScheduler is shown to implement.                                 *)
(***************************************************************************)
EXTENDS Integers

CONSTANTS
  Blocks,     \* function blocks that callers may add, each once
  UserNames,  \* local IDs a caller may ask for; n in Nat is MonitoredItemFb<n>
  NoName,     \* the empty local ID
  None

ASSUME BlocksAssumption == None \notin Blocks
ASSUME NamesAssumption == NoName \notin UserNames \cup Nat

VARIABLES
  server,             \* what a connect() meets: "up", "down" or "denying"
  connected,          \* OpcUaClient::isConnected()
  iterating,          \* the client's iterate thread is started
  status,             \* the ConnectionStatus of the device
  mon,                \* where the reconnect thread is
  reconnectRunning,
  adding,             \* per block: where the thread that adds it is
  name, localIndex,   \* per block: its local ID; the next generated one
  folder,             \* blocks in the device's folder
  detached,           \* blocks whose removed() has run
  nodeErr,            \* blocks whose latest node validation failed
  removing,           \* where the removal of the device is
  sampling,           \* the scheduler's thread runs
  restoring,          \* the call in progress is onConnectionRestored
  alive, registered, calling, owed  \* the scheduler, as ItemCalls has it

Sampler == INSTANCE ItemCalls WITH Items <- Blocks

linkVars    == <<server, connected, iterating>>
monVars     == <<status, mon, reconnectRunning>>
blockVars   == <<adding, name, localIndex, folder, detached, nodeErr>>
removalVars == <<removing, sampling>>
samplerVars == <<alive, registered, calling, owed>>
vars == <<linkVars, monVars, blockVars, removalVars, restoring, samplerVars>>

TypeOK ==
  /\ server \in {"up", "down", "denying"}
  /\ connected \in BOOLEAN /\ iterating \in BOOLEAN
  /\ status \in {"Connected", "Reconnecting", "Unrecoverable"}
  /\ mon \in {"check", "disconnect", "connect", "iterate", "announce", "sleep", "exited"}
  /\ reconnectRunning \in BOOLEAN
  /\ adding \in [Blocks -> {"idle", "named", "constructed", "added", "done", "failed"}]
  /\ name \in [Blocks -> UserNames \cup Nat \cup {NoName}]
  /\ localIndex \in Nat
  /\ folder \subseteq Blocks /\ detached \subseteq Blocks /\ nodeErr \subseteq Blocks
  /\ removing \in {"no", "joining", "stopping", "sampler", "blocks", "disconnect", "gone"}
  /\ sampling \in BOOLEAN /\ restoring \in BOOLEAN
  /\ alive \subseteq Blocks /\ registered \subseteq Blocks
  /\ calling \in Blocks \cup {None} /\ owed \subseteq Blocks

\* The module hands over a connected client whose iterate thread runs; the
\* constructor starts the sampler and the reconnect thread.
Init ==
  /\ server = "up" /\ connected = TRUE /\ iterating = TRUE
  /\ status = "Connected" /\ mon = "check" /\ reconnectRunning = TRUE
  /\ adding = [i \in Blocks |-> "idle"]
  /\ name = [i \in Blocks |-> NoName] /\ localIndex = 0
  /\ folder = {} /\ detached = {} /\ nodeErr = {}
  /\ removing = "no" /\ sampling = TRUE /\ restoring = FALSE
  /\ Sampler!Init

-----------------------------------------------------------------------------
(* The server and the connection *)

ServerChanges ==
  /\ server' \in {"up", "down", "denying"} \ {server}
  /\ UNCHANGED <<connected, iterating, monVars, blockVars, removalVars,
                 restoring, samplerVars>>

ConnectionLost ==
  /\ connected /\ server # "up"
  /\ connected' = FALSE
  /\ UNCHANGED <<server, iterating, monVars, blockVars, removalVars,
                 restoring, samplerVars>>

-----------------------------------------------------------------------------
(* reconnectMonitorLoop *)

MonCheck ==
  /\ mon = "check"
  /\ IF ~reconnectRunning THEN mon' = "exited" /\ UNCHANGED status
     ELSE IF connected    THEN mon' = "sleep" /\ UNCHANGED status
     ELSE mon' = "disconnect" /\ status' = "Reconnecting"
  /\ UNCHANGED <<linkVars, reconnectRunning, blockVars, removalVars,
                 restoring, samplerVars>>

\* Mutant: the iterate thread is left alone.
MonDisconnectOnly ==
  /\ mon = "disconnect"
  /\ connected' = FALSE
  /\ mon' = "connect"
  /\ UNCHANGED <<server, iterating, status, reconnectRunning, blockVars,
                 removalVars, restoring, samplerVars>>

\* client->disconnect(false): stops the iterate thread first.
MonDisconnect ==
  /\ mon = "disconnect"
  /\ iterating' = FALSE /\ connected' = FALSE
  /\ mon' = "connect"
  /\ UNCHANGED <<server, status, reconnectRunning, blockVars, removalVars,
                 restoring, samplerVars>>

\* Mutants: refused credentials do not end the monitor; any failure does.
Connecting(denied, failed) ==
  /\ mon = "connect"
  /\ \/ /\ server = "up"
        /\ connected' = TRUE /\ mon' = "iterate"
        /\ UNCHANGED <<status, reconnectRunning>>
     \/ /\ server # "up"
        /\ mon' = "sleep"
        /\ status' = IF server = "denying" THEN "Unrecoverable" ELSE status
        /\ reconnectRunning' = (reconnectRunning /\ IF server = "denying" THEN denied ELSE failed)
        /\ UNCHANGED connected
  /\ UNCHANGED <<server, iterating, blockVars, removalVars, restoring, samplerVars>>
MonConnectInsistent == Connecting(TRUE, TRUE)
MonConnectOnce == Connecting(FALSE, FALSE)

\* client->connect(): fails while the server is down; credentials that are
\* refused end the monitor.
MonConnect ==
  /\ mon = "connect"
  /\ \/ /\ server = "up"
        /\ connected' = TRUE /\ mon' = "iterate"
        /\ UNCHANGED <<status, reconnectRunning>>
     \/ /\ server = "down"
        /\ mon' = "sleep"
        /\ UNCHANGED <<connected, status, reconnectRunning>>
     \/ /\ server = "denying"
        /\ status' = "Unrecoverable" /\ reconnectRunning' = FALSE
        /\ mon' = "sleep"
        /\ UNCHANGED connected
  /\ UNCHANGED <<server, iterating, blockVars, removalVars, restoring, samplerVars>>

\* client->runIterate(), which throws when iterating already: see MonitorSurvives.
MonIterate ==
  /\ mon = "iterate" /\ ~iterating
  /\ iterating' = TRUE
  /\ status' = "Connected"
  /\ mon' = "announce"
  /\ UNCHANGED <<server, connected, reconnectRunning, blockVars, removalVars,
                 restoring, samplerVars>>

\* Mutant: the sampler is not told.
MonAnnounceNothing ==
  /\ mon = "announce"
  /\ mon' = "sleep"
  /\ UNCHANGED <<linkVars, status, reconnectRunning, blockVars, removalVars,
                 restoring, samplerVars>>

\* sampler.onReconnected()
MonAnnounce ==
  /\ mon = "announce"
  /\ Sampler!Reconnected
  /\ mon' = "sleep"
  /\ UNCHANGED <<linkVars, status, reconnectRunning, blockVars, removalVars, restoring>>

\* interruptibleSleep
MonSleep ==
  /\ mon = "sleep"
  /\ mon' = "check"
  /\ UNCHANGED <<linkVars, status, reconnectRunning, blockVars, removalVars,
                 restoring, samplerVars>>

-----------------------------------------------------------------------------
(* The calls of the scheduler into the blocks *)

BeginSample(i) ==
  /\ sampling /\ Sampler!Sample(i)
  /\ restoring' = FALSE
  /\ UNCHANGED <<linkVars, monVars, blockVars, removalVars>>

BeginRestore(i) ==
  /\ sampling /\ Sampler!Restore(i)
  /\ restoring' = TRUE
  /\ UNCHANGED <<linkVars, monVars, blockVars, removalVars>>

\* validateNode of a node that the server has: fails only without a connection.
Validated(i) == IF connected THEN nodeErr \ {i} ELSE nodeErr \cup {i}

\* The block lives on: it is in the folder or its user has it.
EndCall ==
  /\ alive' = alive /\ Sampler!End
  /\ nodeErr' = IF restoring THEN Validated(calling) ELSE nodeErr
  /\ UNCHANGED <<linkVars, monVars, adding, name, localIndex, folder, detached,
                 removalVars, restoring>>

-----------------------------------------------------------------------------
(* onAddFunctionBlock *)

Names(S) == {name[i] : i \in S}

\* buildMILocalId: a taken name counts as none.
BuildMILocalId(user) == IF user \in Names(folder) THEN NoName ELSE user

PickLocalId(i) ==
  /\ adding[i] = "idle" /\ removing = "no"
  /\ \E user \in UserNames \cup {NoName} :
        name' = [name EXCEPT ![i] = BuildMILocalId(user)]
  /\ adding' = [adding EXCEPT ![i] = "named"]
  /\ UNCHANGED <<linkVars, monVars, localIndex, folder, detached, nodeErr,
                 removalVars, restoring, samplerVars>>

\* The constructor of the block: generateLocalId and validateNode.
Construct(i) ==
  /\ adding[i] = "named"
  /\ Sampler!Create(i)
  /\ IF name[i] = NoName
       THEN name' = [name EXCEPT ![i] = localIndex] /\ localIndex' = localIndex + 1
       ELSE UNCHANGED <<name, localIndex>>
  /\ nodeErr' = Validated(i)
  /\ adding' = [adding EXCEPT ![i] = "constructed"]
  /\ UNCHANGED <<linkVars, monVars, folder, detached, removalVars, restoring>>

\* addNestedFunctionBlock: the folder refuses a name it has, and the new
\* block goes with the exception.
AddNested(i) ==
  /\ adding[i] = "constructed"
  /\ \/ /\ name[i] \in Names(folder)
        /\ adding' = [adding EXCEPT ![i] = "failed"]
        /\ Sampler!Die(i)
        /\ UNCHANGED folder
     \/ /\ name[i] \notin Names(folder)
        /\ adding' = [adding EXCEPT ![i] = "added"]
        /\ folder' = folder \cup {i}
        /\ UNCHANGED samplerVars
  /\ UNCHANGED <<linkVars, monVars, name, localIndex, detached, nodeErr,
                 removalVars, restoring>>

\* sampler.registerItem
Register(i) ==
  /\ adding[i] = "added"
  /\ Sampler!Register(i)
  /\ adding' = [adding EXCEPT ![i] = "done"]
  /\ UNCHANGED <<linkVars, monVars, name, localIndex, folder, detached, nodeErr,
                 removalVars, restoring>>

-----------------------------------------------------------------------------
(* Removal of blocks and of the device *)

\* removeFunctionBlock: removed() detaches the block from the scheduler.
Detach(S) ==
  /\ folder' = folder \ S
  /\ detached' = detached \cup S
  /\ Sampler!Unregister(S)

RemoveBlock(i) ==
  /\ i \in folder /\ removing = "no"
  /\ Detach({i})
  /\ UNCHANGED <<linkVars, monVars, adding, name, localIndex, nodeErr,
                 removalVars, restoring>>

\* Mutant: the monitor is joined without being told to stop.
BeginRemovalQuietly ==
  /\ removing = "no"
  /\ removing' = "joining"
  /\ UNCHANGED <<linkVars, monVars, blockVars, sampling, restoring, samplerVars>>

\* removed() of the device: stopReconnectMonitor ...
BeginRemoval ==
  /\ removing = "no"
  /\ reconnectRunning' = FALSE
  /\ removing' = "joining"
  /\ UNCHANGED <<linkVars, status, mon, blockVars, sampling, restoring, samplerVars>>

JoinMonitor ==
  /\ removing = "joining" /\ mon = "exited"
  /\ removing' = "stopping"
  /\ UNCHANGED <<linkVars, monVars, blockVars, sampling, restoring, samplerVars>>

\* ... sampler.stop(): no call begins any more ...
StopSampler ==
  /\ removing = "stopping"
  /\ sampling' = FALSE
  /\ Sampler!Stop
  /\ removing' = "sampler"
  /\ UNCHANGED <<linkVars, monVars, blockVars, restoring>>

\* Mutant: the call in progress is not waited for.
JoinSamplerEarly ==
  /\ removing = "sampler"
  /\ removing' = "blocks"
  /\ UNCHANGED <<linkVars, monVars, blockVars, sampling, restoring, samplerVars>>

\* ... and the one in progress is waited for ...
JoinSampler ==
  /\ removing = "sampler" /\ calling = None
  /\ removing' = "blocks"
  /\ UNCHANGED <<linkVars, monVars, blockVars, sampling, restoring, samplerVars>>

\* ... Device::removed() and client->disconnect(false).
RemoveBlocks ==
  /\ removing = "blocks"
  /\ Detach(folder)
  /\ removing' = "disconnect"
  /\ UNCHANGED <<linkVars, monVars, adding, name, localIndex, nodeErr,
                 sampling, restoring>>

Disconnect ==
  /\ removing = "disconnect"
  /\ iterating' = FALSE /\ connected' = FALSE
  /\ removing' = "gone"
  /\ UNCHANGED <<server, monVars, blockVars, sampling, restoring, samplerVars>>

-----------------------------------------------------------------------------
Monitor == MonCheck \/ MonDisconnect \/ MonConnect \/ MonIterate \/ MonAnnounce \/ MonSleep
AddStep(i) == Construct(i) \/ AddNested(i) \/ Register(i)
Removal == JoinMonitor \/ StopSampler \/ JoinSampler \/ RemoveBlocks \/ Disconnect

Next ==
  \/ ServerChanges \/ ConnectionLost
  \/ Monitor \/ EndCall
  \/ \E i \in Blocks : \/ BeginSample(i) \/ BeginRestore(i)
                       \/ PickLocalId(i) \/ AddStep(i) \/ RemoveBlock(i)
  \/ BeginRemoval \/ Removal

\* Threads go on, calls return, and the scheduler serves what it owes (which
\* SamplingScheduler shows). A lost connection is noticed.
Fairness ==
  /\ WF_vars(Monitor) /\ WF_vars(EndCall) /\ WF_vars(Removal)
  /\ WF_vars(ConnectionLost)
  /\ \A i \in Blocks : WF_vars(AddStep(i)) /\ SF_vars(i \in owed /\ BeginRestore(i))

Spec == Init /\ [][Next]_vars
FairSpec == Spec /\ Fairness

-----------------------------------------------------------------------------
(* Correctness *)

\* The reconnect thread never starts the iterate thread twice: runIterate
\* would throw std::runtime_error, which nothing catches in that thread.
MonitorSurvives == mon = "iterate" => ~iterating

\* After removed() of the device has stopped the sampler, no call is made
\* into a block while the blocks are torn down.
NoCallDuringTeardown == removing \in {"blocks", "disconnect", "gone"} => calling = None

\* Refused credentials end the reconnecting for good: no later success turns
\* "Unrecoverable" into anything else behind the user's back.
UnrecoverableIsFinal == [][status = "Unrecoverable" => UNCHANGED status]_vars

\* Local IDs in the folder are unique, whoever adds blocks at the same time
\* with IDs checked before they are taken.
FolderNamesUnique == \A i, j \in folder : name[i] = name[j] => i = j

\* The inductive strengthening: what each thread has established on its way.
Rest ==
  /\ FolderNamesUnique
  /\ mon \in {"connect", "iterate"} => ~iterating
  /\ status = "Unrecoverable" => ~reconnectRunning /\ mon \in {"check", "sleep", "exited"}
  /\ removing \in {"sampler", "blocks", "disconnect", "gone"} => ~sampling
  /\ NoCallDuringTeardown
  /\ \A i \in folder : adding[i] \in {"added", "done"}
  /\ \A i \in Blocks : adding[i] \in {"idle", "named"} => i \notin alive
IInv == TypeOK /\ Rest

\* A server that stays up: the device is not removed and credentials were
\* never refused.
ServerStays == <>[](server = "up" /\ removing = "no" /\ status # "Unrecoverable")

\* The device gets back to Connected, and is connected, for good.
Reconnects == ServerStays => <>[](connected /\ status = "Connected")

\* A lost connection shows in the status, or is made good.
LossIsReported ==
  ~connected ~> (connected \/ status # "Connected" \/ removing # "no")

\* Both: an outage is told and, when the server allows it, comes to an end.
OutagesEnd == Reconnects /\ LossIsReported

\* A block that is registered while the connection is down re-validates its
\* node after the reconnect: it is not left with the error of the outage.
RegisteredBlocksResume ==
  ServerStays =>
    \A i \in Blocks : i \in registered /\ ~connected ~> i \notin nodeErr \/ i \in detached

\* Removing the device terminates.
RemovalTerminates == removing = "joining" ~> removing = "gone"

\* "Stops further calls from the scheduler": no call begins into a block whose
\* removed() has run.
DetachedBlocksRest ==
  [][\A i \in detached : calling' = i => calling = i]_vars
=============================================================================
