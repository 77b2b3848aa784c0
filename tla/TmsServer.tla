----------------------------- MODULE TmsServer -----------------------------
(***************************************************************************)
(* TmsServer: the servers of one openDAQ device, their sessions, and what  *)
(* they leave in the device information they share: the server capability  *)
(* that says "served over OPC UA" and the list of connected clients.       *)
(*                                                                         *)
(* Threads: the application, which starts and stops the servers one at a   *)
(* time; the thread of each server, which activates and closes sessions;   *)
(* a task of std::async for each activation, which resolves the address of *)
(* the client and then reports it.  connectedClientsMutex makes each of    *)
(* the three handlers, and the first half of stop(), one step.             *)
(*                                                                         *)
(* Abstractions: node tree, user tokens and addresses are left out; the    *)
(* device is not removed; a session identifier is used once (they are      *)
(* GUIDs).  The number the device gives to the entry of a client is the    *)
(* number of the activation that asked for it, which is as unique.         *)
(***************************************************************************)
EXTENDS Integers

CONSTANTS Servers, Sessions,
          MaxActivations,   \* bound on the activations of one session
          None

ASSUME ServerAssumption ==
  /\ MaxActivations \in Nat \ {0}
  /\ None \notin Servers \cup Int

VARIABLES
  phase,       \* [Servers -> Phases]: where the host thread is
  running,     \* [Servers -> BOOLEAN]: TmsServer::running
  thread,      \* [Servers -> Threads]: the thread of OpcUaServer
  capability,  \* the device has the capability "OpenDAQOPCUAConfiguration"
  home,        \* [Sessions -> Servers \cup {None}]: the server of a session
  context,     \* sessions in OpcUaServer::sessionContext
  activations, \* [Sessions -> Nat]: how often it was activated
  registered,  \* registeredClientIds: client number, 0 unknown, None absent
  infos,       \* pendingClientInfoFutures that have not finished
  entries      \* connected clients in the device information

hostVars == <<phase, running, capability>>
sessionVars == <<home, context, activations>>
clientVars == <<registered, infos, entries>>
vars == <<hostVars, thread, sessionVars, clientVars>>

\* off: stopped or never started; prepared: start() past its check;
\* advertised: capability added; on: start() returned; failed: start() threw;
\* stopping, cleared, joining: in stop().
Phases == {"off", "prepared", "advertised", "on", "failed", "stopping",
           "cleared", "joining"}
Threads == {"none", "loop", "exited"}
Entry == [session : Sessions, number : 1..MaxActivations]
Info == [session : Sessions, number : 1..MaxActivations, checked : BOOLEAN]

Init ==
  /\ phase = [v \in Servers |-> "off"]
  /\ running = [v \in Servers |-> FALSE]
  /\ thread = [v \in Servers |-> "none"]
  /\ capability = FALSE
  /\ home = [s \in Sessions |-> None]
  /\ context = {}
  /\ activations = [s \in Sessions |-> 0]
  /\ registered = [s \in Sessions |-> None]
  /\ infos = {}
  /\ entries = {}

\* The application is not in start() or stop() of another server.
Idle(v) == \A w \in Servers \ {v} : phase[w] \in {"off", "on", "failed"}
SessionsOf(v) == {s \in Sessions : home[s] = v}
EntryOf(s) == [session |-> s, number |-> registered[s]]

-----------------------------------------------------------------------------
(* start() *)

\* The check and what follows up to the capability: prepare() may throw.
StartChecked(v) ==
  /\ phase[v] = "off" /\ Idle(v)
  /\ ~capability
  /\ \E next \in {"prepared", "failed"} : phase' = [phase EXCEPT ![v] = next]
  /\ UNCHANGED <<running, capability, thread, sessionVars, clientVars>>

Advertise(v) ==
  /\ phase[v] = "prepared"
  /\ phase' = [phase EXCEPT ![v] = "advertised"]
  /\ capability' = TRUE
  /\ UNCHANGED <<running, thread, sessionVars, clientVars>>

\* running = true; server->start(), which throws when the port is taken.
Run(v) ==
  /\ phase[v] = "advertised"
  /\ running' = [running EXCEPT ![v] = TRUE]
  /\ \/ /\ phase' = [phase EXCEPT ![v] = "on"]
        /\ thread' = [thread EXCEPT ![v] = "loop"]
     \/ /\ phase' = [phase EXCEPT ![v] = "failed"]
        /\ UNCHANGED thread
  /\ UNCHANGED <<capability, sessionVars, clientVars>>

-----------------------------------------------------------------------------
(* stop(), also called by the destructor *)

BeginStop(v) ==
  /\ phase[v] \in {"off", "on", "failed"} /\ Idle(v)
  /\ phase' = [phase EXCEPT ![v] = "stopping"]
  /\ running' = [running EXCEPT ![v] = FALSE]
  /\ UNCHANGED <<capability, thread, sessionVars, clientVars>>

\* Mutant: the entries go, the map stays.
ClearEntriesOnly(v) ==
  /\ phase[v] = "stopping"
  /\ phase' = [phase EXCEPT ![v] = "cleared"]
  /\ capability' = FALSE
  /\ entries' = entries \ {EntryOf(s) : s \in SessionsOf(v)}
  /\ UNCHANGED <<running, thread, sessionVars, infos, registered>>

\* Mutant: the map is emptied, the entries stay.
ClearClientsOnly(v) ==
  /\ phase[v] = "stopping"
  /\ phase' = [phase EXCEPT ![v] = "cleared"]
  /\ capability' = FALSE
  /\ registered' =
       [s \in Sessions |-> IF home[s] = v THEN None ELSE registered[s]]
  /\ UNCHANGED <<running, thread, sessionVars, infos, entries>>

\* Under connectedClientsMutex: whatever capability the device has goes, and
\* the entries of the registered clients.
ClearClients(v) ==
  /\ phase[v] = "stopping"
  /\ phase' = [phase EXCEPT ![v] = "cleared"]
  /\ capability' = FALSE
  /\ entries' = entries \ {EntryOf(s) : s \in SessionsOf(v)}
  /\ registered' =
       [s \in Sessions |-> IF home[s] = v THEN None ELSE registered[s]]
  /\ UNCHANGED <<running, thread, sessionVars, infos>>

\* ThreadEx::stop: the thread is told to end and joined.
Terminate(v) ==
  /\ phase[v] = "cleared"
  /\ phase' = [phase EXCEPT ![v] = "joining"]
  /\ UNCHANGED <<running, capability, thread, sessionVars, clientVars>>

\* Mutant: stop() does not wait for the tasks.
NotDrained(v) == TRUE

\* The futures of this server have all been waited for.
Drained(v) == \A i \in infos : home[i.session] # v

\* The thread is joined, the tasks are over, the server is gone.
Stopped(v) ==
  /\ phase[v] = "joining"
  /\ thread[v] # "loop" /\ Drained(v)
  /\ phase' = [phase EXCEPT ![v] = "off"]
  /\ thread' = [thread EXCEPT ![v] = "none"]
  /\ UNCHANGED <<running, capability, sessionVars, clientVars>>

-----------------------------------------------------------------------------
(* The thread of the server *)

\* Mutant: stop() keeps it until the server is gone.
ClientsMutexKept(v) == phase[v] \notin {"cleared", "joining"}

\* connectedClientsMutex: its holders keep it for one step only.
ClientsMutexFree(v) == TRUE

\* registeredClientIds.insert, which leaves an entry that is there alone.
Inserted(s) == IF registered[s] = None THEN 0 ELSE registered[s]

\* activateSession with a token that is accepted, of a new session or of one
\* that is open: the handler for connected clients, then a task that resolves
\* the address, when the socket is known.
ActivateSession(v, s) ==
  /\ thread[v] = "loop" /\ ClientsMutexFree(v)
  /\ IF home[s] = None THEN activations[s] = 0 ELSE home[s] = v /\ s \in context
  /\ activations[s] < MaxActivations
  /\ home' = [home EXCEPT ![s] = v]
  /\ context' = context \cup {s}
  /\ activations' = [activations EXCEPT ![s] = @ + 1]
  /\ registered' = [registered EXCEPT ![s] = Inserted(s)]
  /\ \/ infos' = infos \cup
          {[session |-> s, number |-> activations[s] + 1, checked |-> FALSE]}
     \/ UNCHANGED infos
  /\ UNCHANGED <<hostVars, thread, entries>>

\* The entry of a client that disconnects, if it has one.
Unlisted(s) == entries \ {EntryOf(s)}

\* closeSession: when the client asks for it, when it times out, and for each
\* session left when the server shuts down.
CloseSession(s) ==
  /\ s \in context
  /\ thread[home[s]] = "loop" /\ ClientsMutexFree(home[s])
  /\ context' = context \ {s}
  /\ entries' = Unlisted(s)
  /\ registered' = [registered EXCEPT ![s] = None]
  /\ UNCHANGED <<hostVars, thread, home, activations, infos>>

\* execute() leaves its loop and shuts down: no session is left.
ExitThread(v) ==
  /\ thread[v] = "loop" /\ phase[v] = "joining"
  /\ SessionsOf(v) \cap context = {}
  /\ thread' = [thread EXCEPT ![v] = "exited"]
  /\ UNCHANGED <<hostVars, sessionVars, clientVars>>

-----------------------------------------------------------------------------
(* The task that resolves and reports the address of a client *)

CheckRunning(i) ==
  /\ i \in infos /\ ~i.checked
  /\ infos' = (infos \ {i}) \cup
       (IF running[home[i.session]]
          THEN {[session |-> i.session, number |-> i.number, checked |-> TRUE]}
          ELSE {})
  /\ UNCHANGED <<hostVars, thread, sessionVars, registered, entries>>

\* Mutant: the client is not looked up again.
RegisteredBefore(s) == TRUE

StillRegistered(s) == registered[s] # None

\* Under connectedClientsMutex: a client that has gone is not reported.
ReportClient(i) ==
  /\ i \in infos /\ i.checked /\ ClientsMutexFree(home[i.session])
  /\ infos' = infos \ {i}
  /\ IF StillRegistered(i.session)
       THEN /\ entries' = entries \cup
                 {[session |-> i.session, number |-> i.number]}
            /\ registered' = [registered EXCEPT ![i.session] = i.number]
       ELSE UNCHANGED <<entries, registered>>
  /\ UNCHANGED <<hostVars, thread, sessionVars>>

-----------------------------------------------------------------------------
Host(v) ==
  \/ StartChecked(v) \/ Advertise(v) \/ Run(v)
  \/ BeginStop(v) \/ ClearClients(v) \/ Terminate(v) \/ Stopped(v)
Next ==
  \/ \E v \in Servers : Host(v) \/ ExitThread(v)
  \/ \E v \in Servers, s \in Sessions : ActivateSession(v, s)
  \/ \E s \in Sessions : CloseSession(s)
  \/ \E i \in infos : CheckRunning(i) \/ ReportClient(i)

\* A stop() that has begun goes on, so do the tasks, and a thread that was
\* told to end closes the sessions it has and ends.
Fairness ==
  /\ \A v \in Servers :
       /\ WF_vars(ClearClients(v) \/ Terminate(v) \/ Stopped(v))
       /\ WF_vars(ExitThread(v))
  /\ \A s \in Sessions :
       WF_vars(s \in context /\ phase[home[s]] = "joining" /\ CloseSession(s))
  /\ WF_vars(\E i \in infos : CheckRunning(i) \/ ReportClient(i))

Spec == Init /\ [][Next]_vars
FairSpec == Spec /\ Fairness
-----------------------------------------------------------------------------
(* Correctness *)

TypeOK ==
  /\ phase \in [Servers -> Phases]
  /\ running \in [Servers -> BOOLEAN]
  /\ thread \in [Servers -> Threads]
  /\ capability \in BOOLEAN
  /\ home \in [Sessions -> Servers \cup {None}]
  /\ context \subseteq Sessions
  /\ activations \in [Sessions -> 0..MaxActivations]
  /\ registered \in [Sessions -> (0..MaxActivations) \cup {None}]
  /\ infos \subseteq Info
  /\ entries \subseteq Entry

\* Nothing of a server that stopped is left: shutdownServer() asserts that no
\* session has a context, and no task is left that would call a handler of a
\* TmsServer that may be destroyed by now.
StoppedIsClean ==
  \A v \in Servers : phase[v] = "off" =>
    /\ SessionsOf(v) \cap context = {}
    /\ \A i \in infos : home[i.session] # v

\* The number kept for a client is that of an entry the device has: it is
\* never removed twice, whoever of stop() and the handler comes first.
RegisteredAreListed ==
  \A s \in Sessions : registered[s] \in 1..MaxActivations => EntryOf(s) \in entries

\* Every entry belongs to a registered client, so that disconnecting or stop()
\* removes it, whatever the order in which the client connects, disconnects,
\* is resolved and the server stops.  The exception is a session that was
\* activated again: its second report replaces the number of the first, whose
\* entry nobody removes any more.
EntriesAreRegistered ==
  \A e \in entries :
    registered[e.session] = e.number \/ activations[e.session] > 1

\* Both: the entries of the device and the numbers kept for clients agree.
EntriesAgree == RegisteredAreListed /\ EntriesAreRegistered

ThreadConsistent ==
  \A v \in Servers :
    /\ thread[v] = "loop" => phase[v] \in {"on", "stopping", "cleared", "joining"}
    /\ phase[v] = "on" => thread[v] = "loop"
    /\ thread[v] = "exited" => phase[v] = "joining"
SessionConsistent ==
  \A s \in Sessions :
    /\ home[s] = None <=> activations[s] = 0
    /\ s \in context => home[s] \in Servers /\ thread[home[s]] = "loop"
    /\ registered[s] # None => s \in context
InfoConsistent ==
  /\ \A i \in infos :
       /\ i.number <= activations[i.session]
       /\ phase[home[i.session]] \in {"on", "stopping", "cleared", "joining"}
  /\ \A e \in entries : e.number <= activations[e.session]
IInv ==
  /\ TypeOK /\ ThreadConsistent /\ SessionConsistent /\ InfoConsistent
  /\ RegisteredAreListed /\ EntriesAreRegistered

\* A client is listed only while its session is open, however late its
\* address is resolved.
ListedWhileOpen == [][\A e \in entries' \ entries : e.session \in context]_vars

\* stop() returns: the thread it joins closes its sessions and the tasks it
\* waits for finish, both of which need the mutex that stop() has used.
StopReturns ==
  \A v \in Servers :
    phase[v] \in {"stopping", "cleared", "joining"} ~> phase[v] = "off"

\* One server per device: start() throws when the device "already has an
\* OpenDAQOPCUAConfiguration server capability".
OneServerPerDevice ==
  \A v, w \in Servers : phase[v] = "on" /\ phase[w] = "on" => v = w
=============================================================================
