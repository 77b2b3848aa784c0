---------------------------- MODULE SignalMirror ----------------------------
(***************************************************************************)
(* An input port and the signals it can be connected to: the connection of *)
(* the port, the references of its node that stand for it, and the objects *)
(* in which a client finds the signal behind a reference.                  *)
(***************************************************************************)
EXTENDS Integers, FiniteSets

CONSTANTS
  Signals,
  HiddenSignals,  \* have no node
  ClashingSignals,\* their name is that of a child node of the port
  MaxObjects,     \* how many objects a client makes for a signal
  Nothing         \* no signal, no node, no object

ASSUME SignalMirrorAssumption ==
  /\ HiddenSignals \subseteq Signals /\ ClashingSignals \subseteq Signals
  /\ MaxObjects \in Nat /\ Nothing \notin Signals

VARIABLES
  connection,  \* what the port is connected to
  references,  \* the targets of ConnectedToSignal of its node
  aside,       \* the connection was changed by the application, refused, or left a reference behind
  objects,     \* TmsClientContext::objects: signal -> the number of an object
  holding,     \* signal -> the objects of it that the client has
  dying,       \* signal -> those of them nobody refers to any more
  numbered,    \* signal -> how many objects it has had
  looking      \* signal -> how many threads found no object of it and make one

portVars == <<connection, references, aside>>
registryVars == <<objects, holding, dying, numbered, looking>>
signalVars == <<portVars, registryVars>>

FindSignalNodeId(s) == IF s \in HiddenSignals THEN {} ELSE {s}

SignalMirrorInit ==
  /\ connection \in Signals \cup {Nothing}
  /\ references = IF connection = Nothing THEN {} ELSE FindSignalNodeId(connection)
  /\ aside = (connection \in HiddenSignals)
  /\ objects = [s \in Signals |-> Nothing]
  /\ holding = [s \in Signals |-> {}] /\ dying = [s \in Signals |-> {}]
  /\ numbered = [s \in Signals |-> 0] /\ looking = [s \in Signals |-> 0]

-----------------------------------------------------------------------------
(* The port *)

\* The application connects, or disconnects, the port: nothing tells the server.
AppConnects(s) ==
  /\ connection # s /\ connection' = s /\ aside' = TRUE
  /\ UNCHANGED <<references, registryVars>>

\* deleteReferencesOfType() goes by the name of the target: the name of a child
\* node hides a reference to a signal of the same name.
KeptReferences == references \cap ClashingSignals

\* onConnectSignal(): the references go, a reference to the signal's node is
\* added, which fails without a node and for one that is there, and only then
\* is the port connected, which may be refused.
ConnectRequest(s, refused) ==
  /\ references' = KeptReferences \cup FindSignalNodeId(s)
  /\ IF s \in HiddenSignals \/ s \in KeptReferences \/ refused
     THEN aside' = TRUE /\ UNCHANGED connection
     ELSE connection' = s /\ aside' = (KeptReferences # {})
  /\ UNCHANGED <<registryVars>>

\* connect(): a TMS client knows the signals that have a node.
Connect(s, refused) == s \notin HiddenSignals /\ ConnectRequest(s, refused)

\* Any OPC UA client calls the method and may name a signal that has none.
OtherConnects(s, refused) == s \in HiddenSignals /\ ConnectRequest(s, refused)

\* onDisconenctSignal()
DisconnectRequest ==
  /\ references' = KeptReferences
  /\ connection' = Nothing /\ aside' = (KeptReferences # {})
  /\ UNCHANGED <<registryVars>>

-----------------------------------------------------------------------------
(* The objects of a client *)

\* getObject() finds none, ...
FindNoObject(s) ==
  /\ objects[s] = Nothing /\ numbered[s] + looking[s] < MaxObjects
  /\ looking' = [looking EXCEPT ![s] = @ + 1]
  /\ UNCHANGED <<objects, holding, dying, numbered, portVars>>

\* ... and one is made: registerObject() has the newest one found.
MakeObject(s) ==
  /\ looking[s] > 0
  /\ looking' = [looking EXCEPT ![s] = @ - 1]
  /\ numbered' = [numbered EXCEPT ![s] = @ + 1]
  /\ holding' = [holding EXCEPT ![s] = @ \cup {numbered'[s]}]
  /\ objects' = [objects EXCEPT ![s] = numbered'[s]]
  /\ UNCHANGED <<dying, portVars>>

\* The last reference to an object goes ...
Release(s, n) ==
  /\ n \in holding[s] \ dying[s]
  /\ dying' = [dying EXCEPT ![s] = @ \cup {n}]
  /\ UNCHANGED <<objects, holding, numbered, looking, portVars>>

\* Mutant of Unregister: a newer object stops the older from being forgotten.
UnregisterFirst(s, n) ==
  /\ n \in dying[s]
  /\ holding' = [holding EXCEPT ![s] = @ \ {n}] /\ dying' = [dying EXCEPT ![s] = @ \ {n}]
  /\ objects' = IF n = 1 THEN [objects EXCEPT ![s] = Nothing] ELSE objects
  /\ UNCHANGED <<numbered, looking, portVars>>

\* ... and its destructor forgets the node, whichever object is found there.
Unregister(s, n) ==
  /\ n \in dying[s]
  /\ holding' = [holding EXCEPT ![s] = @ \ {n}] /\ dying' = [dying EXCEPT ![s] = @ \ {n}]
  /\ objects' = [objects EXCEPT ![s] = Nothing]
  /\ UNCHANGED <<numbered, looking, portVars>>

PortNext ==
  \/ \E s \in Signals \cup {Nothing} : AppConnects(s)
  \/ \E s \in Signals, refused \in BOOLEAN : Connect(s, refused) \/ OtherConnects(s, refused)
  \/ DisconnectRequest
  \/ \E s \in Signals : FindNoObject(s) \/ MakeObject(s) \/ \E n \in holding[s] : Release(s, n) \/ Unregister(s, n)

-----------------------------------------------------------------------------
(* Properties *)

\* Type invariant.
SignalMirrorTypeOK ==
  /\ connection \in Signals \cup {Nothing} /\ references \subseteq Signals
  /\ \A s \in Signals : dying[s] \subseteq holding[s] /\ holding[s] \subseteq 1..numbered[s]

\* The references of the port say what it is connected to, as soon as a client
\* has connected or disconnected it: after a change by the application, a
\* refusal or a failure they agree again with the next request that succeeds and
\* leaves no reference behind.
ReferenceIsConnection ==
  ~aside => references = IF connection = Nothing THEN {} ELSE {connection}

\* A client that asks for the signal of the port finds at most one reference, as
\* onGetSignal() asserts, besides those a child node of the same name has hidden.
OneReference == Cardinality(references \ ClashingSignals) <= 1

\* What the client's registry holds was not destroyed: it is still there, be it
\* for its destructor only, so that the raw pointer never dangles.
RegistryHoldsObjects == \A s \in Signals : objects[s] # Nothing => objects[s] \in holding[s]
=============================================================================
