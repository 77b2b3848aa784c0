---------------------------- MODULE ServerNodes -----------------------------
(***************************************************************************)
(* The nodes of a TMS server and the objects behind them.  A node has the  *)
(* address of its object as context; the object has an event manager for   *)
(* each node it serves, and a manager has the callback.  The callbacks for *)
(* the name of a node and for its optional children are kept by the server *)
(* (ServerEventManager).  The server thread serves one request at a time;  *)
(* the application replaces the value node of a signal when its data       *)
(* descriptor changes, and stops the server.                               *)
(***************************************************************************)
EXTENDS Integers, Sequences, FiniteSets

CONSTANTS
  BlockNames,
  MaxServerObjects, \* how many objects are ever made
  Internal    \* the rights of a call of the server itself, without a session

ASSUME ServerNodesAssumption == MaxServerObjects \in Nat /\ MaxServerObjects >= 3

VARIABLES
  serverObjects, \* the objects in the order they were made: [kind, name]; 0 is no object
  alive,
  addressSpace,  \* id -> [context, askedOf: who chose the optional children, source: OnDataSourceRead is set]
  managers,  \* <<object, id>>: eventManagers
  callbacks, \* <<object, id>>: the managers that have their callback
  nameOf,    \* displayNameCallbacks: id -> object
  optional,  \* createOptionalNodeCallback: the object it asks
  nodeLock,  \* who holds getLock()
  work,      \* thread -> the registration it is at: [at, o]
  request,   \* what the server thread serves: [at, what, id, o, rights, sound]
  lifeStage  \* of the server: running, reset, stopped

nodeVars == <<serverObjects, alive, addressSpace, managers, callbacks, nameOf, optional, nodeLock, work, request, lifeStage>>

Threads == {"server", "app"}
Nobody == "nobody"
Idle_ == [at |-> "idle", o |-> 0]
NoRequest == [at |-> "idle", what |-> "read", id |-> [path |-> << >>, number |-> 0], o |-> 0, rights |-> {}, sound |-> TRUE]
Rights == {"Read", "Write", "Execute"}

-----------------------------------------------------------------------------
(* Ids *)

StringId(path) == [path |-> path, number |-> 0]
NumericId(n) == [path |-> << >>, number |-> n]
NullId == NumericId(0)

\* RequestedNodeIdBaseOnName(): below a node with a string for its id.
OnName(name, parent) ==
  IF parent.path # << >> THEN StringId(Append(parent.path, name)) ELSE NullId

\* createNode(): the id the object asks for, or one made of its name, or none;
\* the stack then gives a number that nobody has.
NewId(requested, name, parent, number) ==
  IF requested # NullId THEN requested
  ELSE IF OnName(name, parent) # NullId THEN OnName(name, parent) ELSE NumericId(number)

DeviceSet == NumericId(5001)
TypesFolder == NumericId(3)
AddId == NumericId(1)
RemoveId == NumericId(2)
DeviceId == NewId(StringId(<<"dev">>), "dev", DeviceSet, 0)
BlockId(name) == NewId(StringId(<<"dev", name>>), name, StringId(<<"dev", "FB">>), 0)
ValueId == NewId(NullId, "Value", StringId(<<"dev", "sig">>), 0)
TypeId == NewId(NullId, "type", TypesFolder, 4)

Kind(o) == serverObjects[o].kind
IdOf(o) == IF Kind(o) = "block" THEN BlockId(serverObjects[o].name) ELSE ValueId

\* The variable an object serves: the value itself, or Active below a block.
DataId(o) == IF Kind(o) = "block" THEN OnName("Active", IdOf(o)) ELSE IdOf(o)

LiveBlocks == {o \in alive : Kind(o) = "block"}

-----------------------------------------------------------------------------
(* Permissions *)

\* checkPermission() of the object: a type has nothing to protect; to add or to
\* remove a block takes the right to write the device besides.
ObjectAllows(o, permission, rights) ==
  Kind(o) # "type" /\ rights # Internal =>
    /\ permission \in rights
    /\ Kind(o) = "device" /\ permission = "Execute" => "Write" \in rights

\* The static one, for the access control of the stack.
Allows(context, permission, rights) == context = 0 \/ ObjectAllows(context, permission, rights)

Needs(what) == CASE what = "read" -> "Read" [] what = "call" -> "Execute" [] OTHER -> "Write"

-----------------------------------------------------------------------------
(* Registration *)

ServerNodesInit ==
  /\ serverObjects = <<[kind |-> "device", name |-> "dev"], [kind |-> "type", name |-> "type"],
                 [kind |-> "value", name |-> "Value"]>>
  /\ alive = 1..3
  /\ addressSpace = [id \in {DeviceId, AddId, RemoveId, TypeId, ValueId} |->
       LET o == IF id = TypeId THEN 2 ELSE IF id = ValueId THEN 3 ELSE 1
       IN [context |-> o, askedOf |-> o, source |-> id \in {AddId, RemoveId, ValueId}]]
  /\ managers = {<<1, AddId>>, <<1, RemoveId>>, <<3, ValueId>>} /\ callbacks = managers
  /\ nameOf = [id \in {DeviceId} |-> 1]
  /\ optional = 3 /\ nodeLock = Nobody
  /\ work = [t \in Threads |-> Idle_] /\ request = NoRequest /\ lifeStage = "running"

\* An object is made by a thread, to be registered.
Made(t, kind, name) ==
  /\ Len(serverObjects) < MaxServerObjects
  /\ serverObjects' = Append(serverObjects, [kind |-> kind, name |-> name])
  /\ work' = [work EXCEPT ![t] = [at |-> "made", o |-> Len(serverObjects) + 1]]

\* An entry of a map is made or replaced.
Put(map, id, entry) == [i \in DOMAIN map \cup {id} |-> IF i = id THEN entry ELSE map[i]]

Goes(t, at) == work' = [work EXCEPT ![t].at = at]

Locks(t) == nodeLock = Nobody /\ nodeLock' = t

\* addObjectNode(), addVariableNode(): the lock, and who is asked for the
\* optional children.
BeginAdd(t) ==
  /\ work[t].at = "made" /\ Locks(t)
  /\ optional' = work[t].o
  /\ Goes(t, "adding")
  /\ UNCHANGED <<serverObjects, alive, addressSpace, managers, callbacks, nameOf, request, lifeStage>>

\* The stack makes the node, the optional children the callback wants, and the
\* others: those have no context yet.
CreateNode(t) ==
  LET o == work[t].o
      node == [context |-> o, askedOf |-> optional, source |-> FALSE]
      data == IF Kind(o) = "block" THEN [node EXCEPT !.context = 0] ELSE node
  IN /\ work[t].at = "adding" /\ nodeLock' = Nobody
     /\ addressSpace' = Put(Put(addressSpace, IdOf(o), node), DataId(o), data)
     /\ Goes(t, "created")
     /\ UNCHANGED <<serverObjects, alive, managers, callbacks, nameOf, optional, request, lifeStage>>

\* bindCallbacks() of a component: insert() keeps a callback that is there.
BindName(t) ==
  LET o == work[t].o IN
  /\ work[t].at = "created"
  /\ nameOf' = IF Kind(o) = "block" /\ IdOf(o) \notin DOMAIN nameOf THEN Put(nameOf, IdOf(o), o) ELSE nameOf
  /\ Goes(t, "named")
  /\ UNCHANGED <<serverObjects, alive, addressSpace, managers, callbacks, optional, nodeLock, request, lifeStage>>

\* addEvent(): the manager, with the object as context of the node.
AddEvent(t) ==
  LET o == work[t].o IN
  /\ work[t].at = "named"
  /\ managers' = managers \cup {<<o, DataId(o)>>}
  /\ addressSpace' = [addressSpace EXCEPT ![DataId(o)].context = o]
  /\ Goes(t, "managed")
  /\ UNCHANGED <<serverObjects, alive, callbacks, nameOf, optional, nodeLock, request, lifeStage>>

\* Mutant of SetCallback: the node is told first and the callback is set after.
SetCallbackLate(t) ==
  LET o == work[t].o IN
  /\ work[t].at = "managed"
  /\ addressSpace' = [addressSpace EXCEPT ![DataId(o)].source = TRUE]
  /\ Goes(t, "set")
  /\ UNCHANGED <<serverObjects, alive, managers, callbacks, nameOf, optional, nodeLock, request, lifeStage>>

\* onDataSourceRead(): the callback of the manager, ...
SetCallback(t) ==
  LET o == work[t].o IN
  /\ work[t].at = "managed"
  /\ callbacks' = callbacks \cup {<<o, DataId(o)>>}
  /\ Goes(t, "set")
  /\ UNCHANGED <<serverObjects, alive, addressSpace, managers, nameOf, optional, nodeLock, request, lifeStage>>

\* ... then the data source of the node; the object is registered.
SetSource(t) ==
  LET o == work[t].o IN
  /\ work[t].at = "set"
  /\ addressSpace' = [addressSpace EXCEPT ![DataId(o)].source = TRUE]
  /\ work' = [work EXCEPT ![t] = Idle_]
  /\ UNCHANGED <<serverObjects, alive, managers, callbacks, nameOf, optional, nodeLock, request, lifeStage>>

Register(t) == BeginAdd(t) \/ CreateNode(t) \/ BindName(t) \/ AddEvent(t) \/ SetCallback(t) \/ SetSource(t)

-----------------------------------------------------------------------------
(* Requests of the clients *)

\* What a request is for: a variable that is served, a method, a component.
Serves(what, id) ==
  CASE what \in {"read", "write"} -> addressSpace[id].source /\ id \notin {AddId, RemoveId}
    [] what = "call" -> id \in {AddId, RemoveId}
    [] what = "rename" -> id = DeviceId \/ \E name \in BlockNames : id = BlockId(name)

\* The stack asks whether the user may do it and takes the context of the node.
Receive(what, id, rights) ==
  /\ lifeStage # "stopped" /\ request.at = "idle"
  /\ id \in DOMAIN addressSpace /\ Serves(what, id)
  /\ LET o == addressSpace[id].context IN
     /\ Allows(o, Needs(what), rights)
     /\ request' = [at |-> "received", what |-> what, id |-> id, o |-> o, rights |-> rights,
                    sound |-> lifeStage = "running" /\ o \in alive \cup {0}]
  /\ UNCHANGED <<serverObjects, alive, addressSpace, managers, callbacks, nameOf, optional, nodeLock, work, lifeStage>>

\* OnDataSourceRead(), OnDataSourceWrite(), OnMethod(): an object, a manager for
\* the node, and the permission again; else a bad status.
Enters(r) ==
  /\ r.o # 0 /\ <<r.o, r.id>> \in managers
  /\ ObjectAllows(r.o, Needs(r.what), r.rights)

Enter ==
  /\ request.at = "received" /\ request.what # "rename"
  /\ request' = IF Enters(request) THEN [request EXCEPT !.at = "inside"] ELSE NoRequest
  /\ UNCHANGED <<serverObjects, alive, addressSpace, managers, callbacks, nameOf, optional, nodeLock, work, lifeStage>>

\* triggerDisplayNameChanged(): the callback that is kept for the id.
EnterRename ==
  /\ request.at = "received" /\ request.what = "rename"
  /\ request' = IF request.id \in DOMAIN nameOf THEN [request EXCEPT !.at = "inside", !.o = nameOf[request.id]]
                ELSE NoRequest
  /\ UNCHANGED <<serverObjects, alive, addressSpace, managers, callbacks, nameOf, optional, nodeLock, work, lifeStage>>

Inside(id) == request.at = "inside" /\ request.what = "call" /\ request.id = id /\ request.o \in alive

\* onAddFunctionBlock(): a block the device makes is registered before the answer.
AddBlock(name) ==
  /\ Inside(AddId) /\ work["server"].at = "idle"
  /\ \A o \in LiveBlocks : serverObjects[o].name # name
  /\ Made("server", "block", name)
  /\ alive' = alive \cup {Len(serverObjects')}
  /\ request' = [request EXCEPT !.at = "answered"]
  /\ UNCHANGED <<addressSpace, managers, callbacks, nameOf, optional, nodeLock, lifeStage>>

\* deleteNode(), with the nodes below it.
Deletes(o) == addressSpace' = [id \in DOMAIN addressSpace \ {IdOf(o), DataId(o)} |-> addressSpace[id]]

\* An object goes, and its managers with it.
Destroyed(o) ==
  /\ managers' = {m \in managers : m[1] # o}
  /\ callbacks' = {m \in callbacks : m[1] # o}

\* onRemoveFunctionBlock()
RemoveBlock(o) ==
  /\ Inside(RemoveId) /\ o \in LiveBlocks
  /\ Deletes(o) /\ Destroyed(o)
  /\ alive' = alive \ {o}
  /\ request' = [request EXCEPT !.at = "answered"]
  /\ UNCHANGED <<serverObjects, nameOf, optional, nodeLock, work, lifeStage>>

\* The callback returns.
Answer ==
  /\ request.at \in {"inside", "answered"} /\ work["server"].at = "idle"
  /\ request' = NoRequest
  /\ UNCHANGED <<serverObjects, alive, addressSpace, managers, callbacks, nameOf, optional, nodeLock, work, lifeStage>>

-----------------------------------------------------------------------------
(* The application *)

\* TmsServerSignal::onCoreEvent(): another type of samples.  The node goes, a new
\* object takes the place of the old one and is registered.
ReplaceValue(o) ==
  /\ lifeStage = "running" /\ work["app"].at = "idle" /\ o \in alive /\ Kind(o) = "value"
  /\ Made("app", "value", "Value")
  /\ Deletes(o) /\ Destroyed(o)
  /\ alive' = (alive \ {o}) \cup {Len(serverObjects')}
  /\ UNCHANGED <<nameOf, optional, nodeLock, request, lifeStage>>

\* TmsServer::stop(): the objects go first ...
Reset ==
  /\ lifeStage = "running" /\ work["app"].at = "idle"
  /\ lifeStage' = "reset"
  /\ alive' = {work["server"].o} \ {0}
  /\ UNCHANGED <<serverObjects, addressSpace, managers, callbacks, nameOf, optional, nodeLock, work, request>>

\* ... and the thread that serves is joined after.
Stop ==
  /\ lifeStage = "reset" /\ request.at = "idle" /\ work["server"].at = "idle"
  /\ lifeStage' = "stopped"
  /\ UNCHANGED <<serverObjects, alive, addressSpace, managers, callbacks, nameOf, optional, nodeLock, work, request>>

ServerNodesNext ==
  \/ \E what \in {"read", "write", "call", "rename"}, id \in DOMAIN addressSpace, rights \in SUBSET Rights \cup {Internal} :
       Receive(what, id, rights)
  \/ Enter \/ EnterRename \/ Answer
  \/ \E name \in BlockNames : AddBlock(name)
  \/ \E o \in alive : RemoveBlock(o) \/ ReplaceValue(o)
  \/ \E t \in Threads : Register(t)
  \/ Reset \/ Stop

ServerNodesSpec == ServerNodesInit /\ [][ServerNodesNext]_nodeVars

-----------------------------------------------------------------------------
(* Properties *)

\* Type invariant.
ServerNodesTypeOK ==
  /\ alive \subseteq 1..Len(serverObjects) /\ Len(serverObjects) <= MaxServerObjects
  /\ \A id \in DOMAIN addressSpace : addressSpace[id].context \in 0..Len(serverObjects)
  /\ callbacks \subseteq managers /\ nodeLock \in Threads \cup {Nobody}

\* The optional children of a node are those its own object wants, although one
\* callback of the server is asked for all and two threads add nodes.
OptionalNodesAreItsOwn ==
  \A id \in DOMAIN addressSpace : addressSpace[id].context \in {0, addressSpace[id].askedOf}

\* A callback runs on an object that is there, while the server runs, but in two
\* cases: a value is replaced while a request that had its address is served, and
\* the name of a block is written whose id an earlier block has had.
CallsReachLiveObjects ==
  request.at = "inside" /\ lifeStage = "running" /\ request.o \notin alive =>
    \/ request.what \in {"read", "write"} /\ request.sound
    \/ request.what = "rename" /\ addressSpace[request.id].context # request.o

\* A node whose data source is set has its callback: a client that reads while an
\* object is registered never meets a manager without one.
BoundCallbackIsThere ==
  \A id \in DOMAIN addressSpace :
    addressSpace[id].source /\ lifeStage = "running" => <<addressSpace[id].context, id>> \in callbacks

\* Blocks come and go for clients that may write the device and call its methods;
\* the one right is not enough.
ChangeNeedsWrite ==
  [][lifeStage' = "running" /\ LiveBlocks' # LiveBlocks => request.rights = Internal \/ {"Write", "Execute"} \subseteq request.rights]_nodeVars

=============================================================================
