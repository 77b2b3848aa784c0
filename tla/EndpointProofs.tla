---------------------------- MODULE EndpointProofs ----------------------------
(***************************************************************************)
(* Proofs about the parts of TmsLibrary beneath and above the mirror.      *)
(* ServerSessions, for any sessions, tokens, users, passwords and          *)
(* timeouts: whom a session acts for, and that the lock and the password   *)
(* are its holder's.  ServerNodes, for any names of blocks and any number  *)
(* of objects: nodes have the context, the optional children and the       *)
(* callback of the object they were made for, and calls reach objects that *)
(* are there.  ClientModules, for any creations, ids, servers and          *)
(* capabilities: a device is made of one node's info under an id of its    *)
(* own, and a capability leads to each of its addresses once.              *)
(***************************************************************************)
EXTENDS ServerSessions, ServerNodes, ClientModules, WellFoundedInduction, SequenceTheorems,
        FiniteSetTheorems, TLAPS

-----------------------------------------------------------------------------
(* The sessions *)

USE ServerSessionsAssumption

\* The inductive invariant: the functions are on the sessions, and an active
\* lock is a session's that is open, or a token's.
SessionsInv ==
  /\ user \in [SessionIds -> LockUsers \cup {Anonymous, NoId}]
  /\ token \in [SessionIds -> Tokens \cup {NoId}]
  /\ identified \in [SessionIds -> SUBSET (LockUsers \cup {Anonymous})]
  /\ ServerSessionsTypeOK
  /\ UserIsIdentified
  /\ LockHasASession

\* The lock is taken under the id of an open session or under a token.
LEMMA TokenOfSession ==
  ASSUME SessionsInv, NEW s \in OpenSessions
  PROVE  TokenOf(s) \in OpenSessions \cup Tokens
BY DEF SessionsInv, TokenOf, OpenSessions

LEMMA SessionsInitially == ServerSessionsInit => SessionsInv
BY DEF ServerSessionsInit, SessionsInv, ServerSessionsTypeOK, UserIsIdentified,
       LockHasASession, OpenSessions, Active

\* A session that comes or comes back; a context that is there is kept.
LEMMA ActivateKeeps ==
  ASSUME SessionsInv, NEW s \in SessionIds, NEW u \in LockUsers \cup {Anonymous},
         Activate(s, u)
  PROVE  SessionsInv'
<1> USE DEF SessionsInv, Activate, SessionUser, lockVars
<1>1. ServerSessionsTypeOK'
  BY DEF ServerSessionsTypeOK
<1>2. UserIsIdentified'
  BY DEF UserIsIdentified, OpenSessions
<1>3. LockHasASession'
  BY DEF LockHasASession, OpenSessions, Active
<1> QED BY <1>1, <1>2, <1>3

\* Taking the lock, giving it back, and the time that passes over it.
LEMMA LockKeeps ==
  ASSUME SessionsInv,
         \/ \E s \in SessionIds : RefuseControl(s)
         \/ \E s \in SessionIds, timeout \in 0..MaxTimeout : LockControl(s, timeout)
         \/ Tick
  PROVE  SessionsInv'
<1>1. CASE \E s \in SessionIds : RefuseControl(s)
  BY <1>1 DEF SessionsInv, RefuseControl, Refused, ServerSessionsTypeOK, UserIsIdentified,
              LockHasASession, OpenSessions, Active
<1>2. ASSUME NEW s \in SessionIds, NEW timeout \in 0..MaxTimeout, LockControl(s, timeout)
      PROVE  SessionsInv'
  <2>1. holder' \in OpenSessions \cup Tokens
    BY <1>2, TokenOfSession DEF LockControl
  <2> QED BY <1>2, <2>1 DEF SessionsInv, LockControl, ServerSessionsTypeOK, UserIsIdentified,
                            LockHasASession, OpenSessions
<1>3. CASE Tick
  BY <1>3 DEF SessionsInv, Tick, ServerSessionsTypeOK, UserIsIdentified, LockHasASession,
              OpenSessions, Active
<1> QED BY <1>1, <1>2, <1>3

\* A session that goes takes the lock of its id with it.
LEMMA CloseKeeps ==
  ASSUME SessionsInv, NEW s \in SessionIds, Close(s)
  PROVE  SessionsInv'
<1> USE DEF SessionsInv, Close, ClosesLock, Refused, DropsContext
<1>1. ServerSessionsTypeOK'
  BY DEF ServerSessionsTypeOK
<1>2. UserIsIdentified'
  BY DEF UserIsIdentified, OpenSessions
<1>3. LockHasASession'
  <2>1. CASE holder = s
    BY <2>1 DEF LockHasASession, Active
  <2>2. CASE holder # s
    BY <2>2 DEF LockHasASession, OpenSessions, Active
  <2> QED BY <2>1, <2>2
<1> QED BY <1>1, <1>2, <1>3

LEMMA SessionsStep ==
  ASSUME SessionsInv, [ServerSessionsNext]_sessionVars
  PROVE  SessionsInv'
<1>1. CASE UNCHANGED sessionVars
  BY <1>1 DEF sessionVars, SessionsInv, ServerSessionsTypeOK, UserIsIdentified,
              LockHasASession, OpenSessions, Active
<1>2. CASE \E s \in SessionIds, t \in Tokens : SetToken(s, t)
  BY <1>2 DEF SetToken, lockVars, SessionsInv, ServerSessionsTypeOK, UserIsIdentified,
              LockHasASession, OpenSessions, Active
<1>3. CASE \E s \in Actors, p \in Passwords : PasswordLock(s, p) \/ PasswordUnlock(s, p)
  BY <1>3 DEF PasswordLock, PasswordUnlock, SessionsInv, ServerSessionsTypeOK, UserIsIdentified,
              LockHasASession, OpenSessions, Active
<1> QED BY <1>1, <1>2, <1>3, ActivateKeeps, LockKeeps, CloseKeeps DEF ServerSessionsNext

LEMMA SessionsInvariant == ServerSessionsSpec => []SessionsInv
<1> QED BY SessionsInitially, SessionsStep, PTL DEF ServerSessionsSpec

(* What follows *)

\* A session acts for somebody it has identified itself as: createSession() keeps
\* the user of the first activation, closeSession() drops it.
THEOREM SessionActsForIdentified == ServerSessionsSpec => []UserIsIdentified
<1>1. SessionsInv => UserIsIdentified
  BY DEF SessionsInv
<1> QED BY <1>1, SessionsInvariant, PTL

\* A lock does not outlive the session that took it, but for one under a token:
\* closeSession() gives the lock of the session's id back.
THEOREM LockOfOpenSession == ServerSessionsSpec => []LockHasASession
<1>1. SessionsInv => LockHasASession
  BY DEF SessionsInv
<1> QED BY <1>1, SessionsInvariant, PTL

\* Nobody but its holder, or a session with the holder's token, ends the lock or
\* hands it on before its time.
LockShortened == Active /\ (holder' # holder \/ timeLeft' < timeLeft - 1)
ByAHolder == holder' = holder /\ \E s \in OpenSessions : holder \in {TokenOf(s), s}

LEMMA LockStep ==
  SessionsInv /\ [ServerSessionsNext]_sessionVars => [LockShortened => ByAHolder]_sessionVars
<1> SUFFICES ASSUME SessionsInv, ServerSessionsNext, LockShortened
             PROVE  ByAHolder
  OBVIOUS
<1> USE DEF LockShortened, ByAHolder
<1>1. timeLeft \in Int
  BY DEF SessionsInv, ServerSessionsTypeOK
<1>2. CASE \E s \in SessionIds : RefuseControl(s) \/ Close(s)
  BY <1>1, <1>2 DEF RefuseControl, Close, ClosesLock, Refused
<1>3. CASE \E s \in SessionIds, timeout \in 0..MaxTimeout : LockControl(s, timeout)
  BY <1>1, <1>3 DEF LockControl, HasAccess, HasLock
<1>4. CASE \/ \E s \in SessionIds, u \in LockUsers \cup {Anonymous} : Activate(s, u)
           \/ \E s \in SessionIds, t \in Tokens : SetToken(s, t)
  BY <1>1, <1>4 DEF Activate, SetToken, lockVars
<1>5. CASE Tick
  BY <1>1, <1>5 DEF Tick
<1>6. CASE \E s \in Actors, p \in Passwords : PasswordLock(s, p) \/ PasswordUnlock(s, p)
  BY <1>1, <1>6 DEF PasswordLock, PasswordUnlock
<1> QED BY <1>2, <1>3, <1>4, <1>5, <1>6 DEF ServerSessionsNext

\* The code asks for access, and the refusal and the end of another session leave
\* the lock alone (lockConfigurationControl(), closeSession()).
THEOREM LockStaysItsHolders == ServerSessionsSpec => LockIsNotTaken
<1> QED BY LockStep, SessionsInvariant, PTL DEF ServerSessionsSpec, LockIsNotTaken, LockShortened, ByAHolder

\* A password goes only to whoever gives it, and while a lock is held neither comes
\* nor goes but through the holder.
PasswordRightly ==
  /\ password' = NoId => lastAsked'.with = password
  /\ password # NoId => password' = NoId
  /\ Active => lastAsked'.by # NoId /\ TokenOf(lastAsked'.by) = holder

LEMMA PasswordStep ==
  SessionsInv /\ [ServerSessionsNext]_sessionVars => [password' # password => PasswordRightly]_sessionVars
<1> SUFFICES ASSUME SessionsInv, ServerSessionsNext, password' # password
             PROVE  PasswordRightly
  OBVIOUS
<1>1. PICK s \in Actors, p \in Passwords : PasswordLock(s, p) \/ PasswordUnlock(s, p)
  BY DEF ServerSessionsNext, Activate, SetToken, LockControl, RefuseControl, Close, Tick, lockVars
<1>2. lastAsked'.by = s /\ lastAsked'.with = p /\ CanEditPassword(TokenOf(s))
  BY <1>1 DEF PasswordLock, PasswordUnlock, Unlocks
<1>3. Active => s # NoId /\ TokenOf(s) = holder
  BY <1>2 DEF CanEditPassword, HasLock, SessionsInv, LockHasASession, OpenSessions, TokenOf
<1>4. /\ password' = NoId => p = password
      /\ password # NoId => password' = NoId
  BY <1>1 DEF PasswordLock, PasswordUnlock, Unlocks, Locked
<1> QED BY <1>2, <1>3, <1>4 DEF PasswordRightly

\* The server acts under the null id, which holds no active lock.
THEOREM PasswordIsTheHolders == ServerSessionsSpec => PasswordIsKept
<1> QED BY PasswordStep, SessionsInvariant, PTL DEF ServerSessionsSpec, PasswordIsKept, PasswordRightly

-----------------------------------------------------------------------------
(* The nodes: their ids *)

HIDE ServerSessionsAssumption

\* The ids of the nodes that never go, of the value, of a block and below it.
FixedIds == {DeviceId, AddId, RemoveId, TypeId}
ActiveId(name) == OnName("Active", BlockId(name))

LEMMA PathOfActive ==
  ASSUME NEW name
  PROVE  /\ ActiveId(name) = StringId(Append(<<"dev", name>>, "Active"))
         /\ Len(ActiveId(name).path) = 3 /\ ActiveId(name).path[2] = name /\ ActiveId(name).path[3] = "Active"
<1> DEFINE path == <<"dev", name>>
<1>1. BlockId(name) = StringId(path)
  BY DEF BlockId, NewId, NullId, NumericId, StringId
<1>2. path \in Seq({"dev", name, "Active"}) /\ Len(path) = 2 /\ path[2] = name
  OBVIOUS
<1>3. ActiveId(name) = StringId(Append(path, "Active"))
  BY <1>1 DEF ActiveId, OnName, StringId
<1>4. Len(Append(path, "Active")) = 3 /\ Append(path, "Active")[2] = name /\ Append(path, "Active")[3] = "Active"
  BY <1>2, AppendProperties
<1> QED BY <1>3, <1>4 DEF StringId

LEMMA PathOfValue ==
  Len(ValueId.path) = 3 /\ ValueId.path[3] = "Value"
<1> DEFINE path == <<"dev", "sig">>
<1>1. path \in Seq({"dev", "sig", "Value"}) /\ Len(path) = 2
  OBVIOUS
<1>2. Len(Append(path, "Value")) = 3 /\ Append(path, "Value")[3] = "Value"
  BY <1>1, AppendProperties
<1>3. StringId(Append(path, "Value")) # NullId /\ path # << >>
  BY <1>2 DEF StringId, NullId, NumericId
<1>4. ValueId = StringId(Append(path, "Value"))
  BY <1>3 DEF ValueId, NewId, OnName, StringId
<1> QED BY <1>2, <1>4 DEF StringId

LEMMA IdsAreApart ==
  /\ ValueId \notin FixedIds
  /\ DeviceId \notin {AddId, RemoveId, TypeId} /\ TypeId \notin {AddId, RemoveId} /\ AddId # RemoveId
  /\ \A name : /\ BlockId(name) \notin FixedIds \cup {ValueId}
               /\ ActiveId(name) \notin FixedIds \cup {ValueId}
  /\ \A n, m : /\ BlockId(n) # ActiveId(m)
               /\ BlockId(n) = BlockId(m) \/ ActiveId(n) = ActiveId(m) => n = m
<1>1. DeviceId = StringId(<<"dev">>) /\ AddId = NumericId(1) /\ RemoveId = NumericId(2) /\ TypeId = NumericId(4)
  BY DEF DeviceId, AddId, RemoveId, TypeId, NewId, NullId, TypesFolder, OnName, NumericId, StringId
<1>2. \A name : BlockId(name) = StringId(<<"dev", name>>)
  BY DEF BlockId, NewId, NullId, NumericId, StringId
<1>3. /\ Len(DeviceId.path) = 1 /\ Len(AddId.path) = 0 /\ Len(RemoveId.path) = 0 /\ Len(TypeId.path) = 0
      /\ AddId.number = 1 /\ RemoveId.number = 2 /\ TypeId.number = 4
  BY <1>1 DEF StringId, NumericId
<1>4. \A name : Len(BlockId(name).path) = 2 /\ BlockId(name).path[2] = name
  BY <1>2 DEF StringId
<1>5. \A name : /\ Len(ActiveId(name).path) = 3 /\ ActiveId(name).path[2] = name
                /\ ActiveId(name).path[3] = "Active"
  BY PathOfActive
<1>6. "Value" # "Active"
  OBVIOUS
<1>7. ValueId \notin FixedIds
  BY <1>3, PathOfValue DEF FixedIds
<1>8. DeviceId \notin {AddId, RemoveId, TypeId} /\ TypeId \notin {AddId, RemoveId} /\ AddId # RemoveId
  BY <1>3
<1>9. ASSUME NEW name
      PROVE  BlockId(name) \notin FixedIds \cup {ValueId} /\ ActiveId(name) \notin FixedIds \cup {ValueId}
  <2>1. BlockId(name) \notin FixedIds /\ ActiveId(name) \notin FixedIds
    BY <1>3, <1>4, <1>5 DEF FixedIds
  <2>2. BlockId(name) # ValueId /\ ActiveId(name) # ValueId
    BY <1>4, <1>5, <1>6, PathOfValue
  <2> QED BY <2>1, <2>2
<1>10. ASSUME NEW n, NEW m
       PROVE  /\ BlockId(n) # ActiveId(m)
              /\ BlockId(n) = BlockId(m) \/ ActiveId(n) = ActiveId(m) => n = m
  BY <1>4, <1>5
<1> QED BY <1>7, <1>8, <1>9, <1>10

-----------------------------------------------------------------------------
ServerObjects == [kind : {"device", "type", "value", "block"}, name : BlockNames \cup {"dev", "type", "Value"}]
Known == 1..Len(serverObjects)
IdsOfObject(o) == {IdOf(o), DataId(o)}
Registering == {"made", "adding", "created", "named", "managed", "set"}

NodeTypes ==
  /\ serverObjects \in Seq(ServerObjects) /\ Len(serverObjects) \in 3..MaxServerObjects
  /\ Kind(1) = "device"
  /\ \A o \in Known : Kind(o) = "block" => serverObjects[o].name \in BlockNames
  /\ alive \subseteq Known
  /\ addressSpace \in [DOMAIN addressSpace -> [context : {0} \cup Known, askedOf : {0} \cup Known, source : BOOLEAN]]
  /\ \A id \in DOMAIN nameOf : nameOf[id] \in Known
  /\ callbacks \subseteq managers /\ nodeLock \in Threads \cup {Nobody} /\ optional \in Known
  /\ work \in [Threads -> [at : {"idle"} \cup Registering, o : {0} \cup Known]]
  /\ lifeStage \in {"running", "reset", "stopped"}

\* The nodes of a value or of a block are those with its ids; those of the device stay.
NodesAreTheObjects ==
  /\ \A id \in DOMAIN addressSpace :
       LET o == addressSpace[id].context
       IN o # 0 /\ Kind(o) \in {"value", "block"} => id \in IdsOfObject(o)
  /\ \A id \in {DeviceId, AddId, RemoveId} : id \in DOMAIN addressSpace /\ addressSpace[id].context = 1

\* While the server runs no node has an object that is gone.
ContextsAreAlive ==
  lifeStage = "running" => 1 \in alive /\ \A id \in DOMAIN addressSpace : addressSpace[id].context \in alive \cup {0}

\* How far a thread has come with the object it registers: the server's thread
\* registers blocks, the application's values.
RegistrationOf(t) ==
  LET o == work[t].o  at == work[t].at
  IN at # "idle" =>
       /\ o \in alive /\ Kind(o) = IF t = "server" THEN "block" ELSE "value"
       /\ at = "adding" => nodeLock = t /\ optional = o
       /\ at \in {"created", "named", "managed", "set"} /\ DataId(o) \in DOMAIN addressSpace =>
            /\ addressSpace[DataId(o)].askedOf = o
            /\ at \in {"created", "named"} => ~addressSpace[DataId(o)].source
            /\ at \in {"managed", "set"} => addressSpace[DataId(o)].context = o
       /\ at \in {"managed", "set"} => <<o, DataId(o)>> \in managers
       /\ at = "set" => <<o, DataId(o)>> \in callbacks

\* A request that is served has the right to be, and what it was sound to reach
\* while the server runs is the device, a value, or a component with a name.
RequestIsAllowed ==
  /\ request \in [at : {"idle", "received", "inside", "answered"}, what : {"read", "write", "call", "rename"},
                  id : {request.id}, o : {0} \cup Known, rights : {request.rights}, sound : BOOLEAN]
  /\ work["server"].at # "idle" => request.at = "answered"
  /\ request.at = "answered" => request.what = "call"
  /\ request.at # "idle" /\ lifeStage = "running" => request.sound
  /\ request.at # "idle" /\ request.what = "rename" => request.id \in DOMAIN addressSpace \ {ValueId}
  /\ request.at = "inside" /\ request.what = "rename" => request.o # 0
  /\ request.at # "idle" /\ request.what = "call" => request.o = 1
  /\ request.at \in {"inside", "answered"} /\ request.what = "call" => ObjectAllows(1, "Execute", request.rights)

ServerNodesInv ==
  /\ NodeTypes /\ NodesAreTheObjects /\ ContextsAreAlive
  /\ \A t \in Threads : RegistrationOf(t)
  /\ RequestIsAllowed /\ OptionalNodesAreItsOwn /\ BoundCallbackIsThere

-----------------------------------------------------------------------------
LEMMA IdsOfKinds ==
  ASSUME NodeTypes, NEW o \in Known
  PROVE  /\ Kind(o) = "block" => IdOf(o) = BlockId(serverObjects[o].name) /\ DataId(o) = ActiveId(serverObjects[o].name)
         /\ Kind(o) = "value" => IdOf(o) = ValueId /\ DataId(o) = ValueId
         /\ Kind(o) \in {"block", "value"} => IdsOfObject(o) \cap FixedIds = {}
         /\ Kind(o) = "block" => ValueId \notin IdsOfObject(o)
BY IdsAreApart DEF IdOf, DataId, ActiveId, IdsOfObject

\* The objects of two registrations have different nodes.
LEMMA RegistrationsApart ==
  ASSUME NodeTypes, \A t \in Threads : RegistrationOf(t),
         NEW t \in Threads, NEW u \in Threads, t # u, work[t].at # "idle", work[u].at # "idle"
  PROVE  work[t].o # work[u].o /\ DataId(work[u].o) \notin IdsOfObject(work[t].o)
<1>1. /\ work[t].o \in Known /\ work[u].o \in Known
      /\ \/ Kind(work[t].o) = "block" /\ Kind(work[u].o) = "value"
         \/ Kind(work[t].o) = "value" /\ Kind(work[u].o) = "block"
  BY DEF RegistrationOf, Threads, NodeTypes
<1>2. \/ DataId(work[u].o) = ValueId /\ Kind(work[t].o) = "block"
      \/ DataId(work[u].o) # ValueId /\ Kind(work[t].o) = "value"
  BY <1>1, IdsOfKinds DEF IdsOfObject
<1> QED BY <1>1, <1>2, IdsOfKinds DEF IdsOfObject

LEMMA ServerNodesInitially == ServerNodesInit => ServerNodesInv
<1> SUFFICES ASSUME ServerNodesInit PROVE ServerNodesInv
  OBVIOUS
<1> USE ServerNodesAssumption DEF ServerNodesInit
<1>1. NodeTypes
  BY DEF NodeTypes, ServerObjects, Known, Kind, Threads, Idle_
<1>2. \A id \in DOMAIN addressSpace : Kind(addressSpace[id].context) = "value" => id = ValueId
  BY DEF Kind
<1>3. NodesAreTheObjects
  BY <1>2, IdsAreApart DEF NodesAreTheObjects, FixedIds, Kind, IdsOfObject, IdOf, DataId
<1>4. ContextsAreAlive
  BY DEF ContextsAreAlive
<1>5. \A t \in Threads : RegistrationOf(t)
  BY DEF RegistrationOf, Idle_
<1>6. RequestIsAllowed
  BY DEF RequestIsAllowed, NoRequest, Idle_, Threads
<1>7. OptionalNodesAreItsOwn
  BY DEF OptionalNodesAreItsOwn
<1>8. BoundCallbackIsThere
  BY IdsAreApart DEF BoundCallbackIsThere, FixedIds
<1> QED BY <1>1, <1>3, <1>4, <1>5, <1>6, <1>7, <1>8 DEF ServerNodesInv

\* What one thread does for its object leaves the registration of the other as
\* far as it was.
LEMMA OtherRegistration ==
  ASSUME NodeTypes, \A t \in Threads : RegistrationOf(t),
         NEW t \in Threads, NEW u \in Threads, t # u, work[t].at # "idle", work'[u] = work[u],
         UNCHANGED <<serverObjects, alive>>, managers \subseteq managers', callbacks \subseteq callbacks',
         \A id : id \notin IdsOfObject(work[t].o) =>
           /\ id \in DOMAIN addressSpace' <=> id \in DOMAIN addressSpace
           /\ id \in DOMAIN addressSpace => addressSpace'[id] = addressSpace[id],
         nodeLock = u => nodeLock' = u /\ optional' = optional
  PROVE  RegistrationOf(u)'
<1>1. \A x : Kind(x)' = Kind(x) /\ DataId(x)' = DataId(x)
  BY DEF Kind, IdOf, DataId
<1>2. CASE work[u].at # "idle"
  <2>1. DataId(work[u].o) \notin IdsOfObject(work[t].o) /\ RegistrationOf(u)
    BY <1>2, RegistrationsApart
  <2> QED BY <1>1, <1>2, <2>1 DEF RegistrationOf
<1>3. CASE work[u].at = "idle"
  BY <1>3 DEF RegistrationOf
<1> QED BY <1>2, <1>3

\* The stack makes the nodes of an object.
LEMMA CreateNodeKeeps ==
  ASSUME ServerNodesInv, NEW t \in Threads, CreateNode(t)
  PROVE  ServerNodesInv'
<1> DEFINE o == work[t].o
<1>1. /\ o \in Known /\ o \in alive /\ optional = o /\ nodeLock = t /\ work[t].at = "adding" /\ nodeLock' = Nobody
      /\ Kind(o) = IF t = "server" THEN "block" ELSE "value"
      /\ work' = [work EXCEPT ![t].at = "created"]
      /\ UNCHANGED <<serverObjects, alive, managers, callbacks, nameOf, optional, request, lifeStage>>
  BY DEF ServerNodesInv, RegistrationOf, CreateNode, Goes, NodeTypes
<1>2. /\ DOMAIN addressSpace' = DOMAIN addressSpace \cup IdsOfObject(o)
      /\ \A id \in DOMAIN addressSpace \ IdsOfObject(o) : addressSpace'[id] = addressSpace[id]
      /\ \A id \in IdsOfObject(o) : \E c \in {0, o} : addressSpace'[id] = [context |-> c, askedOf |-> o, source |-> FALSE]
  BY <1>1 DEF CreateNode, Put, IdsOfObject
<1> DEFINE Node == [context : {0} \cup Known, askedOf : {0} \cup Known, source : BOOLEAN]
<1>3. NodeTypes'
  <2>1. \A id \in DOMAIN addressSpace' : addressSpace'[id] \in Node
    <3>1. \A id \in DOMAIN addressSpace : addressSpace[id] \in Node
      BY DEF ServerNodesInv, NodeTypes
    <3>2. ASSUME NEW id \in IdsOfObject(o) PROVE addressSpace'[id] \in Node
      <4>1. PICK c \in {0, o} : addressSpace'[id] = [context |-> c, askedOf |-> o, source |-> FALSE]
        BY <1>2
      <4> QED BY <1>1, <4>1
    <3> QED BY <1>2, <3>1, <3>2
  <2>2. addressSpace' = [id \in DOMAIN addressSpace' |-> addressSpace'[id]]
    BY DEF CreateNode, Put
  <2>3. addressSpace' \in [DOMAIN addressSpace' -> Node]
    BY <2>1, <2>2
  <2>4. work' \in [Threads -> [at : {"idle"} \cup Registering, o : {0} \cup Known]]
    BY <1>1 DEF ServerNodesInv, NodeTypes, Registering
  <2> QED BY <1>1, <2>3, <2>4 DEF ServerNodesInv, NodeTypes, Known, Kind
<1>4. NodesAreTheObjects'
  <2>1. IdsOfObject(o) \cap FixedIds = {}
    BY <1>1, IdsOfKinds DEF ServerNodesInv
  <2>2. \A id \in {DeviceId, AddId, RemoveId} : id \in DOMAIN addressSpace' /\ addressSpace'[id].context = 1
    BY <1>2, <2>1 DEF ServerNodesInv, NodesAreTheObjects, FixedIds
  <2>3. \A x : Kind(x)' = Kind(x) /\ IdsOfObject(x)' = IdsOfObject(x)
    BY <1>1 DEF Kind, IdsOfObject, IdOf, DataId
  <2>4. ASSUME NEW id \in DOMAIN addressSpace', addressSpace'[id].context # 0,
               Kind(addressSpace'[id].context) \in {"value", "block"}
        PROVE  id \in IdsOfObject(addressSpace'[id].context)
    BY <1>2, <2>4 DEF ServerNodesInv, NodesAreTheObjects
  <2> QED BY <2>2, <2>3, <2>4 DEF NodesAreTheObjects
<1>5. ContextsAreAlive'
  BY <1>1, <1>2 DEF ServerNodesInv, ContextsAreAlive
<1>6. OptionalNodesAreItsOwn'
  BY <1>1, <1>2 DEF ServerNodesInv, OptionalNodesAreItsOwn
<1>7. BoundCallbackIsThere'
  BY <1>1, <1>2 DEF ServerNodesInv, BoundCallbackIsThere
<1>8. ASSUME NEW u \in Threads PROVE RegistrationOf(u)'
  <2>1. \A x : Kind(x)' = Kind(x) /\ DataId(x)' = DataId(x)
    BY <1>1 DEF Kind, IdOf, DataId
  <2>2. CASE u = t
    <3>1. work'[t].at = "created" /\ work'[t].o = o
      BY <1>1 DEF ServerNodesInv, NodeTypes
    <3>2. DataId(o) \in IdsOfObject(o)
      BY DEF IdsOfObject
    <3> QED BY <1>1, <1>2, <2>1, <2>2, <3>1, <3>2 DEF RegistrationOf
  <2>3. CASE u # t
    <3>1. work'[u] = work[u] /\ nodeLock # u
      BY <1>1, <2>3 DEF ServerNodesInv, NodeTypes
    <3>2. \A id : id \notin IdsOfObject(o) =>
            /\ id \in DOMAIN addressSpace' <=> id \in DOMAIN addressSpace
            /\ id \in DOMAIN addressSpace => addressSpace'[id] = addressSpace[id]
      BY <1>2
    <3> QED BY <1>1, <2>3, <3>1, <3>2, OtherRegistration DEF ServerNodesInv
  <2> QED BY <2>2, <2>3
<1>9. RequestIsAllowed'
  BY <1>1, <1>2 DEF ServerNodesInv, RequestIsAllowed, Known, NodeTypes, ObjectAllows, Kind, Threads
<1> QED BY <1>3, <1>4, <1>5, <1>6, <1>7, <1>8, <1>9 DEF ServerNodesInv

\* Before that the lock is taken; afterwards the name is bound, which touches no node.
LEMMA BeginOrBindKeeps ==
  ASSUME ServerNodesInv, NEW t \in Threads, BeginAdd(t) \/ BindName(t)
  PROVE  ServerNodesInv'
<1> DEFINE o == work[t].o
<1>1. /\ o \in Known /\ o \in alive /\ work[t].at # "idle"
      /\ \E at \in Registering : work' = [work EXCEPT ![t].at = at]
      /\ UNCHANGED <<serverObjects, alive, addressSpace, managers, callbacks, request, lifeStage>>
  BY DEF ServerNodesInv, RegistrationOf, BeginAdd, BindName, Goes, NodeTypes, Registering
<1>2. NodeTypes'
  <2>1. work' \in [Threads -> [at : {"idle"} \cup Registering, o : {0} \cup Known]]
    BY <1>1 DEF ServerNodesInv, NodeTypes, Registering
  <2>2. \A id \in DOMAIN nameOf' : nameOf'[id] \in Known
    BY <1>1 DEF BeginAdd, BindName, Put, ServerNodesInv, NodeTypes
  <2>3. nodeLock' \in Threads \cup {Nobody} /\ optional' \in Known
    BY <1>1 DEF BeginAdd, BindName, Locks, ServerNodesInv, NodeTypes
  <2> QED BY <1>1, <2>1, <2>2, <2>3 DEF ServerNodesInv, NodeTypes, Known, Kind
<1>3. ASSUME NEW u \in Threads PROVE RegistrationOf(u)'
  <2>1. \A x : Kind(x)' = Kind(x) /\ DataId(x)' = DataId(x)
    BY <1>1 DEF Kind, IdOf, DataId
  <2>2. CASE u = t /\ BeginAdd(t)
    BY <1>1, <2>1, <2>2 DEF BeginAdd, Locks, Goes, RegistrationOf, ServerNodesInv, NodeTypes
  <2>3. CASE u = t /\ BindName(t)
    BY <1>1, <2>1, <2>3 DEF BindName, Goes, RegistrationOf, ServerNodesInv, NodeTypes
  <2>4. CASE u # t
    <3>1. nodeLock = u => nodeLock' = u /\ optional' = optional
      BY DEF BeginAdd, BindName, Locks, Threads, Nobody
    <3>2. work'[u] = work[u]
      BY <1>1, <2>4 DEF ServerNodesInv, NodeTypes
    <3> QED BY <1>1, <2>4, <3>1, <3>2, OtherRegistration DEF ServerNodesInv
  <2> QED BY <2>2, <2>3, <2>4
<1>4. RequestIsAllowed'
  BY <1>1 DEF ServerNodesInv, RequestIsAllowed, Known, NodeTypes, ObjectAllows, Kind, Threads
<1>5. NodesAreTheObjects' /\ ContextsAreAlive' /\ OptionalNodesAreItsOwn' /\ BoundCallbackIsThere'
  BY <1>1 DEF ServerNodesInv, NodesAreTheObjects, ContextsAreAlive, OptionalNodesAreItsOwn, BoundCallbackIsThere,
              Kind, IdsOfObject, IdOf, DataId
<1> QED BY <1>2, <1>3, <1>4, <1>5 DEF ServerNodesInv

\* The manager is added, has its callback set, and the node its source.
LEMMA ManageKeeps ==
  ASSUME ServerNodesInv, NEW t \in Threads, AddEvent(t) \/ SetCallback(t) \/ SetSource(t)
  PROVE  ServerNodesInv'
<1> DEFINE o == work[t].o
           entry == <<o, DataId(o)>>
           node == addressSpace[DataId(o)]
           Node == [context : {0} \cup Known, askedOf : {0} \cup Known, source : BOOLEAN]
<1>1. /\ o \in Known /\ o \in alive /\ Kind(o) = IF t = "server" THEN "block" ELSE "value"
      /\ DataId(o) \in DOMAIN addressSpace => node.askedOf = o /\ node \in Node
      /\ DataId(o) \in IdsOfObject(o)
      /\ UNCHANGED <<serverObjects, alive, nameOf, optional, nodeLock, request, lifeStage>>
  BY DEF ServerNodesInv, RegistrationOf, AddEvent, SetCallback, SetSource, NodeTypes, IdsOfObject
<1>2. /\ DOMAIN addressSpace' = DOMAIN addressSpace
      /\ \A id \in DOMAIN addressSpace : id # DataId(o) => addressSpace'[id] = addressSpace[id]
      /\ addressSpace' \in [DOMAIN addressSpace -> Node]
      /\ managers \subseteq managers' /\ callbacks \subseteq callbacks'
  <2>1. addressSpace \in [DOMAIN addressSpace -> Node]
    BY DEF ServerNodesInv, NodeTypes
  <2>2. CASE AddEvent(t)
    BY <1>1, <2>1, <2>2 DEF AddEvent
  <2>3. CASE SetCallback(t)
    BY <1>1, <2>1, <2>3 DEF SetCallback
  <2>4. CASE SetSource(t)
    BY <1>1, <2>1, <2>4 DEF SetSource
  <2> QED BY <2>2, <2>3, <2>4
<1>3. \A x : Kind(x)' = Kind(x) /\ DataId(x)' = DataId(x) /\ IdsOfObject(x)' = IdsOfObject(x)
  BY <1>1 DEF Kind, IdOf, DataId, IdsOfObject
<1>4. DataId(o) \in DOMAIN addressSpace =>
        /\ addressSpace'[DataId(o)].context = o /\ addressSpace'[DataId(o)].askedOf = o
        /\ addressSpace'[DataId(o)].source => entry \in callbacks'
  BY <1>1 DEF AddEvent, SetCallback, SetSource, ServerNodesInv, NodeTypes, RegistrationOf
<1>5. NodeTypes'
  <2>1. work' \in [Threads -> [at : {"idle"} \cup Registering, o : {0} \cup Known]]
    BY <1>1 DEF AddEvent, SetCallback, SetSource, Goes, Idle_, ServerNodesInv, NodeTypes, Registering
  <2>2. callbacks' \subseteq managers'
    BY <1>1 DEF AddEvent, SetCallback, SetSource, ServerNodesInv, NodeTypes, RegistrationOf
  <2> QED BY <1>1, <1>2, <1>3, <2>1, <2>2 DEF ServerNodesInv, NodeTypes, Known
<1>6. NodesAreTheObjects'
  <2>1. IdsOfObject(o) \cap FixedIds = {}
    BY <1>1, IdsOfKinds DEF ServerNodesInv
  <2>2. \A id \in {DeviceId, AddId, RemoveId} : id \in DOMAIN addressSpace' /\ addressSpace'[id].context = 1
    BY <1>1, <1>2, <2>1 DEF ServerNodesInv, NodesAreTheObjects, FixedIds
  <2> QED BY <1>1, <1>2, <1>3, <1>4, <2>2 DEF ServerNodesInv, NodesAreTheObjects
<1>7. ContextsAreAlive' /\ OptionalNodesAreItsOwn'
  BY <1>1, <1>2, <1>4 DEF ServerNodesInv, ContextsAreAlive, OptionalNodesAreItsOwn
<1>8. BoundCallbackIsThere'
  BY <1>1, <1>2, <1>4 DEF ServerNodesInv, BoundCallbackIsThere
<1>9. RequestIsAllowed'
  BY <1>1, <1>2, <1>3 DEF ServerNodesInv, RequestIsAllowed, Known, NodeTypes, ObjectAllows, Threads,
                          AddEvent, SetCallback, SetSource, Goes, Idle_
<1>10. ASSUME NEW u \in Threads PROVE RegistrationOf(u)'
  <2>1. CASE u # t
    <3>1. work'[u] = work[u] /\ work[t].at # "idle"
      BY <2>1 DEF ServerNodesInv, NodeTypes, AddEvent, SetCallback, SetSource, Goes
    <3>2. \A id : id \notin IdsOfObject(o) =>
            /\ id \in DOMAIN addressSpace' <=> id \in DOMAIN addressSpace
            /\ id \in DOMAIN addressSpace => addressSpace'[id] = addressSpace[id]
      BY <1>1, <1>2
    <3> QED BY <1>1, <1>2, <2>1, <3>1, <3>2, OtherRegistration DEF ServerNodesInv
  <2>2. CASE u = t /\ AddEvent(t)
    <3>1. work'[t].at = "managed" /\ work'[t].o = o /\ entry \in managers'
      BY <2>2 DEF AddEvent, Goes, ServerNodesInv, NodeTypes
    <3> QED BY <1>1, <1>2, <1>3, <1>4, <2>2, <3>1 DEF RegistrationOf
  <2>3. CASE u = t /\ SetCallback(t)
    <3>1. work'[t].at = "set" /\ work'[t].o = o /\ entry \in callbacks' /\ entry \in managers'
      BY <2>3 DEF SetCallback, Goes, ServerNodesInv, NodeTypes, RegistrationOf
    <3> QED BY <1>1, <1>2, <1>3, <1>4, <2>3, <3>1 DEF RegistrationOf
  <2>4. CASE u = t /\ SetSource(t)
    BY <2>4 DEF SetSource, Idle_, RegistrationOf, ServerNodesInv, NodeTypes
  <2> QED BY <2>1, <2>2, <2>3, <2>4
<1> QED BY <1>5, <1>6, <1>7, <1>8, <1>9, <1>10 DEF ServerNodesInv

\* A request comes in, is let through or not, and is answered.
LEMMA RequestKeeps ==
  ASSUME ServerNodesInv,
         \/ \E what \in {"read", "write", "call", "rename"}, id \in DOMAIN addressSpace, rights \in SUBSET Rights \cup {Internal} :
              Receive(what, id, rights)
         \/ Enter \/ EnterRename \/ Answer
  PROVE  ServerNodesInv'
<1>1. UNCHANGED <<serverObjects, alive, addressSpace, managers, callbacks, nameOf, optional, nodeLock, work, lifeStage>>
  BY DEF Receive, Enter, EnterRename, Answer
<1>2. \A x : Kind(x)' = Kind(x) /\ DataId(x)' = DataId(x) /\ IdsOfObject(x)' = IdsOfObject(x)
  BY <1>1 DEF Kind, IdOf, DataId, IdsOfObject
<1>3. NodeTypes' /\ NodesAreTheObjects' /\ ContextsAreAlive' /\ OptionalNodesAreItsOwn' /\ BoundCallbackIsThere'
  BY <1>1, <1>2 DEF ServerNodesInv, NodeTypes, Known, NodesAreTheObjects, ContextsAreAlive, OptionalNodesAreItsOwn, BoundCallbackIsThere
<1>4. \A t \in Threads : RegistrationOf(t)'
  BY <1>1, <1>2 DEF ServerNodesInv, RegistrationOf
<1>5. RequestIsAllowed'
  <2>1. ASSUME NEW what \in {"read", "write", "call", "rename"}, NEW id \in DOMAIN addressSpace,
               NEW rights \in SUBSET Rights \cup {Internal}, Receive(what, id, rights)
        PROVE  RequestIsAllowed'
    <3>1. addressSpace[id].context \in {0} \cup Known
      BY DEF ServerNodesInv, NodeTypes
    <3>2. what = "call" => addressSpace[id].context = 1
      BY <2>1 DEF Receive, Serves, ServerNodesInv, NodesAreTheObjects
    <3>3. what = "rename" => id # ValueId
      BY <2>1, IdsAreApart DEF Receive, Serves, FixedIds
    <3>4. lifeStage = "running" => addressSpace[id].context \in alive \cup {0}
      BY DEF ServerNodesInv, ContextsAreAlive
    <3>5. request' = [at |-> "received", what |-> what, id |-> id, o |-> addressSpace[id].context, rights |-> rights,
                      sound |-> lifeStage = "running" /\ addressSpace[id].context \in alive \cup {0}]
          /\ request.at = "idle"
      BY <2>1 DEF Receive
    <3> QED BY <1>1, <3>1, <3>2, <3>3, <3>4, <3>5 DEF ServerNodesInv, RequestIsAllowed, Known
  <2>2. CASE Enter
    <3>1. CASE request' = [request EXCEPT !.at = "inside"] /\ Enters(request)
      <4>1. request.at = "received" /\ request.what # "rename"
        BY <2>2 DEF Enter
      <4>2. request.what = "call" => request.o = 1 /\ ObjectAllows(1, "Execute", request.rights)
        BY <3>1, <4>1 DEF Enters, Needs, ServerNodesInv, RequestIsAllowed
      <4>3. \A rights : ObjectAllows(1, "Execute", rights)' = ObjectAllows(1, "Execute", rights)
        BY <1>1 DEF ObjectAllows, Kind
      <4> QED BY <1>1, <3>1, <4>1, <4>2, <4>3 DEF ServerNodesInv, RequestIsAllowed, Known
    <3>2. CASE request' = NoRequest
      BY <1>1, <2>2, <3>2 DEF Enter, NoRequest, ServerNodesInv, RequestIsAllowed, Known
    <3> QED BY <2>2, <3>1, <3>2 DEF Enter
  <2>3. CASE EnterRename
    <3>1. CASE request.id \in DOMAIN nameOf
      <4>1. nameOf[request.id] \in Known /\ nameOf[request.id] # 0
        BY <3>1 DEF ServerNodesInv, NodeTypes, Known
      <4>2. request' = [request EXCEPT !.at = "inside", !.o = nameOf[request.id]] /\ request.what = "rename"
            /\ request.at = "received"
        BY <2>3, <3>1 DEF EnterRename
      <4> QED BY <1>1, <4>1, <4>2 DEF ServerNodesInv, RequestIsAllowed, Known
    <3>2. CASE request.id \notin DOMAIN nameOf
      BY <1>1, <2>3, <3>2 DEF EnterRename, NoRequest, ServerNodesInv, RequestIsAllowed, Known
    <3> QED BY <3>1, <3>2
  <2>4. CASE Answer
    BY <1>1, <2>4 DEF Answer, NoRequest, ServerNodesInv, RequestIsAllowed, Known
  <2> QED BY <2>1, <2>2, <2>3, <2>4
<1> QED BY <1>3, <1>4, <1>5 DEF ServerNodesInv

\* An object is made: the others are what they were.
LEMMA MadeIsNew ==
  ASSUME NodeTypes, NEW t \in Threads, NEW kind \in {"block", "value"}, NEW name \in BlockNames \cup {"Value"},
         Made(t, kind, name)
  PROVE  LET new == Len(serverObjects) + 1
         IN /\ serverObjects' \in Seq(ServerObjects) /\ Len(serverObjects') = new /\ new \in 4..MaxServerObjects
            /\ Known' = Known \cup {new} /\ new \notin Known
            /\ \A o \in Known : serverObjects'[o] = serverObjects[o]
            /\ serverObjects'[new] = [kind |-> kind, name |-> name]
            /\ work'[t] = [at |-> "made", o |-> new] /\ \A u \in Threads : u # t => work'[u] = work[u]
            /\ work' \in [Threads -> [at : {"idle"} \cup Registering, o : {0} \cup Known']]
<1> DEFINE new == Len(serverObjects) + 1
           object == [kind |-> kind, name |-> name]
<1>1. object \in ServerObjects /\ serverObjects \in Seq(ServerObjects) /\ serverObjects' = Append(serverObjects, object)
  BY DEF ServerObjects, NodeTypes, Made
<1>2. /\ serverObjects' \in Seq(ServerObjects) /\ Len(serverObjects') = new
      /\ \A o \in 1..Len(serverObjects) : serverObjects'[o] = serverObjects[o]
      /\ serverObjects'[new] = object
  BY <1>1, AppendProperties
<1>3. Len(serverObjects) \in Nat /\ new \in 4..MaxServerObjects
  BY ServerNodesAssumption DEF NodeTypes, Made
<1>4. Known' = Known \cup {new} /\ new \notin Known
  BY <1>2, <1>3 DEF Known
<1>5. work' = [work EXCEPT ![t] = [at |-> "made", o |-> new]]
  BY DEF Made
<1>6. work' \in [Threads -> [at : {"idle"} \cup Registering, o : {0} \cup Known']]
  BY <1>4, <1>5 DEF NodeTypes, Registering
<1> QED BY <1>2, <1>3, <1>4, <1>5, <1>6 DEF Known, NodeTypes

LEMMA KindsStay ==
  ASSUME NEW o, serverObjects'[o] = serverObjects[o]
  PROVE  Kind(o)' = Kind(o) /\ IdOf(o)' = IdOf(o) /\ DataId(o)' = DataId(o) /\ IdsOfObject(o)' = IdsOfObject(o)
BY DEF Kind, IdOf, DataId, IdsOfObject

\* A registration begins: there is nothing of it yet but the object.
LEMMA RegistrationBegins ==
  ASSUME NEW t \in Threads, NEW new, work'[t] = [at |-> "made", o |-> new], new \in alive',
         Kind(new)' = IF t = "server" THEN "block" ELSE "value"
  PROVE  RegistrationOf(t)'
BY DEF RegistrationOf

\* A client adds a block.
LEMMA AddBlockKeeps ==
  ASSUME ServerNodesInv, NEW name \in BlockNames, AddBlock(name)
  PROVE  ServerNodesInv'
<1>0. PICK new : new = Len(serverObjects) + 1
  OBVIOUS
<1>1. /\ serverObjects' \in Seq(ServerObjects) /\ Len(serverObjects') = new /\ new \in 4..MaxServerObjects
      /\ Known' = Known \cup {new} /\ new \notin Known
      /\ \A o \in Known : serverObjects'[o] = serverObjects[o]
      /\ serverObjects'[new] = [kind |-> "block", name |-> name]
      /\ work'["server"] = [at |-> "made", o |-> new] /\ work'["app"] = work["app"]
      /\ work' \in [Threads -> [at : {"idle"} \cup Registering, o : {0} \cup Known']]
  BY <1>0, MadeIsNew DEF ServerNodesInv, AddBlock, Threads
<1>2. /\ request.at = "inside" /\ request.what = "call" /\ request' = [request EXCEPT !.at = "answered"]
      /\ alive' = alive \cup {new}
      /\ UNCHANGED <<addressSpace, managers, callbacks, nameOf, optional, nodeLock, lifeStage>>
  BY <1>0, <1>1 DEF AddBlock, Inside
<1>3. /\ \A o \in Known : Kind(o)' = Kind(o) /\ DataId(o)' = DataId(o) /\ IdsOfObject(o)' = IdsOfObject(o)
      /\ Kind(new)' = "block"
  <2>1. Kind(new)' = "block"
    BY <1>1 DEF Kind
  <2> QED BY <1>1, <2>1, KindsStay
<1>4. 1 \in Known /\ \A id \in DOMAIN addressSpace : addressSpace[id].context \in {0} \cup Known
  BY DEF ServerNodesInv, NodeTypes, Known
<1>5. NodeTypes'
  <2>1. \A o \in Known' : Kind(o)' = "block" => serverObjects'[o].name \in BlockNames
    BY <1>1, <1>3 DEF ServerNodesInv, NodeTypes
  <2>2. Kind(1)' = "device" /\ Len(serverObjects') \in 3..MaxServerObjects
    BY <1>1, <1>3, <1>4 DEF ServerNodesInv, NodeTypes
  <2>3. addressSpace' \in [DOMAIN addressSpace' -> [context : {0} \cup Known', askedOf : {0} \cup Known', source : BOOLEAN]]
    BY <1>1, <1>2 DEF ServerNodesInv, NodeTypes
  <2> QED BY <1>1, <1>2, <2>1, <2>2, <2>3 DEF ServerNodesInv, NodeTypes
<1>6. NodesAreTheObjects' /\ ContextsAreAlive' /\ OptionalNodesAreItsOwn' /\ BoundCallbackIsThere'
  BY <1>2, <1>3, <1>4 DEF ServerNodesInv, NodesAreTheObjects, ContextsAreAlive, OptionalNodesAreItsOwn, BoundCallbackIsThere
<1>7. RegistrationOf("server")'
  BY <1>1, <1>2, <1>3, RegistrationBegins DEF Threads
<1>8. RegistrationOf("app")'
  <2>1. work["app"].at # "idle" => work["app"].o \in Known
    BY DEF ServerNodesInv, RegistrationOf, NodeTypes, Threads
  <2> QED BY <1>1, <1>2, <1>3, <2>1 DEF ServerNodesInv, RegistrationOf, Threads
<1>9. RequestIsAllowed'
  <2>1. ObjectAllows(1, "Execute", request.rights)'
    BY <1>2, <1>3, <1>4 DEF ServerNodesInv, RequestIsAllowed, ObjectAllows
  <2> QED BY <1>1, <1>2, <2>1 DEF ServerNodesInv, RequestIsAllowed
<1> QED BY <1>5, <1>6, <1>7, <1>8, <1>9 DEF ServerNodesInv, Threads

LEMMA ReplaceValueKeeps ==
  ASSUME ServerNodesInv, NEW o \in alive, ReplaceValue(o)
  PROVE  ServerNodesInv'
<1>0. PICK new : new = Len(serverObjects) + 1
  OBVIOUS
<1>1. /\ serverObjects' \in Seq(ServerObjects) /\ Len(serverObjects') = new /\ new \in 4..MaxServerObjects
      /\ Known' = Known \cup {new} /\ new \notin Known
      /\ \A x \in Known : serverObjects'[x] = serverObjects[x]
      /\ serverObjects'[new] = [kind |-> "value", name |-> "Value"]
      /\ work'["app"] = [at |-> "made", o |-> new] /\ work'["server"] = work["server"]
      /\ work' \in [Threads -> [at : {"idle"} \cup Registering, o : {0} \cup Known']]
  BY <1>0, MadeIsNew DEF ServerNodesInv, ReplaceValue, Threads
<1>2. /\ alive' = (alive \ {o}) \cup {new} /\ Kind(o) = "value" /\ o \in Known /\ o # 1
      /\ managers' = {m \in managers : m[1] # o} /\ callbacks' = {m \in callbacks : m[1] # o}
      /\ UNCHANGED <<nameOf, optional, nodeLock, request, lifeStage>>
  BY <1>0, <1>1 DEF ReplaceValue, Destroyed, ServerNodesInv, NodeTypes
<1>3. /\ \A x \in Known : Kind(x)' = Kind(x) /\ DataId(x)' = DataId(x) /\ IdsOfObject(x)' = IdsOfObject(x)
      /\ Kind(new)' = "value"
  <2>1. Kind(new)' = "value"
    BY <1>1 DEF Kind
  <2> QED BY <1>1, <2>1, KindsStay
<1>4. IdsOfObject(o) = {ValueId} /\ IdsOfObject(o) = {IdOf(o), DataId(o)}
  BY <1>2, IdsOfKinds DEF IdsOfObject, ServerNodesInv
<1>5. /\ DOMAIN addressSpace' = DOMAIN addressSpace \ {ValueId}
      /\ \A id \in DOMAIN addressSpace' : addressSpace'[id] = addressSpace[id] /\ addressSpace[id].context \in ({0} \cup Known) \ {o}
      /\ addressSpace' = [id \in DOMAIN addressSpace' |-> addressSpace[id]]
  <2>1. addressSpace' = [id \in DOMAIN addressSpace \ {ValueId} |-> addressSpace[id]]
    BY <1>4 DEF ReplaceValue, Deletes
  <2>2. \A id \in DOMAIN addressSpace : addressSpace[id].context \in {0} \cup Known
    BY DEF ServerNodesInv, NodeTypes
  <2>3. \A id \in DOMAIN addressSpace : addressSpace[id].context = o => id = ValueId
    BY <1>2, <1>4 DEF ServerNodesInv, NodesAreTheObjects, NodeTypes, Known
  <2> QED BY <2>1, <2>2, <2>3
<1>6. NodeTypes'
  <2>1. \A x \in Known' : Kind(x)' = "block" => serverObjects'[x].name \in BlockNames
    <3>1. \A x \in Known : Kind(x) = "block" => serverObjects[x].name \in BlockNames
      BY DEF ServerNodesInv, NodeTypes
    <3> QED BY <1>1, <1>3, <3>1
  <2>2. Kind(1)' = "device" /\ Len(serverObjects') \in 3..MaxServerObjects
    BY <1>1, <1>3 DEF ServerNodesInv, NodeTypes, Known
  <2>3. addressSpace' \in [DOMAIN addressSpace' -> [context : {0} \cup Known', askedOf : {0} \cup Known', source : BOOLEAN]]
    BY <1>1, <1>5 DEF ServerNodesInv, NodeTypes
  <2> QED BY <1>1, <1>2, <2>1, <2>2, <2>3 DEF ServerNodesInv, NodeTypes
<1>7. NodesAreTheObjects'
  <2>1. {DeviceId, AddId, RemoveId} \subseteq DOMAIN addressSpace'
    BY <1>5, IdsAreApart DEF FixedIds, ServerNodesInv, NodesAreTheObjects
  <2> QED BY <1>3, <1>5, <2>1 DEF ServerNodesInv, NodesAreTheObjects
<1>8. ContextsAreAlive' /\ OptionalNodesAreItsOwn'
  BY <1>2, <1>5 DEF ServerNodesInv, ContextsAreAlive, OptionalNodesAreItsOwn
<1>9. BoundCallbackIsThere'
  BY <1>2, <1>5 DEF ServerNodesInv, BoundCallbackIsThere
<1>10. RegistrationOf("app")'
  BY <1>1, <1>2, <1>3, RegistrationBegins DEF Threads
<1>11. RegistrationOf("server")'
  <2>1. work["server"].at # "idle" => work["server"].o \in Known \ {o} /\ RegistrationOf("server")
    BY <1>2 DEF ServerNodesInv, RegistrationOf, NodeTypes, Threads
  <2> QED BY <1>1, <1>2, <1>3, <1>5, <2>1 DEF RegistrationOf
<1>12. RequestIsAllowed'
  <2>1. \A rights : ObjectAllows(1, "Execute", rights)' = ObjectAllows(1, "Execute", rights)
    <3>1. 1 \in Known
      BY DEF ServerNodesInv, NodeTypes, Known
    <3> QED BY <1>3, <3>1 DEF ObjectAllows
  <2> QED BY <1>1, <1>2, <1>5, <2>1 DEF ServerNodesInv, RequestIsAllowed
<1> QED BY <1>6, <1>7, <1>8, <1>9, <1>10, <1>11, <1>12 DEF ServerNodesInv, Threads

\* A client removes a block: its nodes go with it.
LEMMA RemoveBlockKeeps ==
  ASSUME ServerNodesInv, NEW o \in alive, RemoveBlock(o)
  PROVE  ServerNodesInv'
<1>1. /\ o \in Known /\ Kind(o) = "block" /\ o # 1
      /\ request.at = "inside" /\ request.what = "call" /\ request' = [request EXCEPT !.at = "answered"]
      /\ alive' = alive \ {o}
      /\ managers' = {m \in managers : m[1] # o} /\ callbacks' = {m \in callbacks : m[1] # o}
      /\ UNCHANGED <<serverObjects, nameOf, optional, nodeLock, work, lifeStage>>
  BY DEF RemoveBlock, LiveBlocks, Inside, Destroyed, ServerNodesInv, NodeTypes
<1>2. /\ \A x : Kind(x)' = Kind(x) /\ DataId(x)' = DataId(x) /\ IdsOfObject(x)' = IdsOfObject(x)
      /\ Known' = Known
  BY <1>1 DEF Kind, IdOf, DataId, IdsOfObject, Known
<1>3. /\ addressSpace' = [id \in DOMAIN addressSpace' |-> addressSpace[id]]
      /\ DOMAIN addressSpace' = DOMAIN addressSpace \ IdsOfObject(o)
      /\ \A id \in DOMAIN addressSpace' : addressSpace'[id] = addressSpace[id] /\ addressSpace[id].context # o
  <2>1. addressSpace' = [id \in DOMAIN addressSpace \ IdsOfObject(o) |-> addressSpace[id]]
    BY DEF RemoveBlock, Deletes, IdsOfObject
  <2>2. \A id \in DOMAIN addressSpace : addressSpace[id].context = o => id \in IdsOfObject(o)
    BY <1>1 DEF ServerNodesInv, NodesAreTheObjects, Known
  <2> QED BY <2>1, <2>2
<1>4. IdsOfObject(o) \cap FixedIds = {} /\ ValueId \notin IdsOfObject(o)
  BY <1>1, IdsOfKinds DEF ServerNodesInv
<1>5. NodeTypes'
  <2>1. addressSpace' \in [DOMAIN addressSpace' -> [context : {0} \cup Known, askedOf : {0} \cup Known, source : BOOLEAN]]
    BY <1>3 DEF ServerNodesInv, NodeTypes
  <2> QED BY <1>1, <1>2, <2>1 DEF ServerNodesInv, NodeTypes
<1>6. NodesAreTheObjects'
  <2>1. {DeviceId, AddId, RemoveId} \subseteq DOMAIN addressSpace'
    BY <1>3, <1>4 DEF FixedIds, ServerNodesInv, NodesAreTheObjects
  <2> QED BY <1>2, <1>3, <2>1 DEF ServerNodesInv, NodesAreTheObjects
<1>7. ContextsAreAlive' /\ OptionalNodesAreItsOwn'
  BY <1>1, <1>3 DEF ServerNodesInv, ContextsAreAlive, OptionalNodesAreItsOwn
<1>8. BoundCallbackIsThere'
  BY <1>1, <1>3 DEF ServerNodesInv, BoundCallbackIsThere
<1>9. ASSUME NEW t \in Threads PROVE RegistrationOf(t)'
  <2>1. CASE work[t].at = "idle"
    BY <1>1, <2>1 DEF RegistrationOf
  <2>2. CASE work[t].at # "idle"
    <3>1. t = "app"
      BY <1>1, <2>2 DEF ServerNodesInv, RequestIsAllowed, Threads
    <3>2. RegistrationOf(t) /\ work[t].o # o /\ DataId(work[t].o) = ValueId
      <4>1. work[t].o \in Known /\ Kind(work[t].o) = "value" /\ RegistrationOf(t)
        BY <2>2, <3>1 DEF ServerNodesInv, RegistrationOf, NodeTypes
      <4> QED BY <1>1, <4>1, IdsOfKinds DEF ServerNodesInv
    <3> QED BY <1>1, <1>2, <1>3, <1>4, <2>2, <3>1, <3>2 DEF RegistrationOf
  <2> QED BY <2>1, <2>2
<1>10. RequestIsAllowed'
  <2>1. \A rights : ObjectAllows(1, "Execute", rights)' = ObjectAllows(1, "Execute", rights)
    BY <1>2 DEF ObjectAllows
  <2> QED BY <1>1, <1>2, <2>1 DEF ServerNodesInv, RequestIsAllowed
<1> QED BY <1>5, <1>6, <1>7, <1>8, <1>9, <1>10 DEF ServerNodesInv

\* The server is stopped: its objects go first, but for the one a client adds.
LEMMA TeardownKeeps ==
  ASSUME ServerNodesInv, Reset \/ Stop
  PROVE  ServerNodesInv'
<1>1. /\ lifeStage' \in {"reset", "stopped"} /\ alive' \subseteq Known
      /\ \A t \in Threads : work[t].at # "idle" /\ work[t].o \in alive => work[t].o \in alive'
      /\ UNCHANGED <<serverObjects, addressSpace, managers, callbacks, nameOf, optional, nodeLock, work, request>>
  <2>1. CASE Reset
    BY <2>1 DEF Reset, Threads, ServerNodesInv, NodeTypes, Known
  <2>2. CASE Stop
    BY <2>2 DEF Stop, ServerNodesInv, NodeTypes
  <2> QED BY <2>1, <2>2
<1>2. /\ \A x : Kind(x)' = Kind(x) /\ DataId(x)' = DataId(x) /\ IdsOfObject(x)' = IdsOfObject(x)
      /\ Known' = Known
  BY <1>1 DEF Kind, IdOf, DataId, IdsOfObject, Known
<1>3. NodeTypes' /\ NodesAreTheObjects' /\ ContextsAreAlive' /\ OptionalNodesAreItsOwn' /\ BoundCallbackIsThere'
  BY <1>1, <1>2 DEF ServerNodesInv, NodeTypes, NodesAreTheObjects, ContextsAreAlive, OptionalNodesAreItsOwn, BoundCallbackIsThere
<1>4. \A t \in Threads : RegistrationOf(t)'
  BY <1>1, <1>2 DEF ServerNodesInv, RegistrationOf
<1>5. RequestIsAllowed'
  <2>1. \A rights : ObjectAllows(1, "Execute", rights)' = ObjectAllows(1, "Execute", rights)
    BY <1>2 DEF ObjectAllows
  <2> QED BY <1>1, <1>2, <2>1 DEF ServerNodesInv, RequestIsAllowed
<1> QED BY <1>3, <1>4, <1>5 DEF ServerNodesInv

LEMMA ServerNodesStep == ServerNodesInv /\ [ServerNodesNext]_nodeVars => ServerNodesInv'
<1> SUFFICES ASSUME ServerNodesInv, [ServerNodesNext]_nodeVars PROVE ServerNodesInv'
  OBVIOUS
<1>1. CASE UNCHANGED nodeVars
  <2>1. /\ Known' = Known
        /\ \A x : Kind(x)' = Kind(x) /\ DataId(x)' = DataId(x) /\ IdsOfObject(x)' = IdsOfObject(x)
    BY <1>1 DEF nodeVars, Kind, IdOf, DataId, IdsOfObject, Known
  <2>2. NodeTypes' /\ NodesAreTheObjects' /\ ContextsAreAlive'
    BY <1>1, <2>1 DEF nodeVars, ServerNodesInv, NodeTypes, NodesAreTheObjects, ContextsAreAlive
  <2>3. \A t \in Threads : RegistrationOf(t)'
    BY <1>1, <2>1 DEF nodeVars, ServerNodesInv, RegistrationOf
  <2>4. RequestIsAllowed'
    BY <1>1, <2>1 DEF nodeVars, ServerNodesInv, RequestIsAllowed, ObjectAllows
  <2>5. OptionalNodesAreItsOwn' /\ BoundCallbackIsThere'
    BY <1>1 DEF nodeVars, ServerNodesInv, OptionalNodesAreItsOwn, BoundCallbackIsThere
  <2> QED BY <2>2, <2>3, <2>4, <2>5 DEF ServerNodesInv
<1>2. CASE \/ \E what \in {"read", "write", "call", "rename"}, id \in DOMAIN addressSpace, rights \in SUBSET Rights \cup {Internal} :
                Receive(what, id, rights)
           \/ Enter \/ EnterRename \/ Answer
  BY <1>2, RequestKeeps
<1>3. ASSUME NEW name \in BlockNames, AddBlock(name) PROVE ServerNodesInv'
  BY <1>3, AddBlockKeeps
<1>4. ASSUME NEW o \in alive, RemoveBlock(o) \/ ReplaceValue(o) PROVE ServerNodesInv'
  BY <1>4, RemoveBlockKeeps, ReplaceValueKeeps
<1>5. ASSUME NEW t \in Threads, Register(t) PROVE ServerNodesInv'
  BY <1>5, CreateNodeKeeps, BeginOrBindKeeps, ManageKeeps DEF Register
<1>6. CASE Reset \/ Stop
  BY <1>6, TeardownKeeps
<1> QED BY <1>1, <1>2, <1>3, <1>4, <1>5, <1>6 DEF ServerNodesNext

LEMMA ServerNodesInvImplies ==
  ServerNodesInv => /\ ServerNodesTypeOK /\ OptionalNodesAreItsOwn
                    /\ CallsReachLiveObjects /\ BoundCallbackIsThere
<1> SUFFICES ASSUME ServerNodesInv
             PROVE  ServerNodesTypeOK /\ CallsReachLiveObjects
  BY DEF ServerNodesInv
<1>1. ServerNodesTypeOK
  BY DEF ServerNodesInv, NodeTypes, Known, ServerNodesTypeOK
<1>2. CallsReachLiveObjects
  <2> SUFFICES ASSUME request.at = "inside", lifeStage = "running", request.o \notin alive
               PROVE  \/ request.what \in {"read", "write"} /\ request.sound
                      \/ request.what = "rename" /\ addressSpace[request.id].context # request.o
    BY DEF CallsReachLiveObjects
  <2>1. request.sound /\ request.what \in {"read", "write", "call", "rename"}
    BY DEF ServerNodesInv, RequestIsAllowed
  <2>2. request.what # "call"
    BY DEF ServerNodesInv, RequestIsAllowed, ContextsAreAlive
  <2>3. request.what = "rename" => addressSpace[request.id].context \in alive \cup {0} /\ request.o # 0
    BY DEF ServerNodesInv, RequestIsAllowed, ContextsAreAlive
  <2> QED BY <2>1, <2>2, <2>3
<1> QED BY <1>1, <1>2

\* A block comes or goes only while a request is served that may write the device
\* and call its methods.
LEMMA ChangeIsAllowed ==
  ASSUME ServerNodesInv, [ServerNodesNext]_nodeVars
  PROVE  lifeStage' = "running" /\ LiveBlocks' # LiveBlocks =>
           request.rights = Internal \/ {"Write", "Execute"} \subseteq request.rights
<1> SUFFICES ASSUME lifeStage' = "running", LiveBlocks' # LiveBlocks
             PROVE  request.rights = Internal \/ {"Write", "Execute"} \subseteq request.rights
  OBVIOUS
<1>1. CASE (\E name \in BlockNames : AddBlock(name)) \/ (\E o \in alive : RemoveBlock(o))
  <2>1. request.at = "inside" /\ request.what = "call"
    BY <1>1 DEF AddBlock, RemoveBlock, Inside
  <2>2. ObjectAllows(1, "Execute", request.rights) /\ Kind(1) = "device"
    BY <2>1 DEF ServerNodesInv, RequestIsAllowed, NodeTypes
  <2> QED BY <2>2 DEF ObjectAllows
<1>2. ASSUME NEW o \in alive, ReplaceValue(o) PROVE FALSE
  <2>0. PICK new : new = Len(serverObjects) + 1
    OBVIOUS
  <2>1. /\ new \notin Known /\ \A x \in Known : serverObjects'[x] = serverObjects[x]
        /\ serverObjects'[new] = [kind |-> "value", name |-> "Value"] /\ Len(serverObjects') = new
    BY <1>2, <2>0, MadeIsNew DEF ServerNodesInv, ReplaceValue, Threads
  <2>2. alive' = (alive \ {o}) \cup {new} /\ Kind(o) = "value" /\ alive \subseteq Known
    BY <1>2, <2>0, <2>1 DEF ReplaceValue, ServerNodesInv, NodeTypes
  <2>3. Kind(new)' = "value" /\ \A x \in Known : Kind(x)' = Kind(x)
    BY <2>1 DEF Kind
  <2>4. LiveBlocks' = LiveBlocks
    BY <2>2, <2>3 DEF LiveBlocks
  <2> QED BY <2>4
<1>3. ASSUME UNCHANGED <<serverObjects, alive>> PROVE FALSE
  BY <1>3 DEF LiveBlocks, Kind
<1>4. ~Reset
  BY DEF Reset
<1>5. \/ (\E name \in BlockNames : AddBlock(name)) \/ (\E o \in alive : RemoveBlock(o))
      \/ \E o \in alive : ReplaceValue(o)
      \/ UNCHANGED <<serverObjects, alive>>
  BY <1>4 DEF ServerNodesNext, nodeVars, Receive, Enter, EnterRename, Answer, Stop,
              Register, BeginAdd, CreateNode, BindName, AddEvent, SetCallback, SetSource
<1> QED BY <1>1, <1>2, <1>3, <1>5

THEOREM CallbacksAreTheObjects ==
  ServerNodesSpec => [](OptionalNodesAreItsOwn /\ CallsReachLiveObjects /\ BoundCallbackIsThere)
<1> QED BY ServerNodesInitially, ServerNodesStep, ServerNodesInvImplies, PTL DEF ServerNodesSpec

-----------------------------------------------------------------------------
(* ClientModules: the creation of devices and the completion of capabilities *)

\* A set of numbers that has 0 and with each its successor has them all.
LEMMA SetInduction ==
  ASSUME NEW S, 0 \in S, \A n \in Nat : n \in S => n + 1 \in S
  PROVE  Nat \subseteq S
<1> SUFFICES ASSUME Nat \ S # {} PROVE FALSE
  OBVIOUS
<1>1. PICK m \in Nat \ S : \A n \in Nat \ S : <<n, m>> \notin OpToRel(<, Nat)
  BY NatLessThanWellFounded, WFMin
<1>2. \A n \in Nat \ S : ~(n < m)
  BY <1>1 DEF OpToRel
<1>3. m \in Nat /\ m # 0
  BY <1>1
<1>4. m - 1 \in Nat /\ m - 1 < m /\ m - 1 + 1 = m
  BY <1>3
<1> QED BY <1>1, <1>2, <1>4

\* From every type there is a way up of any length.
LEMMA AscentExists ==
  ASSUME NEW server, NEW type \in TypesOf(server), NEW steps \in Nat
  PROVE  Ascents(server, type, steps) # {}
<1> DEFINE S == {n \in Nat : Ascents(server, type, n) # {}}
<1>1. 0 \in S
  <2> DEFINE up == [i \in 0..0 |-> type]
  <2>1. up \in [0..0 -> TypesOf(server)] /\ up[0] = type /\ ~(\E i \in 1..0 : TRUE)
    OBVIOUS
  <2> QED BY <2>1 DEF Ascents
<1>2. ASSUME NEW n \in Nat, n \in S PROVE n + 1 \in S
  <2>1. PICK up \in Ascents(server, type, n) : TRUE
    BY <1>2
  <2>2. /\ up \in [0..n -> TypesOf(server)] /\ up[0] = type
        /\ \A i \in 1..n : up[i] = Supertype(server, up[i - 1])
    BY <2>1 DEF Ascents
  <2> DEFINE next == [i \in 0..(n + 1) |-> IF i <= n THEN up[i] ELSE Supertype(server, up[n])]
  <2>3. \A t \in TypesOf(server) : Supertype(server, t) \in TypesOf(server)
    BY DEF Supertype, TypesOf, Range
  <2>4. next \in [0..(n + 1) -> TypesOf(server)]
    BY <2>2, <2>3
  <2>5. next[0] = type
    BY <2>2
  <2>6. ASSUME NEW i \in 1..(n + 1) PROVE next[i] = Supertype(server, next[i - 1])
    <3>1. CASE i <= n
      BY <2>2, <3>1
    <3>2. CASE i = n + 1
      BY <3>2
    <3> QED BY <3>1, <3>2
  <2> HIDE DEF next
  <2>7. next \in Ascents(server, type, n + 1)
    BY <2>4, <2>5, <2>6 DEF Ascents
  <2> QED BY <2>7
<1> QED BY <1>1, <1>2, SetInduction

\* The client's search, which ends at its limit, finds the base types that are
\* above a type.
LEMMA SubtypesAreDevices ==
  ASSUME uaServer \in UaServers, NEW type \in TypesOf(uaServer)
  PROVE  IsSubtypeOfAny(type) <=> IsDeviceType(type)
<1>1. ASSUME NEW depth \in 0..(MaxTypeDepth - 1), NEW up \in Ascents(uaServer, type, depth), up[depth] \in BaseTypes,
             NEW closed \in SUBSET TypesOf(uaServer), type \in closed,
             \A t \in closed : Supertype(uaServer, t) \in closed
      PROVE  closed \cap BaseTypes # {}
  <2> DEFINE S == {n \in Nat : n <= depth => up[n] \in closed}
  <2>1. /\ depth \in Nat /\ up[0] = type /\ \A i \in 1..depth : up[i] = Supertype(uaServer, up[i - 1])
    BY <1>1, ClientModulesAssumption DEF Ascents
  <2>2. 0 \in S
    BY <1>1, <2>1
  <2>3. ASSUME NEW n \in Nat, n \in S PROVE n + 1 \in S
    <3> SUFFICES ASSUME n + 1 <= depth PROVE up[n + 1] \in closed
      OBVIOUS
    <3>1. n + 1 \in 1..depth /\ n + 1 - 1 = n /\ up[n] \in closed
      BY <2>1, <2>3
    <3>2. up[n + 1] = Supertype(uaServer, up[n])
      BY <2>1, <3>1
    <3> QED BY <1>1, <3>1, <3>2
  <2>4. Nat \subseteq S
    <3> HIDE DEF S
    <3> QED BY <2>2, <2>3, SetInduction
  <2> QED BY <1>1, <2>1, <2>4
<1>2. ASSUME IsDeviceType(type) PROVE IsSubtypeOfAny(type)
  <2>1. MaxTypeDepth \in Nat /\ MaxTypeDepth > 0 /\ NoNode \notin BaseTypes
    BY ClientModulesAssumption
  <2>2. PICK up \in Ascents(uaServer, type, MaxTypeDepth) : TRUE
    BY <2>1, AscentExists
  <2>3. /\ up \in [0..MaxTypeDepth -> TypesOf(uaServer)] /\ up[0] = type
        /\ \A i \in 1..MaxTypeDepth : up[i] = Supertype(uaServer, up[i - 1])
    BY <2>2 DEF Ascents
  <2> DEFINE closed == {NoNode} \cup {up[i] : i \in 0..(MaxTypeDepth - 1)}
  <2>4. up[MaxTypeDepth] \in closed /\ NoNode \notin DOMAIN uaServer.super
    BY <2>2, ClientModulesAssumption
  <2>5. closed \in SUBSET TypesOf(uaServer) /\ type \in closed
    BY <2>1, <2>3 DEF TypesOf
  <2>6. ASSUME NEW t \in closed PROVE Supertype(uaServer, t) \in closed
    <3>1. CASE t = NoNode
      BY <2>4, <3>1 DEF Supertype
    <3>2. ASSUME NEW i \in 0..(MaxTypeDepth - 1), t = up[i] PROVE Supertype(uaServer, t) \in closed
      <4>1. i + 1 \in 1..MaxTypeDepth /\ i + 1 - 1 = i
        BY <2>1
      <4>2. up[i + 1] = Supertype(uaServer, t)
        BY <2>3, <3>2, <4>1
      <4>3. CASE i + 1 = MaxTypeDepth
        BY <2>4, <4>2, <4>3
      <4>4. CASE i + 1 # MaxTypeDepth
        <5>1. i + 1 \in 0..(MaxTypeDepth - 1)
          BY <2>1, <4>4
        <5> QED BY <4>2, <5>1
      <4> QED BY <4>3, <4>4
    <3> QED BY <3>1, <3>2
  <2>7. closed \cap BaseTypes # {}
    <3> HIDE DEF closed
    <3> QED BY <1>2, <2>5, <2>6 DEF IsDeviceType
  <2>8. PICK depth \in 0..(MaxTypeDepth - 1) : up[depth] \in BaseTypes
    BY <2>1, <2>7
  <2> DEFINE way == [i \in 0..depth |-> up[i]]
  <2>9. way \in Ascents(uaServer, type, depth)
    <3>1. way \in [0..depth -> TypesOf(uaServer)] /\ way[0] = type
      BY <2>1, <2>3
    <3>2. ASSUME NEW i \in 1..depth PROVE way[i] = Supertype(uaServer, way[i - 1])
      <4>1. i \in 1..MaxTypeDepth /\ i - 1 \in 0..depth /\ i \in 0..depth
        BY <2>1
      <4> QED BY <2>3, <4>1
    <3> HIDE DEF way
    <3> QED BY <3>1, <3>2 DEF Ascents
  <2>10. way[depth] \in BaseTypes
    BY <2>1, <2>8
  <2> QED BY <2>9, <2>10 DEF IsSubtypeOfAny
<1> QED BY <1>1, <1>2 DEF IsSubtypeOfAny, IsDeviceType

-----------------------------------------------------------------------------
Nodes == DOMAIN uaServer.properties \cup {NoNode}
Infos == {NoInfo} \cup UNION {ReadsOf(node) : node \in Nodes \cup Range(uaServer.deviceSet)}
LocalIds ==
  {"", TweakLocalId(uaServer.uri)} \cup UserIds \cup Range(GeneratedIds) \cup Range(uaServer.roots)
    \cup {IdOfInfo(info) : info \in Infos}

CreationRecords ==
  [at : Stages, module : Modules, user : UserIds \cup {""}, node : Nodes, info : Infos,
   id : LocalIds, free : BOOLEAN, overlaps : BOOLEAN, why : {"", "connection", "sibling"}]

Busy == {"connecting", "describing", "configured", "finding", "naming", "typing", "rooting"}

\* A creation at work has the lock of its module, and nobody else has.
LocksAreHeld ==
  /\ sync \in [Modules -> Creations \cup {0}]
  /\ \A c \in Creations : creation[c].at \in Busy => sync[creation[c].module] = c
  /\ \A m \in Modules : sync[m] # 0 => creation[sync[m]].module = m /\ creation[sync[m]].at \in Busy

\* What kind of creation is at which stage.
StagesOfModules ==
  \A c \in Creations :
    /\ creation[c].module = "tms" => creation[c].user = ""
    /\ creation[c].at \in {"typing", "rooting"} => creation[c].module = "tms"
    /\ creation[c].at = "idle" => creation[c] = NotBegun

\* Two devices that wait to be added know of each other, and one that has waited
\* alone still has a place.
WaitingOverlap ==
  /\ \A c, o \in Creations : creation[c].at = "made" /\ creation[o].at = "made" /\ c # o => creation[c].overlaps
  /\ \A c \in Creations :
       creation[c].at = "made" /\ creation[c].id \in siblings =>
         creation[c].overlaps \/ creation[c].module = "tms" \/ creation[c].id \in Range(GeneratedIds)

CreationInv ==
  /\ uaServer \in UaServers /\ creation \in [Creations -> CreationRecords] /\ localIndex \in 0..Len(GeneratedIds)
  /\ LocksAreHeld /\ StagesOfModules /\ WaitingOverlap
  /\ InfoIsOfOneDevice /\ RefusedSiblingOverlaps /\ ConfiguredIdIsKept

LEMMA NotBegunIsRecord == NotBegun \in CreationRecords /\ DOMAIN NotBegun.info = {} /\ NotBegun.at = "idle" /\ NotBegun.module = "generic"
  /\ NotBegun.user = "" /\ NotBegun.overlaps = FALSE /\ NotBegun.why = ""
<1>1. NoInfo \in Infos /\ NoNode \in Nodes /\ "" \in LocalIds
  BY DEF Infos, Nodes, LocalIds
<1>2. DOMAIN NoInfo = {}
  BY DEF NoInfo
<1> HIDE DEF NoInfo
<1> QED BY <1>1, <1>2 DEF NotBegun, CreationRecords, Stages, Modules

LEMMA CreationInitially == ClientModulesInit => CreationInv
<1> SUFFICES ASSUME ClientModulesInit PROVE CreationInv
  OBVIOUS
<1>1. creation = [c \in Creations |-> NotBegun] /\ uaServer \in UaServers /\ sync = [m \in Modules |-> 0] /\ localIndex = 0
  BY DEF ClientModulesInit
<1>2. LocksAreHeld /\ StagesOfModules /\ WaitingOverlap
  BY <1>1, NotBegunIsRecord DEF LocksAreHeld, StagesOfModules, WaitingOverlap, Busy
<1>3. InfoIsOfOneDevice /\ RefusedSiblingOverlaps /\ ConfiguredIdIsKept
  BY <1>1, NotBegunIsRecord DEF InfoIsOfOneDevice, RefusedSiblingOverlaps, ConfiguredIdIsKept
<1>4. Len(GeneratedIds) \in Nat
  BY ClientModulesAssumption
<1>5. creation \in [Creations -> CreationRecords]
  BY <1>1, NotBegunIsRecord
<1> QED BY <1>1, <1>2, <1>3, <1>4, <1>5 DEF CreationInv

\* The info of a creation, which asks for the given node, is one device's.
OfOneDevice(info, asked) ==
  DOMAIN info # {} =>
    \E node \in {asked} \cup Range(uaServer.deviceSet) :
      /\ info \in ReadsOf(node)
      /\ node # asked =>
           \E i \in DOMAIN uaServer.deviceSet :
             uaServer.deviceSet[i] = node /\ DevicesOf({t \in Range(uaServer.type) : IsDeviceType(t)}) = {i}

\* The locks when one creation goes on.
LEMMA LocksGoOn ==
  ASSUME LocksAreHeld, NEW c \in Creations,
         \A o \in Creations : creation'[o].module \in Modules,
         \A o \in Creations : o # c => creation'[o].at = creation[o].at /\ creation'[o].module = creation[o].module,
         \/ /\ creation[c].at \in Busy /\ creation'[c].at \in Busy
            /\ creation'[c].module = creation[c].module /\ sync' = sync
         \/ /\ creation[c].at \notin Busy /\ creation'[c].at \in Busy
            /\ sync[creation'[c].module] = 0 /\ sync' = [sync EXCEPT ![creation'[c].module] = c]
         \/ /\ creation[c].at \in Busy /\ creation'[c].at \notin Busy
            /\ creation[c].module \in Modules /\ sync' = [sync EXCEPT ![creation[c].module] = 0]
         \/ /\ creation[c].at \notin Busy /\ creation'[c].at \notin Busy /\ sync' = sync
  PROVE  LocksAreHeld'
<1>1. 0 \notin Creations /\ sync \in [Modules -> Creations \cup {0}] /\ creation'[c].module \in Modules
  BY ClientModulesAssumption DEF LocksAreHeld
<1>2. /\ \A o \in Creations : creation[o].at \in Busy => sync[creation[o].module] = o
      /\ \A m \in Modules : sync[m] # 0 => creation[sync[m]].module = m /\ creation[sync[m]].at \in Busy
  BY DEF LocksAreHeld
<1>3. CASE creation[c].at \in Busy /\ creation'[c].at \in Busy /\ creation'[c].module = creation[c].module /\ sync' = sync
  BY <1>1, <1>2, <1>3 DEF LocksAreHeld
<1>4. CASE /\ creation[c].at \notin Busy /\ creation'[c].at \in Busy
           /\ sync[creation'[c].module] = 0 /\ sync' = [sync EXCEPT ![creation'[c].module] = c]
  <2>1. sync' \in [Modules -> Creations \cup {0}]
    BY <1>1, <1>4
  <2>2. ASSUME NEW o \in Creations, creation'[o].at \in Busy PROVE sync'[creation'[o].module] = o
    BY <1>1, <1>2, <1>4, <2>2
  <2>3. ASSUME NEW m \in Modules, sync'[m] # 0 PROVE creation'[sync'[m]].module = m /\ creation'[sync'[m]].at \in Busy
    BY <1>1, <1>2, <1>4, <2>3
  <2> QED BY <2>1, <2>2, <2>3 DEF LocksAreHeld
<1>5. CASE /\ creation[c].at \in Busy /\ creation'[c].at \notin Busy
           /\ creation[c].module \in Modules /\ sync' = [sync EXCEPT ![creation[c].module] = 0]
  <2>1. sync' \in [Modules -> Creations \cup {0}]
    BY <1>1, <1>5
  <2>2. ASSUME NEW o \in Creations, creation'[o].at \in Busy PROVE sync'[creation'[o].module] = o
    BY <1>1, <1>2, <1>5, <2>2
  <2>3. ASSUME NEW m \in Modules, sync'[m] # 0 PROVE creation'[sync'[m]].module = m /\ creation'[sync'[m]].at \in Busy
    BY <1>1, <1>2, <1>5, <2>3
  <2> QED BY <2>1, <2>2, <2>3 DEF LocksAreHeld
<1>6. CASE creation[c].at \notin Busy /\ creation'[c].at \notin Busy /\ sync' = sync
  BY <1>1, <1>2, <1>6 DEF LocksAreHeld
<1> QED BY <1>3, <1>4, <1>5, <1>6

\* What depends on the server alone.
LEMMA SameServer ==
  ASSUME uaServer' = uaServer
  PROVE  /\ CreationRecords' = CreationRecords /\ \A n : ReadsOf(n)' = ReadsOf(n)
         /\ \A info, asked : OfOneDevice(info, asked)' <=> OfOneDevice(info, asked)
<1>1. ASSUME NEW n PROVE ReadsOf(n)' = ReadsOf(n)
  BY DEF ReadsOf
<1>2. Nodes' = Nodes
  BY DEF Nodes
<1>3. Infos' = Infos
  BY <1>1, <1>2 DEF Infos
<1>4. LocalIds' = LocalIds
  BY <1>3 DEF LocalIds
<1>5. \A type : IsDeviceType(type)' <=> IsDeviceType(type)
  BY DEF IsDeviceType, TypesOf, Supertype
<1>6. \A types : DevicesOf(types)' = DevicesOf(types)
  BY DEF DevicesOf
<1>7. {t \in Range(uaServer.type) : IsDeviceType(t)}' = {t \in Range(uaServer.type) : IsDeviceType(t)}
  BY <1>5
<1>8. ASSUME NEW info, NEW asked PROVE OfOneDevice(info, asked)' <=> OfOneDevice(info, asked)
  BY <1>1, <1>6, <1>7 DEF OfOneDevice
<1> QED BY <1>1, <1>2, <1>3, <1>4, <1>8 DEF CreationRecords

\* The parts of the invariant for the same server.
LEMMA Together ==
  ASSUME CreationInv, UNCHANGED <<uaServer, localIndex>>, creation' \in [Creations -> CreationRecords],
         \A o \in Creations : OfOneDevice(creation'[o].info, creation'[o].node),
         LocksAreHeld', StagesOfModules', WaitingOverlap', RefusedSiblingOverlaps', ConfiguredIdIsKept'
  PROVE  CreationInv'
<1>1. uaServer' \in UaServers /\ creation' \in [Creations -> CreationRecords]' /\ localIndex' \in 0..Len(GeneratedIds)
  BY SameServer DEF CreationInv
<1>2. InfoIsOfOneDevice'
  <2>1. \A o \in Creations : OfOneDevice(creation[o].info, creation[o].node)'
    BY SameServer
  <2> QED BY <2>1 DEF InfoIsOfOneDevice, OfOneDevice
<1> QED BY <1>1, <1>2 DEF CreationInv

LEMMA NodesOfInfos == CreationInv => \A o \in Creations : OfOneDevice(creation[o].info, creation[o].node)
BY DEF CreationInv, InfoIsOfOneDevice, OfOneDevice

\* A creation that goes on without a device, or without one as before.
LEMMA Working ==
  ASSUME CreationInv, NEW c \in Creations, NEW r \in CreationRecords,
         creation' = [creation EXCEPT ![c] = r], LocksAreHeld',
         UNCHANGED <<uaServer, siblings, localIndex>>,
         r.at \notin {"made", "added"}, r.at = "failed" => r.why # "sibling",
         r.module = "tms" => r.user = "", r.at \in {"typing", "rooting"} => r.module = "tms", r.at = "idle" => r = NotBegun,
         OfOneDevice(r.info, r.node)
  PROVE  CreationInv'
<1>1. /\ creation \in [Creations -> CreationRecords] /\ creation'[c] = r
      /\ \A o \in Creations : o # c => creation'[o] = creation[o]
  BY DEF CreationInv
<1>2. uaServer' \in UaServers /\ creation' \in [Creations -> CreationRecords]' /\ localIndex' \in 0..Len(GeneratedIds)
  <2>1. CreationRecords' = CreationRecords
    BY SameServer
  <2> QED BY <1>1, <2>1 DEF CreationInv
<1>3. StagesOfModules'
  BY <1>1 DEF CreationInv, StagesOfModules
<1>4. WaitingOverlap'
  BY <1>1 DEF CreationInv, WaitingOverlap
<1>5. InfoIsOfOneDevice'
  <2>1. \A o \in Creations : OfOneDevice(creation'[o].info, creation'[o].node)
    BY <1>1 DEF CreationInv, InfoIsOfOneDevice, OfOneDevice
  <2>2. \A o \in Creations : OfOneDevice(creation[o].info, creation[o].node)'
    BY <2>1, SameServer
  <2> QED BY <2>2 DEF InfoIsOfOneDevice, OfOneDevice
<1>6. RefusedSiblingOverlaps' /\ ConfiguredIdIsKept'
  BY <1>1 DEF CreationInv, RefusedSiblingOverlaps, ConfiguredIdIsKept
<1> QED BY <1>2, <1>3, <1>4, <1>5, <1>6 DEF CreationInv

LEMMA CreationBegins ==
  ASSUME CreationInv, NEW c \in Creations, NEW module \in Modules, NEW configured \in UserIds, NEW node \in Nodes,
         Begin(c, module, configured, node)
  PROVE  CreationInv'
<1> DEFINE r == [creation[c] EXCEPT !.at = "connecting", !.module = module, !.user = configured, !.node = node]
<1>1. creation[c] = NotBegun /\ creation \in [Creations -> CreationRecords]
  BY DEF CreationInv, StagesOfModules, Begin
<1>2. /\ r \in CreationRecords /\ r.at = "connecting" /\ r.module = module /\ r.user = configured /\ r.node = node
      /\ r.info = NoInfo /\ DOMAIN NoInfo = {}
  <2>1. DOMAIN NoInfo = {}
    BY DEF NoInfo
  <2>2. creation[c] \in CreationRecords /\ creation[c].info = NoInfo
    <3>1. NotBegun.info = NoInfo
      BY DEF NotBegun
    <3> QED BY <1>1, <3>1
  <2>3. "connecting" \in Stages
    BY DEF Stages
  <2> QED BY <2>1, <2>2, <2>3 DEF CreationRecords
<1> HIDE DEF r
<1>3. creation' = [creation EXCEPT ![c] = r]
  BY DEF Begin, r
<1>4. creation'[c] = r /\ \A o \in Creations : o # c => creation'[o] = creation[o]
  BY <1>1, <1>3
<1>5. LocksAreHeld'
  <2>1. \A o \in Creations : creation'[o].module \in Modules
    BY <1>1, <1>2, <1>4 DEF CreationRecords
  <2>2. creation[c].at \notin Busy /\ creation'[c].at \in Busy
    BY <1>1, <1>2, <1>4, NotBegunIsRecord DEF Busy
  <2>3. sync[creation'[c].module] = 0 /\ sync' = [sync EXCEPT ![creation'[c].module] = c]
    BY <1>2, <1>4 DEF Begin
  <2> QED BY <1>4, <2>1, <2>2, <2>3, LocksGoOn DEF CreationInv
<1>6. OfOneDevice(r.info, r.node)
  BY <1>2 DEF OfOneDevice
<1> QED BY <1>2, <1>3, <1>5, <1>6, Working DEF Begin

LEMMA FailKeeps ==
  ASSUME CreationInv, NEW c \in Creations, creation[c].at \in Busy,
         Fails(c, "connection"), UNCHANGED <<uaServer, siblings, localIndex>>
  PROVE  CreationInv'
<1>0. creation \in [Creations -> CreationRecords] /\ LocksAreHeld
  BY DEF CreationInv
<1>1. NotBegun \in [at : Stages, module : Modules, user : UserIds \cup {""}, node : Nodes, info : Infos,
         id : LocalIds, free : BOOLEAN, overlaps : BOOLEAN, why : {"", "connection", "sibling"}]
  BY NotBegunIsRecord DEF CreationRecords
<1> DEFINE r == [NotBegun EXCEPT !.at = "failed", !.why = "connection"]
<1>2. r \in CreationRecords /\ r.at = "failed" /\ r.why = "connection" /\ r.module = "generic" /\ DOMAIN r.info = {}
  <2>1. "failed" \in Stages
    BY DEF Stages
  <2> QED BY <1>1, <2>1, NotBegunIsRecord DEF CreationRecords
<1> HIDE DEF r
<1>3. creation' = [creation EXCEPT ![c] = r]
  BY DEF Fails, r
<1>4. creation'[c] = r /\ \A o \in Creations : o # c => creation'[o] = creation[o]
  BY <1>0, <1>3
<1>5. LocksAreHeld'
  <2>1. \A o \in Creations : creation'[o].module \in Modules /\ creation[o].module \in Modules
    BY <1>0, <1>2, <1>4 DEF CreationRecords, Modules
  <2>2. creation[c].at \in Busy /\ creation'[c].at \notin Busy
    BY <1>2, <1>4 DEF Busy
  <2>3. sync' = [sync EXCEPT ![creation[c].module] = 0]
    BY DEF Fails, LetsGo
  <2> QED BY <1>0, <1>4, <2>1, <2>2, <2>3, LocksGoOn
<1>6. OfOneDevice(r.info, r.node)
  BY <1>2 DEF OfOneDevice
<1> QED BY <1>2, <1>3, <1>5, <1>6, Working

LEMMA ConnectKeeps ==
  ASSUME CreationInv, NEW c \in Creations,
         \/ ConnectTo(c) \/ Describe(c) \/ RegisterTypes(c)
  PROVE  CreationInv'
<1>1. /\ creation \in [Creations -> CreationRecords] /\ LocksAreHeld /\ StagesOfModules
      /\ OfOneDevice(creation[c].info, creation[c].node)
  BY DEF CreationInv, InfoIsOfOneDevice, OfOneDevice
<1>2. creation[c].at \in {"connecting", "describing", "typing"} /\ creation[c].at \in Busy
  BY DEF ConnectTo, Describe, RegisterTypes, Busy
<1>3. ASSUME Fails(c, "connection"), UNCHANGED <<uaServer, siblings, localIndex>>
      PROVE  CreationInv'
  BY <1>2, <1>3, FailKeeps
<1>4. ASSUME NEW stage \in Busy, Reaches(c, stage), UNCHANGED <<uaServer, sync, siblings, localIndex>>,
             stage \in {"typing", "rooting"} => creation[c].module = "tms"
      PROVE  CreationInv'
  <2> DEFINE r == [creation[c] EXCEPT !.at = stage]
  <2>1. /\ r \in CreationRecords /\ r.at = stage /\ r.module = creation[c].module /\ r.user = creation[c].user
        /\ r.info = creation[c].info /\ r.node = creation[c].node
    <3>1. stage \in Stages
      BY DEF Stages, Busy
    <3> QED BY <1>1, <3>1 DEF CreationRecords
  <2>2. creation' = [creation EXCEPT ![c] = r]
    BY <1>4 DEF Reaches
  <2> HIDE DEF r
  <2>3. creation'[c] = r /\ \A o \in Creations : o # c => creation'[o] = creation[o]
    BY <1>1, <2>2
  <2>4. LocksAreHeld'
    <3>1. \A o \in Creations : creation'[o].module \in Modules
      BY <1>1, <2>1, <2>3 DEF CreationRecords
    <3> QED BY <1>1, <1>2, <1>4, <2>1, <2>3, <3>1, LocksGoOn
  <2>5. stage \notin {"made", "added", "failed", "idle"}
    BY DEF Busy
  <2>6. r.module = "tms" => r.user = ""
    BY <1>1, <2>1 DEF StagesOfModules
  <2> QED BY <1>1, <1>4, <2>1, <2>2, <2>4, <2>5, <2>6, Working
<1>5. \A stage \in {"describing", "typing", "configured", "finding", "rooting"} : stage \in Busy
  BY DEF Busy
<1>6. creation[c].module \in Modules
  BY <1>1 DEF CreationRecords
<1>7. CASE ConnectTo(c)
  BY <1>3, <1>4, <1>5, <1>6, <1>7 DEF ConnectTo, Modules
<1>8. CASE Describe(c)
  BY <1>3, <1>4, <1>5, <1>8 DEF Describe
<1>9. CASE RegisterTypes(c)
  <2>1. creation[c].module = "tms"
    BY <1>1, <1>9 DEF RegisterTypes, StagesOfModules
  <2> QED BY <1>3, <1>4, <1>5, <1>9, <2>1 DEF RegisterTypes
<1> QED BY <1>7, <1>8, <1>9

\* A device that is found is the only one of the server.
LEMMA FoundIsTheOne ==
  ASSUME uaServer \in UaServers, FindDeviceNodeInDeviceSet # NoNode, NEW info \in ReadsOf(FindDeviceNodeInDeviceSet), NEW asked
  PROVE  /\ OfOneDevice(info, asked) /\ FindDeviceNodeInDeviceSet \in Range(uaServer.deviceSet)
<1> DEFINE found == FindDeviceNodeInDeviceSet
           devices == DevicesOf({t \in Range(uaServer.type) : IsSubtypeOfAny(t)})
<1>1. {t \in Range(uaServer.type) : IsSubtypeOfAny(t)} = {t \in Range(uaServer.type) : IsDeviceType(t)}
  <2>1. \A t \in Range(uaServer.type) : t \in TypesOf(uaServer)
    BY DEF TypesOf
  <2> QED BY <2>1, SubtypesAreDevices
<1>2. PICK i \in devices : devices = {i} /\ found = uaServer.deviceSet[i]
  BY DEF FindDeviceNodeInDeviceSet
<1>3. i \in DOMAIN uaServer.deviceSet
  BY <1>2 DEF DevicesOf
<1>4. found \in Range(uaServer.deviceSet)
  BY <1>2, <1>3 DEF Range
<1> QED BY <1>1, <1>2, <1>3, <1>4 DEF OfOneDevice

LEMMA ReadKeeps ==
  ASSUME CreationInv, NEW c \in Creations, ReadConfigured(c) \/ ReadFound(c)
  PROVE  CreationInv'
<1>1. /\ creation \in [Creations -> CreationRecords] /\ LocksAreHeld /\ StagesOfModules /\ creation[c] \in CreationRecords
      /\ uaServer \in UaServers
  BY DEF CreationInv
<1>2. creation[c].at \in Busy
  BY DEF ReadConfigured, ReadFound, Busy
<1>3. ASSUME NEW info \in Infos, NEW stage \in {"naming", "finding"}, OfOneDevice(info, creation[c].node),
             creation' = [creation EXCEPT ![c] = [@ EXCEPT !.at = stage, !.info = info]],
             UNCHANGED <<uaServer, sync, siblings, localIndex>>
      PROVE  CreationInv'
  <2> DEFINE r == [creation[c] EXCEPT !.at = stage, !.info = info]
  <2>1. /\ r \in CreationRecords /\ r.at = stage /\ r.module = creation[c].module /\ r.user = creation[c].user
        /\ r.info = info /\ r.node = creation[c].node
    <3>1. stage \in Stages
      BY DEF Stages
    <3> QED BY <1>1, <3>1 DEF CreationRecords
  <2>2. creation' = [creation EXCEPT ![c] = r]
    BY <1>3
  <2> HIDE DEF r
  <2>3. creation'[c] = r /\ \A o \in Creations : o # c => creation'[o] = creation[o]
    BY <1>1, <2>2
  <2>4. LocksAreHeld'
    <3>1. \A o \in Creations : creation'[o].module \in Modules
      BY <1>1, <2>1, <2>3 DEF CreationRecords
    <3>2. stage \in Busy
      BY DEF Busy
    <3> QED BY <1>1, <1>2, <1>3, <2>1, <2>3, <3>1, <3>2, LocksGoOn
  <2>5. r.module = "tms" => r.user = ""
    BY <1>1, <2>1 DEF StagesOfModules
  <2> QED BY <1>1, <1>3, <2>1, <2>2, <2>4, <2>5, Working
<1>4. CASE ReadConfigured(c)
  <2>1. PICK info \in ReadsOf(creation[c].node) :
          creation' = [creation EXCEPT ![c] = [@ EXCEPT !.at = IF DOMAIN info # {} THEN "naming" ELSE "finding", !.info = info]]
    BY <1>4 DEF ReadConfigured
  <2>2. creation[c].node \in Nodes
    BY <1>1 DEF CreationRecords
  <2>3. info \in Infos
    BY <2>1, <2>2 DEF Infos
  <2>4. OfOneDevice(info, creation[c].node)
    BY <2>1 DEF OfOneDevice
  <2>5. (IF DOMAIN info # {} THEN "naming" ELSE "finding") \in {"naming", "finding"}
    OBVIOUS
  <2> QED BY <1>3, <1>4, <2>1, <2>3, <2>4, <2>5 DEF ReadConfigured
<1>5. CASE ReadFound(c)
  <2>1. PICK info \in {NoInfo} \cup (IF FindDeviceNodeInDeviceSet = NoNode THEN {} ELSE ReadsOf(FindDeviceNodeInDeviceSet)) :
          creation' = [creation EXCEPT ![c] = [@ EXCEPT !.at = "naming", !.info = info]]
    BY <1>5 DEF ReadFound
  <2>2. CASE info = NoInfo
    <3>1. DOMAIN NoInfo = {} /\ NoInfo \in Infos
      BY DEF NoInfo, Infos
    <3>2. OfOneDevice(info, creation[c].node)
      BY <2>2, <3>1 DEF OfOneDevice
    <3> QED BY <1>3, <1>5, <2>1, <2>2, <3>1, <3>2 DEF ReadFound
  <2>3. CASE FindDeviceNodeInDeviceSet # NoNode /\ info \in ReadsOf(FindDeviceNodeInDeviceSet)
    <3>1. OfOneDevice(info, creation[c].node) /\ FindDeviceNodeInDeviceSet \in Range(uaServer.deviceSet)
      BY <1>1, <2>3, FoundIsTheOne
    <3>2. info \in Infos
      BY <2>3, <3>1 DEF Infos
    <3> QED BY <1>3, <1>5, <2>1, <3>1, <3>2 DEF ReadFound
  <2> QED BY <2>1, <2>2, <2>3
<1> QED BY <1>4, <1>5

\* What is shown of what was read could have been read without the rest.
LEMMA ShownIsRead ==
  ASSUME NEW node, NEW info \in ReadsOf(node)
  PROVE  InfoShown(info) \in ReadsOf(node) /\ DOMAIN InfoShown(info) \subseteq DOMAIN info
<1> DEFINE has == IF node \in DOMAIN uaServer.properties THEN uaServer.properties[node] ELSE NoInfo
           asked == {p \in DOMAIN has \cap DeviceInfoMap : has[p].kind # "array"}
           shown == {p \in DOMAIN info : info[p].kind \in {"string", "integer"} /\ info[p].text # ""}
<1>1. PICK read \in SUBSET asked : info = [p \in read |-> has[p]]
  BY DEF ReadsOf
<1> HIDE DEF has
<1>2. shown \subseteq read /\ shown \in SUBSET asked
  BY <1>1
<1>3. [p \in shown |-> info[p]] = [p \in shown |-> has[p]]
  BY <1>1, <1>2
<1>4. InfoShown(info) = [p \in shown |-> has[p]]
  BY <1>3 DEF InfoShown
<1>5. [p \in shown |-> has[p]] \in ReadsOf(node)
  BY <1>2 DEF ReadsOf, has
<1> QED BY <1>1, <1>2, <1>4, <1>5

LEMMA LeastOfThree ==
  ASSUME NEW S \in SUBSET {1, 2, 3}, S # {}
  PROVE  \E i \in S : \A j \in S : i <= j
<1>0. \A j \in S : j \in Nat /\ (j = 1 \/ j = 2 \/ j = 3)
  OBVIOUS
<1>1. CASE 1 \in S
  <2>1. \A j \in S : 1 <= j
    BY <1>0
  <2> QED BY <1>1, <2>1
<1>2. CASE 1 \notin S /\ 2 \in S
  <2>1. \A j \in S : 2 <= j
    BY <1>0, <1>2
  <2> QED BY <1>2, <2>1
<1>3. CASE 1 \notin S /\ 2 \notin S
  <2>1. \A j \in S : j = 3
    BY <1>0, <1>3
  <2>2. PICK j \in S : TRUE
    OBVIOUS
  <2> QED BY <2>1, <2>2
<1> QED BY <1>1, <1>2, <1>3

\* The id that is built is none, or one of the three that no sibling has, and the
\* first of them unless a sibling has it.
LEMMA FirstFreeIsFree ==
  ASSUME NEW a, NEW b, NEW d
  PROVE  /\ FirstFree(<<a, b, d>>) # "" => FirstFree(<<a, b, d>>) \in {a, b, d} \ siblings
         /\ a # "" /\ a \notin siblings => FirstFree(<<a, b, d>>) = a
<1>0. PICK ids : ids = <<a, b, d>>
  OBVIOUS
<1> SUFFICES /\ FirstFree(ids) # "" => FirstFree(ids) \in {a, b, d} \ siblings
             /\ a # "" /\ a \notin siblings => FirstFree(ids) = a
  BY <1>0
<1>1. DOMAIN ids = 1..3 /\ ids[1] = a /\ ids[2] = b /\ ids[3] = d
  BY <1>0
<1>2. Free(ids) \subseteq 1..3 /\ \A i \in 1..3 : i \in Free(ids) <=> ids[i] # "" /\ ids[i] \notin siblings
  BY <1>1 DEF Free
<1>3. Free(ids) \in SUBSET {1, 2, 3} /\ (a # "" /\ a \notin siblings => 1 \in Free(ids))
  <2>1. 1..3 = {1, 2, 3}
    OBVIOUS
  <2> QED BY <1>1, <1>2, <2>1
<1>4. CASE Free(ids) = {}
  BY <1>3, <1>4 DEF FirstFree
<1>5. CASE Free(ids) # {}
  <2> DEFINE i == CHOOSE i \in Free(ids) : \A j \in Free(ids) : i <= j
  <2>1. i \in Free(ids) /\ \A j \in Free(ids) : i <= j
    BY <1>3, <1>5, LeastOfThree
  <2>2. FirstFree(ids) = ids[i]
    BY <1>5 DEF FirstFree
  <2> HIDE DEF i
  <2>3. ids[i] \in {a, b, d} /\ ids[i] \notin siblings
    BY <1>1, <1>2, <1>3, <2>1
  <2>4. 1 \in Free(ids) => i = 1
    <3>1. i \in 1..3
      BY <1>2, <2>1
    <3>2. 1 \in Free(ids) => i <= 1
      BY <2>1
    <3> QED BY <3>1, <3>2
  <2> QED BY <1>1, <1>3, <2>2, <2>3, <2>4
<1> QED BY <1>4, <1>5

\* A device is handed over, under an id that no sibling has or that may be given twice.
LEMMA HandsOverKeeps ==
  ASSUME CreationInv, NEW c \in Creations, NEW id \in LocalIds, HandsOver(c, id), LetsGo(c),
         creation[c].at \in Busy, UNCHANGED <<uaServer, siblings>>, localIndex' \in 0..Len(GeneratedIds),
         id \in siblings => creation[c].module = "tms" \/ id \in Range(GeneratedIds),
         creation[c].user # "" => id = creation[c].user \/ creation[c].user \in siblings
  PROVE  CreationInv'
<1> DEFINE under == {o \in Creations : creation[o].at = "made"}
<1>1. /\ creation \in [Creations -> CreationRecords] /\ \A o \in Creations : creation[o] \in CreationRecords
      /\ DOMAIN creation' = Creations /\ c \notin under
  BY DEF CreationInv, HandsOver, Busy
<1>2. /\ creation'[c] = [creation[c] EXCEPT !.at = "made", !.id = id, !.overlaps = under # {},
                                      !.info = InfoShown(@), !.free = creation[c].user \notin siblings]
      /\ \A o \in Creations : o # c => creation'[o] = IF o \in under THEN [creation[o] EXCEPT !.overlaps = TRUE] ELSE creation[o]
  BY DEF HandsOver
<1> HIDE DEF under
<1>3. InfoShown(creation[c].info) \in Infos /\ OfOneDevice(InfoShown(creation[c].info), creation[c].node)
  <2> DEFINE info == creation[c].info
  <2>1. info \in Infos /\ OfOneDevice(info, creation[c].node)
    BY <1>1 DEF CreationRecords, CreationInv, InfoIsOfOneDevice, OfOneDevice
  <2>2. CASE DOMAIN info = {}
    <3>1. InfoShown(info) = NoInfo /\ DOMAIN NoInfo = {}
      BY <2>2 DEF InfoShown, NoInfo
    <3> QED BY <3>1 DEF Infos, OfOneDevice
  <2>3. CASE DOMAIN info # {}
    <3>1. PICK node \in {creation[c].node} \cup Range(uaServer.deviceSet) :
            /\ info \in ReadsOf(node)
            /\ node # creation[c].node =>
                 \E i \in DOMAIN uaServer.deviceSet :
                   uaServer.deviceSet[i] = node /\ DevicesOf({t \in Range(uaServer.type) : IsDeviceType(t)}) = {i}
      BY <2>1, <2>3 DEF OfOneDevice
    <3>2. InfoShown(info) \in ReadsOf(node)
      BY <3>1, ShownIsRead
    <3>3. node \in Nodes \cup Range(uaServer.deviceSet)
      BY <1>1, <3>1 DEF CreationRecords
    <3> QED BY <3>1, <3>2, <3>3 DEF Infos, OfOneDevice
  <2> QED BY <2>2, <2>3
<1>4. /\ creation'[c] \in CreationRecords
      /\ creation'[c].at = "made" /\ creation'[c].id = id /\ creation'[c].overlaps = (under # {})
      /\ creation'[c].free = (creation[c].user \notin siblings) /\ creation'[c].user = creation[c].user
      /\ creation'[c].module = creation[c].module /\ creation'[c].node = creation[c].node
      /\ creation'[c].info = InfoShown(creation[c].info)
  <2>1. "made" \in Stages
    BY DEF Stages
  <2> QED BY <1>1, <1>2, <1>3, <2>1 DEF CreationRecords
<1>5. ASSUME NEW o \in Creations, o # c
      PROVE  /\ creation'[o] \in CreationRecords /\ creation'[o].at = creation[o].at /\ creation'[o].id = creation[o].id
             /\ creation'[o].free = creation[o].free /\ creation'[o].user = creation[o].user
             /\ creation'[o].module = creation[o].module /\ creation'[o].node = creation[o].node
             /\ creation'[o].info = creation[o].info /\ creation'[o].why = creation[o].why
             /\ creation'[o].overlaps = IF o \in under THEN TRUE ELSE creation[o].overlaps
  <2>1. creation[o] \in [at : Stages, module : Modules, user : UserIds \cup {""}, node : Nodes, info : Infos,
           id : LocalIds, free : BOOLEAN, overlaps : BOOLEAN, why : {"", "connection", "sibling"}]
    BY <1>1 DEF CreationRecords
  <2>2. CASE o \in under
    <3>1. creation'[o] = [creation[o] EXCEPT !.overlaps = TRUE]
      BY <1>2, <1>5, <2>2
    <3> QED BY <2>1, <2>2, <3>1 DEF CreationRecords
  <2>3. CASE o \notin under
    <3>1. creation'[o] = creation[o]
      BY <1>2, <1>5, <2>3
    <3> QED BY <1>1, <2>3, <3>1
  <2> QED BY <2>2, <2>3
<1>6. creation' \in [Creations -> CreationRecords]'
  <2>1. creation' = [o \in Creations |-> creation'[o]]
    BY DEF HandsOver
  <2>2. CreationRecords' = CreationRecords
    BY SameServer
  <2> HIDE DEF HandsOver
  <2> QED BY <1>4, <1>5, <2>1, <2>2
<1>7. LocksAreHeld'
  <2>1. \A o \in Creations : creation'[o].module \in Modules /\ creation[o].module \in Modules
    BY <1>1, <1>4, <1>5 DEF CreationRecords
  <2>2. creation'[c].at \notin Busy
    BY <1>4 DEF Busy
  <2>3. LocksAreHeld /\ sync' = [sync EXCEPT ![creation[c].module] = 0]
    BY DEF CreationInv, LetsGo
  <2> QED BY <1>5, <2>1, <2>2, <2>3, LocksGoOn
<1>8. StagesOfModules'
  <2> USE DEF StagesOfModules
  <2>0. StagesOfModules
    BY DEF CreationInv
  <2>1. ASSUME NEW o \in Creations, o # c, creation[o].at = "idle" PROVE creation'[o] = NotBegun
    <3>1. creation[o] = NotBegun /\ o \notin under
      BY <2>1, NotBegunIsRecord DEF CreationInv, StagesOfModules, under
    <3> QED BY <1>2, <2>1, <3>1
  <2>2. ASSUME NEW o \in Creations
        PROVE  /\ creation'[o].module = "tms" => creation'[o].user = ""
               /\ creation'[o].at \in {"typing", "rooting"} => creation'[o].module = "tms"
               /\ creation'[o].at = "idle" => creation'[o] = NotBegun
    BY <1>4, <1>5, <2>0, <2>1
  <2> QED BY <2>2
<1>9. WaitingOverlap'
  <2>1. WaitingOverlap /\ \A o \in Creations : o \in under <=> creation[o].at = "made"
    BY DEF CreationInv, under
  <2>2. ASSUME NEW o \in Creations, NEW x \in Creations, creation'[o].at = "made", creation'[x].at = "made", o # x
        PROVE  creation'[o].overlaps
    <3>1. CASE o = c
      BY <1>4, <1>5, <2>1, <2>2, <3>1
    <3>2. CASE o # c
      BY <1>5, <2>1, <2>2, <3>2
    <3> QED BY <3>1, <3>2
  <2>3. ASSUME NEW o \in Creations, creation'[o].at = "made", creation'[o].id \in siblings'
        PROVE  creation'[o].overlaps \/ creation'[o].module = "tms" \/ creation'[o].id \in Range(GeneratedIds)
    <3>1. CASE o = c
      BY <1>4, <2>3, <3>1
    <3>2. CASE o # c
      BY <1>5, <2>1, <2>3, <3>2 DEF WaitingOverlap
    <3> QED BY <3>1, <3>2
  <2> QED BY <2>2, <2>3 DEF WaitingOverlap
<1>10. InfoIsOfOneDevice'
  <2>1. \A o \in Creations : OfOneDevice(creation'[o].info, creation'[o].node)
    <3>1. \A o \in Creations : OfOneDevice(creation[o].info, creation[o].node)
      BY DEF CreationInv, InfoIsOfOneDevice, OfOneDevice
    <3> QED BY <1>3, <1>4, <1>5, <3>1
  <2>2. \A o \in Creations : OfOneDevice(creation[o].info, creation[o].node)'
    BY <2>1, SameServer
  <2> QED BY <2>2 DEF InfoIsOfOneDevice, OfOneDevice
<1>11. RefusedSiblingOverlaps'
  BY <1>4, <1>5 DEF CreationInv, RefusedSiblingOverlaps
<1>12. ConfiguredIdIsKept'
  BY <1>4, <1>5 DEF CreationInv, ConfiguredIdIsKept
<1>13. uaServer' \in UaServers
  BY DEF CreationInv
<1> QED BY <1>6, <1>7, <1>8, <1>9, <1>10, <1>11, <1>12, <1>13 DEF CreationInv

LEMMA MakeDeviceKeeps ==
  ASSUME CreationInv, NEW c \in Creations, MakeDevice(c) \/ MakeRootDevice(c)
  PROVE  CreationInv'
<1>1. /\ creation[c] \in CreationRecords /\ StagesOfModules /\ localIndex \in Nat /\ localIndex <= Len(GeneratedIds)
      /\ GeneratedIds \in Seq(STRING) /\ Len(GeneratedIds) \in Nat
  BY ClientModulesAssumption DEF CreationInv
<1>2. creation[c].at \in Busy
  BY DEF MakeDevice, MakeRootDevice, Busy
<1>3. CASE MakeDevice(c)
  <2> DEFINE configured == creation[c].user  info == creation[c].info  id == BuildDeviceLocalId(configured, info)
  <2>1. id = FirstFree(<<configured, IdOfInfo(info), TweakLocalId(uaServer.uri)>>)
    BY DEF BuildDeviceLocalId
  <2> HIDE DEF id
  <2>2. /\ id # "" => id \in {configured, IdOfInfo(info), TweakLocalId(uaServer.uri)} \ siblings
        /\ configured # "" /\ configured \notin siblings => id = configured
    BY <2>1, FirstFreeIsFree
  <2>3. {configured, IdOfInfo(info), TweakLocalId(uaServer.uri)} \subseteq LocalIds
    BY <1>1 DEF CreationRecords, LocalIds
  <2>4. localIndex < Len(GeneratedIds) /\ LetsGo(c) /\ UNCHANGED <<uaServer, siblings>>
    BY <1>3 DEF MakeDevice
  <2>5. CASE id # ""
    <3>1. HandsOver(c, id) /\ localIndex' = localIndex
      BY <1>3, <2>5 DEF MakeDevice, id
    <3>2. id \in LocalIds /\ id \notin siblings /\ (configured # "" => id = configured \/ configured \in siblings)
      BY <2>2, <2>3, <2>5
    <3>3. localIndex' \in 0..Len(GeneratedIds)
      BY <1>1, <3>1
    <3> QED BY <1>2, <2>4, <3>1, <3>2, <3>3, HandsOverKeeps
  <2>6. CASE id = ""
    <3>1. HandsOver(c, GeneratedIds[localIndex + 1]) /\ localIndex' = localIndex + 1
      BY <1>3, <2>6 DEF MakeDevice, id
    <3>2. localIndex + 1 \in DOMAIN GeneratedIds
      BY <1>1, <2>4
    <3>3. GeneratedIds[localIndex + 1] \in Range(GeneratedIds)
      BY <3>2 DEF Range
    <3>4. GeneratedIds[localIndex + 1] \in LocalIds
      BY <3>3 DEF LocalIds
    <3>5. localIndex' \in 0..Len(GeneratedIds)
      BY <1>1, <2>4, <3>1
    <3>6. configured # "" => configured \in siblings
      BY <2>2, <2>6
    <3> QED BY <1>2, <2>4, <3>1, <3>3, <3>4, <3>5, <3>6, HandsOverKeeps
  <2> QED BY <2>5, <2>6
<1>4. CASE MakeRootDevice(c)
  <2>1. creation[c].module = "tms" /\ creation[c].user = "" /\ creation[c].at = "rooting"
    BY <1>1, <1>4 DEF MakeRootDevice, StagesOfModules
  <2>2. CASE Fails(c, "connection")
    BY <1>2, <1>4, <2>2, FailKeeps DEF MakeRootDevice
  <2>3. CASE uaServer.roots # << >> /\ HandsOver(c, Head(uaServer.roots)) /\ LetsGo(c)
    <3>1. uaServer.roots \in Seq(STRING) /\ uaServer.roots # << >>
      BY <2>3, ClientModulesAssumption DEF CreationInv
    <3>2. Head(uaServer.roots) \in Range(uaServer.roots)
      BY <3>1, HeadTailProperties DEF Range
    <3>3. Head(uaServer.roots) \in LocalIds
      BY <3>2 DEF LocalIds
    <3>4. UNCHANGED <<uaServer, siblings, localIndex>> /\ localIndex' \in 0..Len(GeneratedIds)
      BY <1>4 DEF MakeRootDevice, CreationInv
    <3>5. UNCHANGED <<uaServer, siblings>>
      BY <3>4
    <3>6. PICK id \in LocalIds : HandsOver(c, id)
      BY <2>3, <3>3
    <3>7. id \in siblings => creation[c].module = "tms" \/ id \in Range(GeneratedIds)
      BY <2>1
    <3>8. creation[c].user # "" => id = creation[c].user \/ creation[c].user \in siblings
      BY <2>1
    <3>9. localIndex' \in 0..Len(GeneratedIds) /\ LetsGo(c)
      BY <2>3, <3>4
    <3> QED BY <1>2, <3>5, <3>6, <3>7, <3>8, <3>9, HandsOverKeeps
  <2> QED BY <1>4, <2>2, <2>3 DEF MakeRootDevice
<1> QED BY <1>3, <1>4

\* What is added has its place, what is removed leaves it.
LEMMA AddKeeps ==
  ASSUME CreationInv, NEW c \in Creations, Add(c) \/ RemoveDevice(c)
  PROVE  CreationInv'
<1>1. /\ creation \in [Creations -> CreationRecords] /\ creation[c] \in CreationRecords /\ StagesOfModules
      /\ creation[c].at \in {"made", "added", "failed"} /\ UNCHANGED <<uaServer, sync, localIndex>>
  BY DEF CreationInv, Add, RemoveDevice
<1>2. PICK r : r = creation'[c]
  OBVIOUS
<1>3. creation' = [creation EXCEPT ![c] = r] /\ \A o \in Creations : o # c => creation'[o] = creation[o]
  BY <1>1, <1>2 DEF Add, RemoveDevice
<1>4. CASE Add(c)
  <2>1. /\ creation[c].at = "made" /\ siblings' = siblings \cup {creation[c].id}
        /\ r = IF creation[c].id \in siblings THEN [creation[c] EXCEPT !.at = "failed", !.why = "sibling"]
                ELSE [creation[c] EXCEPT !.at = "added", !.why = ""]
    BY <1>1, <1>2, <1>4 DEF Add
  <2>2. /\ r \in CreationRecords /\ r.at \in {"failed", "added"} /\ r.module = creation[c].module /\ r.user = creation[c].user
        /\ r.info = creation[c].info /\ r.node = creation[c].node /\ r.id = creation[c].id /\ r.free = creation[c].free
        /\ r.overlaps = creation[c].overlaps /\ (r.at = "failed" => creation[c].id \in siblings)
    <3>1. {"failed", "added"} \subseteq Stages
      BY DEF Stages
    <3> QED BY <1>1, <2>1, <3>1 DEF CreationRecords
  <2>3. LocksAreHeld'
    <3>1. \A o \in Creations : creation'[o].module \in Modules
      BY <1>1, <1>2, <1>3, <2>2 DEF CreationRecords
    <3>2. creation[c].at \notin Busy /\ creation'[c].at \notin Busy
      BY <1>2, <2>1, <2>2 DEF Busy
    <3> QED BY <1>1, <1>3, <3>1, <3>2, LocksGoOn DEF CreationInv
  <2>4. WaitingOverlap'
    BY <1>2, <1>3, <2>1, <2>2 DEF CreationInv, WaitingOverlap
  <2>5. RefusedSiblingOverlaps'
    BY <1>2, <1>3, <2>1, <2>2 DEF CreationInv, RefusedSiblingOverlaps, WaitingOverlap
  <2>6. ConfiguredIdIsKept'
    BY <1>2, <1>3, <2>1, <2>2 DEF CreationInv, ConfiguredIdIsKept
  <2>7. StagesOfModules'
    <3>1. r.at \notin {"typing", "rooting", "idle"}
      BY <2>2
    <3>2. creation'[c] = r /\ (r.module = "tms" => r.user = "")
      BY <1>1, <1>2, <2>2 DEF StagesOfModules
    <3> QED BY <1>1, <1>3, <3>1, <3>2 DEF StagesOfModules
  <2>8. creation' \in [Creations -> CreationRecords]
    BY <1>1, <1>3, <2>2
  <2>9. \A o \in Creations : OfOneDevice(creation'[o].info, creation'[o].node)
    BY <1>2, <1>3, <2>2, NodesOfInfos
  <2> QED BY <1>1, <2>3, <2>4, <2>5, <2>6, <2>7, <2>8, <2>9, Together
<1>5. CASE RemoveDevice(c)
  <2>1. r = NotBegun /\ siblings' \subseteq siblings /\ creation[c].at \in {"added", "failed"}
    BY <1>1, <1>2, <1>5 DEF RemoveDevice
  <2>2. LocksAreHeld'
    <3>1. \A o \in Creations : creation'[o].module \in Modules
      BY <1>1, <1>2, <1>3, <2>1, NotBegunIsRecord DEF CreationRecords
    <3>2. creation[c].at \notin Busy /\ creation'[c].at \notin Busy
      BY <1>2, <2>1, NotBegunIsRecord DEF Busy
    <3> QED BY <1>1, <1>3, <3>1, <3>2, LocksGoOn DEF CreationInv
  <2>3. WaitingOverlap'
    BY <1>2, <1>3, <2>1, NotBegunIsRecord DEF CreationInv, WaitingOverlap
  <2>4. RefusedSiblingOverlaps'
    BY <1>2, <1>3, <2>1, NotBegunIsRecord DEF CreationInv, RefusedSiblingOverlaps
  <2>5. ConfiguredIdIsKept'
    BY <1>2, <1>3, <2>1, NotBegunIsRecord DEF CreationInv, ConfiguredIdIsKept
  <2>6. StagesOfModules'
    BY <1>2, <1>3, <2>1, NotBegunIsRecord DEF CreationInv, StagesOfModules
  <2>7. creation' \in [Creations -> CreationRecords]
    BY <1>1, <1>3, <2>1, NotBegunIsRecord
  <2>8. \A o \in Creations : OfOneDevice(creation'[o].info, creation'[o].node)
    BY <1>2, <1>3, <2>1, NotBegunIsRecord, NodesOfInfos DEF OfOneDevice
  <2> QED BY <1>1, <2>2, <2>3, <2>4, <2>5, <2>6, <2>7, <2>8, Together
<1> QED BY <1>4, <1>5

LEMMA CreationStep ==
  ASSUME CreationInv, [CreateNext]_creationVars
  PROVE  CreationInv'
<1>1. CASE UNCHANGED creationVars
  <2>1. LocksAreHeld' /\ StagesOfModules' /\ WaitingOverlap' /\ RefusedSiblingOverlaps' /\ ConfiguredIdIsKept'
    BY <1>1 DEF creationVars, CreationInv, LocksAreHeld, StagesOfModules, WaitingOverlap, RefusedSiblingOverlaps, ConfiguredIdIsKept
  <2>2. creation' \in [Creations -> CreationRecords] /\ \A o \in Creations : OfOneDevice(creation'[o].info, creation'[o].node)
    BY <1>1, NodesOfInfos DEF creationVars, CreationInv
  <2> QED BY <1>1, <2>1, <2>2, Together DEF creationVars
<1>2. ASSUME NEW c \in Creations, NEW module \in Modules, NEW configured \in UserIds, NEW node \in Nodes, Begin(c, module, configured, node)
      PROVE  CreationInv'
  BY <1>2, CreationBegins
<1>3. ASSUME NEW c \in Creations,
             \/ ConnectTo(c) \/ Describe(c) \/ ReadConfigured(c) \/ ReadFound(c) \/ MakeDevice(c)
             \/ RegisterTypes(c) \/ MakeRootDevice(c) \/ Add(c) \/ RemoveDevice(c)
      PROVE  CreationInv'
  BY <1>3, ConnectKeeps, ReadKeeps, MakeDeviceKeeps, AddKeeps
<1> QED BY <1>1, <1>2, <1>3 DEF CreateNext, Nodes

-----------------------------------------------------------------------------
(* The completion of a capability *)

Links == [prefix : Modules, host : STRING, port : Int]
LinkedAddresses == [address : STRING, string : Links]
CapabilityRecords ==
  [protocol : Modules, prefix : Modules, tcp : BOOLEAN, port : Int, addresses : Seq(STRING),
   infos : Seq(LinkedAddresses), strings : Seq(Links), primary : Seq(Links)]

\* A capability that leads to each of its addresses once.
Leads(capability) ==
  /\ capability \in CapabilityRecords /\ capability.prefix = capability.protocol
  /\ Len(capability.addresses) = Len(capability.infos) /\ IsInjective(capability.addresses)
  /\ \A i \in 1..Len(capability.infos) :
       /\ capability.addresses[i] = capability.infos[i].address
       /\ capability.infos[i].string.prefix = capability.prefix
       /\ capability.infos[i].string.host = capability.infos[i].address

TargetInv ==
  /\ Leads(target)
  /\ completed = << >> \/ \E source \in KnownServers :
       /\ completed = <<source>> /\ target.port # -1
       /\ \A i \in 1..Len(source.infos) : source.infos[i].address \in Range(target.addresses)

LEMMA DiscoveredLeads ==
  ASSUME NEW server \in KnownServers \cup Targets
  PROVE  Leads(server)
<1>1. PICK module \in Modules, port \in {0, server.port} :
        port \in Nat /\ server = Discovered(module, server.addresses, port)
  BY ClientModulesAssumption
<1>2. PICK addresses : addresses = server.addresses /\ addresses \in Seq(STRING) /\ IsInjective(addresses)
  BY ClientModulesAssumption
<1>3. server = Discovered(module, addresses, port)
  BY <1>1, <1>2
<1>4. Len(addresses) \in Nat /\ DOMAIN addresses = 1..Len(addresses) /\ \A i \in 1..Len(addresses) : addresses[i] \in STRING
  BY <1>2
<1> DEFINE link(i) == ConnectionString(module, addresses[i], port)
           infos == [i \in DOMAIN addresses |-> [address |-> addresses[i], string |-> link(i)]]
           strings == [i \in DOMAIN addresses |-> link(i)]
<1>5. \A i \in 1..Len(addresses) : /\ link(i) \in Links /\ link(i).prefix = module /\ link(i).host = addresses[i]
  BY <1>1, <1>4 DEF ConnectionString, Links
<1> HIDE DEF link
<1>6. /\ infos \in Seq(LinkedAddresses) /\ Len(infos) = Len(addresses) /\ strings \in Seq(Links)
      /\ \A i \in 1..Len(addresses) : infos[i].address = addresses[i] /\ infos[i].string = link(i)
  <2>1. infos \in [1..Len(addresses) -> LinkedAddresses] /\ strings \in [1..Len(addresses) -> Links]
    BY <1>4, <1>5 DEF LinkedAddresses
  <2>2. \A i \in 1..Len(addresses) : infos[i].address = addresses[i] /\ infos[i].string = link(i)
    BY <1>4
  <2> HIDE DEF infos, strings
  <2> QED BY <1>4, <2>1, <2>2
<1> HIDE DEF infos, strings
<1>7. /\ server.protocol = module /\ server.prefix = module /\ server.tcp = TRUE /\ server.port \in Int
      /\ server.infos = infos /\ server.strings = strings /\ server.primary = << >>
  BY <1>1, <1>3 DEF Discovered, infos, strings, link
<1>8. server \in CapabilityRecords
  <2>1. << >> \in Seq(Links)
    OBVIOUS
  <2>2. server = [protocol |-> server.protocol, prefix |-> server.prefix, tcp |-> server.tcp, port |-> server.port,
                  addresses |-> server.addresses, infos |-> server.infos, strings |-> server.strings, primary |-> server.primary]
    BY <1>3 DEF Discovered
  <2> QED BY <1>2, <1>6, <1>7, <2>1, <2>2 DEF CapabilityRecords
<1> QED BY <1>2, <1>5, <1>6, <1>7, <1>8 DEF Leads

LEMMA TargetInitially == ClientModulesInit => TargetInv
BY DiscoveredLeads DEF ClientModulesInit, TargetInv

\* What is missing of a source is listed whole, each once.
LEMMA MissingIsAll ==
  ASSUME NEW source \in KnownServers, NEW to, NEW places \in Missing(source, to)
  PROVE  /\ Len(places) \in Nat /\ places \in Seq(1..Len(source.infos))
         /\ \A i, j \in 1..Len(places) : places[i] = places[j] => i = j
         /\ \A k \in 1..Len(source.infos) :
              source.infos[k].address \notin Range(to.addresses) <=> \E i \in 1..Len(places) : places[i] = k
<1> DEFINE Set == {i \in DOMAIN source.infos : source.infos[i].address \notin Range(to.addresses)}
<1>1. Len(source.infos) \in Nat /\ DOMAIN source.infos = 1..Len(source.infos)
  BY DiscoveredLeads DEF Leads, CapabilityRecords
<1>2. IsFiniteSet(Set) /\ Set \subseteq 1..Len(source.infos)
  <2>1. IsFiniteSet(1..Len(source.infos))
    BY <1>1, FS_Interval
  <2>2. Set \in SUBSET (1..Len(source.infos))
    BY <1>1
  <2> HIDE DEF Set
  <2> QED BY <2>1, <2>2, FS_Subset
<1>3. places \in SetToSeqs(Set)
  BY DEF Missing
<1> HIDE DEF Set
<1>4. PICK n \in Nat : n = Cardinality(Set) /\ places \in [1..n -> Set] /\ \A i, j \in 1..n : i # j => places[i] # places[j]
  BY <1>2, <1>3, FS_CardinalityType DEF SetToSeqs
<1>5. places \in Surjection(1..n, Set)
  <2>1. places \in Injection(1..n, Set)
    BY <1>4 DEF Injection, IsInjective
  <2>2. Cardinality(1..n) = n /\ IsFiniteSet(1..n)
    BY <1>4, FS_Interval
  <2> QED BY <1>2, <1>4, <2>1, <2>2, FS_Injection
<1>6. \A k \in Set : \E i \in 1..n : places[i] = k
  BY <1>5 DEF Surjection
<1>7. places \in Seq(1..Len(source.infos)) /\ Len(places) = n
  <2>1. ASSUME NEW S, Set \subseteq S PROVE places \in Seq(S) /\ Len(places) = n
    <3>1. places \in [1..n -> S]
      BY <1>4, <2>1
    <3> QED BY <3>1
  <2> QED BY <1>2, <2>1
<1>8. \A k \in 1..Len(source.infos) : k \in Set <=> source.infos[k].address \notin Range(to.addresses)
  BY <1>1 DEF Set
<1> QED BY <1>4, <1>6, <1>7, <1>8

\* One list behind another, neither of which has an element twice.
LEMMA JoinedOnce ==
  ASSUME NEW S, NEW s \in Seq(S), NEW t \in Seq(S), IsInjective(s),
         \A i, j \in 1..Len(t) : t[i] = t[j] => i = j,
         \A i \in 1..Len(s), j \in 1..Len(t) : s[i] # t[j]
  PROVE  IsInjective(s \o t)
<1>1. /\ s \o t \in Seq(S) /\ Len(s \o t) = Len(s) + Len(t) /\ Len(s) \in Nat /\ Len(t) \in Nat
      /\ \A i \in 1..(Len(s) + Len(t)) : (s \o t)[i] = IF i <= Len(s) THEN s[i] ELSE t[i - Len(s)]
  BY ConcatProperties
<1>2. DOMAIN (s \o t) = 1..(Len(s) + Len(t)) /\ DOMAIN s = 1..Len(s)
  BY <1>1
<1>3. \A i, j \in 1..Len(s) : s[i] = s[j] => i = j
  BY <1>2 DEF IsInjective
<1>4. ASSUME NEW i \in 1..(Len(s) + Len(t)), NEW j \in 1..(Len(s) + Len(t)), (s \o t)[i] = (s \o t)[j]
      PROVE  i = j
  <2>1. CASE i <= Len(s) /\ j <= Len(s)
    BY <1>1, <1>3, <1>4, <2>1
  <2>2. CASE ~(i <= Len(s)) /\ ~(j <= Len(s))
    <3>1. i - Len(s) \in 1..Len(t) /\ j - Len(s) \in 1..Len(t) /\ t[i - Len(s)] = t[j - Len(s)]
      BY <1>1, <1>4, <2>2
    <3>2. i - Len(s) = j - Len(s)
      BY <3>1
    <3> QED BY <1>1, <3>2
  <2>3. CASE i <= Len(s) /\ ~(j <= Len(s))
    <3>1. i \in 1..Len(s) /\ j - Len(s) \in 1..Len(t) /\ s[i] = t[j - Len(s)]
      BY <1>1, <1>4, <2>3
    <3> QED BY <3>1
  <2>4. CASE ~(i <= Len(s)) /\ j <= Len(s)
    <3>1. j \in 1..Len(s) /\ i - Len(s) \in 1..Len(t) /\ s[j] = t[i - Len(s)]
      BY <1>1, <1>4, <2>4
    <3> QED BY <3>1
  <2> QED BY <2>1, <2>2, <2>3, <2>4
<1> QED BY <1>2, <1>4 DEF IsInjective

\* What is added to a capability leads to the addresses of the source.
LEMMA NewLead ==
  ASSUME NEW source \in KnownServers, NEW to, Leads(to), NEW places \in Missing(source, to)
  PROVE  /\ NewInfos(source, to, places) \in Seq(LinkedAddresses) /\ NewAddresses(source, places) \in Seq(STRING)
         /\ Len(NewInfos(source, to, places)) = Len(places) /\ Len(NewAddresses(source, places)) = Len(places)
         /\ \A i \in 1..Len(places) :
              /\ NewInfos(source, to, places)[i].address = NewAddresses(source, places)[i]
              /\ NewInfos(source, to, places)[i].string.prefix = to.prefix
              /\ NewInfos(source, to, places)[i].string.host = NewAddresses(source, places)[i]
              /\ NewAddresses(source, places)[i] = source.infos[places[i]].address
              /\ NewAddresses(source, places)[i] = source.addresses[places[i]]
<1>1. /\ Len(places) \in Nat /\ \A i \in 1..Len(places) : places[i] \in 1..Len(source.infos)
      /\ DOMAIN places = 1..Len(places)
  BY MissingIsAll
<1>2. Leads(source)
  BY DiscoveredLeads
<1>3. to.prefix \in Modules /\ to.port \in Int
  BY DEF Leads, CapabilityRecords
<1> DEFINE info(i) == source.infos[places[i]]
<1>4. ASSUME NEW i \in 1..Len(places)
      PROVE  /\ info(i) \in LinkedAddresses /\ info(i).string.prefix = source.prefix
             /\ info(i).string.host = info(i).address /\ info(i).address = source.addresses[places[i]]
  BY <1>1, <1>2 DEF Leads, CapabilityRecords
<1> HIDE DEF info
<1>5. ASSUME NEW i \in 1..Len(places)
      PROVE  /\ StringFor(source, to, info(i)) \in Links /\ StringFor(source, to, info(i)).prefix = to.prefix
             /\ StringFor(source, to, info(i)).host = info(i).address
  BY <1>3, <1>4 DEF StringFor, ConnectionString, Links, LinkedAddresses
<1>6. /\ NewInfos(source, to, places) = [i \in 1..Len(places) |-> [address |-> info(i).address, string |-> StringFor(source, to, info(i))]]
      /\ NewAddresses(source, places) = [i \in 1..Len(places) |-> info(i).address]
  BY <1>1 DEF NewInfos, NewAddresses, info
<1>7. ASSUME NEW i \in 1..Len(places)
      PROVE  [address |-> info(i).address, string |-> StringFor(source, to, info(i))] \in LinkedAddresses /\ info(i).address \in STRING
  BY <1>4, <1>5 DEF LinkedAddresses
<1>8. /\ NewInfos(source, to, places) \in [1..Len(places) -> LinkedAddresses]
      /\ NewAddresses(source, places) \in [1..Len(places) -> STRING]
  BY <1>6, <1>7
<1>9. /\ NewInfos(source, to, places) \in Seq(LinkedAddresses) /\ NewAddresses(source, places) \in Seq(STRING)
      /\ Len(NewInfos(source, to, places)) = Len(places) /\ Len(NewAddresses(source, places)) = Len(places)
  BY <1>1, <1>8
<1>10. \A i \in 1..Len(places) : info(i) = source.infos[places[i]]
  BY DEF info
<1> QED BY <1>4, <1>5, <1>6, <1>9, <1>10


\* The port a capability is given changes nothing of its addresses.
LEMMA PortIsGiven ==
  ASSUME NEW capability, Leads(capability)
  PROVE  /\ Leads(WithPort(capability)) /\ WithPort(capability).port # -1
         /\ WithPort(capability).infos = capability.infos /\ WithPort(capability).addresses = capability.addresses
         /\ (capability.port # -1 => WithPort(capability) = capability)
<1>1. capability \in CapabilityRecords
  BY DEF Leads
<1>2. PICK port \in Int : port = IF capability.port = -1 THEN 4840 ELSE capability.port
  BY <1>1 DEF CapabilityRecords
<1>3. WithPort(capability) = [capability EXCEPT !.port = port] /\ port # -1
  BY <1>2 DEF WithPort
<1>4. WithPort(capability) \in CapabilityRecords
  BY <1>1, <1>3 DEF CapabilityRecords
<1>5. /\ WithPort(capability).port # -1 /\ WithPort(capability).infos = capability.infos
      /\ WithPort(capability).addresses = capability.addresses
      /\ WithPort(capability).protocol = capability.protocol /\ WithPort(capability).prefix = capability.prefix
  BY <1>1, <1>3 DEF CapabilityRecords
<1>6. capability.port # -1 => WithPort(capability) = capability
  BY <1>1, <1>2, <1>3 DEF CapabilityRecords
<1> QED BY <1>4, <1>5, <1>6 DEF Leads

\* One list behind another, element by element.
LEMMA Joined ==
  ASSUME NEW S, NEW s \in Seq(S), NEW t \in Seq(S)
  PROVE  /\ s \o t \in Seq(S) /\ Len(s \o t) = Len(s) + Len(t) /\ DOMAIN (s \o t) = 1..(Len(s) + Len(t))
         /\ \A i \in 1..(Len(s) + Len(t)) : (s \o t)[i] = IF i <= Len(s) THEN s[i] ELSE t[i - Len(s)]
BY ConcatProperties

\* A capability with the missing addresses of a source behind its own leads to the
\* addresses of both.
LEMMA LengthenedLeads ==
  ASSUME NEW source \in KnownServers, NEW to, Leads(to), NEW places \in Missing(source, to)
  PROVE  /\ Leads(Lengthened(source, to, places)) /\ Lengthened(source, to, places).port = to.port
         /\ \A k \in 1..Len(source.infos) : source.infos[k].address \in Range(Lengthened(source, to, places).addresses)
         /\ ((\A k \in 1..Len(source.infos) : source.infos[k].address \in Range(to.addresses)) =>
               Lengthened(source, to, places) = to)
<1> DEFINE longer == Lengthened(source, to, places)
<1>1. PICK infos, addresses, n : infos = NewInfos(source, to, places) /\ addresses = NewAddresses(source, places) /\ n = Len(places)
  OBVIOUS
<1>2. /\ n \in Nat /\ infos \in Seq(LinkedAddresses) /\ addresses \in Seq(STRING) /\ Len(infos) = n /\ Len(addresses) = n
      /\ \A i \in 1..n : places[i] \in 1..Len(source.infos)
  BY <1>1, MissingIsAll, NewLead
<1>3. \A i \in 1..n :
        /\ infos[i].address = addresses[i] /\ infos[i].string.prefix = to.prefix /\ infos[i].string.host = addresses[i]
        /\ addresses[i] = source.infos[places[i]].address /\ addresses[i] = source.addresses[places[i]]
  BY <1>1, NewLead
<1>4. /\ \A i, j \in 1..n : places[i] = places[j] => i = j
      /\ \A k \in 1..Len(source.infos) :
           source.infos[k].address \notin Range(to.addresses) <=> \E i \in 1..n : places[i] = k
  <2>1. n = Len(places)
    BY <1>1
  <2> HIDE <1>1
  <2>2. \A i, j \in 1..n : places[i] = places[j] => i = j
    BY <2>1, MissingIsAll
  <2>3. \A k \in 1..Len(source.infos) :
           source.infos[k].address \notin Range(to.addresses) <=> \E i \in 1..n : places[i] = k
    BY <2>1, MissingIsAll
  <2> QED BY <2>2, <2>3
<1>5. /\ to \in CapabilityRecords /\ to.infos \in Seq(LinkedAddresses) /\ to.addresses \in Seq(STRING) /\ to.primary \in Seq(Links)
      /\ Len(to.addresses) = Len(to.infos) /\ Len(to.infos) \in Nat
  BY DEF Leads, CapabilityRecords
<1>6. longer = [to EXCEPT !.infos = to.infos \o infos, !.addresses = to.addresses \o addresses,
                          !.primary = IF infos = << >> THEN to.primary ELSE <<Last(infos).string>>]
  BY <1>1 DEF Lengthened
<1> HIDE DEF longer
<1>7. /\ longer.infos = to.infos \o infos /\ longer.addresses = to.addresses \o addresses
      /\ longer.prefix = to.prefix /\ longer.protocol = to.protocol /\ longer.port = to.port
  BY <1>5, <1>6 DEF CapabilityRecords
<1>8. longer \in CapabilityRecords
  <2>1. to.infos \o infos \in Seq(LinkedAddresses)
    BY <1>2, <1>5, ConcatProperties
  <2>2. to.addresses \o addresses \in Seq(STRING)
    BY <1>2, <1>5, ConcatProperties
  <2>3. (IF infos = << >> THEN to.primary ELSE <<Last(infos).string>>) \in Seq(Links)
    <3>1. CASE infos # << >>
      <4>1. n # 0
        BY <1>2, <3>1, EmptySeq
      <4>2. infos[n] \in LinkedAddresses /\ Last(infos) = infos[n]
        BY <1>2, <4>1 DEF Last
      <4>3. Last(infos).string \in Links
        BY <4>2 DEF LinkedAddresses
      <4> QED BY <3>1, <4>3
    <3>2. CASE infos = << >>
      BY <1>5, <3>2
    <3> QED BY <3>1, <3>2
  <2> QED BY <1>5, <1>6, <2>1, <2>2, <2>3 DEF CapabilityRecords
<1>9. /\ Len(to.infos \o infos) = Len(to.infos) + n
      /\ \A i \in 1..(Len(to.infos) + n) :
            (to.infos \o infos)[i] = IF i <= Len(to.infos) THEN to.infos[i] ELSE infos[i - Len(to.infos)]
  <2>1. ASSUME NEW s \in Seq(LinkedAddresses), NEW t \in Seq(LinkedAddresses)
        PROVE  /\ Len(s \o t) = Len(s) + Len(t)
               /\ \A i \in 1..(Len(s) + Len(t)) : (s \o t)[i] = IF i <= Len(s) THEN s[i] ELSE t[i - Len(s)]
    BY Joined
  <2>2. to.infos \in Seq(LinkedAddresses) /\ infos \in Seq(LinkedAddresses) /\ Len(infos) = n
    BY <1>2, <1>5
  <2> HIDE <1>5
  <2> QED BY <2>1, <2>2
<1>10. /\ Len(to.addresses \o addresses) = Len(to.addresses) + n /\ DOMAIN (to.addresses \o addresses) = 1..(Len(to.addresses) + n)
       /\ \A i \in 1..(Len(to.addresses) + n) :
            (to.addresses \o addresses)[i] = IF i <= Len(to.addresses) THEN to.addresses[i] ELSE addresses[i - Len(to.addresses)]
  <2>1. ASSUME NEW s \in Seq(STRING), NEW t \in Seq(STRING)
        PROVE  /\ Len(s \o t) = Len(s) + Len(t) /\ DOMAIN (s \o t) = 1..(Len(s) + Len(t))
               /\ \A i \in 1..(Len(s) + Len(t)) : (s \o t)[i] = IF i <= Len(s) THEN s[i] ELSE t[i - Len(s)]
    BY Joined
  <2>2. to.addresses \in Seq(STRING) /\ addresses \in Seq(STRING) /\ Len(addresses) = n
    BY <1>2, <1>5
  <2> HIDE <1>5
  <2> QED BY <2>1, <2>2
<1>11. /\ DOMAIN to.addresses = 1..Len(to.infos) /\ DOMAIN (to.addresses \o addresses) = 1..(Len(to.infos) + n)
       /\ Len(to.addresses \o addresses) = Len(to.infos) + n
       /\ \A i \in 1..(Len(to.infos) + n) :
            (to.addresses \o addresses)[i] = IF i <= Len(to.infos) THEN to.addresses[i] ELSE addresses[i - Len(to.infos)]
  <2>1. Len(to.addresses) = Len(to.infos) /\ DOMAIN to.addresses = 1..Len(to.addresses)
    BY <1>5
  <2> QED BY <1>10, <2>1
<1>12. IsInjective(to.addresses \o addresses)
  <2>1. \A i \in 1..Len(to.addresses), j \in 1..Len(addresses) : to.addresses[i] # addresses[j]
    <3>1. \A j \in 1..n : addresses[j] \notin Range(to.addresses)
      BY <1>2, <1>3, <1>4
    <3>2. \A i \in 1..Len(to.addresses) : to.addresses[i] \in Range(to.addresses)
      BY <1>5, <1>11 DEF Range
    <3> QED BY <1>2, <3>1, <3>2
  <2>2. \A i, j \in 1..Len(addresses) : addresses[i] = addresses[j] => i = j
    <3>1. IsInjective(source.addresses) /\ source.addresses \in Seq(STRING) /\ Len(source.addresses) = Len(source.infos)
      BY DiscoveredLeads DEF Leads, CapabilityRecords
    <3>2. \A k, l \in 1..Len(source.infos) : source.addresses[k] = source.addresses[l] => k = l
      BY <3>1 DEF IsInjective
    <3> QED BY <1>2, <1>3, <1>4, <3>2
  <2>3. IsInjective(to.addresses)
    BY DEF Leads
  <2> QED BY <1>2, <1>5, <2>1, <2>2, <2>3, JoinedOnce
<1>13. ASSUME NEW i \in 1..(Len(to.infos) + n)
       PROVE  /\ (to.addresses \o addresses)[i] = (to.infos \o infos)[i].address
              /\ (to.infos \o infos)[i].string.prefix = to.prefix
              /\ (to.infos \o infos)[i].string.host = (to.infos \o infos)[i].address
  <2>1. CASE i <= Len(to.infos)
    <3>1. i \in 1..Len(to.infos)
      BY <1>5, <2>1
    <3>2. (to.addresses \o addresses)[i] = to.addresses[i] /\ (to.infos \o infos)[i] = to.infos[i]
      BY <1>9, <1>11, <2>1
    <3> QED BY <3>1, <3>2 DEF Leads
  <2>2. CASE ~(i <= Len(to.infos))
    <3>1. i - Len(to.infos) \in 1..n
      BY <1>2, <1>5, <2>2
    <3>2. (to.addresses \o addresses)[i] = addresses[i - Len(to.infos)] /\ (to.infos \o infos)[i] = infos[i - Len(to.infos)]
      BY <1>9, <1>11, <2>2
    <3> QED BY <1>3, <3>1, <3>2
  <2> QED BY <2>1, <2>2
<1>14. Leads(longer)
  <2>1. longer.prefix = longer.protocol
    BY <1>7 DEF Leads
  <2>2. Len(longer.addresses) = Len(longer.infos) /\ Len(longer.infos) = Len(to.infos) + n /\ IsInjective(longer.addresses)
    BY <1>7, <1>9, <1>11, <1>12
  <2> QED BY <1>7, <1>8, <1>13, <2>1, <2>2 DEF Leads
<1>15. ASSUME NEW k \in 1..Len(source.infos)
       PROVE  source.infos[k].address \in Range(longer.addresses)
  <2>1. CASE source.infos[k].address \in Range(to.addresses)
    <3>1. PICK i \in 1..Len(to.infos) : to.addresses[i] = source.infos[k].address
      BY <1>11, <2>1 DEF Range
    <3>2. i \in 1..(Len(to.infos) + n) /\ (to.addresses \o addresses)[i] = source.infos[k].address
      BY <1>2, <1>5, <1>11, <3>1
    <3> QED BY <1>7, <1>11, <3>2 DEF Range
  <2>2. CASE source.infos[k].address \notin Range(to.addresses)
    <3>1. PICK i \in 1..n : places[i] = k
      BY <1>4, <2>2
    <3>2. addresses[i] = source.infos[k].address
      BY <1>3, <3>1
    <3>3. Len(to.infos) + i \in 1..(Len(to.infos) + n) /\ Len(to.infos) + i - Len(to.infos) = i /\ ~(Len(to.infos) + i <= Len(to.infos))
      BY <1>2, <1>5, <3>1
    <3>4. (to.addresses \o addresses)[Len(to.infos) + i] = source.infos[k].address
      <4> DEFINE j == Len(to.infos) + i
      <4>1. j \in 1..(Len(to.infos) + n) /\ j - Len(to.infos) = i /\ ~(j <= Len(to.infos))
        BY <3>3
      <4> HIDE DEF j
      <4>2. (to.addresses \o addresses)[j] = addresses[i]
        BY <1>11, <4>1
      <4> QED BY <3>2, <4>2 DEF j
    <3> QED BY <1>7, <1>11, <3>3, <3>4 DEF Range
  <2> QED BY <2>1, <2>2
<1>16. ASSUME \A k \in 1..Len(source.infos) : source.infos[k].address \in Range(to.addresses) PROVE longer = to
  <2>1. n = 0
    <3>1. \A i \in 1..n : FALSE
      BY <1>2, <1>4, <1>16
    <3> QED BY <1>2, <3>1
  <2>2. infos = << >> /\ addresses = << >>
    BY <1>2, <2>1, EmptySeq
  <2>3. to.infos \o infos = to.infos
    BY <1>5, <2>2, ConcatEmptySeq
  <2>4. to.addresses \o addresses = to.addresses
    BY <1>5, <2>2, ConcatEmptySeq
  <2> QED BY <1>5, <1>6, <2>2, <2>3, <2>4 DEF CapabilityRecords
<1> QED BY <1>7, <1>14, <1>15, <1>16 DEF longer

LEMMA CompletionLeads ==
  ASSUME TargetInv, NEW source \in KnownServers, Complete(source)
  PROVE  TargetInv' /\ (completed = <<source>> => target' = target)
<1>1. /\ Leads(WithPort(target)) /\ WithPort(target).port # -1
      /\ (target.port # -1 => WithPort(target) = target)
  BY PortIsGiven DEF TargetInv
<1>2. PICK places \in Missing(source, WithPort(target)) : target' = Lengthened(source, WithPort(target), places)
  BY DEF Complete
<1>3. completed' = <<source>>
  BY DEF Complete
<1>4. /\ Leads(target') /\ target'.port # -1
      /\ \A k \in 1..Len(source.infos) : source.infos[k].address \in Range(target'.addresses)
  BY <1>1, <1>2, LengthenedLeads
<1>5. TargetInv'
  BY <1>3, <1>4 DEF TargetInv, Leads
<1>6. ASSUME completed = <<source>> PROVE target' = target
  <2>1. PICK s \in KnownServers :
          /\ completed = <<s>> /\ target.port # -1
          /\ \A i \in 1..Len(s.infos) : s.infos[i].address \in Range(target.addresses)
    BY <1>6 DEF TargetInv
  <2>2. s = source
    BY <1>6, <2>1
  <2>3. WithPort(target) = target /\ \A k \in 1..Len(source.infos) : source.infos[k].address \in Range(target.addresses)
    BY <1>1, <2>1, <2>2
  <2> QED BY <1>1, <1>2, <2>3, LengthenedLeads
<1> QED BY <1>5, <1>6

LEMMA TargetStep ==
  ASSUME TargetInv, [CompleteNext]_<<target, completed>>
  PROVE  TargetInv' /\ (completed # << >> /\ completed' = completed => target' = target)
<1>1. CASE CompleteNext
  <2>1. PICK source \in KnownServers : Complete(source)
    BY <1>1 DEF CompleteNext
  <2>2. completed' = <<source>>
    BY <2>1 DEF Complete
  <2> QED BY <2>1, <2>2, CompletionLeads
<1>2. CASE UNCHANGED <<target, completed>>
  BY <1>2 DEF TargetInv, Leads
<1> QED BY <1>1, <1>2

\* What the modules keep to follows from the two invariants.
LEMMA CreationInvImplies ==
  ASSUME CreationInv
  PROVE  ClientModulesTypeOK /\ InfoIsOfOneDevice /\ RefusedSiblingOverlaps /\ ConfiguredIdIsKept
<1>1. \A c \in Creations : creation[c].at \in Stages
  BY DEF CreationInv, CreationRecords, Stages
<1>2. ASSUME NEW m \in Modules, sync[m] # 0
      PROVE  creation[sync[m]].module = m /\ creation[sync[m]].at \notin {"idle", "made", "added", "failed"}
  BY <1>2 DEF CreationInv, LocksAreHeld, Busy
<1> QED BY <1>1, <1>2 DEF CreationInv, ClientModulesTypeOK

LEMMA TargetInvImplies ==
  ASSUME TargetInv
  PROVE  EveryAddressOnce
<1>1. /\ Leads(target) /\ target \in CapabilityRecords /\ target.infos \in Seq(LinkedAddresses) /\ target.addresses \in Seq(STRING)
      /\ Len(target.addresses) = Len(target.infos)
  BY DEF TargetInv, Leads, CapabilityRecords
<1>2. DOMAIN target.infos = 1..Len(target.infos) /\ DOMAIN target.addresses = 1..Len(target.infos)
  BY <1>1
<1>3. target.addresses = [i \in DOMAIN target.infos |-> target.infos[i].address]
  <2>1. target.addresses = [i \in DOMAIN target.infos |-> target.addresses[i]]
    BY <1>1, <1>2
  <2> QED BY <1>1, <1>2, <2>1 DEF Leads
<1> QED BY <1>1, <1>2, <1>3 DEF EveryAddressOnce, Leads, Url
=============================================================================
