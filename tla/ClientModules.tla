--------------------------- MODULE ClientModules ----------------------------
(***************************************************************************)
(* The two modules that make devices of OPC UA servers: the generic one    *)
(* for any server, the TMS one for a server of openDAQ.  Each lets one     *)
(* creation at a time talk to a server, but the device it returns is added *)
(* to its parent when that is over.  A read from the server may fail at    *)
(* any point.  The modules also describe the servers they discover, and    *)
(* complete the description of a server with the addresses another module  *)
(* knows it by.                                                            *)
(***************************************************************************)
EXTENDS Integers, Sequences, FiniteSets, SequencesExt

CONSTANTS
  Creations,     \* creations of a device, each by a thread of its own
  UserIds,       \* local ids a user configures; "" is none
  GeneratedIds,  \* the ids a generic device gives itself, in their order
  Slashed,       \* a text with a slash -> the text with a dash for it
  UaServers,     \* what a server may be like
  BaseTypes,     \* ComponentType and DeviceType
  MaxTypeDepth,  \* maxTypeHierarchyDepth
  DeviceInfoMap, \* the properties of a node that the device info has a field for
  KnownServers,  \* what another module knows of a server
  Targets        \* the capabilities to be completed

NoNode == ""
NoInfo == [p \in {} |-> ""]
Modules == {"generic", "tms"}
NotBegun == [at |-> "idle", module |-> "generic", user |-> "", node |-> NoNode, info |-> NoInfo,
             id |-> "", free |-> TRUE, overlaps |-> FALSE, why |-> ""]

VARIABLES
  uaServer,    \* the server at the address
  creation,    \* creation -> how far it is and what it has read
  sync,        \* module -> the creation that holds its lock, 0 for none
  siblings,    \* local ids below the parent
  localIndex,  \* how many ids were generated
  target, completed  \* the capability that is completed, and the last that has completed it

creationVars == <<uaServer, creation, sync, siblings, localIndex>>
clientModuleVars == <<creationVars, target, completed>>

-----------------------------------------------------------------------------
(* The device node of a server *)

Supertype(server, type) == IF type \in DOMAIN server.super THEN server.super[type] ELSE NoNode
TypesOf(server) == DOMAIN server.super \cup Range(server.super) \cup Range(server.type) \cup BaseTypes \cup {NoNode}

\* The way up the hierarchy from a type, so many steps of it.
Ascents(server, type, steps) ==
  {up \in [0..steps -> TypesOf(server)] :
     up[0] = type /\ \A i \in 1..steps : up[i] = Supertype(server, up[i - 1])}

\* isSubtypeOfAny(): up the hierarchy, as far as the limit, from type to supertype.
IsSubtypeOfAny(type) ==
  \E depth \in 0..(MaxTypeDepth - 1) : \E up \in Ascents(uaServer, type, depth) : up[depth] \in BaseTypes

\* The places of the DeviceSet that have a type of the given ones.
DevicesOf(types) == {i \in DOMAIN uaServer.deviceSet : uaServer.type[uaServer.deviceSet[i]] \in types}

\* A server with the DI namespace that has one device, and one only.
FindDeviceNodeInDeviceSet ==
  LET devices == DevicesOf({t \in Range(uaServer.type) : IsSubtypeOfAny(t)}) IN
  IF uaServer.di /\ \E i \in devices : devices = {i}
  THEN uaServer.deviceSet[CHOOSE i \in devices : devices = {i}] ELSE NoNode

\* readDeviceInfoFromRootDevice(): of the properties that are a part of the info
\* those that are scalars, as far as they could be read.
ReadsOf(node) ==
  LET has == IF node \in DOMAIN uaServer.properties THEN uaServer.properties[node] ELSE NoInfo
      asked == {p \in DOMAIN has \cap DeviceInfoMap : has[p].kind # "array"}
  IN {[p \in read |-> has[p]] : read \in SUBSET asked}

\* populateDeviceInfoFromRootDevice(): texts that are not empty, and integers.
InfoShown(info) ==
  LET shown == {p \in DOMAIN info : info[p].kind \in {"string", "integer"} /\ info[p].text # ""}
  IN [p \in shown |-> info[p]]

-----------------------------------------------------------------------------
(* The local id *)

TweakLocalId(text) == IF text \in DOMAIN Slashed THEN Slashed[text] ELSE text

TextOf(info, p) == IF p \in DOMAIN info /\ info[p].kind = "string" THEN info[p].text ELSE ""

IdOfInfo(info) ==
  LET manufacturer == TextOf(info, "Manufacturer")  serial == TextOf(info, "SerialNumber")
  IN IF serial = "" THEN ""
     ELSE TweakLocalId(IF manufacturer = "" THEN serial ELSE manufacturer \o "_" \o serial)

\* The first that is there and that no sibling has, or none.
Free(ids) == {i \in DOMAIN ids : ids[i] # "" /\ ids[i] \notin siblings}
FirstFree(ids) == IF Free(ids) = {} THEN "" ELSE ids[CHOOSE i \in Free(ids) : \A j \in Free(ids) : i <= j]

\* Mutant of BuildDeviceLocalId: what the server reports goes first.
BuildServerLocalId(user, info) == FirstFree(<<IdOfInfo(info), user, TweakLocalId(uaServer.uri)>>)

BuildDeviceLocalId(user, info) == FirstFree(<<user, IdOfInfo(info), TweakLocalId(uaServer.uri)>>)

-----------------------------------------------------------------------------
(* Connection strings *)

\* formConnectionString(): what the string leaves out comes from the defaults, of
\* the TMS module from the config, which has a port.
Url(string) ==
  [host |-> string.host, port |-> IF string.port = -1 THEN 4840 ELSE string.port]

\* A string that is put together of its parts.
ConnectionString(module, address, port) == [prefix |-> module, host |-> address, port |-> port]

\* populateDiscoveredDevice()
Discovered(module, addresses, port) ==
  [protocol |-> module, prefix |-> module, tcp |-> TRUE, port |-> IF port > 0 THEN port ELSE -1,
   addresses |-> addresses,
   infos |-> [i \in DOMAIN addresses |->
               [address |-> addresses[i], string |-> ConnectionString(module, addresses[i], port)]],
   strings |-> [i \in DOMAIN addresses |-> ConnectionString(module, addresses[i], port)],
   primary |-> << >>]

\* Names and addresses; a hierarchy of types in which, as far as the limit, every
\* type is met that is above one; servers as they are discovered, which have an
\* address once.
ASSUME ClientModulesAssumption ==
  /\ 0 \notin Creations /\ GeneratedIds \in Seq(STRING)
  /\ MaxTypeDepth \in Nat \ {0} /\ NoNode \notin BaseTypes
  /\ \A server \in UaServers :
       /\ server.roots \in Seq(STRING) /\ NoNode \notin DOMAIN server.super
       /\ \A type \in TypesOf(server) : \A up \in Ascents(server, type, MaxTypeDepth) :
            up[MaxTypeDepth] \in {NoNode} \cup {up[i] : i \in 0..(MaxTypeDepth - 1)}
  /\ \A server \in KnownServers \cup Targets :
       /\ server.addresses \in Seq(STRING) /\ IsInjective(server.addresses)
       /\ \E module \in Modules, port \in {0, server.port} :
            port \in Nat /\ server = Discovered(module, server.addresses, port)

-----------------------------------------------------------------------------
(* Creation of a device *)

ClientModulesInit ==
  /\ uaServer \in UaServers
  /\ creation = [c \in Creations |-> NotBegun]
  /\ sync = [m \in Modules |-> 0]
  /\ siblings = {} /\ localIndex = 0
  /\ target \in Targets /\ completed = << >>

Reaches(c, stage) == creation' = [creation EXCEPT ![c].at = stage]
LetsGo(c) == sync' = [sync EXCEPT ![creation[c].module] = 0]

\* An exception leaves the creation, and the lock with it.
Fails(c, why) == creation' = [creation EXCEPT ![c] = [NotBegun EXCEPT !.at = "failed", !.why = why]] /\ LetsGo(c)

\* onCreateDevice(), with a string that has the prefix of the module
Begin(c, module, user, node) ==
  /\ creation[c].at = "idle" /\ sync[module] = 0
  /\ module = "tms" => user = "" /\ node = NoNode
  /\ sync' = [sync EXCEPT ![module] = c]
  /\ creation' = [creation EXCEPT ![c] = [@ EXCEPT !.at = "connecting", !.module = module, !.user = user, !.node = node]]
  /\ UNCHANGED <<uaServer, siblings, localIndex>>

\* initOpcuaClient(), createAndConectClient(): denied or not found.
ConnectTo(c) ==
  /\ creation[c].at = "connecting"
  /\ \/ Fails(c, "connection")
     \/ Reaches(c, IF creation[c].module = "generic" THEN "describing" ELSE "typing") /\ UNCHANGED sync
  /\ UNCHANGED <<uaServer, siblings, localIndex>>

\* readApplicationDescription()
Describe(c) ==
  /\ creation[c].at = "describing"
  /\ \/ Fails(c, "connection")
     \/ Reaches(c, IF creation[c].node # NoNode THEN "configured" ELSE "finding") /\ UNCHANGED sync
  /\ UNCHANGED <<uaServer, siblings, localIndex>>

\* readDeviceInfo(): from the node of the config, if it gives anything ...
ReadConfigured(c) ==
  /\ creation[c].at = "configured"
  /\ \E info \in ReadsOf(creation[c].node) :
       creation' = [creation EXCEPT ![c] = [@ EXCEPT !.at = IF DOMAIN info # {} THEN "naming" ELSE "finding", !.info = info]]
  /\ UNCHANGED <<uaServer, sync, siblings, localIndex>>

\* ... or else from the device of the DeviceSet.  What fails here leaves the info
\* empty.
ReadFound(c) ==
  /\ creation[c].at = "finding"
  /\ LET found == FindDeviceNodeInDeviceSet IN
     \E info \in {NoInfo} \cup (IF found = NoNode THEN {} ELSE ReadsOf(found)) :
       creation' = [creation EXCEPT ![c] = [@ EXCEPT !.at = "naming", !.info = info]]
  /\ UNCHANGED <<uaServer, sync, siblings, localIndex>>

\* The device is made and handed back to whoever adds it.
HandsOver(c, id) ==
  LET under == {o \in Creations : creation[o].at = "made"} IN
  creation' = [o \in Creations |->
    IF o = c THEN [creation[c] EXCEPT !.at = "made", !.id = id, !.overlaps = under # {},
                                      !.info = InfoShown(@), !.free = creation[c].user \notin siblings]
    ELSE IF o \in under THEN [creation[o] EXCEPT !.overlaps = TRUE] ELSE creation[o]]

\* buildDeviceLocalId(), the constructor of the device, populateDeviceInfo()
MakeDevice(c) ==
  /\ creation[c].at = "naming" /\ localIndex < Len(GeneratedIds)
  /\ LET id == BuildDeviceLocalId(creation[c].user, creation[c].info) IN
     IF id # "" THEN HandsOver(c, id) /\ UNCHANGED localIndex
     ELSE HandsOver(c, GeneratedIds[localIndex + 1]) /\ localIndex' = localIndex + 1
  /\ LetsGo(c)
  /\ UNCHANGED <<uaServer, siblings>>

\* TmsClient::connect(): it connects for the namespaces, then again with the types
\* that are registered for them, ...
RegisterTypes(c) ==
  /\ creation[c].at = "typing"
  /\ \/ Fails(c, "connection")
     \/ Reaches(c, "rooting") /\ UNCHANGED sync
  /\ UNCHANGED <<uaServer, siblings, localIndex>>

\* ... and takes the first device of the DeviceSet; a sibling is not looked for.
MakeRootDevice(c) ==
  /\ creation[c].at = "rooting"
  /\ \/ Fails(c, "connection")
     \/ uaServer.roots # << >> /\ HandsOver(c, Head(uaServer.roots)) /\ LetsGo(c)
  /\ UNCHANGED <<uaServer, siblings, localIndex>>

\* The parent adds what was made, unless it has a child of that name.
Add(c) ==
  /\ creation[c].at = "made"
  /\ siblings' = siblings \cup {creation[c].id}
  /\ creation' = [creation EXCEPT ![c] =
       IF @.id \in siblings THEN [@ EXCEPT !.at = "failed", !.why = "sibling"] ELSE [@ EXCEPT !.at = "added", !.why = ""]]
  /\ UNCHANGED <<uaServer, sync, localIndex>>

\* The device is removed; the thread may create another one.
RemoveDevice(c) ==
  /\ creation[c].at \in {"added", "failed"}
  /\ siblings' = IF creation[c].at = "added" THEN siblings \ {creation[c].id} ELSE siblings
  /\ creation' = [creation EXCEPT ![c] = NotBegun]
  /\ UNCHANGED <<uaServer, sync, localIndex>>

-----------------------------------------------------------------------------
(* Completion of a capability *)

\* The places of the source's addresses that the target does not have, in order.
Missing(source, to) ==
  {places \in SetToSeqs({i \in DOMAIN source.infos : source.infos[i].address \notin Range(to.addresses)}) :
     \A i, j \in DOMAIN places : i < j => places[i] < places[j]}

StringFor(source, to, info) ==
  IF source.prefix = to.prefix THEN info.string ELSE ConnectionString(to.prefix, info.address, to.port)

NewAddresses(source, places) == [i \in DOMAIN places |-> source.infos[places[i]].address]
NewInfos(source, to, places) ==
  [i \in DOMAIN places |-> [address |-> source.infos[places[i]].address, string |-> StringFor(source, to, source.infos[places[i]])]]

\* The port the target gets, and what the places of the source add to it.
WithPort(capability) == [capability EXCEPT !.port = IF @ = -1 THEN 4840 ELSE @]
Lengthened(source, to, places) ==
  LET infos == NewInfos(source, to, places)
  IN [to EXCEPT !.infos = @ \o infos, !.addresses = @ \o NewAddresses(source, places),
                !.primary = IF infos = << >> THEN @ ELSE <<Last(infos).string>>]

\* onCompleteServerCapability()
Complete(source) ==
  /\ source.tcp /\ source.addresses # << >> /\ source.infos # << >>
  /\ \E places \in Missing(source, WithPort(target)) : target' = Lengthened(source, WithPort(target), places)
  /\ completed' = <<source>>

CreateNext ==
  \/ \E c \in Creations :
       \/ \E module \in Modules, user \in UserIds, node \in DOMAIN uaServer.properties \cup {NoNode} :
            Begin(c, module, user, node)
       \/ ConnectTo(c) \/ Describe(c) \/ ReadConfigured(c) \/ ReadFound(c) \/ MakeDevice(c)
       \/ RegisterTypes(c) \/ MakeRootDevice(c) \/ Add(c) \/ RemoveDevice(c)

CompleteNext == \E source \in KnownServers : Complete(source)

-----------------------------------------------------------------------------
(* Properties *)

Stages == {"idle", "connecting", "describing", "configured", "finding", "naming", "typing", "rooting",
           "made", "added", "failed"}
ClientModulesTypeOK ==
  /\ \A c \in Creations : creation[c].at \in Stages
  /\ \A m \in Modules : sync[m] # 0 =>
       creation[sync[m]].module = m /\ creation[sync[m]].at \notin {"idle", "made", "added", "failed"}
  /\ localIndex \in 0..Len(GeneratedIds)

\* What a node is to be called a device by: its type is one of the base types or
\* below one, however the hierarchy runs.  (A set of types that has the type and
\* with each of them its supertype has a base type.)
IsDeviceType(type) ==
  \A closed \in SUBSET TypesOf(uaServer) :
    type \in closed /\ (\A t \in closed : Supertype(uaServer, t) \in closed) => closed \cap BaseTypes # {}

\* The info of a device is one node's: of the node the user has chosen, or of the
\* one device the server has.  Never is it put together of two, nor taken from one
\* of several devices.
InfoIsOfOneDevice ==
  \A c \in Creations : DOMAIN creation[c].info # {} =>
    \E node \in {creation[c].node} \cup Range(uaServer.deviceSet) :
      /\ creation[c].info \in ReadsOf(node)
      /\ node # creation[c].node =>
           \E i \in DOMAIN uaServer.deviceSet :
             uaServer.deviceSet[i] = node /\ DevicesOf({t \in Range(uaServer.type) : IsDeviceType(t)}) = {i}

\* A generic device that its parent has no place for was made while another one
\* waited to be added, or goes by a generated id a user has given to another: the
\* lock of the module does not reach until the device is added.
RefusedSiblingOverlaps ==
  \A c \in Creations : creation[c].at = "failed" /\ creation[c].why = "sibling" =>
    creation[c].overlaps \/ creation[c].module = "tms" \/ creation[c].id \in Range(GeneratedIds)

\* The id a user configures is the device's, whatever the server reports and
\* whichever reads have failed, unless a sibling has it already.
ConfiguredIdIsKept ==
  \A c \in Creations : creation[c].at \in {"made", "added"} /\ creation[c].user # "" =>
    creation[c].id = creation[c].user \/ ~creation[c].free

\* Where a capability says the server can be reached, the server can be: each of
\* its addresses has one entry, whose string leads the module to that address.
EveryAddressOnce ==
  /\ IsInjective(target.addresses)
  /\ target.addresses = [i \in DOMAIN target.infos |-> target.infos[i].address]
  /\ \A i \in DOMAIN target.infos :
       /\ target.infos[i].string.prefix = target.protocol
       /\ Url(target.infos[i].string).host = target.infos[i].address

\* A capability that has been completed by a module is complete: to be completed by
\* it again changes nothing.
CompletedIsComplete ==
  [][completed # << >> /\ completed' = completed => target' = target]_clientModuleVars
=============================================================================
