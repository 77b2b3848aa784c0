------------------------------ MODULE TmsLibrary ------------------------------
(***************************************************************************)
(* A device as the TMS server shows it and as TMS clients mirror it, part  *)
(* by part: the component tree, the function blocks that come and go, the  *)
(* texts of a component, the device info and the operation mode, the       *)
(* connection of an input port, a signal with its values and enumeration   *)
(* types; beneath them, of the server, the sessions with the lock they     *)
(* share and the nodes with the objects behind them; above them the        *)
(* modules that make devices.  The parts share no state: a behaviour       *)
(* follows one of them and the others stand still.                         *)
(***************************************************************************)
EXTENDS ComponentTree, BlockMirror, NameMirror, DeviceInfoMirror, SignalMirror,
        SignalValues, EnumTypes, ServerSessions, ServerNodes, ClientModules

VARIABLE part

mirrorVars == <<treeVars, blockVars, nameVars, deviceInfoVars, signalVars>>
belowVars == <<valueVars, enumVars, sessionVars, nodeVars, clientModuleVars>>
tmsVars == <<mirrorVars, belowVars, part>>

Tree(kind, children, hidden, late) ==
  [kind |-> kind, children |-> [c \in DOMAIN kind |-> IF c \in DOMAIN children THEN children[c] ELSE << >>],
   hidden |-> hidden, late |-> late, added |-> {}]

\* Channels and folders share IO; blocks hold blocks, signals, hidden ones and
\* ports; folders hold folders, servers and capabilities hang by a device, one
\* server is added late; a device below the root has blocks of its own.
TreesOfComponents_ ==
  {Tree(<<"device", "io", "channel", "channel", "signal", "port", "io", "channel">>,
        <<<<3, 2>>, <<7, 4>>, <<>>, <<6, 5>>, <<>>, <<>>, <<8>>>>, {}, {}),
   Tree(<<"device", "fb", "fb", "signal", "signal", "port", "fb", "signal">>,
        <<<<3, 2, 8>>, <<5, 6, 4, 7>>>>, {5}, {}),
   Tree(<<"device", "folder", "component", "folder", "component", "server", "server", "capability", "capability">>,
        <<<<9, 3, 2, 6, 8>>, <<5, 4>>, <<>>, <<>>>>, {}, {7}),
   Tree(<<"device", "device", "device", "signal", "fb", "server", "signal">>,
        <<<<3, 2>>, <<5, 4, 6, 7>>>>, {}, {})}
\* Types below DeviceType, one in a ring; one device, two devices, none.
Named(t) == [kind |-> "string", text |-> t]
UaServer(deviceSet, uri, roots, di) ==
  [deviceSet |-> deviceSet, uri |-> uri, roots |-> roots, di |-> di,
   type |-> [n1 |-> "t2", n2 |-> "t1", n3 |-> "ring1"],
   super |-> [t2 |-> "t1", t1 |-> "DeviceType", ring1 |-> "ring2", ring2 |-> "ring1"],
   properties |-> [n1 |-> [SerialNumber |-> Named("s"), Manufacturer |-> Named("m"), Model |-> [kind |-> "array", text |-> "a"]],
                   n2 |-> [SerialNumber |-> Named("m/s"), Picture |-> Named("p")]]]
UaServers_ ==
  {UaServer(<<"n1", "n3">>, "urn/x", <<"urn-x">>, TRUE), UaServer(<<"n2", "n1">>, "", << >>, TRUE),
   UaServer(<<"n1">>, "g0", <<"u", "s">>, FALSE)}
Slashed_ == [x \in {"urn/x", "m/s"} |-> IF x = "m/s" THEN "m-s" ELSE "urn-x"]
GeneratedIds_ == <<"g0", "g1">>
KnownServers_ == {Discovered(m, addresses, port) : m \in Modules, addresses \in {<< >>, <<"a1", "a2">>, <<"a3", "a2">>},
                                                   port \in {0, 4000}}
Targets_ == {Discovered(m, addresses, port) : m \in Modules, addresses \in {<< >>, <<"a2">>}, port \in {0, 4840}}

\* Servers with the same types, with a type of one name and other labels, which
\* need not be there when the first one is, with values that leave out a number.
Values(first, l1, l2) == <<[value |-> first, label |-> l1], [value |-> first + 1, label |-> l2]>>
Firmwares_ ==
  {[A |-> Values(0, "on", "off")],
   [A |-> Values(0, "on", "off"), B |-> Values(1, "left", "right"), C |-> Values(0, "up", "down")],
   [A |-> Values(0, "off", "on"), B |-> Values(1, "left", "right"), C |-> Values(0, "in", "out")]}

\* Time domains: with a unit that a client shows, one with the default id and no
\* denominator, one with no unit.
Domains_ ==
  {[unit |-> [id |-> 5457219, symbol |-> "s"], denominator |-> 1000, rest |-> 1],
   [unit |-> [id |-> -1, symbol |-> "s"], denominator |-> 0, rest |-> 2],
   [unit |-> NotThere, denominator |-> 1, rest |-> 3]}

FirstTree == CHOOSE t \in TreesOfComponents_ : TRUE

FirstServer == UaServer(<<"n1", "n3">>, "urn/x", <<"urn-x">>, TRUE)
FirstTarget == Discovered("tms", << >>, 0)

Init ==
  /\ part \in {"tree", "blocks", "names", "info", "mode", "port", "value",
              "enums", "sessions", "nodes", "create", "complete"}
  /\ TreeInit /\ (part # "tree" => object = FirstTree /\ forward)
  /\ BlockMirrorInit /\ (part # "blocks" => device = << >>)
  /\ NameMirrorInit /\ (part # "names" => writeMask = {} /\ objectText = [a \in TextAttributes |-> CHOOSE t \in Texts : TRUE])
  /\ DeviceInfoInit
  /\ part # "info" => readOnly = {} /\ version = "newer" /\ info = [f \in InfoFields |-> 0]
  /\ part # "mode" => domain = NotThere /\ mode = [d \in {"root", "below"} |-> "idle"]
  /\ SignalMirrorInit
  /\ part # "port" => connection = Nothing
  /\ SignalValuesInit /\ (part # "value" => sampleType = Unset /\ domainSignal = Unset)
  /\ EnumTypesInit /\ (part # "enums" => \A h \in Hosts : DOMAIN firmware[h] = {"A"})
  /\ ServerSessionsInit /\ (part # "sessions" => allowsAnonymous)
  /\ ServerNodesInit
  /\ ClientModulesInit
  /\ part # "create" => uaServer = FirstServer
  /\ part # "complete" => target = FirstTarget

MirrorNext ==
  \/ part = "tree" /\ TreeNext /\ UNCHANGED <<blockVars, nameVars, deviceInfoVars, signalVars>>
  \/ part = "blocks" /\ BlockMirrorNext /\ UNCHANGED <<treeVars, nameVars, deviceInfoVars, signalVars>>
  \/ part = "names" /\ NameMirrorNext /\ UNCHANGED <<treeVars, blockVars, deviceInfoVars, signalVars>>
  \/ part = "info" /\ InfoNext /\ UNCHANGED <<treeVars, blockVars, nameVars, signalVars>>
  \/ part = "mode" /\ ModeNext /\ UNCHANGED <<treeVars, blockVars, nameVars, signalVars>>
  \/ part = "port" /\ PortNext /\ UNCHANGED <<treeVars, blockVars, nameVars, deviceInfoVars>>

BelowNext ==
  \/ part = "value" /\ SignalValuesNext /\ UNCHANGED <<enumVars, sessionVars, nodeVars, clientModuleVars>>
  \/ part = "enums" /\ EnumTypesNext /\ UNCHANGED <<valueVars, sessionVars, nodeVars, clientModuleVars>>
  \/ part = "sessions" /\ ServerSessionsNext /\ UNCHANGED <<valueVars, enumVars, nodeVars, clientModuleVars>>
  \/ part = "nodes" /\ ServerNodesNext /\ UNCHANGED <<valueVars, enumVars, sessionVars, clientModuleVars>>
  \/ part = "create" /\ CreateNext /\ UNCHANGED <<valueVars, enumVars, sessionVars, nodeVars, target, completed>>
  \/ part = "complete" /\ CompleteNext /\ UNCHANGED <<valueVars, enumVars, sessionVars, nodeVars, creationVars>>

Next ==
  /\ UNCHANGED part
  /\ \/ MirrorNext /\ UNCHANGED belowVars
     \/ BelowNext /\ UNCHANGED mirrorVars

Spec == Init /\ [][Next]_tmsVars

-----------------------------------------------------------------------------
(* Properties of the parts, each an invariant with the types of the part or    *)
(* what its steps keep to.                                                     *)

\* The tree a client builds has the components of the server's in their order,
\* less those that cannot be built with what they are part of.
TreeIsMirrored ==
  ComponentTreeTypeOK /\ OrderIsKept /\ FailureStaysInItsPart /\ BuiltIsReadAhead

\* Blocks, their nodes and what clients show of them agree but for what was done
\* behind the server's back, refused, or done under an id that was used before.
BlocksAreMirrored ==
  BlockMirrorTypeOK /\ MirrorDiffersWhereTold /\ OrderUntilRemoval /\ FirstBlockIsHeard

\* Texts agree when nobody changes them, though two threads do; a client is told
\* the fields of the device info and the domain as the device has them.
TextsAndInfoAreMirrored ==
  /\ NameMirrorTypeOK /\ NamesAgreeAtRest
  /\ DeviceInfoTypeOK /\ EditableIsWritable /\ ToldIsTheDevices

\* Ports, value nodes and signal objects agree with what they stand for, a
\* client that has seen a signal whole goes on reading it, and an enumeration
\* arrives under its label.
SignalsAreMirrored ==
  /\ SignalMirrorTypeOK /\ ReferenceIsConnection /\ OneReference /\ RegistryHoldsObjects
  /\ ValueHasSampleType /\ ClientKeepsReading
  /\ EnumerationArrives /\ ConnectedTypesAreKnown

\* The server's sessions act for those they have identified, and its nodes reach
\* the objects they were made for.
ServerKeepsItsOwn ==
  /\ ServerSessionsTypeOK /\ UserIsIdentified /\ LockHasASession
  /\ ServerNodesTypeOK /\ OptionalNodesAreItsOwn /\ CallsReachLiveObjects /\ BoundCallbackIsThere

\* A device is made of one node's info, under an id of its own, and reached by
\* the addresses of its server.
DevicesAreIdentified ==
  /\ ClientModulesTypeOK /\ InfoIsOfOneDevice /\ RefusedSiblingOverlaps
  /\ ConfiguredIdIsKept /\ EveryAddressOnce

\* Nothing changes hands without the right to it: the lock, the password, the
\* blocks of a device.
ServerIsGuarded == LockIsNotTaken /\ PasswordIsKept /\ ChangeNeedsWrite

\* What a client was told stays true: a block's values, a mode it has set, a
\* capability it has completed.
ClientsAreToldTheTruth ==
  OldValuesWithinAConnection /\ AcceptedModeIsSet /\ CompletedIsComplete
=============================================================================
