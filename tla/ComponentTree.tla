--------------------------- MODULE ComponentTree ----------------------------
(***************************************************************************)
(* The component tree of a device as the server shows it in nodes and as a *)
(* client builds it again from the nodes: the lists a component's children *)
(* hang in, the numbers that carry their order over a browse that has none *)
(* of its own, the attributes a client reads ahead for all of them, and    *)
(* how far a child that cannot be built takes its neighbours with it.      *)
(* Io folders hang below the IO folder of a device or one another.         *)
(***************************************************************************)
EXTENDS Integers, Sequences, FiniteSets, SequencesExt

CONSTANTS
  TreesOfComponents, \* trees: [kind, children, hidden, late, added], the root is 1
  Unnumbered,        \* the number of a child whose NumberInList cannot be read
  MaxFaults          \* components that cannot be built, numbers that cannot be read

\* Components are numbered downwards from the root, which is a device.
ASSUME ComponentTreeAssumption ==
  /\ MaxFaults \in Nat /\ Unnumbered \notin Nat
  /\ \A tree \in TreesOfComponents :
       /\ tree \in [kind : Seq(STRING), children : Seq(Seq(Nat)), hidden : SUBSET Nat, late : SUBSET Nat, added : {{}}]
       /\ Len(tree.kind) = Len(tree.children) /\ tree.kind # <<>> /\ tree.kind[1] = "device"
       /\ \A p \in DOMAIN tree.children :
            /\ IsInjective(tree.children[p]) /\ ToSet(tree.children[p]) \cap tree.late = {}
            /\ \A i \in DOMAIN tree.children[p] : tree.children[p][i] \in (p + 1)..Len(tree.kind)
       /\ \A s \in tree.late : s \in 2..Len(tree.kind) /\ tree.kind[s] = "server"

VARIABLES
  object,  \* the application's tree
  nodes,   \* the nodes of the server: [comp, owner, list, number]
  forward, \* whether a browse lists the nodes of a list forwards
  faulty,  \* components the client fails to build, of the last connect
  unread,  \* components whose number it fails to read
  reads,   \* the attributes it read ahead
  seen,    \* the nodes there were when it connected
  built,   \* the components it can build
  mirror   \* the lists of the client: <<owner, list>> -> sequence of components

treeVars == <<object, nodes, forward, faulty, unread, reads, seen, built, mirror>>

Components == DOMAIN object.kind
KindOf(c) == object.kind[c]
IsBlock(c) == KindOf(c) \in {"fb", "channel"}

-----------------------------------------------------------------------------
(* The server: where each kind of child hangs, and its number there        *)

DeviceShows == [device |-> "Dev", fb |-> "FB", signal |-> "Sig", io |-> "IO", channel |-> "IO",
                server |-> "Srv", folder |-> "Custom", component |-> "Custom", capability |-> "Caps"]
BlockShows == [signal |-> "Sig", port |-> "IP", fb |-> "FB"]
FolderShows == [k \in {"channel", "server", "io", "folder", "component"} |-> "Items"]
ShownBy(c) == CASE KindOf(c) = "device" -> DeviceShows
                [] IsBlock(c) -> BlockShows
                [] KindOf(c) \in {"io", "folder"} -> FolderShows
                [] OTHER -> << >>

\* Only public signals and ports are shown, and only they are asked.
Public(c) == KindOf(c) \in {"signal", "port"} => c \notin object.hidden

\* The list of p that a child hangs in.
Hangs(c, p) == KindOf(c) \in DOMAIN ShownBy(p) /\ Public(c)
ListOf(c, p) == ShownBy(p)[KindOf(c)]

\* The places before i of the children of p that hang in the same list.
Earlier(p, i) ==
  LET children == object.children[p]
  IN  {j \in 1..(i - 1) : Hangs(children[j], p) /\ ListOf(children[j], p) = ListOf(children[i], p)}

\* Mutant of ChildNodes: the folders and the channels of a folder are counted apart.
ChildNodesCountedApart(p) ==
  LET children == object.children[p]
  IN  {[comp |-> children[i], owner |-> p, list |-> ListOf(children[i], p),
        number |-> Cardinality({j \in Earlier(p, i) : KindOf(children[j]) = KindOf(children[i])})]
         : i \in {k \in DOMAIN children : Hangs(children[k], p)}}

\* Each list counts its own nodes from 0, in the order of the application.
ChildNodes(p) ==
  LET children == object.children[p]
  IN  {[comp |-> children[i], owner |-> p, list |-> ListOf(children[i], p), number |-> Cardinality(Earlier(p, i))]
         : i \in {k \in DOMAIN children : Hangs(children[k], p)}}

AllNodes == UNION {ChildNodes(p) : p \in Components}
NodesOf(p, l) == {n \in nodes : n.owner = p /\ n.list = l}

\* The type of a component's node; folders, plain components and servers share one.
TypeOf(c) == IF KindOf(c) \in {"folder", "component", "server"} THEN "component" ELSE KindOf(c)
Subtypes == {<<"fb", "block">>, <<"channel", "block">>, <<"io", "component">>}
HasType(c, type) == TypeOf(c) = type \/ <<TypeOf(c), type>> \in Subtypes

-----------------------------------------------------------------------------
(* Reading ahead: what a client collects before it builds the tree         *)

DeviceCollects == {<<"Dev", "device">>, <<"Custom", "component">>, <<"Sig", "signal">>,
                   <<"Srv", "component">>, <<"Caps", "capability">>}
IoCollects == {<<"IO", "block">>, <<"IO", "component">>}
BlockListCollects == {<<"FB", "block">>}
BlockCollects == {<<"FB", "block">>, <<"Sig", "signal">>, <<"IP", "port">>}
ComponentCollects == {<<"Items", "block">>, <<"Items", "component">>}
CollectedBelow(c) == CASE KindOf(c) = "device" -> DeviceCollects \cup IoCollects \cup BlockListCollects
                       [] IsBlock(c) -> BlockCollects
                       [] OTHER -> ComponentCollects

\* Every component has its number read, a block its type and a signal its name.
OwnAttributes(c) == {<<c, "NumberInList">>}
                    \cup (IF IsBlock(c) THEN {<<c, "FunctionBlockInfo">>} ELSE {})
                    \cup (IF KindOf(c) = "signal" THEN {<<c, "BrowseName">>} ELSE {})

CollectAttributes ==
  LET collect[c \in Components] ==
        OwnAttributes(c) \cup
        UNION {collect[n.comp] : n \in {m \in nodes : /\ m.owner = c
                                                      /\ \E row \in CollectedBelow(c) :
                                                           m.list = row[1] /\ HasType(m.comp, row[2])}}
  IN collect[1]

-----------------------------------------------------------------------------
(* The client: one list after another, each from the nodes of one type     *)

\* The nodes of a list that have the type asked for.
References(p, l, type) == {n \in NodesOf(p, l) : HasType(n.comp, type)}

\* The type that is browsed first comes first; a browse lists forwards or not.
Before(a, b, first) ==
  IF HasType(a.comp, first) = HasType(b.comp, first)
  THEN IF forward THEN a.comp < b.comp ELSE b.comp < a.comp
  ELSE HasType(a.comp, first)

\* Without the type that was read ahead a block cannot be built; a block
\* fails with one of its signals or ports, a folder with one of its items.
CanRead(c) == OwnAttributes(c) \ {<<c, "NumberInList">>} \subseteq reads'
Strict(p) == CASE IsBlock(p) -> {<<"Sig", "signal">>, <<"IP", "port">>}
               [] KindOf(p) = "io" -> {<<"Items", "io">>, <<"Items", "channel">>}
               [] KindOf(p) = "folder" -> {<<"Items", "component">>}
               [] OTHER -> {}

Builds ==
  LET builds[c \in Components] ==
        /\ c \notin faulty' /\ CanRead(c)
        /\ \A row \in Strict(c) : \A n \in NodesOf(c, row[1]) : HasType(n.comp, row[2]) => builds[n.comp]
  IN {c \in Components : builds[c]}

Built(refs) == {n \in refs : n.comp \in built'}

\* tryReadChildNumberInList: any failure is the largest number.
NumberInList(n) == IF <<n.comp, "NumberInList">> \in reads' /\ n.comp \notin unread'
                   THEN n.number ELSE Unnumbered

\* The first child to claim a number has its place; the others follow.
HasPlace(n, refs, first) ==
  /\ NumberInList(n) # Unnumbered
  /\ \A m \in refs : NumberInList(m) = NumberInList(n) => ~Before(m, n, first)
Precedes(a, b, refs, first) ==
  CASE HasPlace(a, refs, first) /\ HasPlace(b, refs, first) -> NumberInList(a) < NumberInList(b)
    [] HasPlace(a, refs, first) # HasPlace(b, refs, first) -> HasPlace(a, refs, first)
    [] OTHER -> Before(a, b, first)
Arranged(refs, first) ==
  LET At(i) == CHOOSE n \in refs : Cardinality({m \in refs : Precedes(m, n, refs, first)}) = i - 1
  IN  [i \in 1..Cardinality(refs) |-> At(i).comp]

ListOfType(p, l, type) == Arranged(Built(References(p, l, type)), type)
Subdevices(p) == ListOfType(p, "Dev", "device")
FunctionBlocks(p) == ListOfType(p, "FB", "fb")
SignalsOf(p) == ListOfType(p, "Sig", "signal")
DaqServers(p) == ListOfType(p, "Srv", "component")
CustomComponents(p) == ListOfType(p, "Custom", "component")

\* A channel whose number is taken follows the others; an io folder whose
\* number is taken is not inserted at all.
InputsOutputs(p) ==
  LET refs == Built(References(p, "IO", "channel") \cup References(p, "IO", "io"))
  IN  Arranged({n \in refs : \/ HasPlace(n, refs, "channel") \/ NumberInList(n) = Unnumbered
                             \/ HasType(n.comp, "channel")}, "channel")

\* The first capability that cannot be read ends the search, and a second one
\* with the same number is not inserted.
Capabilities(p) ==
  LET refs == References(p, "Caps", "capability")
      found == {n \in refs : \A m \in refs : m = n \/ Before(m, n, "capability") => m.comp \in built'}
  IN  Arranged({n \in found : HasPlace(n, found, "capability") \/ NumberInList(n) = Unnumbered}, "capability")

NestedBlocks(p) == ListOfType(p, "FB", "fb")
BlockSignals(p) == ListOfType(p, "Sig", "signal")
InputPorts(p) == ListOfType(p, "IP", "port")
FolderItems(p) == ListOfType(p, "Items", "component")
IoChannels(p) == References(p, "Items", "channel")
IoItems(p) == Arranged(Built(References(p, "Items", "io") \cup IoChannels(p)), "io")

ClientDevice(p) == [Dev |-> Subdevices(p), FB |-> FunctionBlocks(p), Sig |-> SignalsOf(p),
                    IO |-> InputsOutputs(p), Custom |-> CustomComponents(p),
                    Srv |-> DaqServers(p), Caps |-> Capabilities(p)]
ClientBlock(p) == [FB |-> NestedBlocks(p), Sig |-> BlockSignals(p), IP |-> InputPorts(p)]
ClientFolder(p) == [Items |-> IF KindOf(p) = "io" THEN IoItems(p) ELSE FolderItems(p)]
ClientLists(p) == CASE KindOf(p) = "device" -> ClientDevice(p)
                    [] IsBlock(p) -> ClientBlock(p)
                    [] KindOf(p) \in {"io", "folder"} -> ClientFolder(p)
                    [] OTHER -> << >>

-----------------------------------------------------------------------------
TreeInit ==
  /\ object \in TreesOfComponents /\ forward \in BOOLEAN
  /\ nodes = {} /\ faulty = {} /\ unread = {} /\ reads = {} /\ seen = {} /\ built = {} /\ mirror = << >>

\* The server starts: the whole tree becomes nodes.
RegisterTree ==
  /\ nodes = {}
  /\ nodes' = AllNodes
  /\ UNCHANGED <<object, forward, faulty, unread, reads, seen, built, mirror>>

\* A server of the application is added to a device that is shown already: its
\* node is given no number and keeps the 0 it was made with.
AddServer(s) ==
  /\ nodes # {} /\ s \in object.late
  /\ object' = [object EXCEPT !.children[1] = Append(@, s), !.late = @ \ {s}, !.added = @ \cup {s}]
  /\ nodes' = nodes \cup {[comp |-> s, owner |-> 1, list |-> "Srv", number |-> 0]}
  /\ UNCHANGED <<forward, faulty, unread, reads, seen, built, mirror>>

\* A client connects: it collects and reads the attributes, then builds.
ConnectDevice ==
  /\ nodes # {} /\ mirror = << >>
  /\ faulty' \in {f \in SUBSET (Components \ {1}) : Cardinality(f) <= MaxFaults}
  /\ unread' \in {f \in SUBSET (Components \ {1}) : Cardinality(f) + Cardinality(faulty') <= MaxFaults}
  /\ reads' = CollectAttributes /\ seen' = nodes
  /\ built' = Builds
  /\ mirror' = [p \in built' |-> ClientLists(p)]
  /\ UNCHANGED <<object, nodes, forward>>

\* The client drops what it built: the next one starts anew.
DropDevice ==
  /\ mirror # << >>
  /\ mirror' = << >> /\ faulty' = {} /\ unread' = {} /\ reads' = {} /\ seen' = {} /\ built' = {}
  /\ UNCHANGED <<object, nodes, forward>>

TreeNext ==
  \/ RegisterTree
  \/ \E s \in Components : AddServer(s)
  \/ ConnectDevice
  \/ DropDevice
-----------------------------------------------------------------------------
(* Properties *)

\* What the client has built of the tree, from the root: a list of a component
\* that is present shows its components.
Present ==
  LET whole == {S \in SUBSET Components :
                  /\ 1 \in S
                  /\ \A n \in seen : /\ n.owner \in S \cap DOMAIN mirror
                                    /\ n.comp \in ToSet(mirror[n.owner][n.list]) => n.comp \in S}
  IN  {c \in Components : \A S \in whole : c \in S}

\* Not every node of a list is of a type that is asked for.
LookedFor(n) ==
  CASE n.list = "Dev" -> HasType(n.comp, "device")
    [] n.list = "FB" -> HasType(n.comp, "fb")
    [] n.list = "Items" /\ KindOf(n.owner) = "io" -> TypeOf(n.comp) \in {"io", "channel"}
    [] n.list = "Items" /\ KindOf(n.owner) # "io" -> HasType(n.comp, "component")
    [] OTHER -> TRUE
Sought(p, l) == {n.comp : n \in {m \in seen : m.owner = p /\ m.list = l /\ LookedFor(m)}}

\* Type invariant: the client's lists hold components of the tree.
ComponentTreeTypeOK ==
  /\ object.children \in [Components -> Seq(Components)]
  /\ \A n \in nodes : n.comp \in Components /\ n.owner \in Components /\ n.number \in Nat
  /\ faulty \subseteq Components /\ built \subseteq Components /\ unread \subseteq Components
  /\ reads \subseteq Components \X {"NumberInList", "FunctionBlockInfo", "BrowseName"}
  /\ \A p \in DOMAIN mirror : \A l \in DOMAIN mirror[p] : mirror[p][l] \in Seq(Components)
  /\ mirror = << >> => reads = {} /\ built = {}

\* A list of the client has the order of the application's list, whatever
\* order the browse had and whatever is missing; a child whose number could
\* not be read is behind the others.  A list that was added to later is not
\* bound (the late server's number is the first one's).
OrderIsKept ==
  mirror # << >> =>
    \A p \in Present : \A l \in DOMAIN mirror[p] :
      LET list == mirror[p][l]
          children == object.children[p]
      IN \/ object.added \cap ToSet(list) # {}
         \/ \A i, j \in DOMAIN list : i < j /\ list[j] \notin unread =>
              /\ list[i] \notin unread
              /\ \E k, m \in DOMAIN children : k < m /\ children[k] = list[i] /\ children[m] = list[j]

\* The components that cannot be built, for what they are or what they hold.
Lost ==
  LET fails[c \in Components] ==
        \/ c \in faulty
        \/ KindOf(c) # "device" /\ \E n \in seen : /\ n.owner = c /\ n.list # "FB"
                                                  /\ n.comp \in Sought(c, n.list) /\ fails[n.comp]
  IN {c \in Components : fails[c]}

\* A component that cannot be built takes with it the blocks, io folders and
\* folders it is part of up to a list that goes on without it, and no other:
\* everything else the client looks for is there, once, late servers too.
\* Capabilities are read until one cannot be.
FailureStaysInItsPart ==
  mirror # << >> =>
    \A p \in Present : \A l \in DOMAIN mirror[p] :
      /\ IsInjective(mirror[p][l])
      /\ l # "Caps" \/ Lost \cap Sought(p, l) = {} => ToSet(mirror[p][l]) = Sought(p, l) \ Lost

\* Everything the client builds with was read ahead: no order and no block is
\* lost because the collector did not come by.
BuiltIsReadAhead ==
  mirror # << >> =>
    \A p \in Present : \A l \in DOMAIN mirror[p] : \A c \in Sought(p, l) : OwnAttributes(c) \subseteq reads
=============================================================================
