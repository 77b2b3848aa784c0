---------------------------- MODULE BlockMirror -----------------------------
(***************************************************************************)
(* The function blocks of a device that clients add and remove: the block  *)
(* of the device, the server's object for it and its node, the registry    *)
(* that brings the device's events to the objects, and the blocks each     *)
(* client shows.  The application adds and removes blocks of its own; the  *)
(* server only mirrors what passes through it.  A block is known by a      *)
(* local id, which a later block may have again.                           *)
(***************************************************************************)
EXTENDS Integers, Sequences, FiniteSets, SequencesExt

CONSTANTS
  BlockIds,     \* the local ids of blocks
  BlockClients,
  BlockWriters, \* the clients whose user may write to the device
  MaxBlocks,    \* how many blocks are ever made
  Absent        \* no node, no entry

Names == {"first", "second"}

ASSUME BlockMirrorAssumption ==
  /\ BlockWriters \subseteq BlockClients
  /\ MaxBlocks \in Nat /\ MaxBlocks >= 2
  /\ Absent \notin Nat \cup [made : Nat, number : Nat, name : Names] \cup Seq([id : BlockIds, made : Nat, values : Nat])

VARIABLES
  device,     \* the device's blocks: [id, made], made is the block's serial number
  made,       \* how many blocks were made
  tms,        \* TmsServerDevice::functionBlocks
  blockNode,  \* id -> the node: [made, number, name]
  registry,   \* TmsServerContext::idToObjMap
  blockName,  \* serial number -> the name the block has
  shows,      \* client -> the blocks it shows: [id, made, values], Absent before it connects
  known,      \* client -> id -> the block whose attributes it holds
  apart,      \* blocks the application added, or whose node is lost: the device alone has them
  dangling,   \* blocks the application removed: the server alone has them
  shrunk      \* whether a block was removed through the server

serverVars == <<device, made, tms, blockNode, registry, blockName, apart, dangling, shrunk>>
blockVars == <<serverVars, shows, known>>

Blocks == 1..MaxBlocks
Block(id, n) == [id |-> id, made |-> n]
Ids(blocks) == {b.id : b \in ToSet(blocks)}
Numbers(blocks) == {b.made : b \in ToSet(blocks)}

\* Erases the block with the id, if there is one.
Without(blocks, id) ==
  IF id \in Ids(blocks) THEN RemoveAt(blocks, CHOOSE i \in DOMAIN blocks : blocks[i].id = id) ELSE blocks
With(blocks, id) == {b.made : b \in {x \in ToSet(blocks) : x.id = id}}
HasNode(id) == blockNode[id] # Absent

-----------------------------------------------------------------------------
(* The server *)

\* registerComponent() inserts: an id that is there keeps its first object.
Registered(id, n) == IF registry[id] = Absent THEN [registry EXCEPT ![id] = n] ELSE registry

\* The number of a new node is the length the list has at the moment.
NewNode(id, n) == [blockNode EXCEPT ![id] = [made |-> n, number |-> Len(tms), name |-> "first"]]

\* addFunctionBlock(): first the device has the block.  If a node is left with
\* its id, a second reference to it is refused and the call fails there.
ServerAdds(id) ==
  /\ made < MaxBlocks /\ id \notin Ids(device)
  /\ made' = made + 1
  /\ device' = Append(device, Block(id, made'))
  /\ IF HasNode(id)
     THEN apart' = apart \cup {made'} /\ UNCHANGED <<tms, blockNode, registry>>
     ELSE /\ tms' = Append(tms, Block(id, made'))
          /\ blockNode' = NewNode(id, made')
          /\ registry' = Registered(id, made')
          /\ UNCHANGED apart
  /\ UNCHANGED <<blockName, dangling, shrunk>>

\* Mutant of ForgetBlock: the node of a removed block is left.
ForgetEntry(id) == tms' = Without(tms, id) /\ UNCHANGED blockNode

\* removeFunctionBlock(): the node and the entry go first ...
ForgetBlock(id) ==
  /\ tms' = Without(tms, id)
  /\ blockNode' = IF id \in Ids(tms) THEN [blockNode EXCEPT ![id] = Absent] ELSE blockNode

\* ... then the device removes every block with the id, or refuses.
ServerRemoves(id, refused) ==
  /\ ForgetBlock(id)
  /\ dangling' = dangling \ With(tms, id)
  /\ shrunk' = TRUE
  /\ IF refused
     THEN apart' = apart \cup With(device, id) /\ UNCHANGED device
     ELSE apart' = apart \ With(device, id) /\ device' = Without(device, id)
  /\ UNCHANGED <<made, registry, blockName>>

-----------------------------------------------------------------------------
\* The server starts on a device with blocks: their order numbers the nodes.
BlockMirrorInit ==
  /\ \E n \in 0..2, f \in {g \in [1..2 -> BlockIds] : IsInjective(g)} :
       device = [i \in 1..n |-> Block(f[i], i)] /\ made = n
  /\ tms = device
  /\ blockNode = [id \in BlockIds |->
                    IF id \in Ids(device)
                    THEN LET i == CHOOSE i \in DOMAIN device : device[i].id = id
                         IN [made |-> i, number |-> i - 1, name |-> "first"]
                    ELSE Absent]
  /\ registry = [id \in BlockIds |-> IF HasNode(id) THEN blockNode[id].made ELSE Absent]
  /\ blockName = [n \in Blocks |-> "first"]
  /\ shows = [c \in BlockClients |-> Absent]
  /\ known = [c \in BlockClients |-> [id \in BlockIds |-> Absent]]
  /\ apart = {} /\ dangling = {} /\ shrunk = FALSE

\* The application adds a block: nothing listens for it.
AppAdds(id) ==
  /\ made < MaxBlocks /\ id \notin Ids(device)
  /\ made' = made + 1
  /\ device' = Append(device, Block(id, made'))
  /\ apart' = apart \cup {made'}
  /\ UNCHANGED <<tms, blockNode, registry, blockName, shows, known, dangling, shrunk>>

\* The application removes a block: its node and its object stay.
AppRemoves(id) ==
  /\ id \in Ids(device)
  /\ device' = Without(device, id)
  /\ dangling' = dangling \cup (With(device, id) \ apart)
  /\ apart' = apart \ With(device, id)
  /\ UNCHANGED <<made, tms, blockNode, registry, blockName, shows, known, shrunk>>

\* coreEventCallback(): the event goes to the object the registry holds for the
\* id, if that is alive, whichever block it was made for.
CoreEvent(id) == HasNode(id) /\ registry[id] = blockNode[id].made

\* A block of the device is renamed (one in a behaviour).
AppRenames(b) ==
  /\ b \in ToSet(device) /\ \A n \in Blocks : blockName[n] = "first"
  /\ blockName' = [blockName EXCEPT ![b.made] = "second"]
  /\ blockNode' = IF CoreEvent(b.id) THEN [blockNode EXCEPT ![b.id].name = "second"] ELSE blockNode
  /\ UNCHANGED <<device, made, tms, registry, shows, known, apart, dangling, shrunk>>

-----------------------------------------------------------------------------
(* The clients *)

\* findAndCreateFunctionBlocks(): in what order the nodes of a browse can come to
\* be shown.  The first to claim a number has its place, the others follow behind
\* all of those.
ByNumber(list) ==
  LET number == [i \in DOMAIN list |-> blockNode[list[i]].number]
  IN \E first \in 0..Len(list) :
       /\ \A i, j \in 1..first : i < j => number[i] < number[j]
       /\ \A j \in (first + 1)..Len(list) : \E i \in 1..first : number[i] = number[j]

\* readObjectAttributes() does nothing for a node of which it has a value.
ReadAhead(c, id, n) == IF known[c][id] = Absent THEN n ELSE known[c][id]

ClientConnects(c) ==
  /\ shows[c] = Absent
  /\ known' = [known EXCEPT ![c] = [id \in BlockIds |->
                  IF HasNode(id) THEN ReadAhead(c, id, blockNode[id].made) ELSE known[c][id]]]
  /\ \E list \in SetToSeqs({id \in BlockIds : HasNode(id)}) :
       /\ ByNumber(list)
       /\ shows' = [shows EXCEPT ![c] = [i \in DOMAIN list |->
            [id |-> list[i], made |-> blockNode[list[i]].made, values |-> known'[c][list[i]]]]]
  /\ UNCHANGED serverVars

\* Mutant of ClientDisconnects: what was read is kept for the next connection.
DisconnectKeepsContext(c) ==
  shows[c] # Absent /\ shows' = [shows EXCEPT ![c] = Absent] /\ UNCHANGED <<serverVars, known>>

\* With the connection the client drops its blocks and what it has read.
ClientDisconnects(c) ==
  /\ shows[c] # Absent
  /\ shows' = [shows EXCEPT ![c] = Absent]
  /\ known' = [known EXCEPT ![c] = [id \in BlockIds |-> Absent]]
  /\ UNCHANGED serverVars

\* onAddFunctionBlock(): the server fails over an old node, or the client fails
\* to build the block that was added.
ClientAdds(c, id, fails) ==
  /\ shows[c] # Absent /\ c \in BlockWriters
  /\ ServerAdds(id)
  /\ IF HasNode(id) \/ fails
     THEN UNCHANGED <<shows, known>>
     ELSE /\ known' = [known EXCEPT ![c][id] = ReadAhead(c, id, made')]
          /\ shows' = [shows EXCEPT ![c] = Append(@, [id |-> id, made |-> made', values |-> known'[c][id]])]

\* onRemoveFunctionBlock(): the block is dropped when the server says it is gone.
ClientRemoves(c, i, refused) ==
  LET id == shows[c][i].id IN
  /\ c \in BlockWriters
  /\ refused => id \in Ids(device)
  /\ ServerRemoves(id, refused)
  /\ shows' = IF refused THEN shows ELSE [shows EXCEPT ![c] = RemoveAt(@, i)]
  /\ UNCHANGED known

BlockMirrorNext ==
  \/ \E id \in BlockIds : AppAdds(id) \/ AppRemoves(id)
  \/ \E b \in ToSet(device) : AppRenames(b)
  \/ \E c \in BlockClients :
       \/ ClientConnects(c)
       \/ ClientDisconnects(c)
       \/ \E id \in BlockIds, fails \in BOOLEAN : ClientAdds(c, id, fails)
       \/ shows[c] # Absent /\ \E i \in DOMAIN shows[c], refused \in BOOLEAN : ClientRemoves(c, i, refused)

-----------------------------------------------------------------------------
(* Properties *)

\* Type invariant, with the shape of the server's list: an entry per node.
BlockMirrorTypeOK ==
  /\ made \in 0..MaxBlocks
  /\ \A b \in ToSet(device) \cup ToSet(tms) : b.id \in BlockIds /\ b.made \in 1..made
  /\ ToSet(tms) = {Block(id, blockNode[id].made) : id \in {x \in BlockIds : HasNode(x)}}
  /\ \A blocks \in {device, tms} : \A i, j \in DOMAIN blocks : blocks[i].id = blocks[j].id => i = j
  /\ \A c \in BlockClients : shows[c] # Absent => \A b \in ToSet(shows[c]) : b.made \in 1..made /\ b.values \in 1..made

\* The device and the nodes differ by the blocks the application added or
\* removed behind the server's back and by those whose removal was refused or
\* whose id had an old node, and by nothing else.
MirrorDiffersWhereTold ==
  /\ Numbers(device) \ Numbers(tms) = apart
  /\ Numbers(tms) \ Numbers(device) = dangling

\* Until a block is removed through the server, a client has the blocks in the
\* order of the device and none twice.  (Afterwards a number can be given twice.)
OrderUntilRemoval ==
  ~shrunk => \A c \in BlockClients : shows[c] # Absent =>
    \A i, j \in DOMAIN shows[c], k, l \in DOMAIN device :
      shows[c][i].made = device[k].made /\ shows[c][j].made = device[l].made => (i < j <=> k < l)

\* The node of the first block under an id has the name of the block.  (A later
\* one with the id is never heard of, and an old node hears of the new block.)
FirstBlockIsHeard ==
  \A id \in BlockIds :
    /\ (HasNode(id) => registry[id] # Absent /\ registry[id] <= blockNode[id].made)
    /\ (HasNode(id) /\ registry[id] = blockNode[id].made /\ Block(id, registry[id]) \in ToSet(device))
         => blockNode[id].name = blockName[registry[id]]

\* A block that a client is shown has its own values, or those of a block that
\* had its id before and that this client had read since it connected.
OldValuesWithinAConnection ==
  [][\A c \in BlockClients : shows'[c] # Absent =>
       \A b \in ToSet(shows'[c]) :
         \/ b.values = b.made
         \/ shows[c] # Absent /\ b.values = known[c][b.id] /\ b.values < b.made]_blockVars
=============================================================================
