--------------------------- MODULE TmsLibraryProofs ---------------------------
(***************************************************************************)
(* Proofs about TmsLibrary: the invariants of its parts hold of the device *)
(* as a whole, for any values of the constants.  Every step of the library *)
(* is a step of each part or leaves the part alone, so that the inductive  *)
(* invariants of the parts are kept.                                       *)
(***************************************************************************)
EXTENDS TmsLibrary, MirrorProofs, EndpointProofs

\* Where a part begins, ...
LEMMA PartsInitially ==
  Init => /\ NameMirrorInit /\ DeviceInfoInit /\ SignalMirrorInit /\ SignalValuesInit /\ EnumTypesInit
          /\ ServerSessionsInit /\ ServerNodesInit /\ ClientModulesInit /\ BlockMirrorInit /\ TreeInit
BY DEF Init

\* ... and what a step of the library is to it.
LEMMA StepOfParts ==
  ASSUME [Next]_tmsVars
  PROVE  /\ [NameMirrorNext]_nameVars /\ [InfoNext \/ ModeNext]_deviceInfoVars /\ [PortNext]_signalVars
         /\ [SignalValuesNext]_valueVars /\ [EnumTypesNext]_enumVars
         /\ [ServerSessionsNext]_sessionVars /\ [ServerNodesNext]_nodeVars
         /\ [BlockMirrorNext]_blockVars /\ [TreeNext]_treeVars
         /\ [CreateNext]_creationVars /\ [CompleteNext]_<<target, completed>>
BY DEF Next, MirrorNext, BelowNext, tmsVars, mirrorVars, belowVars, clientModuleVars

\* The texts of a component and its node agree when nobody changes them, and a
\* client is told the device info and the domain as the device has them
\* (TmsServerComponent's and TmsServerDevice's callbacks, TmsClientDevice's
\* property access), for any attributes, texts, fields and values.
THEOREM TextsAndInfo == Spec => []TextsAndInfoAreMirrored
<1> DEFINE Inv == NamesInv /\ InfoInv
<1>1. Init => Inv
  BY PartsInitially, NamesInitially, InfoInitially
<1>2. Inv /\ [Next]_tmsVars => Inv'
  BY StepOfParts, NamesStep, InfoStep
<1>3. Inv => TextsAndInfoAreMirrored
  BY NamesInvImplies, InfoInvImplies DEF TextsAndInfoAreMirrored
<1> QED BY <1>1, <1>2, <1>3, PTL DEF Spec

\* The references of a port are its connection, a client's registry has no object
\* that is gone, value nodes have the types of the samples, a client that has seen
\* them goes on reading, and an enumeration arrives under its label, for any
\* signals, types and servers.
THEOREM SignalsMirrored == Spec => []SignalsAreMirrored
<1> DEFINE Inv == SignalInv /\ ValuesInv /\ EnumInv
<1>1. Init => Inv
  BY PartsInitially, SignalInitially, ValuesInitially, EnumInitially
<1>2. Inv /\ [Next]_tmsVars => Inv'
  BY StepOfParts, SignalStep, ValuesStep, EnumStep
<1>3. Inv => SignalsAreMirrored
  BY SignalInvImplies DEF SignalsAreMirrored, ValuesInv, ValueNodesInv, ValueClientInv, EnumInv
<1> QED BY <1>1, <1>2, <1>3, PTL DEF Spec

LEMMA BlocksInvariant == Spec => []BlockInv
<1>1. Init => BlockInv
  BY PartsInitially, BlocksInitially
<1>2. BlockInv /\ [Next]_tmsVars => BlockInv'
  BY StepOfParts, BlockStep
<1> QED BY <1>1, <1>2, PTL DEF Spec

\* The device, its nodes and what clients show of them differ by exactly what the
\* application did behind the server's back, what was refused and what came under
\* an id that was used before; until a block is removed through the server a
\* client has them in their order (TmsServerDevice's and TmsClientDevice's
\* function blocks), for any number of clients, ids and blocks.
THEOREM BlocksMirrored == Spec => []BlocksAreMirrored
<1>1. BlockInv => BlocksAreMirrored
  BY BlockInvImplies DEF BlocksAreMirrored
<1> QED BY <1>1, BlocksInvariant, PTL

ModulesInv == CreationInv /\ TargetInv

LEMMA ModulesInvariant == Spec => []ModulesInv
<1>1. Init => ModulesInv
  BY PartsInitially, CreationInitially, TargetInitially DEF ModulesInv
<1>2. ModulesInv /\ [Next]_tmsVars => ModulesInv'
  BY StepOfParts, CreationStep, TargetStep DEF ModulesInv
<1> QED BY <1>1, <1>2, PTL DEF Spec

\* A device's info is one node's, the one the user chose or the only device of the
\* DeviceSet, the configured id is kept unless a sibling has it, a generic device
\* is refused only where another was being added or had its generated id, and a
\* capability leads to each address once (the client modules' onCreateDevice() and
\* onCompleteServerCapability()), for any number of creations and modules' threads,
\* any ids and addresses and any servers whose hierarchy the search reaches.
THEOREM DevicesIdentified == Spec => []DevicesAreIdentified
<1>1. ModulesInv => DevicesAreIdentified
  BY CreationInvImplies, TargetInvImplies DEF ModulesInv, DevicesAreIdentified
<1> QED BY <1>1, ModulesInvariant, PTL

\* A block's values stay what the client was told while it is connected, a mode a
\* client has set was one the device has then, and a capability that is completed a
\* second time stays as it is (TmsClientFunctionBlock, setOperationMode(),
\* onCompleteServerCapability()), for any clients, blocks, modes and capabilities.
THEOREM ToldTheTruth == Spec => ClientsAreToldTheTruth
<1>1. BlockInv /\ [Next]_tmsVars => [ShowsOldValues]_blockVars
  BY StepOfParts, OldValuesStep
<1>2. [Next]_tmsVars => [ModeIsAnswered]_deviceInfoVars
  BY StepOfParts, ModeStep
<1>3. ModulesInv /\ [Next]_tmsVars
        => [completed # << >> /\ completed' = completed => target' = target]_clientModuleVars
  BY StepOfParts, TargetStep DEF ModulesInv
<1> QED BY <1>1, <1>2, <1>3, BlocksInvariant, ModulesInvariant, PTL
        DEF Spec, ClientsAreToldTheTruth, OldValuesWithinAConnection, AcceptedModeIsSet, CompletedIsComplete,
            ShowsOldValues, ModeIsAnswered

ServerInv == SessionsInv /\ ServerNodesInv

LEMMA ServerInvariant == Spec => []ServerInv
<1>1. Init => ServerInv
  BY PartsInitially, SessionsInitially, ServerNodesInitially DEF ServerInv
<1>2. ServerInv /\ [Next]_tmsVars => ServerInv'
  BY StepOfParts, SessionsStep, ServerNodesStep DEF ServerInv
<1> QED BY <1>1, <1>2, PTL DEF Spec

\* Sessions act for those they have identified, the lock is an open session's or
\* a token's, nodes have the context, the optional children and the callback of
\* the object they were made for, and calls reach objects that are there but in
\* two named cases (OpcUaServer's sessions and callbacks, TmsServerObject's
\* registration, requests and teardown), for any users, tokens and blocks and any
\* number of objects.
THEOREM ServerOwn == Spec => []ServerKeepsItsOwn
<1>1. ServerInv => ServerKeepsItsOwn
  BY ServerNodesInvImplies DEF ServerInv, SessionsInv, ServerKeepsItsOwn
<1> QED BY <1>1, ServerInvariant, PTL

\* Nobody ends the lock of another before its time, a password comes and goes with
\* whoever gives it and has the lock, and blocks come and go only for requests that
\* may write the device and call its methods, whatever the interleaving of
\* sessions, requests, registrations and the stop of the server.
THEOREM Guarded == Spec => ServerIsGuarded
<1>1. ServerInv /\ [Next]_tmsVars => [LockShortened => ByAHolder]_sessionVars
  BY StepOfParts, LockStep DEF ServerInv
<1>2. ServerInv /\ [Next]_tmsVars => [password' # password => PasswordRightly]_sessionVars
  BY StepOfParts, PasswordStep DEF ServerInv
<1>3. ServerInv /\ [Next]_tmsVars
        => [lifeStage' = "running" /\ LiveBlocks' # LiveBlocks =>
              request.rights = Internal \/ {"Write", "Execute"} \subseteq request.rights]_nodeVars
  BY StepOfParts, ChangeIsAllowed DEF ServerInv
<1> QED BY <1>1, <1>2, <1>3, ServerInvariant, PTL
        DEF Spec, ServerIsGuarded, LockIsNotTaken, PasswordIsKept, ChangeNeedsWrite, LockShortened, ByAHolder, PasswordRightly

-----------------------------------------------------------------------------
(* ComponentTree: the tree a client builds is that of the application.  A    *)
(* collector and a builder call themselves for what hangs below, so that    *)
(* both come to an end; a list is the nodes it is made of by their rank in  *)
(* one total order, which is that of the numbers where they were read.      *)

\* A node hangs where the kinds of its component and its owner say, ...
Hung(n) ==
  /\ n.owner \in Components /\ n.comp \in Components /\ n.owner < n.comp
  /\ Hangs(n.comp, n.owner) /\ n.list = ListOf(n.comp, n.owner)

\* ... with the number of those before it in its list, but for late servers.
PlacedAt(n, i) ==
  object.children[n.owner][i] = n.comp /\ n.number = Cardinality(Earlier(n.owner, i))
Placed(n) ==
  \/ n.list = "Srv" /\ n.comp \in object.added
  \/ \E i \in DOMAIN object.children[n.owner] : PlacedAt(n, i)

NodesHang(N) ==
  /\ \A n \in N : Hung(n) /\ n.number \in Nat /\ n.comp \notin object.late /\ Placed(n)
  /\ \A n, m \in N : n.owner = m.owner /\ n.comp = m.comp => n = m

\* The components stay what they are, and servers are all that is added.
TreeStays ==
  /\ {"kind", "children", "late", "added", "hidden"} \subseteq DOMAIN object
  /\ \E tree \in TreesOfComponents : object.kind = tree.kind /\ object.late \subseteq tree.late
  /\ nodes = {} => object \in TreesOfComponents
  /\ object.children \in [Components -> Seq(Components)]
  /\ \A p \in Components : IsInjective(object.children[p]) /\ ToSet(object.children[p]) \cap object.late = {}
  /\ object.added \cap object.late = {}

\* A block, an io folder or a folder fails with such a node.
FailsWith(n) == \E row \in Strict(n.owner) : n.list = row[1] /\ HasType(n.comp, row[2])

\* S has the root and all that hangs below, and what builds need was read of it.
ReadWhole(S, N, got) ==
  /\ S \subseteq Components /\ 1 \in S
  /\ \A n \in N : n.owner \in S => n.comp \in S
  /\ \A c \in S : OwnAttributes(c) \subseteq got
BuiltWhole(S, N, bad, can) ==
  \A c \in S : c \in can <=> c \notin bad /\ \A n \in N : n.owner = c /\ FailsWith(n) => n.comp \in can

\* A list has what is looked for and can be built, once.
HasSought(list, N, p, l, can) ==
  LET sought == {n \in N : n.owner = p /\ n.list = l /\ LookedFor(n)}
  IN  /\ list \in Seq(Components) /\ IsInjective(list)
      /\ \A i \in DOMAIN list : list[i] \in can /\ \E n \in sought : n.comp = list[i]
      /\ (l # "Caps" \/ \A n \in sought : n.comp \in can)
         => \A n \in sought : n.comp \in can => \E i \in DOMAIN list : list[i] = n.comp

\* A list is in the order of the application as far as numbers were read.
InOrder(list, p, odd) ==
  \/ object.added \cap ToSet(list) # {}
  \/ \A i, j \in DOMAIN list : i < j /\ list[j] \notin odd =>
       /\ list[i] \notin odd
       /\ \E k, m \in DOMAIN object.children[p] :
            k < m /\ object.children[p][k] = list[i] /\ object.children[p][m] = list[j]

ListsRight(S, N, odd, can, lists) ==
  /\ DOMAIN lists = can /\ 1 \in can
  /\ \A p \in can : \A l \in DOMAIN lists[p] : HasSought(lists[p][l], N, p, l, can) /\ (p \in S => InOrder(lists[p][l], p, odd))
  /\ \A n \in N : n.owner \in can => n.list \in DOMAIN lists[n.owner]

ReadAttributes == {"NumberInList", "FunctionBlockInfo", "BrowseName"}
MirrorTypes(bad, odd, got, can) ==
  /\ bad \subseteq Components /\ odd \subseteq Components /\ can \subseteq Components
  /\ got \subseteq Components \X ReadAttributes
MirrorRight(S, N, bad, odd, got, can, lists) ==
  ReadWhole(S, N, got) /\ BuiltWhole(S, N, bad, can) /\ ListsRight(S, N, odd, can, lists)

TreeInv ==
  /\ TreeStays /\ NodesHang(nodes) /\ NodesHang(seen)
  /\ MirrorTypes(faulty, unread, reads, built)
  /\ mirror = << >> => reads = {} /\ built = {}
  /\ mirror # << >> => \E S \in SUBSET Components : MirrorRight(S, seen, faulty, unread, reads, built, mirror)


-----------------------------------------------------------------------------
(* Down a tree: what is gathered, and what fails *)

\* What the last k of N components and those below them have together.
Gatherings(N, own, below, k) ==
  {f \in [(N - k + 1)..N -> SUBSET UNION {own[c] : c \in 1..N}] :
     \A c \in (N - k + 1)..N : f[c] = own[c] \cup UNION {f[d] : d \in below[c]}}

\* Going down a tree ends: a component is gathered after those below it.
LEMMA GatheringExists ==
  ASSUME NEW N \in Nat, NEW A, NEW own \in [1..N -> SUBSET A], NEW below \in [1..N -> SUBSET (1..N)],
         \A c \in 1..N : \A d \in below[c] : d > c,
         NEW k \in 0..N
  PROVE  Gatherings(N, own, below, k) # {}
<1> DEFINE All == UNION {own[c] : c \in 1..N}
           S == {m \in Nat : m <= N => Gatherings(N, own, below, m) # {}}
<1>1. 0 \in S
  <2> DEFINE f == [c \in (N - 0 + 1)..N |-> {}]
  <2>1. f \in [(N - 0 + 1)..N -> SUBSET All] /\ ~(\E c \in (N - 0 + 1)..N : TRUE)
    OBVIOUS
  <2> QED BY <2>1 DEF Gatherings
<1>2. ASSUME NEW m \in Nat, m \in S PROVE m + 1 \in S
  <2> SUFFICES ASSUME m + 1 <= N PROVE Gatherings(N, own, below, m + 1) # {}
    OBVIOUS
  <2>1. PICK f \in Gatherings(N, own, below, m) : TRUE
    BY <1>2
  <2>2. /\ f \in [(N - m + 1)..N -> SUBSET All]
        /\ \A c \in (N - m + 1)..N : f[c] = own[c] \cup UNION {f[d] : d \in below[c]}
    BY <2>1 DEF Gatherings
  <2>3. PICK r \in 1..N : r = N - m
    OBVIOUS
  <2>4. N - (m + 1) + 1 = r /\ N - m + 1 = r + 1 /\ r..N = {r} \cup (r + 1)..N
    BY <2>3
  <2> DEFINE new == own[r] \cup UNION {f[d] : d \in below[r]}
             g == [c \in r..N |-> IF c = r THEN new ELSE f[c]]
  <2>5. below[r] \subseteq (r + 1)..N
    BY <2>3
  <2>6. new \subseteq All
    BY <2>2, <2>4, <2>5
  <2>7. g \in [r..N -> SUBSET All]
    <3> HIDE DEF new, All
    <3> QED BY <2>2, <2>4, <2>6
  <2>8. ASSUME NEW c \in r..N PROVE g[c] = own[c] \cup UNION {g[d] : d \in below[c]}
    <3>1. below[c] \subseteq (r + 1)..N /\ c \in 1..N
      BY <2>3, <2>5
    <3>2. \A d \in below[c] : g[d] = f[d]
      <4> HIDE DEF new
      <4> QED BY <3>1
    <3>3. UNION {g[d] : d \in below[c]} = UNION {f[d] : d \in below[c]}
      <4> HIDE DEF g
      <4> QED BY <3>2
    <3>4. CASE c = r
      <4>1. g[c] = new
        <5> HIDE DEF new
        <5> QED BY <3>4
      <4> HIDE DEF g
      <4> QED BY <3>3, <3>4, <4>1
    <3>5. CASE c # r
      <4>1. g[c] = f[c] /\ c \in (r + 1)..N
        <5> HIDE DEF new
        <5> QED BY <2>4, <3>5
      <4> HIDE DEF g, new
      <4> QED BY <2>2, <2>4, <3>3, <4>1
    <3> QED BY <3>4, <3>5
  <2> HIDE DEF g, All
  <2>9. g \in [(N - (m + 1) + 1)..N -> SUBSET All] /\ (\A c \in (N - (m + 1) + 1)..N : g[c] = own[c] \cup UNION {g[d] : d \in below[c]})
    BY <2>4, <2>7, <2>8
  <2> QED BY <2>9 DEF Gatherings, All
<1> HIDE DEF S
<1>3. Nat \subseteq S
  BY <1>1, <1>2, SetInduction
<1> QED BY <1>3 DEF S

\* A set of components has a last one.
LEMMA LargestOf ==
  ASSUME NEW N \in Nat, NEW S, S \subseteq 1..N, S # {}
  PROVE  \E m \in S : \A x \in S : x <= m
<1> DEFINE T == {k \in Nat : N - k \in S}
<1>1. T \subseteq Nat /\ T # {}
  <2>1. PICK x \in S : TRUE
    OBVIOUS
  <2>2. x \in 1..N
    OBVIOUS
  <2>3. N - x \in Nat /\ N - (N - x) = x
    BY <2>2
  <2> QED BY <2>1, <2>3
<1>2. PICK k \in T : \A n \in T : <<n, k>> \notin OpToRel(<, Nat)
  <2> HIDE DEF T
  <2> QED BY <1>1, NatLessThanWellFounded, WFMin
<1>3. \A n \in T : ~(n < k)
  BY <1>2, <1>1 DEF OpToRel
<1>4. \A x \in S : x <= N - k
  <2> SUFFICES ASSUME NEW x \in S PROVE x <= N - k
    OBVIOUS
  <2>1. x \in 1..N /\ k \in Nat
    BY <1>1
  <2>2. N - x \in Nat /\ N - (N - x) = x
    BY <2>1
  <2>3. N - x \in T
    BY <2>2
  <2>4. ~(N - x < k)
    BY <1>3, <2>3
  <2> QED BY <2>1, <2>4
<1>5. N - k \in S
  BY <1>2
<1> QED BY <1>4, <1>5

\* What is bad or has something failing below it fails.
Failing(N, bad, below) ==
  {F \in SUBSET (1..N) : \A c \in 1..N : c \in F <=> c \in bad \/ \E d \in below[c] : d \in F}

LEMMA FailuresExist ==
  ASSUME NEW N \in Nat, NEW bad, NEW below \in [1..N -> SUBSET (1..N)],
         \A c \in 1..N : \A d \in below[c] : d > c
  PROVE  Failing(N, bad, below) # {}
<1> DEFINE own == [c \in 1..N |-> IF c \in bad THEN {c} ELSE {}]
<1>1. own \in [1..N -> SUBSET (1..N)]
  OBVIOUS
<1>2. N \in 0..N /\ N - N + 1 = 1
  OBVIOUS
<1>3. PICK f \in Gatherings(N, own, below, N) : TRUE
  <2> HIDE DEF own
  <2>1. Gatherings(N, own, below, N) # {}
    BY <1>1, <1>2, GatheringExists
  <2> QED BY <2>1
<1>4. \A c \in 1..N : f[c] = own[c] \cup UNION {f[d] : d \in below[c]}
  <2> HIDE DEF own
  <2> QED BY <1>2, <1>3 DEF Gatherings
<1> DEFINE F == {c \in 1..N : f[c] # {}}
<1>5. ASSUME NEW c \in 1..N PROVE c \in F <=> c \in bad \/ \E d \in below[c] : d \in F
  <2>1. own[c] # {} <=> c \in bad
    OBVIOUS
  <2>2. below[c] \subseteq 1..N
    OBVIOUS
  <2>3. (UNION {f[d] : d \in below[c]}) # {} <=> \E d \in below[c] : f[d] # {}
    OBVIOUS
  <2> HIDE DEF own
  <2> QED BY <1>4, <2>1, <2>2, <2>3
<1>6. F \in SUBSET (1..N)
  OBVIOUS
<1> HIDE DEF F
<1> QED BY <1>5, <1>6 DEF Failing

\* What is gathered was had by somebody.
GatheredFrom(N, own, below, f) ==
  \A c \in 1..N : \A x \in f[c] : x \in own[c] \/ \E d \in below[c] : x \in f[d]

LEMMA GatheredIsBounded ==
  ASSUME NEW N \in Nat, NEW A, NEW own \in [1..N -> SUBSET A], NEW below \in [1..N -> SUBSET (1..N)],
         \A c \in 1..N : \A d \in below[c] : d > c,
         NEW f, GatheredFrom(N, own, below, f)
  PROVE  \A c \in 1..N : f[c] \subseteq A
<1> DEFINE S == {c \in 1..N : ~(f[c] \subseteq A)}
<1> SUFFICES ASSUME S # {} PROVE FALSE
  OBVIOUS
<1>1. S \subseteq 1..N
  OBVIOUS
<1>2. PICK m \in S : \A x \in S : x <= m
  <2> HIDE DEF S
  <2> QED BY <1>1, LargestOf
<1>3. m \in 1..N /\ ~(f[m] \subseteq A)
  OBVIOUS
<1>4. \A d \in below[m] : f[d] \subseteq A
  <2> SUFFICES ASSUME NEW d \in below[m] PROVE f[d] \subseteq A
    OBVIOUS
  <2>1. d \in 1..N /\ d > m
    BY <1>3
  <2>2. d \notin S
    <3> HIDE DEF S
    <3> QED BY <1>1, <1>2, <1>3, <2>1
  <2> QED BY <2>1, <2>2
<1> QED BY <1>3, <1>4 DEF GatheredFrom

-----------------------------------------------------------------------------
(* Arranged lists *)

\* What is arranged: nodes with their components, no component twice.
Arrangeable(refs) ==
  /\ IsFiniteSet(refs)
  /\ \A n \in refs : n.comp \in Nat
  /\ \A n, m \in refs : n.comp = m.comp => n = m

\* Every two of the nodes are listed in one order.
LEMMA BeforeIsTotal ==
  ASSUME NEW refs, Arrangeable(refs), NEW first
  PROVE  /\ \A n, m \in refs : n = m \/ Before(n, m, first) \/ Before(m, n, first)
         /\ \A n, m \in refs : ~(Before(n, m, first) /\ Before(m, n, first))
         /\ \A n, m, k \in refs : Before(n, m, first) /\ Before(m, k, first) => Before(n, k, first)
<1>1. \A n, m \in refs : n.comp \in Nat /\ m.comp \in Nat /\ (n.comp = m.comp => n = m)
  BY DEF Arrangeable
<1> DEFINE Has(n) == HasType(n.comp, first)
           Fwd(n, m) == IF forward THEN n.comp < m.comp ELSE m.comp < n.comp
<1>2. \A n : Has(n) \in BOOLEAN
  BY DEF HasType
<1>3. \A n, m : Before(n, m, first) <=> IF Has(n) = Has(m) THEN Fwd(n, m) ELSE Has(n)
  BY DEF Before
<1>4. /\ \A n, m \in refs : n = m \/ Fwd(n, m) \/ Fwd(m, n)
      /\ \A n, m \in refs : ~(Fwd(n, m) /\ Fwd(m, n))
      /\ \A n, m, k \in refs : Fwd(n, m) /\ Fwd(m, k) => Fwd(n, k)
  BY <1>1
<1> HIDE DEF Has, Fwd
<1>5. \A n, m \in refs : Before(n, m, first) <=> (Has(n) /\ ~Has(m)) \/ ((Has(n) <=> Has(m)) /\ Fwd(n, m))
  <2> SUFFICES ASSUME NEW n \in refs, NEW m \in refs
               PROVE  Before(n, m, first) <=> (Has(n) /\ ~Has(m)) \/ ((Has(n) <=> Has(m)) /\ Fwd(n, m))
    OBVIOUS
  <2>1. (Has(n) = Has(m)) <=> (Has(n) <=> Has(m))
    BY <1>2
  <2> QED BY <1>3, <2>1
<1> QED BY <1>4, <1>5

\* Numbers that have their place come first; the order is total and strict.
LEMMA PrecedesIsTotal ==
  ASSUME NEW refs, Arrangeable(refs), NEW first, \A n \in refs : n.number \in Nat
  PROVE  /\ \A n, m \in refs : n = m \/ Precedes(n, m, refs, first) \/ Precedes(m, n, refs, first)
         /\ \A n, m \in refs : ~(Precedes(n, m, refs, first) /\ Precedes(m, n, refs, first))
         /\ \A n, m, k \in refs : Precedes(n, m, refs, first) /\ Precedes(m, k, refs, first) => Precedes(n, k, refs, first)
<1> DEFINE Has(n) == HasPlace(n, refs, first)
           Num(n) == NumberInList(n)
           Bef(n, m) == Before(n, m, first)
           Pre(n, m) == Precedes(n, m, refs, first)
<1>1. /\ \A n, m \in refs : n = m \/ Bef(n, m) \/ Bef(m, n)
      /\ \A n, m \in refs : ~(Bef(n, m) /\ Bef(m, n))
      /\ \A n, m, k \in refs : Bef(n, m) /\ Bef(m, k) => Bef(n, k)
  BY BeforeIsTotal
<1>2. \A n \in refs : Has(n) => Num(n) \in Nat
  BY DEF HasPlace, NumberInList
<1>3. \A n, m \in refs : Has(n) /\ Has(m) /\ n # m => Num(n) # Num(m)
  BY <1>1 DEF HasPlace
<1>4. \A n : Has(n) \in BOOLEAN
  BY DEF HasPlace
<1>5. \A n, m \in refs : Pre(n, m) <=> \/ Has(n) /\ Has(m) /\ Num(n) < Num(m)
                                       \/ Has(n) /\ ~Has(m)
                                       \/ ~Has(n) /\ ~Has(m) /\ Bef(n, m)
  <2> SUFFICES ASSUME NEW n \in refs, NEW m \in refs
               PROVE  Pre(n, m) <=> \/ Has(n) /\ Has(m) /\ Num(n) < Num(m)
                                    \/ Has(n) /\ ~Has(m)
                                    \/ ~Has(n) /\ ~Has(m) /\ Bef(n, m)
    OBVIOUS
  <2>1. CASE Has(n) /\ Has(m)
    BY <2>1 DEF Precedes
  <2>2. CASE Has(n) # Has(m)
    BY <2>2, <1>4 DEF Precedes
  <2>3. CASE ~Has(n) /\ ~Has(m)
    BY <2>3, <1>4 DEF Precedes
  <2> QED BY <2>1, <2>2, <2>3, <1>4
<1> HIDE DEF Has, Num, Bef, Pre
<1>6. \A n, m \in refs : n = m \/ Pre(n, m) \/ Pre(m, n)
  BY <1>1, <1>2, <1>3, <1>4, <1>5
<1>7. \A n, m \in refs : ~(Pre(n, m) /\ Pre(m, n))
  BY <1>1, <1>2, <1>3, <1>4, <1>5
<1>8. \A n, m, k \in refs : Pre(n, m) /\ Pre(m, k) => Pre(n, k)
  BY <1>1, <1>2, <1>3, <1>4, <1>5
<1> QED BY <1>6, <1>7, <1>8 DEF Pre

\* A finite set in a total order has an element with each number of others ahead of it.
LEMMA PlacesOfOrder ==
  ASSUME NEW S, IsFiniteSet(S), NEW ahead \in [S -> SUBSET S],
         \A x, y \in S : x = y \/ x \in ahead[y] \/ y \in ahead[x],
         \A x \in S : x \notin ahead[x],
         \A x, y \in S : x \in ahead[y] => ahead[x] \subseteq ahead[y]
  PROVE  /\ Cardinality(S) \in Nat
         /\ \A x \in S : Cardinality(ahead[x]) \in 0..(Cardinality(S) - 1)
         /\ \A x, y \in S : x \in ahead[y] => Cardinality(ahead[x]) < Cardinality(ahead[y])
         /\ \A i \in 1..Cardinality(S) : \E x \in S : Cardinality(ahead[x]) = i - 1
<1> DEFINE N == Cardinality(S)
           Rank(x) == Cardinality(ahead[x])
<1>1. N \in Nat
  BY FS_CardinalityType
<1>2. ASSUME NEW x \in S PROVE IsFiniteSet(ahead[x]) /\ Rank(x) \in Nat /\ Rank(x) < N
  <2>1. ahead[x] \in SUBSET S /\ x \notin ahead[x]
    OBVIOUS
  <2>2. IsFiniteSet(ahead[x]) /\ Rank(x) <= N /\ (N = Rank(x) => S = ahead[x])
    BY <2>1, FS_Subset
  <2>3. Rank(x) \in Nat
    BY <2>2, FS_CardinalityType
  <2> QED BY <1>1, <2>1, <2>2, <2>3
<1>3. ASSUME NEW x \in S, NEW y \in S, x \in ahead[y] PROVE Rank(x) < Rank(y)
  <2>1. ahead[x] \in SUBSET ahead[y] /\ x \notin ahead[x]
    BY <1>3
  <2>2. IsFiniteSet(ahead[y]) /\ Rank(x) \in Nat /\ Rank(y) \in Nat
    BY <1>2
  <2>3. Rank(x) <= Rank(y) /\ (Rank(y) = Rank(x) => ahead[y] = ahead[x])
    BY <2>1, <2>2, FS_Subset
  <2> QED BY <1>3, <2>1, <2>2, <2>3
<1> DEFINE rank == [x \in S |-> Rank(x)]
           R == 0..(N - 1)
<1> HIDE DEF Rank
<1>4. rank \in [S -> R] /\ \A x, y \in S : rank[x] = rank[y] => x = y
  <2>1. \A x \in S : Rank(x) \in R
    BY <1>1, <1>2
  <2>2. ASSUME NEW x \in S, NEW y \in S, Rank(x) = Rank(y) PROVE x = y
    <3>1. Rank(x) \in Nat /\ Rank(y) \in Nat
      BY <1>2
    <3>2. ~(Rank(x) < Rank(y)) /\ ~(Rank(y) < Rank(x))
      BY <2>2, <3>1
    <3>3. x \notin ahead[y] /\ y \notin ahead[x]
      BY <1>3, <3>2
    <3> QED BY <3>3
  <2> QED BY <2>1, <2>2
<1>5. rank \in Injection(S, R)
  <2> HIDE DEF rank
  <2> QED BY <1>4 DEF Injection, IsInjective
<1>6. IsFiniteSet(R) /\ Cardinality(R) = N
  <2> HIDE DEF N
  <2>1. 0 \in Int /\ N - 1 \in Int
    BY <1>1
  <2>2. IsFiniteSet(R) /\ Cardinality(R) = IF 0 > N - 1 THEN 0 ELSE N - 1 - 0 + 1
    BY <2>1, FS_Interval
  <2> QED BY <1>1, <2>2
<1>7. rank \in Surjection(S, R)
  <2> HIDE DEF rank
  <2> QED BY <1>5, <1>6, FS_Injection
<1>8. \A i \in 1..N : \E x \in S : Rank(x) = i - 1
  <2> SUFFICES ASSUME NEW i \in 1..N PROVE \E x \in S : Rank(x) = i - 1
    OBVIOUS
  <2>1. i - 1 \in R
    BY <1>1
  <2>2. PICK x \in S : rank[x] = i - 1
    <3> HIDE DEF rank
    <3> QED BY <1>7, <2>1 DEF Surjection
  <2> QED BY <2>2
<1>9. \A x \in S : Rank(x) \in 0..(N - 1)
  <2> HIDE DEF N
  <2> QED BY <1>1, <1>2
<1>10. \A x, y \in S : x \in ahead[y] => Rank(x) < Rank(y)
  BY <1>3
<1> QED BY <1>1, <1>8, <1>9, <1>10 DEF Rank

\* A list that is arranged has every node once, each before those it precedes.
LEMMA ArrangedHasAll ==
  ASSUME NEW refs, Arrangeable(refs), \A n \in refs : n.number \in Nat, NEW first
  PROVE  /\ Cardinality(refs) \in Nat
         /\ \E g \in [1..Cardinality(refs) -> refs] :
              /\ Arranged(refs, first) = [i \in 1..Cardinality(refs) |-> g[i].comp]
              /\ \A n \in refs : \E i \in 1..Cardinality(refs) : g[i] = n
              /\ \A i, j \in 1..Cardinality(refs) : i < j => Precedes(g[i], g[j], refs, first)
<1> DEFINE Pre(m, n) == Precedes(m, n, refs, first)
           ahead == [n \in refs |-> {m \in refs : Pre(m, n)}]
           N == Cardinality(refs)
           Rank(n) == Cardinality({m \in refs : Pre(m, n)})
<1>1. /\ \A n, m \in refs : n = m \/ Pre(n, m) \/ Pre(m, n)
      /\ \A n, m \in refs : ~(Pre(n, m) /\ Pre(m, n))
      /\ \A n, m, k \in refs : Pre(n, m) /\ Pre(m, k) => Pre(n, k)
  BY PrecedesIsTotal
<1>2. \A n \in refs : Rank(n) = Cardinality(ahead[n])
  <2> HIDE DEF Pre
  <2> QED OBVIOUS
<1>3. \A n, m \in refs : n \in ahead[m] <=> Pre(n, m)
  <2> HIDE DEF Pre
  <2> QED OBVIOUS
<1>4. ahead \in [refs -> SUBSET refs] /\ IsFiniteSet(refs)
  BY DEF Arrangeable
<1> HIDE DEF ahead, Pre, Rank
<1>5. /\ \A n, m \in refs : n = m \/ n \in ahead[m] \/ m \in ahead[n]
      /\ \A n \in refs : n \notin ahead[n]
      /\ \A n, m \in refs : n \in ahead[m] => ahead[n] \subseteq ahead[m]
  <2>1. ASSUME NEW n \in refs, NEW m \in refs, n \in ahead[m] PROVE ahead[n] \subseteq ahead[m]
    <3> SUFFICES ASSUME NEW k \in ahead[n] PROVE k \in ahead[m]
      OBVIOUS
    <3>1. k \in refs
      BY <1>4
    <3> QED BY <1>1, <1>3, <2>1, <3>1
  <2> QED BY <1>1, <1>3, <2>1
<1>6. /\ N \in Nat
      /\ \A n \in refs : Rank(n) \in 0..(N - 1)
      /\ \A n, m \in refs : Pre(n, m) => Rank(n) < Rank(m)
      /\ \A i \in 1..N : \E n \in refs : Rank(n) = i - 1
  <2>1. /\ Cardinality(refs) \in Nat
        /\ \A n \in refs : Cardinality(ahead[n]) \in 0..(Cardinality(refs) - 1)
        /\ \A n, m \in refs : n \in ahead[m] => Cardinality(ahead[n]) < Cardinality(ahead[m])
        /\ \A i \in 1..Cardinality(refs) : \E n \in refs : Cardinality(ahead[n]) = i - 1
    BY <1>4, <1>5, PlacesOfOrder
  <2> QED BY <1>2, <1>3, <2>1
<1> DEFINE g == [i \in 1..N |-> CHOOSE n \in refs : Rank(n) = i - 1]
<1>7. g \in [1..N -> refs] /\ \A i \in 1..N : Rank(g[i]) = i - 1
  <2> HIDE DEF N
  <2> QED BY <1>6
<1>8. Arranged(refs, first) = [i \in 1..N |-> g[i].comp]
  BY DEF Arranged, Rank, Pre
<1> HIDE DEF g, N
<1>9. \A n, m \in refs : Rank(n) = Rank(m) => n = m
  BY <1>1, <1>6
<1>10. \A n \in refs : \E i \in 1..N : g[i] = n
  <2> SUFFICES ASSUME NEW n \in refs PROVE \E i \in 1..N : g[i] = n
    OBVIOUS
  <2>1. PICK i \in 1..N : i - 1 = Rank(n)
    <3>1. Rank(n) \in 0..(N - 1) /\ N \in Nat
      BY <1>6
    <3>2. Rank(n) + 1 \in 1..N /\ (Rank(n) + 1) - 1 = Rank(n)
      BY <3>1
    <3> QED BY <3>2
  <2>2. g[i] \in refs /\ Rank(g[i]) = Rank(n)
    BY <1>7, <2>1
  <2> QED BY <1>9, <2>2
<1>11. \A i, j \in 1..N : i < j => Pre(g[i], g[j])
  <2> SUFFICES ASSUME NEW i \in 1..N, NEW j \in 1..N, i < j PROVE Pre(g[i], g[j])
    OBVIOUS
  <2>1. g[i] \in refs /\ g[j] \in refs /\ Rank(g[i]) = i - 1 /\ Rank(g[j]) = j - 1
    BY <1>7
  <2>2. ~(Rank(g[j]) < Rank(g[i])) /\ Rank(g[i]) # Rank(g[j])
    BY <2>1
  <2> QED BY <1>1, <1>6, <2>1, <2>2
<1> QED BY <1>6, <1>7, <1>8, <1>10, <1>11 DEF N, Pre

-----------------------------------------------------------------------------
(* What hangs where, and that it stays *)

\* At first nothing is there but the application's tree.
LEMMA TreeInitially == TreeInit => TreeStays
<1> SUFFICES ASSUME TreeInit PROVE TreeStays
  OBVIOUS
<1>1. object \in TreesOfComponents
  BY DEF TreeInit
<1>2. /\ object \in [kind : Seq(STRING), children : Seq(Seq(Nat)), hidden : SUBSET Nat, late : SUBSET Nat, added : {{}}]
      /\ Len(object.kind) = Len(object.children)
      /\ \A p \in DOMAIN object.children :
           /\ IsInjective(object.children[p]) /\ ToSet(object.children[p]) \cap object.late = {}
           /\ \A i \in DOMAIN object.children[p] : object.children[p][i] \in (p + 1)..Len(object.kind)
  BY <1>1, ComponentTreeAssumption
<1>3. Components = 1..Len(object.kind) /\ Len(object.kind) \in Nat /\ DOMAIN object.children = Components
  BY <1>2 DEF Components
<1>4. ASSUME NEW p \in Components PROVE object.children[p] \in Seq(Components)
  <2>1. object.children[p] \in Seq(Nat)
    BY <1>2, <1>3
  <2>2. p \in DOMAIN object.children /\ p \in Nat /\ p >= 1
    BY <1>3
  <2>3. \A i \in DOMAIN object.children[p] : object.children[p][i] \in (p + 1)..Len(object.kind)
    BY <1>2, <2>2
  <2>4. \A i \in DOMAIN object.children[p] : object.children[p][i] \in Components
    BY <1>3, <2>2, <2>3
  <2> QED BY <2>1, <2>4
<1>5. object.children \in [Components -> Seq(Components)]
  <2>1. object.children = [p \in Components |-> object.children[p]]
    BY <1>2, <1>3
  <2> QED BY <1>4, <2>1
<1> QED BY <1>1, <1>2, <1>3, <1>5 DEF TreeStays

\* The root is a device, and what can be added late is a server.
LEMMA ComponentsOfTree ==
  ASSUME TreeStays
  PROVE  /\ Components = 1..Len(object.kind) /\ Len(object.kind) \in Nat /\ 1 \in Components /\ KindOf(1) = "device"
         /\ \A s \in object.late : s \in Components /\ 1 < s /\ KindOf(s) = "server"
<1>1. PICK tree \in TreesOfComponents : object.kind = tree.kind /\ object.late \subseteq tree.late
  BY DEF TreeStays
<1>2. /\ tree.kind \in Seq(STRING) /\ tree.kind # <<>> /\ tree.kind[1] = "device"
      /\ \A s \in tree.late : s \in 2..Len(tree.kind) /\ tree.kind[s] = "server"
  BY ComponentTreeAssumption
<1>3. DOMAIN object.kind = 1..Len(object.kind) /\ Len(object.kind) \in Nat /\ Len(object.kind) >= 1
  BY <1>1, <1>2
<1> QED BY <1>1, <1>2, <1>3 DEF Components, KindOf

\* The collector looks into every list, for every type that hangs there.
LEMMA HungIsCollected ==
  ASSUME NEW n, Hung(n)
  PROVE  \E row \in CollectedBelow(n.owner) : n.list = row[1] /\ HasType(n.comp, row[2])
<1>1. CASE KindOf(n.owner) = "device"
  <2>1. n.list = DeviceShows[KindOf(n.comp)] /\ KindOf(n.comp) \in DOMAIN DeviceShows
    BY <1>1 DEF Hung, Hangs, ShownBy, ListOf, IsBlock
  <2>2. CollectedBelow(n.owner) = DeviceCollects \cup IoCollects \cup BlockListCollects
    BY <1>1 DEF CollectedBelow, IsBlock
  <2>3. CASE KindOf(n.comp) = "device"
    <3>1. n.list = "Dev" /\ HasType(n.comp, "device")
      BY <2>1, <2>3 DEF DeviceShows, HasType, TypeOf, Subtypes
    <3>2. <<"Dev", "device">> \in CollectedBelow(n.owner)
      BY <2>2 DEF DeviceCollects, IoCollects, BlockListCollects
    <3> QED BY <3>1, <3>2
  <2>4. CASE KindOf(n.comp) = "fb"
    <3>1. n.list = "FB" /\ HasType(n.comp, "block")
      BY <2>1, <2>4 DEF DeviceShows, HasType, TypeOf, Subtypes
    <3>2. <<"FB", "block">> \in CollectedBelow(n.owner)
      BY <2>2 DEF DeviceCollects, IoCollects, BlockListCollects
    <3> QED BY <3>1, <3>2
  <2>5. CASE KindOf(n.comp) = "signal"
    <3>1. n.list = "Sig" /\ HasType(n.comp, "signal")
      BY <2>1, <2>5 DEF DeviceShows, HasType, TypeOf, Subtypes
    <3>2. <<"Sig", "signal">> \in CollectedBelow(n.owner)
      BY <2>2 DEF DeviceCollects, IoCollects, BlockListCollects
    <3> QED BY <3>1, <3>2
  <2>6. CASE KindOf(n.comp) = "io"
    <3>1. n.list = "IO" /\ HasType(n.comp, "component")
      BY <2>1, <2>6 DEF DeviceShows, HasType, TypeOf, Subtypes
    <3>2. <<"IO", "component">> \in CollectedBelow(n.owner)
      BY <2>2 DEF DeviceCollects, IoCollects, BlockListCollects
    <3> QED BY <3>1, <3>2
  <2>7. CASE KindOf(n.comp) = "channel"
    <3>1. n.list = "IO" /\ HasType(n.comp, "block")
      BY <2>1, <2>7 DEF DeviceShows, HasType, TypeOf, Subtypes
    <3>2. <<"IO", "block">> \in CollectedBelow(n.owner)
      BY <2>2 DEF DeviceCollects, IoCollects, BlockListCollects
    <3> QED BY <3>1, <3>2
  <2>8. CASE KindOf(n.comp) = "server"
    <3>1. n.list = "Srv" /\ HasType(n.comp, "component")
      BY <2>1, <2>8 DEF DeviceShows, HasType, TypeOf, Subtypes
    <3>2. <<"Srv", "component">> \in CollectedBelow(n.owner)
      BY <2>2 DEF DeviceCollects, IoCollects, BlockListCollects
    <3> QED BY <3>1, <3>2
  <2>9. CASE KindOf(n.comp) \in {"folder", "component"}
    <3>1. n.list = "Custom" /\ HasType(n.comp, "component")
      BY <2>1, <2>9 DEF DeviceShows, HasType, TypeOf, Subtypes
    <3>2. <<"Custom", "component">> \in CollectedBelow(n.owner)
      BY <2>2 DEF DeviceCollects, IoCollects, BlockListCollects
    <3> QED BY <3>1, <3>2
  <2>10. CASE KindOf(n.comp) = "capability"
    <3>1. n.list = "Caps" /\ HasType(n.comp, "capability")
      BY <2>1, <2>10 DEF DeviceShows, HasType, TypeOf, Subtypes
    <3>2. <<"Caps", "capability">> \in CollectedBelow(n.owner)
      BY <2>2 DEF DeviceCollects, IoCollects, BlockListCollects
    <3> QED BY <3>1, <3>2
  <2> QED BY <2>1, <2>3, <2>4, <2>5, <2>6, <2>7, <2>8, <2>9, <2>10 DEF DeviceShows
<1>2. CASE IsBlock(n.owner)
  <2>1. n.list = BlockShows[KindOf(n.comp)] /\ KindOf(n.comp) \in DOMAIN BlockShows
    BY <1>2 DEF Hung, Hangs, ShownBy, ListOf, IsBlock
  <2>2. CollectedBelow(n.owner) = BlockCollects
    BY <1>2 DEF CollectedBelow, IsBlock
  <2>3. CASE KindOf(n.comp) = "signal"
    <3>1. n.list = "Sig" /\ HasType(n.comp, "signal")
      BY <2>1, <2>3 DEF BlockShows, HasType, TypeOf, Subtypes
    <3>2. <<"Sig", "signal">> \in CollectedBelow(n.owner)
      BY <2>2 DEF BlockCollects
    <3> QED BY <3>1, <3>2
  <2>4. CASE KindOf(n.comp) = "port"
    <3>1. n.list = "IP" /\ HasType(n.comp, "port")
      BY <2>1, <2>4 DEF BlockShows, HasType, TypeOf, Subtypes
    <3>2. <<"IP", "port">> \in CollectedBelow(n.owner)
      BY <2>2 DEF BlockCollects
    <3> QED BY <3>1, <3>2
  <2>5. CASE KindOf(n.comp) = "fb"
    <3>1. n.list = "FB" /\ HasType(n.comp, "block")
      BY <2>1, <2>5 DEF BlockShows, HasType, TypeOf, Subtypes
    <3>2. <<"FB", "block">> \in CollectedBelow(n.owner)
      BY <2>2 DEF BlockCollects
    <3> QED BY <3>1, <3>2
  <2> QED BY <2>1, <2>3, <2>4, <2>5 DEF BlockShows
<1>3. CASE KindOf(n.owner) \in {"io", "folder"}
  <2>1. n.list = FolderShows[KindOf(n.comp)] /\ KindOf(n.comp) \in DOMAIN FolderShows
    BY <1>3 DEF Hung, Hangs, ShownBy, ListOf, IsBlock
  <2>2. CollectedBelow(n.owner) = ComponentCollects
    BY <1>3 DEF CollectedBelow, IsBlock
  <2>3. CASE KindOf(n.comp) = "channel"
    <3>1. n.list = "Items" /\ HasType(n.comp, "block")
      BY <2>1, <2>3 DEF FolderShows, HasType, TypeOf, Subtypes
    <3>2. <<"Items", "block">> \in CollectedBelow(n.owner)
      BY <2>2 DEF ComponentCollects
    <3> QED BY <3>1, <3>2
  <2>4. CASE KindOf(n.comp) \in {"server", "io", "folder", "component"}
    <3>1. n.list = "Items" /\ HasType(n.comp, "component")
      BY <2>1, <2>4 DEF FolderShows, HasType, TypeOf, Subtypes
    <3>2. <<"Items", "component">> \in CollectedBelow(n.owner)
      BY <2>2 DEF ComponentCollects
    <3> QED BY <3>1, <3>2
  <2> QED BY <2>1, <2>3, <2>4 DEF FolderShows
<1>4. CASE KindOf(n.owner) \notin {"device", "io", "folder"} /\ ~IsBlock(n.owner)
  BY <1>4 DEF Hung, Hangs, ShownBy
<1> QED BY <1>1, <1>2, <1>3, <1>4


\* What hangs where depends on the kinds and on what is public, and they stay.
LEMMA HungStays ==
  ASSUME object'.kind = object.kind, object'.hidden = object.hidden, NEW n
  PROVE  Hung(n) <=> Hung(n)'
BY DEF Hung, Hangs, Public, Components, KindOf, ShownBy, ListOf, IsBlock

\* In a list a later child has a larger number.
LEMMA NumbersGrow ==
  ASSUME NEW p, object.children[p] \in Seq(Components), NEW i \in DOMAIN object.children[p], NEW k \in DOMAIN object.children[p],
         i < k, Hangs(object.children[p][i], p), ListOf(object.children[p][i], p) = ListOf(object.children[p][k], p)
  PROVE  Cardinality(Earlier(p, i)) \in Nat /\ Cardinality(Earlier(p, k)) \in Nat
         /\ Cardinality(Earlier(p, i)) < Cardinality(Earlier(p, k))
<1>1. i \in Nat /\ k \in Nat
  OBVIOUS
<1>2. Earlier(p, i) \in SUBSET Earlier(p, k) /\ i \in Earlier(p, k) /\ i \notin Earlier(p, i)
  BY <1>1 DEF Earlier
<1>3. Earlier(p, k) \in SUBSET (1..(k - 1))
  BY DEF Earlier
<1>4. IsFiniteSet(1..(k - 1))
  BY <1>1, FS_Interval
<1>5. IsFiniteSet(Earlier(p, k))
  BY <1>3, <1>4, FS_Subset
<1>6. /\ IsFiniteSet(Earlier(p, i)) /\ Cardinality(Earlier(p, i)) <= Cardinality(Earlier(p, k))
      /\ Cardinality(Earlier(p, k)) = Cardinality(Earlier(p, i)) => Earlier(p, k) = Earlier(p, i)
  BY <1>2, <1>5, FS_Subset
<1>7. Cardinality(Earlier(p, i)) \in Nat /\ Cardinality(Earlier(p, k)) \in Nat
  BY <1>5, <1>6, FS_CardinalityType
<1> QED BY <1>2, <1>6, <1>7

\* The number of a child is a number.
LEMMA NumberOfPlace ==
  ASSUME NEW p, object.children[p] \in Seq(Components), NEW i \in DOMAIN object.children[p]
  PROVE  Cardinality(Earlier(p, i)) \in Nat
<1>1. i \in Nat /\ Earlier(p, i) \in SUBSET (1..(i - 1))
  BY DEF Earlier
<1>2. IsFiniteSet(1..(i - 1))
  BY <1>1, FS_Interval
<1> QED BY <1>1, <1>2, FS_Subset, FS_CardinalityType

\* A node of a child hangs where the kinds of the two say.
LEMMA ChildrenHang ==
  ASSUME TreeStays, object \in TreesOfComponents
  PROVE  NodesHang(AllNodes)
<1>1. ASSUME NEW n \in AllNodes
      PROVE  \E p \in Components : \E i \in DOMAIN object.children[p] :
               /\ Hangs(object.children[p][i], p)
               /\ n = [comp |-> object.children[p][i], owner |-> p, list |-> ListOf(object.children[p][i], p),
                       number |-> Cardinality(Earlier(p, i))]
  BY DEF AllNodes, ChildNodes
<1>2. ASSUME NEW n \in AllNodes
      PROVE  Hung(n) /\ n.number \in Nat /\ n.comp \notin object.late /\ Placed(n)
  <2>0. PICK p \in Components : \E i \in DOMAIN object.children[p] :
               /\ Hangs(object.children[p][i], p)
               /\ n = [comp |-> object.children[p][i], owner |-> p, list |-> ListOf(object.children[p][i], p),
                       number |-> Cardinality(Earlier(p, i))]
    BY <1>1
  <2>1. PICK i \in DOMAIN object.children[p] :
               /\ Hangs(object.children[p][i], p)
               /\ n = [comp |-> object.children[p][i], owner |-> p, list |-> ListOf(object.children[p][i], p),
                       number |-> Cardinality(Earlier(p, i))]
    BY <2>0
  <2>2. /\ n.comp = object.children[p][i] /\ n.owner = p /\ n.list = ListOf(n.comp, p) /\ Hangs(n.comp, p)
        /\ n.number = Cardinality(Earlier(p, i))
    BY <2>1
  <2>3. DOMAIN object.kind = DOMAIN object.children
    BY DEF TreeStays, Components
  <2>4. object.children[p][i] \in (p + 1)..Len(object.kind)
    BY <2>1, <2>3, ComponentTreeAssumption DEF Components
  <2>5. p \in Nat /\ p >= 1 /\ Len(object.kind) \in Nat /\ Components = 1..Len(object.kind)
    BY ComponentsOfTree
  <2>6. n.owner \in Components /\ n.comp \in Components /\ n.owner < n.comp
    BY <2>2, <2>4, <2>5
  <2>7. object.children[p] \in Seq(Components) /\ ToSet(object.children[p]) \cap object.late = {}
    BY DEF TreeStays
  <2>8. n.comp \notin object.late
    BY <2>1, <2>2, <2>7 DEF ToSet
  <2>9. n.number \in Nat
    BY <2>1, <2>2, <2>7, NumberOfPlace
  <2>10. Placed(n)
    BY <2>1, <2>2 DEF Placed, PlacedAt
  <2> QED BY <2>2, <2>6, <2>8, <2>9, <2>10 DEF Hung
<1>3. ASSUME NEW n \in AllNodes, NEW m \in AllNodes, n.owner = m.owner, n.comp = m.comp PROVE n = m
  <2> DEFINE NodeAt(p, i) == [comp |-> object.children[p][i], owner |-> p, list |-> ListOf(object.children[p][i], p),
                              number |-> Cardinality(Earlier(p, i))]
  <2>10. PICK p \in Components : \E i \in DOMAIN object.children[p] : n = NodeAt(p, i)
    BY <1>1
  <2>1. PICK i \in DOMAIN object.children[p] : n = NodeAt(p, i)
    BY <2>10
  <2>20. PICK q \in Components : \E k \in DOMAIN object.children[q] : m = NodeAt(q, k)
    BY <1>1
  <2>2. PICK k \in DOMAIN object.children[q] : m = NodeAt(q, k)
    BY <2>20
  <2>3. p = q /\ object.children[p][i] = object.children[p][k] /\ IsInjective(object.children[p])
    BY <1>3, <2>1, <2>2 DEF TreeStays
  <2>4. i = k
    BY <2>1, <2>2, <2>3 DEF IsInjective
  <2> QED BY <2>1, <2>2, <2>3, <2>4
<1> QED BY <1>2, <1>3 DEF NodesHang

\* Nodes hang where they should once they are registered, ...
LEMMA TreeRegisters ==
  ASSUME TreeStays, NodesHang(nodes), NodesHang(seen), RegisterTree
  PROVE  TreeStays' /\ NodesHang(nodes)' /\ NodesHang(seen)'
<1>1. object' = object /\ nodes = {} /\ nodes' = AllNodes /\ seen' = seen
  BY DEF RegisterTree
<1>2. TreeStays'
  BY <1>1 DEF TreeStays, Components
<1>3. NodesHang(AllNodes)
  BY <1>1, ChildrenHang DEF TreeStays
<1>4. \A N : NodesHang(N)' <=> NodesHang(N)
  <2>1. \A n : Hung(n)' <=> Hung(n)
    BY <1>1, HungStays
  <2>2. \A p, i : Earlier(p, i)' = Earlier(p, i)
    BY <1>1 DEF Earlier, Hangs, Public, KindOf, ShownBy, ListOf, IsBlock
  <2>3. \A p, i : Cardinality(Earlier(p, i))' = Cardinality(Earlier(p, i))
    BY <2>2
  <2>4. \A n : Placed(n)' <=> Placed(n)
    BY <1>1, <2>3 DEF Placed, PlacedAt
  <2> QED BY <1>1, <2>1, <2>4 DEF NodesHang
<1> QED BY <1>1, <1>2, <1>3, <1>4

\* A late server becomes the last child of the root and leaves the others their places.
LEMMA LateServerIsLast ==
  ASSUME TreeStays, NEW s \in Components, AddServer(s)
  PROVE  /\ TreeStays' /\ object'.kind = object.kind /\ object'.hidden = object.hidden
         /\ object'.added = object.added \cup {s} /\ object'.late = object.late \ {s} /\ s \in object.late
         /\ \A p \in Components : \A i \in DOMAIN object.children[p] :
              /\ i \in DOMAIN object'.children[p] /\ object'.children[p][i] = object.children[p][i]
              /\ Earlier(p, i)' = Earlier(p, i)
<1>1. /\ nodes # {} /\ s \in object.late
      /\ object' = [object EXCEPT !.children[1] = Append(@, s), !.late = @ \ {s}, !.added = @ \cup {s}]
      /\ nodes' # {}
  BY DEF AddServer
<1>2. /\ DOMAIN object' = DOMAIN object /\ object'.kind = object.kind /\ object'.hidden = object.hidden
      /\ object'.late = object.late \ {s} /\ object'.added = object.added \cup {s}
      /\ object'.children = [object.children EXCEPT ![1] = Append(@, s)]
  BY <1>1 DEF TreeStays
<1>3. 1 \in Components /\ Components' = Components
  BY <1>2, ComponentsOfTree DEF Components
<1>4. object.children \in [Components -> Seq(Components)]
  BY DEF TreeStays
<1>5. object'.children \in [Components -> Seq(Components)]
  BY <1>2, <1>3, <1>4
<1>6. ASSUME NEW p \in Components, NEW i \in DOMAIN object.children[p]
      PROVE  i \in DOMAIN object'.children[p] /\ object'.children[p][i] = object.children[p][i]
  <2>1. CASE p = 1
    BY <1>2, <1>3, <1>4, <2>1
  <2>2. CASE p # 1
    BY <1>2, <1>3, <1>4, <2>2
  <2> QED BY <2>1, <2>2
<1>7. ASSUME NEW p \in Components, NEW i \in DOMAIN object.children[p]
      PROVE  Earlier(p, i)' = Earlier(p, i)
  <2>1. \A j \in 1..(i - 1) : j \in DOMAIN object.children[p]
    BY <1>4
  <2>2. \A c, q : (Hangs(c, q)' <=> Hangs(c, q)) /\ ListOf(c, q)' = ListOf(c, q)
    BY <1>2 DEF Hangs, ListOf, Public, KindOf, ShownBy, IsBlock
  <2>3. \A j \in 1..i : object'.children[p][j] = object.children[p][j]
    BY <1>4, <1>6
  <2>4. i \in Nat /\ i \in 1..i
    BY <1>4
  <2>5. ASSUME NEW j \in 1..(i - 1)
        PROVE  (Hangs(object.children[p][j], p) /\ ListOf(object.children[p][j], p) = ListOf(object.children[p][i], p))
               <=> (Hangs(object.children[p][j], p) /\ ListOf(object.children[p][j], p) = ListOf(object.children[p][i], p))'
    <3>1. j \in 1..i
      BY <2>4
    <3>2. object'.children[p][j] = object.children[p][j] /\ object'.children[p][i] = object.children[p][i]
      BY <2>3, <2>4, <3>1
    <3> QED BY <2>2, <3>2
  <2> QED BY <2>5 DEF Earlier
<1>8. ASSUME NEW p \in Components PROVE IsInjective(object'.children[p]) /\ ToSet(object'.children[p]) \cap object'.late = {}
  <2>1. IsInjective(object.children[p]) /\ ToSet(object.children[p]) \cap object.late = {} /\ object.children[p] \in Seq(Components)
    BY <1>4 DEF TreeStays
  <2>2. CASE p = 1
    <3>1. object'.children[p] = Append(object.children[p], s)
      BY <1>2, <1>3, <1>4, <2>2
    <3>2. s \notin ToSet(object.children[p])
      BY <1>1, <2>1
    <3> QED BY <1>2, <2>1, <3>1, <3>2 DEF IsInjective, ToSet
  <2>3. CASE p # 1
    <3>1. object'.children[p] = object.children[p]
      BY <1>2, <1>4, <2>3
    <3> QED BY <1>2, <2>1, <3>1
  <2> QED BY <2>2, <2>3
<1>9. TreeStays'
  BY <1>1, <1>2, <1>3, <1>5, <1>8 DEF TreeStays
<1> QED BY <1>1, <1>2, <1>6, <1>7, <1>9

\* ... and when a server is added late.
LEMMA TreeTakesServer ==
  ASSUME TreeStays, NodesHang(nodes), NodesHang(seen), NEW s \in Components, AddServer(s)
  PROVE  TreeStays' /\ NodesHang(nodes)' /\ NodesHang(seen)'
<1> DEFINE new == [comp |-> s, owner |-> 1, list |-> "Srv", number |-> 0]
<1>1. nodes' = nodes \cup {new} /\ seen' = seen
  BY DEF AddServer
<1>2. /\ TreeStays' /\ object'.kind = object.kind /\ object'.hidden = object.hidden
      /\ object'.added = object.added \cup {s} /\ object'.late = object.late \ {s} /\ s \in object.late
      /\ \A p \in Components : \A i \in DOMAIN object.children[p] :
           /\ i \in DOMAIN object'.children[p] /\ object'.children[p][i] = object.children[p][i]
           /\ Earlier(p, i)' = Earlier(p, i)
  BY LateServerIsLast
<1>3. ASSUME NEW n, Hung(n), n.comp \notin object.late, Placed(n) PROVE Hung(n)' /\ n.comp \notin object'.late /\ Placed(n)'
  <2>1. Hung(n)' /\ n.comp \notin object'.late
    BY <1>2, <1>3, HungStays
  <2>2. CASE n.list = "Srv" /\ n.comp \in object.added
    BY <1>2, <2>1, <2>2 DEF Placed
  <2>3. CASE \E i \in DOMAIN object.children[n.owner] : PlacedAt(n, i)
    <3>1. PICK i \in DOMAIN object.children[n.owner] : PlacedAt(n, i)
      BY <2>3
    <3>2. n.owner \in Components
      BY <1>3 DEF Hung
    <3>3. /\ i \in DOMAIN object'.children[n.owner] /\ object'.children[n.owner][i] = object.children[n.owner][i]
          /\ Earlier(n.owner, i)' = Earlier(n.owner, i)
      BY <1>2, <3>2
    <3>4. Cardinality(Earlier(n.owner, i))' = Cardinality(Earlier(n.owner, i))
      BY <3>3
    <3> QED BY <2>1, <3>1, <3>3, <3>4 DEF Placed, PlacedAt
  <2> QED BY <1>3, <2>1, <2>2, <2>3 DEF Placed
<1>4. Hung(new)' /\ new.number \in Nat /\ new.comp \notin object'.late /\ Placed(new)'
  <2>1. 1 \in Components /\ KindOf(1) = "device" /\ 1 < s /\ KindOf(s) = "server"
    BY <1>2, ComponentsOfTree
  <2>2. ListOf(s, 1) = "Srv" /\ Hangs(s, 1)
    BY <2>1 DEF Hangs, Public, ListOf, ShownBy, DeviceShows, IsBlock
  <2>3. Hung(new)
    BY <2>1, <2>2 DEF Hung
  <2>4. Hung(new)'
    BY <1>2, <2>3, HungStays
  <2> QED BY <1>2, <2>4 DEF Placed
<1>5. NodesHang(seen)'
  BY <1>1, <1>3 DEF NodesHang
<1>6. \A n \in nodes' : Hung(n)' /\ n.number \in Nat /\ n.comp \notin object'.late /\ Placed(n)'
  <2> HIDE DEF new
  <2> QED BY <1>1, <1>3, <1>4 DEF NodesHang
<1>7. \A n, m \in nodes' : n.owner = m.owner /\ n.comp = m.comp => n = m
  <2>1. \A n \in nodes : n.comp # new.comp
    BY <1>2 DEF NodesHang
  <2> HIDE DEF new
  <2> QED BY <1>1, <2>1 DEF NodesHang
<1> QED BY <1>2, <1>5, <1>6, <1>7 DEF NodesHang

\* What hangs in a list: the kinds of its components and of its owner.
LEMMA KindsOfLists ==
  ASSUME NEW n, Hung(n)
  PROVE  \/ /\ KindOf(n.owner) = "device"
            /\ \/ n.list = "Dev" /\ KindOf(n.comp) = "device"
               \/ n.list = "FB" /\ KindOf(n.comp) = "fb"
               \/ n.list = "Sig" /\ KindOf(n.comp) = "signal"
               \/ n.list = "IO" /\ KindOf(n.comp) \in {"io", "channel"}
               \/ n.list = "Srv" /\ KindOf(n.comp) = "server"
               \/ n.list = "Custom" /\ KindOf(n.comp) \in {"folder", "component"}
               \/ n.list = "Caps" /\ KindOf(n.comp) = "capability"
         \/ /\ IsBlock(n.owner)
            /\ \/ n.list = "Sig" /\ KindOf(n.comp) = "signal"
               \/ n.list = "IP" /\ KindOf(n.comp) = "port"
               \/ n.list = "FB" /\ KindOf(n.comp) = "fb"
         \/ /\ KindOf(n.owner) \in {"io", "folder"}
            /\ n.list = "Items" /\ KindOf(n.comp) \in {"channel", "server", "io", "folder", "component"}
<1>1. CASE KindOf(n.owner) = "device"
  <2>1. n.list = DeviceShows[KindOf(n.comp)] /\ KindOf(n.comp) \in DOMAIN DeviceShows
    BY <1>1 DEF Hung, Hangs, ShownBy, ListOf, IsBlock
  <2> QED BY <1>1, <2>1 DEF DeviceShows
<1>2. CASE IsBlock(n.owner)
  <2>1. n.list = BlockShows[KindOf(n.comp)] /\ KindOf(n.comp) \in DOMAIN BlockShows
    BY <1>2 DEF Hung, Hangs, ShownBy, ListOf, IsBlock
  <2> QED BY <1>2, <2>1 DEF BlockShows
<1>3. CASE KindOf(n.owner) \in {"io", "folder"}
  <2>1. n.list = FolderShows[KindOf(n.comp)] /\ KindOf(n.comp) \in DOMAIN FolderShows
    BY <1>3 DEF Hung, Hangs, ShownBy, ListOf, IsBlock
  <2> QED BY <1>3, <2>1 DEF FolderShows
<1>4. CASE KindOf(n.owner) \notin {"device", "io", "folder"} /\ ~IsBlock(n.owner)
  BY <1>4 DEF Hung, Hangs, ShownBy
<1> QED BY <1>1, <1>2, <1>3, <1>4

\* The numbers of a list that was not added to tell its nodes apart and have their order.
LEMMA NumbersOfList ==
  ASSUME TreeStays, NEW N, NodesHang(N), NEW a \in N, NEW b \in N, a.owner = b.owner, a.list = b.list,
         a.comp \notin object.added, b.comp \notin object.added
  PROVE  /\ a.number = b.number => a = b
         /\ a.number < b.number =>
              \E k, m \in DOMAIN object.children[a.owner] :
                k < m /\ object.children[a.owner][k] = a.comp /\ object.children[a.owner][m] = b.comp
<1> DEFINE p == a.owner
           children == object.children[p]
<1>1. Hung(a) /\ Hung(b) /\ Placed(a) /\ Placed(b)
  BY DEF NodesHang
<1>2. p \in Components /\ children \in Seq(Components)
  BY <1>1 DEF Hung, TreeStays
<1>3. PICK k \in DOMAIN children : PlacedAt(a, k)
  BY <1>1 DEF Placed
<1>4. PICK m \in DOMAIN children : PlacedAt(b, m)
  BY <1>1 DEF Placed
<1>5. /\ children[k] = a.comp /\ a.number = Cardinality(Earlier(p, k))
      /\ children[m] = b.comp /\ b.number = Cardinality(Earlier(p, m))
  BY <1>3, <1>4 DEF PlacedAt
<1>6. /\ Hangs(children[k], p) /\ Hangs(children[m], p)
      /\ ListOf(children[k], p) = ListOf(children[m], p)
  BY <1>1, <1>5 DEF Hung
<1>7. k < m => a.number < b.number /\ a.number \in Nat /\ b.number \in Nat
  BY <1>2, <1>5, <1>6, NumbersGrow
<1>8. m < k => b.number < a.number /\ a.number \in Nat /\ b.number \in Nat
  BY <1>2, <1>5, <1>6, NumbersGrow
<1>9. k \in Nat /\ m \in Nat /\ a.number \in Nat /\ b.number \in Nat
  BY <1>2, NumbersGrow DEF NodesHang
<1>10. k = m => a = b
  BY <1>5 DEF NodesHang
<1>11. a.number = b.number => k = m
  BY <1>7, <1>8, <1>9
<1>12. a.number < b.number => k < m
  BY <1>5, <1>8, <1>9
<1> QED BY <1>5, <1>10, <1>11, <1>12
-----------------------------------------------------------------------------
(* The lists of a client that connects *)

\* The nodes of a list can be arranged.
LEMMA NodesArrangeable ==
  ASSUME TreeStays, NodesHang(nodes), NEW p, NEW l, NEW refs, \A n \in refs : n \in nodes /\ n.owner = p /\ n.list = l
  PROVE  Arrangeable(refs) /\ \A n \in refs : n.number \in Nat /\ n.comp \in Components
<1>1. \A n \in refs : n.number \in Nat /\ n.comp \in Components
  BY DEF NodesHang, Hung
<1>2. \A n, m \in refs : n.comp = m.comp => n = m
  BY DEF NodesHang
<1>3. Components = 1..Len(object.kind) /\ Len(object.kind) \in Nat
  BY ComponentsOfTree
<1>4. IsFiniteSet(Components)
  <2>1. 1 \in Int /\ Len(object.kind) \in Int
    BY <1>3
  <2> QED BY <1>3, <2>1, FS_Interval
<1> DEFINE f == [n \in refs |-> n.comp]
<1>5. f \in Injection(refs, Components)
  BY <1>1, <1>2 DEF Injection, IsInjective
<1>6. IsFiniteSet(refs)
  <2> HIDE DEF f
  <2> QED BY <1>4, <1>5, FS_Injection
<1> QED BY <1>1, <1>2, <1>3, <1>6 DEF Arrangeable

\* A list with the component of each of the nodes, once.
ListsAll(list, refs) ==
  /\ list \in Seq(Components) /\ IsInjective(list)
  /\ \A i \in DOMAIN list : \E n \in refs : n.comp = list[i]
  /\ \A n \in refs : \E i \in DOMAIN list : list[i] = n.comp

\* Arranging loses no node and lists none twice.
LEMMA ArrangedList ==
  ASSUME TreeStays, NodesHang(nodes), NEW p, NEW l, NEW refs, \A n \in refs : n \in nodes /\ n.owner = p /\ n.list = l,
         NEW first
  PROVE  ListsAll(Arranged(refs, first), refs)
<1>1. Arrangeable(refs) /\ \A n \in refs : n.number \in Nat /\ n.comp \in Components
  BY NodesArrangeable
<1> DEFINE N == Cardinality(refs)
           list == Arranged(refs, first)
           Pre(a, b) == Precedes(a, b, refs, first)
<1>2. /\ N \in Nat
      /\ \E g \in [1..N -> refs] :
              /\ list = [i \in 1..N |-> g[i].comp]
              /\ \A n \in refs : \E i \in 1..N : g[i] = n
              /\ \A i, j \in 1..N : i < j => Pre(g[i], g[j])
  BY <1>1, ArrangedHasAll
<1>3. PICK g \in [1..N -> refs] :
              /\ list = [i \in 1..N |-> g[i].comp]
              /\ \A n \in refs : \E i \in 1..N : g[i] = n
              /\ \A i, j \in 1..N : i < j => Pre(g[i], g[j])
  BY <1>2
<1>4. \A n, m \in refs : ~(Pre(n, m) /\ Pre(m, n))
  BY <1>1, PrecedesIsTotal
<1>5. \A n, m \in refs : n.comp = m.comp => n = m
  BY <1>1 DEF Arrangeable
<1> HIDE DEF N, list, Pre
<1>6. list \in [1..N -> Components]
  BY <1>1, <1>3
<1>7. list \in Seq(Components) /\ DOMAIN list = 1..N
  BY <1>2, <1>6
<1>8. \A i \in 1..N : list[i] = g[i].comp /\ g[i] \in refs
  BY <1>3
<1>9. IsInjective(list)
  <2> SUFFICES ASSUME NEW i \in 1..N, NEW j \in 1..N, list[i] = list[j] PROVE i = j
    BY <1>7 DEF IsInjective
  <2>1. g[i] = g[j]
    BY <1>5, <1>8
  <2>2. ~(i < j) /\ ~(j < i)
    BY <1>3, <1>4, <1>8, <2>1
  <2> QED BY <1>2, <2>2
<1>10. (\A i \in 1..N : \E n \in refs : n.comp = list[i]) /\ (\A n \in refs : \E i \in 1..N : list[i] = n.comp)
  BY <1>3, <1>8
<1>11. ListsAll(list, refs)
  BY <1>7, <1>9, <1>10 DEF ListsAll
<1> QED BY <1>11 DEF list

\* A number that was read has its place where no other node has it.
LEMMA ReadHasPlace ==
  ASSUME NEW refs, Arrangeable(refs), \A n \in refs : n.number \in Nat,
         \A n, m \in refs : n.number = m.number => n = m,
         NEW first, NEW n \in refs
  PROVE  HasPlace(n, refs, first) <=> NumberInList(n) # Unnumbered
<1>1. \A m \in refs : ~Before(m, m, first)
  BY BeforeIsTotal
<1>2. ASSUME NEW m \in refs, NumberInList(n) # Unnumbered, NumberInList(m) = NumberInList(n) PROVE m = n
  BY <1>2 DEF NumberInList
<1> QED BY <1>1, <1>2 DEF HasPlace

\* Where the numbers were read ahead, the list has the application's order.
LEMMA ArrangedInOrder ==
  ASSUME TreeStays, NodesHang(nodes), NEW p, NEW l, NEW refs, \A n \in refs : n \in nodes /\ n.owner = p /\ n.list = l,
         NEW first, \A n \in refs : <<n.comp, "NumberInList">> \in reads'
  PROVE  InOrder(Arranged(refs, first), p, unread')
<1>1. Arrangeable(refs) /\ \A n \in refs : n.number \in Nat /\ n.comp \in Components
  BY NodesArrangeable
<1> DEFINE N == Cardinality(refs)
           list == Arranged(refs, first)
           Pre(a, b) == Precedes(a, b, refs, first)
<1>2. /\ N \in Nat
      /\ \E g \in [1..N -> refs] :
              /\ list = [i \in 1..N |-> g[i].comp]
              /\ \A n \in refs : \E i \in 1..N : g[i] = n
              /\ \A i, j \in 1..N : i < j => Pre(g[i], g[j])
  BY <1>1, ArrangedHasAll
<1>3. PICK g \in [1..N -> refs] :
              /\ list = [i \in 1..N |-> g[i].comp]
              /\ \A n \in refs : \E i \in 1..N : g[i] = n
              /\ \A i, j \in 1..N : i < j => Pre(g[i], g[j])
  BY <1>2
<1> HIDE DEF N, list
<1>4. DOMAIN list = 1..N /\ \A i \in 1..N : list[i] = g[i].comp /\ g[i] \in refs
  BY <1>3
<1> SUFFICES ASSUME object.added \cap ToSet(list) = {},
                    NEW i \in 1..N, NEW j \in 1..N, i < j, list[j] \notin unread'
             PROVE  /\ list[i] \notin unread'
                    /\ \E k, m \in DOMAIN object.children[p] :
                         k < m /\ object.children[p][k] = list[i] /\ object.children[p][m] = list[j]
  BY <1>4 DEF InOrder, list
<1>5. \A n \in refs : n.comp \notin object.added
  <2> SUFFICES ASSUME NEW n \in refs PROVE n.comp \in ToSet(list)
    OBVIOUS
  <2>1. PICK q \in 1..N : g[q] = n
    BY <1>3
  <2> QED BY <1>4, <2>1 DEF ToSet
<1>6. \A n, m \in refs : n.number = m.number => n = m
  BY <1>5, NumbersOfList
<1>7. \A n \in refs : HasPlace(n, refs, first) <=> n.comp \notin unread'
  <2> SUFFICES ASSUME NEW n \in refs PROVE HasPlace(n, refs, first) <=> n.comp \notin unread'
    OBVIOUS
  <2>1. HasPlace(n, refs, first) <=> NumberInList(n) # Unnumbered
    BY <1>1, <1>6, ReadHasPlace
  <2>2. n.number # Unnumbered
    BY <1>1, ComponentTreeAssumption
  <2> QED BY <2>1, <2>2 DEF NumberInList
<1>8. g[i] \in refs /\ g[j] \in refs /\ Pre(g[i], g[j]) /\ HasPlace(g[j], refs, first)
  BY <1>3, <1>4, <1>7
<1>9. HasPlace(g[i], refs, first) /\ NumberInList(g[i]) < NumberInList(g[j])
  <2>1. HasPlace(g[i], refs, first) \in BOOLEAN /\ HasPlace(g[j], refs, first) \in BOOLEAN
    BY DEF HasPlace
  <2>2. CASE HasPlace(g[i], refs, first)
    BY <1>8, <2>2 DEF Precedes
  <2>3. CASE ~HasPlace(g[i], refs, first)
    BY <1>8, <2>1, <2>3 DEF Precedes
  <2> QED BY <2>2, <2>3
<1>10. list[i] \notin unread' /\ g[i].number < g[j].number
  BY <1>4, <1>7, <1>8, <1>9 DEF NumberInList
<1>11. /\ g[i] \in nodes /\ g[j] \in nodes /\ g[i].owner = p /\ g[j].owner = p /\ g[i].list = g[j].list
       /\ g[i].comp \notin object.added /\ g[j].comp \notin object.added
  BY <1>5, <1>8
<1>12. \E k, m \in DOMAIN object.children[p] :
         k < m /\ object.children[p][k] = g[i].comp /\ object.children[p][m] = g[j].comp
  BY <1>10, <1>11, NumbersOfList
<1> QED BY <1>4, <1>10, <1>12

\* What a connect makes of a list, and of what.
ListConnects(list, p, l) ==
  /\ HasSought(list, nodes, p, l, built')
  /\ (\A n \in nodes : n.owner = p => <<n.comp, "NumberInList">> \in reads') => InOrder(list, p, unread')
Buildable(p, l) == {n \in nodes : n.owner = p /\ n.list = l /\ LookedFor(n) /\ n.comp \in built'}

\* A list that is arranged of all that can be built of what is looked for is right.
LEMMA ArrangedConnects ==
  ASSUME TreeStays, NodesHang(nodes), NEW p, NEW l, NEW first, NEW refs, refs \subseteq Buildable(p, l),
         (l # "Caps" \/ \A n \in nodes : n.owner = p /\ n.list = l /\ LookedFor(n) => n.comp \in built')
           => Buildable(p, l) \subseteq refs
  PROVE  ListConnects(Arranged(refs, first), p, l)
<1>1. \A n \in refs : n \in nodes /\ n.owner = p /\ n.list = l
  BY DEF Buildable
<1> DEFINE list == Arranged(refs, first)
<1>all. ListsAll(Arranged(refs, first), refs)
  BY <1>1, ArrangedList
<1> HIDE DEF list
<1>2. /\ list \in Seq(Components) /\ IsInjective(list)
      /\ \A i \in DOMAIN list : \E n \in refs : n.comp = list[i]
      /\ \A n \in refs : \E i \in DOMAIN list : list[i] = n.comp
  BY <1>all DEF list, ListsAll
<1>3. HasSought(list, nodes, p, l, built')
  <2> DEFINE sought == {n \in nodes : n.owner = p /\ n.list = l /\ LookedFor(n)}
  <2>1. \A n \in refs : n \in sought /\ n.comp \in built'
    BY DEF Buildable
  <2>2. \A i \in DOMAIN list : list[i] \in built' /\ \E n \in sought : n.comp = list[i]
    <3> HIDE DEF sought
    <3> QED BY <1>2, <2>1
  <2>3. ASSUME l # "Caps" \/ \A n \in sought : n.comp \in built', NEW n \in sought, n.comp \in built'
        PROVE  \E i \in DOMAIN list : list[i] = n.comp
    <3>1. n \in Buildable(p, l)
      BY <2>3 DEF Buildable
    <3>2. l # "Caps" \/ \A m \in nodes : m.owner = p /\ m.list = l /\ LookedFor(m) => m.comp \in built'
      BY <2>3
    <3> QED BY <1>2, <3>1, <3>2
  <2> QED BY <1>2, <2>2, <2>3 DEF HasSought
<1>4. ASSUME \A n \in nodes : n.owner = p => <<n.comp, "NumberInList">> \in reads' PROVE InOrder(list, p, unread')
  <2>1. \A n \in refs : <<n.comp, "NumberInList">> \in reads'
    BY <1>1, <1>4
  <2> QED BY <1>1, <2>1, ArrangedInOrder DEF list
<1> QED BY <1>3, <1>4 DEF ListConnects, list

\* A list of one type that has all that is looked for in it.
LEMMA ListOfTypeConnects ==
  ASSUME TreeStays, NodesHang(nodes), NEW p, NEW l, NEW type,
         \A n \in nodes : n.owner = p /\ n.list = l => (LookedFor(n) <=> HasType(n.comp, type))
  PROVE  ListConnects(ListOfType(p, l, type), p, l)
<1>1. Built(References(p, l, type)) = Buildable(p, l)
  BY DEF Built, References, NodesOf, Buildable
<1> QED BY <1>1, ArrangedConnects DEF ListOfType

\* No two nodes of a list have one number, but for late servers.
LEMMA NumbersApart ==
  ASSUME TreeStays, NodesHang(nodes), NEW p, NEW l, l # "Srv",
         NEW n \in nodes, NEW m \in nodes, n.owner = p, m.owner = p, n.list = l, m.list = l, n.number = m.number
  PROVE  n = m
<1>1. Hung(n) /\ Hung(m) /\ Placed(n) /\ Placed(m)
  BY DEF NodesHang
<1>2. PICK k \in DOMAIN object.children[p] : PlacedAt(n, k)
  BY <1>1 DEF Placed
<1>3. PICK j \in DOMAIN object.children[p] : PlacedAt(m, j)
  BY <1>1 DEF Placed
<1>4. /\ object.children[p][k] = n.comp /\ n.number = Cardinality(Earlier(p, k))
      /\ object.children[p][j] = m.comp /\ m.number = Cardinality(Earlier(p, j))
  BY <1>2, <1>3 DEF PlacedAt
<1>5. object.children[p] \in Seq(Components)
  BY <1>1 DEF Hung, TreeStays
<1>6. /\ Hangs(object.children[p][k], p) /\ Hangs(object.children[p][j], p)
      /\ ListOf(object.children[p][k], p) = ListOf(object.children[p][j], p)
  BY <1>1, <1>4 DEF Hung
<1>7. ~(k < j) /\ ~(j < k)
  <2>1. Cardinality(Earlier(p, k)) = Cardinality(Earlier(p, j))
    BY <1>4
  <2>2. Cardinality(Earlier(p, k)) \in Nat /\ Cardinality(Earlier(p, j)) \in Nat
    BY <1>5, NumberOfPlace
  <2>3. k < j => Cardinality(Earlier(p, k)) < Cardinality(Earlier(p, j))
    BY <1>5, <1>6, NumbersGrow
  <2>4. j < k => Cardinality(Earlier(p, j)) < Cardinality(Earlier(p, k))
    BY <1>5, <1>6, NumbersGrow
  <2> QED BY <2>1, <2>2, <2>3, <2>4
<1>8. k = j
  BY <1>5, <1>7
<1> QED BY <1>4, <1>8 DEF NodesHang

\* But for servers, no number that was read is taken by another node.
LEMMA NumbersHavePlaces ==
  ASSUME TreeStays, NodesHang(nodes), NEW p, NEW l, l # "Srv", NEW refs,
         \A n \in refs : n \in nodes /\ n.owner = p /\ n.list = l, NEW first, NEW n \in refs
  PROVE  HasPlace(n, refs, first) \/ NumberInList(n) = Unnumbered
<1>1. Arrangeable(refs) /\ \A m \in refs : m.number \in Nat
  BY NodesArrangeable
<1>2. \A a, b \in refs : a.number = b.number => a = b
  BY NumbersApart
<1> QED BY <1>1, <1>2, ReadHasPlace

\* No io folder is left out of the list for its number.
LEMMA InputsOutputsConnect ==
  ASSUME TreeStays, NodesHang(nodes), NEW p \in Components, KindOf(p) = "device"
  PROVE  ListConnects(InputsOutputs(p), p, "IO")
<1> DEFINE refs == Built(References(p, "IO", "channel") \cup References(p, "IO", "io"))
           kept == {n \in refs : \/ HasPlace(n, refs, "channel") \/ NumberInList(n) = Unnumbered
                                 \/ HasType(n.comp, "channel")}
<1>1. ASSUME NEW n \in nodes, n.list = "IO"
      PROVE  LookedFor(n) /\ (HasType(n.comp, "channel") \/ HasType(n.comp, "io"))
  <2>1. Hung(n)
    BY DEF NodesHang
  <2>2. KindOf(n.comp) \in {"io", "channel"}
    BY <1>1, <2>1, KindsOfLists
  <2> QED BY <1>1, <2>2 DEF LookedFor, HasType, TypeOf
<1>2. refs = Buildable(p, "IO")
  BY <1>1 DEF Built, References, NodesOf, Buildable
<1> HIDE DEF refs
<1>3. \A n \in refs : n \in nodes /\ n.owner = p /\ n.list = "IO"
  BY <1>2 DEF Buildable
<1>4. kept = refs
  BY <1>3, NumbersHavePlaces
<1>5. ListConnects(Arranged(kept, "channel"), p, "IO")
  BY <1>2, <1>4, ArrangedConnects
<1> QED BY <1>5 DEF InputsOutputs, refs

\* As long as the capabilities can be read, they are all there.
LEMMA CapabilitiesConnect ==
  ASSUME TreeStays, NodesHang(nodes), NEW p \in Components
  PROVE  ListConnects(Capabilities(p), p, "Caps")
<1> DEFINE refs == References(p, "Caps", "capability")
           readable == {n \in refs : \A m \in refs : m = n \/ Before(m, n, "capability") => m.comp \in built'}
           kept == {n \in readable : HasPlace(n, readable, "capability") \/ NumberInList(n) = Unnumbered}
<1>1. ASSUME NEW n \in nodes, n.list = "Caps"
      PROVE  LookedFor(n) /\ HasType(n.comp, "capability")
  <2>1. Hung(n)
    BY DEF NodesHang
  <2>2. KindOf(n.comp) = "capability"
    BY <1>1, <2>1, KindsOfLists
  <2> QED BY <1>1, <2>2 DEF LookedFor, HasType, TypeOf
<1>2. refs = {n \in nodes : n.owner = p /\ n.list = "Caps"}
  BY <1>1 DEF References, NodesOf
<1> HIDE DEF refs
<1>3. \A n \in readable : n \in nodes /\ n.owner = p /\ n.list = "Caps" /\ n.comp \in built'
  BY <1>2
<1>4. (\A n \in refs : n.comp \in built') => readable = refs
  OBVIOUS
<1> HIDE DEF readable
<1>5. kept = readable
  BY <1>3, NumbersHavePlaces
<1>6. kept \subseteq Buildable(p, "Caps")
  BY <1>1, <1>3, <1>5 DEF Buildable
<1>7. ASSUME \A n \in nodes : n.owner = p /\ n.list = "Caps" /\ LookedFor(n) => n.comp \in built'
      PROVE  Buildable(p, "Caps") \subseteq kept
  <2>1. \A n \in refs : n.comp \in built'
    BY <1>1, <1>2, <1>7
  <2>2. kept = refs
    BY <1>4, <1>5, <2>1
  <2> QED BY <1>2, <2>2 DEF Buildable
<1> HIDE DEF kept
<1>8. ListConnects(Arranged(kept, "capability"), p, "Caps")
  BY <1>6, <1>7, ArrangedConnects
<1> QED BY <1>8 DEF Capabilities, refs, readable, kept

\* The channels and folders of an io folder make one list.
LEMMA IoItemsConnect ==
  ASSUME TreeStays, NodesHang(nodes), NEW p \in Components, KindOf(p) = "io"
  PROVE  ListConnects(IoItems(p), p, "Items")
<1> DEFINE refs == Built(References(p, "Items", "io") \cup IoChannels(p))
<1>1. ASSUME NEW n \in nodes, n.list = "Items", n.owner = p
      PROVE  LookedFor(n) <=> HasType(n.comp, "channel") \/ HasType(n.comp, "io")
  BY <1>1 DEF LookedFor, HasType, Subtypes
<1>2. refs = Buildable(p, "Items")
  BY <1>1 DEF Built, References, IoChannels, NodesOf, Buildable
<1> HIDE DEF refs
<1>3. ListConnects(Arranged(refs, "io"), p, "Items")
  BY <1>2, ArrangedConnects
<1> QED BY <1>3 DEF IoItems, refs

\* The other lists of a device, ...
LEMMA DeviceConnects ==
  ASSUME TreeStays, NodesHang(nodes), NEW p \in Components, KindOf(p) = "device"
  PROVE  /\ ListConnects(Subdevices(p), p, "Dev") /\ ListConnects(FunctionBlocks(p), p, "FB")
         /\ ListConnects(SignalsOf(p), p, "Sig") /\ ListConnects(DaqServers(p), p, "Srv")
         /\ ListConnects(CustomComponents(p), p, "Custom")
<1>1. \A n \in nodes : Hung(n)
  BY DEF NodesHang
<1>2. \A n \in nodes : n.owner = p /\ n.list = "Dev" => (LookedFor(n) <=> HasType(n.comp, "device"))
  BY DEF LookedFor
<1>3. \A n \in nodes : n.owner = p /\ n.list = "FB" => (LookedFor(n) <=> HasType(n.comp, "fb"))
  BY DEF LookedFor
<1>4. \A n \in nodes : n.owner = p /\ n.list = "Sig" => (LookedFor(n) <=> HasType(n.comp, "signal"))
  BY <1>1, KindsOfLists DEF LookedFor, HasType, TypeOf
<1>5. \A n \in nodes : n.owner = p /\ n.list = "Srv" => (LookedFor(n) <=> HasType(n.comp, "component"))
  BY <1>1, KindsOfLists DEF LookedFor, HasType, TypeOf
<1>6. \A n \in nodes : n.owner = p /\ n.list = "Custom" => (LookedFor(n) <=> HasType(n.comp, "component"))
  BY <1>1, KindsOfLists DEF LookedFor, HasType, TypeOf
<1>7. ListConnects(Subdevices(p), p, "Dev") /\ ListConnects(FunctionBlocks(p), p, "FB")
  BY <1>2, <1>3, ListOfTypeConnects DEF Subdevices, FunctionBlocks
<1>8. ListConnects(SignalsOf(p), p, "Sig") /\ ListConnects(DaqServers(p), p, "Srv")
  BY <1>4, <1>5, ListOfTypeConnects DEF SignalsOf, DaqServers
<1>9. ListConnects(CustomComponents(p), p, "Custom")
  BY <1>6, ListOfTypeConnects DEF CustomComponents
<1> QED BY <1>7, <1>8, <1>9

\* ... those of a block ...
LEMMA BlockConnects ==
  ASSUME TreeStays, NodesHang(nodes), NEW p \in Components, IsBlock(p)
  PROVE  /\ ListConnects(NestedBlocks(p), p, "FB") /\ ListConnects(BlockSignals(p), p, "Sig")
         /\ ListConnects(InputPorts(p), p, "IP")
<1>1. \A n \in nodes : Hung(n)
  BY DEF NodesHang
<1>2. \A n \in nodes : n.owner = p /\ n.list = "FB" => (LookedFor(n) <=> HasType(n.comp, "fb"))
  BY DEF LookedFor
<1>3. \A n \in nodes : n.owner = p /\ n.list = "Sig" => (LookedFor(n) <=> HasType(n.comp, "signal"))
  BY <1>1, KindsOfLists DEF LookedFor, HasType, TypeOf
<1>4. \A n \in nodes : n.owner = p /\ n.list = "IP" => (LookedFor(n) <=> HasType(n.comp, "port"))
  BY <1>1, KindsOfLists DEF LookedFor, HasType, TypeOf
<1>5. ListConnects(NestedBlocks(p), p, "FB")
  BY <1>2, ListOfTypeConnects DEF NestedBlocks
<1> QED BY <1>3, <1>4, <1>5, ListOfTypeConnects DEF BlockSignals, InputPorts

\* ... and those of a folder are of one type each.
LEMMA FolderConnects ==
  ASSUME TreeStays, NodesHang(nodes), NEW p \in Components, KindOf(p) # "io"
  PROVE  ListConnects(FolderItems(p), p, "Items")
<1>1. \A n \in nodes : n.owner = p /\ n.list = "Items" => (LookedFor(n) <=> HasType(n.comp, "component"))
  BY DEF LookedFor
<1> QED BY <1>1, ListOfTypeConnects DEF FolderItems

\* The lists of a component are all made so, and nothing hangs anywhere else.
LEMMA ClientListsConnect ==
  ASSUME TreeStays, NodesHang(nodes), NEW p \in Components
  PROVE  /\ \A l \in DOMAIN ClientLists(p) : ListConnects(ClientLists(p)[l], p, l)
         /\ \A n \in nodes : n.owner = p => n.list \in DOMAIN ClientLists(p)
<1>1. \A n \in nodes : Hung(n)
  BY DEF NodesHang
<1>2. CASE KindOf(p) = "device"
  <2>1. ClientLists(p) = ClientDevice(p)
    BY <1>2 DEF ClientLists, IsBlock
  <2>2. \A l \in DOMAIN ClientDevice(p) : ListConnects(ClientDevice(p)[l], p, l)
    BY <1>2, DeviceConnects, InputsOutputsConnect, CapabilitiesConnect DEF ClientDevice
  <2>3. \A n \in nodes : n.owner = p => n.list \in DOMAIN ClientDevice(p)
    BY <1>1, <1>2, KindsOfLists DEF ClientDevice, IsBlock
  <2> QED BY <2>1, <2>2, <2>3
<1>3. CASE IsBlock(p)
  <2>1. ClientLists(p) = ClientBlock(p)
    BY <1>3 DEF ClientLists, IsBlock
  <2>2. \A l \in DOMAIN ClientBlock(p) : ListConnects(ClientBlock(p)[l], p, l)
    BY <1>3, BlockConnects DEF ClientBlock
  <2>3. \A n \in nodes : n.owner = p => n.list \in DOMAIN ClientBlock(p)
    BY <1>1, <1>3, KindsOfLists DEF ClientBlock, IsBlock
  <2> QED BY <2>1, <2>2, <2>3
<1>4. CASE KindOf(p) \in {"io", "folder"}
  <2>1. ClientLists(p) = ClientFolder(p)
    BY <1>4 DEF ClientLists, IsBlock
  <2>2. \A l \in DOMAIN ClientFolder(p) : ListConnects(ClientFolder(p)[l], p, l)
    BY <1>4, IoItemsConnect, FolderConnects DEF ClientFolder
  <2>3. \A n \in nodes : n.owner = p => n.list \in DOMAIN ClientFolder(p)
    BY <1>1, <1>4, KindsOfLists DEF ClientFolder, IsBlock
  <2> QED BY <2>1, <2>2, <2>3
<1>5. CASE KindOf(p) \notin {"device", "io", "folder"} /\ ~IsBlock(p)
  <2>1. ClientLists(p) = << >>
    BY <1>5 DEF ClientLists
  <2>2. \A n \in nodes : n.owner # p
    BY <1>1, <1>5, KindsOfLists
  <2> QED BY <2>1, <2>2
<1> QED BY <1>2, <1>3, <1>4, <1>5
-----------------------------------------------------------------------------
(* What it reads ahead, and what it can build *)

\* What the collector follows from a component.
Followed(c) == {m \in nodes : m.owner = c /\ \E row \in CollectedBelow(c) : m.list = row[1] /\ HasType(m.comp, row[2])}
Collects(f) == f = [c \in Components |-> OwnAttributes(c) \cup UNION {f[n.comp] : n \in Followed(c)}]

\* The collector comes to an end, with all it came by.
LEMMA CollectorEnds ==
  ASSUME TreeStays, \A n \in nodes : Hung(n)
  PROVE  \E f : Collects(f) /\ CollectAttributes = f[1]
<1> DEFINE N == Len(object.kind)
           A == UNION {OwnAttributes(c) : c \in Components}
           own == [c \in 1..N |-> OwnAttributes(c)]
           below == [c \in 1..N |-> {n.comp : n \in Followed(c)}]
<1>1. N \in Nat /\ Components = 1..N
  BY ComponentsOfTree
<1>2. own \in [1..N -> SUBSET A]
  BY <1>1
<1>3. \A c \in 1..N : \A n \in Followed(c) : n.comp \in 1..N /\ n.comp > c
  BY <1>1 DEF Followed, Hung
<1>4. below \in [1..N -> SUBSET (1..N)] /\ \A c \in 1..N : \A d \in below[c] : d > c
  BY <1>3
<1>5. N \in 0..N /\ N - N + 1 = 1
  BY <1>1
<1>6. PICK f \in Gatherings(N, own, below, N) : TRUE
  <2>1. N \in Nat
    BY <1>1
  <2> HIDE DEF N, A, own, below
  <2>2. Gatherings(N, own, below, N) # {}
    BY <2>1, <1>2, <1>4, <1>5, GatheringExists
  <2> QED BY <2>2
<1>7. /\ f = [c \in 1..N |-> f[c]]
      /\ \A c \in 1..N : f[c] = own[c] \cup UNION {f[d] : d \in below[c]}
  <2> HIDE DEF N, A, own, below
  <2> QED BY <1>5, <1>6 DEF Gatherings
<1>8. ASSUME NEW c \in Components PROVE f[c] = OwnAttributes(c) \cup UNION {f[n.comp] : n \in Followed(c)}
  <2>1. f[c] = own[c] \cup UNION {f[d] : d \in below[c]}
    BY <1>1, <1>7
  <2>2. own[c] = OwnAttributes(c) /\ below[c] = {n.comp : n \in Followed(c)}
    BY <1>1
  <2>3. UNION {f[d] : d \in {n.comp : n \in Followed(c)}} = UNION {f[n.comp] : n \in Followed(c)}
    OBVIOUS
  <2> HIDE DEF own, below
  <2> QED BY <2>1, <2>2, <2>3
<1>9. Collects(f)
  <2> HIDE DEF N, own, below
  <2> QED BY <1>1, <1>7, <1>8 DEF Collects
<1>10. CollectAttributes = (CHOOSE g : Collects(g))[1]
  BY DEF CollectAttributes, Collects, Followed
<1> QED BY <1>9, <1>10

\* The collector comes by nothing but attributes of components.
LEMMA CollectedAreAttributes ==
  ASSUME TreeStays, \A n \in nodes : Hung(n), NEW f, Collects(f), NEW c \in Components
  PROVE  f[c] \subseteq Components \X ReadAttributes
<1> DEFINE N == Len(object.kind)
           A == Components \X ReadAttributes
           own == [d \in 1..N |-> OwnAttributes(d)]
           below == [d \in 1..N |-> {n.comp : n \in Followed(d)}]
<1>1. N \in Nat /\ Components = 1..N
  BY ComponentsOfTree
<1>2. own \in [1..N -> SUBSET A]
  BY <1>1 DEF OwnAttributes, ReadAttributes
<1>3. \A d \in 1..N : \A n \in Followed(d) : n.comp \in 1..N /\ n.comp > d
  BY <1>1 DEF Followed, Hung
<1>4. below \in [1..N -> SUBSET (1..N)] /\ \A d \in 1..N : \A e \in below[d] : e > d
  BY <1>3
<1>5. ASSUME NEW d \in 1..N PROVE \A x \in f[d] : x \in own[d] \/ \E e \in below[d] : x \in f[e]
  <2>1. f[d] = OwnAttributes(d) \cup UNION {f[n.comp] : n \in Followed(d)}
    BY <1>1 DEF Collects
  <2>2. own[d] = OwnAttributes(d) /\ below[d] = {n.comp : n \in Followed(d)}
    BY <1>1
  <2> HIDE DEF own, below
  <2> QED BY <2>1, <2>2
<1> HIDE DEF own, below, N, A
<1>6. \A d \in 1..N : f[d] \subseteq A
  <2>1. GatheredFrom(N, own, below, f)
    BY <1>5 DEF GatheredFrom
  <2> QED BY <1>1, <1>2, <1>4, <2>1, GatheredIsBounded
<1> QED BY <1>1, <1>6 DEF A

\* What the client can build, by the components below.
LEMMA BuildsAreBuilt ==
  ASSUME TreeStays, NodesHang(nodes)
  PROVE  /\ Builds \subseteq Components
         /\ \A c \in Components : c \in Builds <=> /\ c \notin faulty' /\ CanRead(c)
                                                  /\ \A n \in nodes : n.owner = c /\ FailsWith(n) => n.comp \in Builds
<1> DEFINE N == Len(object.kind)
           bad == {c \in Components : ~(c \notin faulty' /\ CanRead(c))}
           Held(c) == {m \in nodes : m.owner = c /\ FailsWith(m)}
           below == [c \in 1..N |-> {n.comp : n \in Held(c)}]
           Can(g, c) == /\ c \notin faulty' /\ CanRead(c)
                        /\ \A row \in Strict(c) : \A n \in NodesOf(c, row[1]) : HasType(n.comp, row[2]) => g[n.comp]
           Builder(g) == g = [c \in Components |-> Can(g, c)]
<1>1. N \in Nat /\ Components = 1..N
  BY ComponentsOfTree
<1>2. \A n \in nodes : n.owner \in 1..N /\ n.comp \in 1..N /\ n.comp > n.owner
  BY <1>1 DEF NodesHang, Hung
<1>3. below \in [1..N -> SUBSET (1..N)] /\ \A c \in 1..N : \A d \in below[c] : d > c
  BY <1>2
<1>4. PICK F \in SUBSET (1..N) : \A c \in 1..N : c \in F <=> c \in bad \/ \E d \in below[c] : d \in F
  <2> HIDE DEF N, bad, below
  <2>1. Failing(N, bad, below) # {}
    BY <1>1, <1>3, FailuresExist
  <2> QED BY <2>1 DEF Failing
<1>5. \A g : \A c \in Components : Can(g, c) <=> c \notin bad /\ \A n \in nodes : n.owner = c /\ FailsWith(n) => g[n.comp]
  BY DEF FailsWith, NodesOf
<1>6. \A g : \A c \in Components : Can(g, c) \in BOOLEAN
  OBVIOUS
<1> DEFINE b == [c \in Components |-> c \notin F]
<1>7. \A c \in Components : b[c] = Can(b, c)
  <2> SUFFICES ASSUME NEW c \in Components PROVE b[c] = Can(b, c)
    OBVIOUS
  <2>1. b[c] <=> c \notin F
    OBVIOUS
  <2>2. c \in F <=> c \in bad \/ \E n \in nodes : n.owner = c /\ FailsWith(n) /\ n.comp \in F
    <3>1. \A d : d \in below[c] <=> \E n \in nodes : n.owner = c /\ FailsWith(n) /\ n.comp = d
      BY <1>1
    <3> HIDE DEF below, bad
    <3> QED BY <1>1, <1>4, <3>1
  <2>3. \A n \in nodes : b[n.comp] <=> n.comp \notin F
    BY <1>1, <1>2
  <2>4. Can(b, c) <=> c \notin bad /\ \A n \in nodes : n.owner = c /\ FailsWith(n) => b[n.comp]
    BY <1>5
  <2>5. b[c] \in BOOLEAN /\ Can(b, c) \in BOOLEAN
    BY <1>6
  <2> HIDE DEF b, bad, Can
  <2>6. b[c] <=> Can(b, c)
    BY <2>1, <2>2, <2>3, <2>4
  <2> QED BY <2>5, <2>6
<1>8. Builder(b)
  <2> HIDE DEF Can
  <2> QED BY <1>7
<1> DEFINE g == CHOOSE h : Builder(h)
<1>9. Builder(g)
  <2> HIDE DEF Builder, b
  <2> QED BY <1>8
<1>10. Builds = {c \in Components : g[c]}
  BY DEF Builds
<1>11. \A c \in Components : g[c] = Can(g, c)
  <2> HIDE DEF g, Can
  <2> QED BY <1>9
<1> HIDE DEF g, Builder, b
<1>12. ASSUME NEW c \in Components
       PROVE  c \in Builds <=> /\ c \notin faulty' /\ CanRead(c)
                              /\ \A n \in nodes : n.owner = c /\ FailsWith(n) => n.comp \in Builds
  <2>1. c \in Builds <=> Can(g, c)
    <3> HIDE DEF Can
    <3> QED BY <1>10, <1>11
  <2>2. Can(g, c) <=> c \notin bad /\ \A n \in nodes : n.owner = c /\ FailsWith(n) => g[n.comp]
    BY <1>5
  <2>3. c \notin bad <=> c \notin faulty' /\ CanRead(c)
    OBVIOUS
  <2>4. \A n \in nodes : n.comp \in Builds <=> g[n.comp]
    BY <1>1, <1>2, <1>10
  <2> HIDE DEF bad, Can
  <2> QED BY <2>1, <2>2, <2>3, <2>4
<1>13. Builds \subseteq Components
  BY <1>10
<1> QED BY <1>12, <1>13
-----------------------------------------------------------------------------
(* The steps *)

\* What the client has stays right as long as the tree is only added to.
LEMMA MirrorStays ==
  ASSUME object'.kind = object.kind, object.added \subseteq object'.added,
         \A p \in Components : \A i \in DOMAIN object.children[p] :
           i \in DOMAIN object'.children[p] /\ object'.children[p][i] = object.children[p][i],
         NEW S, NEW N, NEW bad, NEW odd, NEW got, NEW can, NEW lists,
         MirrorRight(S, N, bad, odd, got, can, lists)
  PROVE  MirrorRight(S, N, bad, odd, got, can, lists)'
<1>1. Components' = Components /\ (\A c : KindOf(c)' = KindOf(c))
  BY DEF Components, KindOf
<1>2. \A c : OwnAttributes(c)' = OwnAttributes(c) /\ Strict(c)' = Strict(c)
  BY <1>1 DEF OwnAttributes, IsBlock, Strict
<1>3. \A n : (FailsWith(n)' <=> FailsWith(n)) /\ (LookedFor(n)' <=> LookedFor(n))
  BY <1>1, <1>2 DEF FailsWith, LookedFor, HasType, TypeOf
<1>4. \A list, p, l : HasSought(list, N, p, l, can)' <=> HasSought(list, N, p, l, can)
  BY <1>1, <1>3 DEF HasSought
<1>5. ASSUME NEW list, NEW p \in Components, InOrder(list, p, odd) PROVE InOrder(list, p, odd)'
  BY <1>5 DEF InOrder
<1>6. ReadWhole(S, N, got)' /\ S \subseteq Components
  BY <1>1, <1>2 DEF MirrorRight, ReadWhole
<1>7. BuiltWhole(S, N, bad, can)'
  BY <1>3 DEF MirrorRight, BuiltWhole
<1>8. ListsRight(S, N, odd, can, lists)'
  BY <1>4, <1>5, <1>6 DEF MirrorRight, ListsRight
<1> QED BY <1>6, <1>7, <1>8 DEF MirrorRight

\* The components stay the same.
LEMMA MirrorTypesStay ==
  ASSUME object'.kind = object.kind, NEW bad, NEW odd, NEW got, NEW can
  PROVE  MirrorTypes(bad, odd, got, can)' <=> MirrorTypes(bad, odd, got, can)
BY DEF MirrorTypes, Components

\* The invariant of the tree: it holds at first, ...
LEMMA TreeInvInitially == TreeInit => TreeInv
BY TreeInitially DEF TreeInit, TreeInv, NodesHang, MirrorTypes

\* ... when the server starts, ...
LEMMA TreeInvRegisters == TreeInv /\ RegisterTree => TreeInv'
<1> SUFFICES ASSUME TreeInv, RegisterTree PROVE TreeInv'
  OBVIOUS
<1>1. /\ object' = object /\ faulty' = faulty /\ unread' = unread /\ reads' = reads /\ seen' = seen
      /\ built' = built /\ mirror' = mirror
  BY DEF RegisterTree
<1>2. TreeStays' /\ NodesHang(nodes)' /\ NodesHang(seen)'
  BY TreeRegisters DEF TreeInv
<1>3. MirrorTypes(faulty, unread, reads, built)'
  BY <1>1, MirrorTypesStay DEF TreeInv
<1>4. ASSUME mirror' # << >>
      PROVE  \E S \in SUBSET Components' : MirrorRight(S, seen, faulty, unread, reads, built, mirror)'
  <2>1. PICK S \in SUBSET Components : MirrorRight(S, seen, faulty, unread, reads, built, mirror)
    BY <1>1, <1>4 DEF TreeInv
  <2>2. MirrorRight(S, seen, faulty, unread, reads, built, mirror)'
    BY <1>1, <2>1, MirrorStays
  <2> QED BY <1>1, <2>2 DEF Components
<1> QED BY <1>1, <1>2, <1>3, <1>4 DEF TreeInv

\* ... when a server is added, whatever a client has built before, ...
LEMMA TreeInvTakesServer ==
  ASSUME TreeInv, NEW s \in Components, AddServer(s)
  PROVE  TreeInv'
<1>1. /\ faulty' = faulty /\ unread' = unread /\ reads' = reads /\ seen' = seen /\ built' = built /\ mirror' = mirror
  BY DEF AddServer
<1>2. TreeStays' /\ NodesHang(nodes)' /\ NodesHang(seen)'
  BY TreeTakesServer DEF TreeInv
<1>3. /\ object'.kind = object.kind /\ object'.added = object.added \cup {s}
      /\ \A p \in Components : \A i \in DOMAIN object.children[p] :
           i \in DOMAIN object'.children[p] /\ object'.children[p][i] = object.children[p][i]
  BY LateServerIsLast DEF TreeInv
<1>4. MirrorTypes(faulty, unread, reads, built)'
  BY <1>1, <1>3, MirrorTypesStay DEF TreeInv
<1>5. ASSUME mirror' # << >>
      PROVE  \E S \in SUBSET Components' : MirrorRight(S, seen, faulty, unread, reads, built, mirror)'
  <2>1. PICK S \in SUBSET Components : MirrorRight(S, seen, faulty, unread, reads, built, mirror)
    BY <1>1, <1>5 DEF TreeInv
  <2>2. MirrorRight(S, seen, faulty, unread, reads, built, mirror)'
    BY <1>1, <1>3, <2>1, MirrorStays
  <2> QED BY <1>3, <2>2 DEF Components
<1> QED BY <1>1, <1>2, <1>4, <1>5 DEF TreeInv

\* ... when a client goes ...
LEMMA TreeInvDrops == TreeInv /\ DropDevice => TreeInv'
<1> SUFFICES ASSUME TreeInv, DropDevice PROVE TreeInv'
  OBVIOUS
<1>1. /\ object' = object /\ nodes' = nodes /\ faulty' = {} /\ unread' = {} /\ reads' = {} /\ seen' = {}
      /\ built' = {} /\ mirror' = << >>
  BY DEF DropDevice
<1>2. \A N : NodesHang(N)' <=> NodesHang(N)
  BY <1>1 DEF NodesHang, Hung, Hangs, Public, Components, KindOf, ShownBy, ListOf, IsBlock, Placed, PlacedAt, Earlier
<1>3. TreeStays'
  BY <1>1 DEF TreeInv, TreeStays, Components
<1>4. NodesHang(nodes)' /\ NodesHang(seen)'
  <2>1. NodesHang({})
    BY DEF NodesHang
  <2> QED BY <1>1, <1>2, <2>1 DEF TreeInv
<1> QED BY <1>1, <1>3, <1>4 DEF TreeInv, MirrorTypes

\* ... and when one connects, which makes all of its lists.
LEMMA TreeInvConnects == TreeInv /\ ConnectDevice => TreeInv'
<1> SUFFICES ASSUME TreeInv, ConnectDevice PROVE TreeInv'
  OBVIOUS
<1>1. /\ object' = object /\ nodes' = nodes /\ reads' = CollectAttributes /\ seen' = nodes /\ built' = Builds
      /\ mirror' = [p \in built' |-> ClientLists(p)]
      /\ faulty' \subseteq Components \ {1} /\ unread' \subseteq Components
  BY DEF ConnectDevice
<1>2. TreeStays /\ NodesHang(nodes) /\ \A n \in nodes : Hung(n)
  BY DEF TreeInv, NodesHang
<1>3. PICK f : Collects(f) /\ CollectAttributes = f[1]
  BY <1>2, CollectorEnds
<1>4. 1 \in Components /\ KindOf(1) = "device"
  BY <1>2, ComponentsOfTree
<1>5. reads' \subseteq Components \X ReadAttributes
  BY <1>1, <1>2, <1>3, <1>4, CollectedAreAttributes
<1>6. /\ built' \subseteq Components
      /\ \A c \in Components : c \in built' <=> /\ c \notin faulty' /\ CanRead(c)
                                               /\ \A n \in nodes : n.owner = c /\ FailsWith(n) => n.comp \in built'
  BY <1>1, <1>2, BuildsAreBuilt
<1>gathered. PICK S \in SUBSET Components : S = {c \in Components : f[c] \subseteq f[1]}
  OBVIOUS
<1>7. \A c \in Components : f[c] = OwnAttributes(c) \cup UNION {f[n.comp] : n \in Followed(c)}
  BY <1>3 DEF Collects
<1>8. ASSUME NEW n \in nodes, n.owner \in S PROVE n.comp \in S
  <2>1. n.owner \in Components /\ n.comp \in Components
    BY <1>2 DEF Hung
  <2>2. n \in Followed(n.owner)
    BY <1>2, HungIsCollected DEF Followed
  <2>3. f[n.comp] \subseteq f[n.owner]
    BY <1>7, <2>1, <2>2
  <2> QED BY <1>8, <1>gathered, <2>1, <2>3
<1>9. \A c \in S : OwnAttributes(c) \subseteq reads'
  BY <1>1, <1>3, <1>7, <1>gathered
<1>10. 1 \in S /\ S \subseteq Components
  BY <1>4, <1>gathered
<1>11. ReadWhole(S, nodes, reads')
  BY <1>8, <1>9, <1>10 DEF ReadWhole
<1>12. BuiltWhole(S, nodes, faulty', built')
  BY <1>6, <1>9, <1>10 DEF BuiltWhole, CanRead
<1>13. 1 \in built'
  <2>1. \A n \in nodes : ~(n.owner = 1 /\ FailsWith(n))
    BY <1>4 DEF FailsWith, Strict, IsBlock
  <2>2. CanRead(1)
    BY <1>9, <1>10 DEF CanRead
  <2> QED BY <1>1, <1>4, <1>6, <2>1, <2>2
<1>14. ListsRight(S, nodes, unread', built', mirror')
  <2>1. DOMAIN mirror' = built' /\ \A p \in built' : mirror'[p] = ClientLists(p)
    BY <1>1
  <2>2. ASSUME NEW p \in built'
        PROVE  /\ \A l \in DOMAIN ClientLists(p) : ListConnects(ClientLists(p)[l], p, l)
               /\ \A n \in nodes : n.owner = p => n.list \in DOMAIN ClientLists(p)
    BY <1>2, <1>6, ClientListsConnect
  <2>3. ASSUME NEW p \in S, NEW n \in nodes, n.owner = p PROVE <<n.comp, "NumberInList">> \in reads'
    BY <1>8, <1>9, <2>3 DEF OwnAttributes
  <2>4. ASSUME NEW p \in built', NEW l \in DOMAIN mirror'[p]
        PROVE  HasSought(mirror'[p][l], nodes, p, l, built') /\ (p \in S => InOrder(mirror'[p][l], p, unread'))
    <3>1. ListConnects(mirror'[p][l], p, l)
      BY <2>1, <2>2
    <3> QED BY <2>3, <3>1 DEF ListConnects
  <2>5. \A n \in nodes : n.owner \in built' => n.list \in DOMAIN mirror'[n.owner]
    BY <2>1, <2>2
  <2> QED BY <1>13, <2>1, <2>4, <2>5 DEF ListsRight
<1>15. MirrorRight(S, nodes, faulty', unread', reads', built', mirror')
  BY <1>11, <1>12, <1>14 DEF MirrorRight
<1>16. MirrorRight(S, seen, faulty, unread, reads, built, mirror)'
  <2>1. \A N, bad, odd, got, can, lists : MirrorRight(S, N, bad, odd, got, can, lists)
                                          => MirrorRight(S, N, bad, odd, got, can, lists)'
    BY <1>1, MirrorStays
  <2> QED BY <1>1, <1>15, <2>1
<1>17. MirrorTypes(faulty, unread, reads, built)'
  <2>1. MirrorTypes(faulty', unread', reads', built')
    BY <1>1, <1>5, <1>6 DEF MirrorTypes
  <2> QED BY <1>1, <2>1, MirrorTypesStay
<1>18. mirror' # << >>
  BY <1>1, <1>13
<1>19. \A N : NodesHang(N)' <=> NodesHang(N)
  BY <1>1 DEF NodesHang, Hung, Hangs, Public, Components, KindOf, ShownBy, ListOf, IsBlock, Placed, PlacedAt, Earlier
<1>20. TreeStays' /\ NodesHang(nodes)' /\ NodesHang(seen)'
  <2>1. TreeStays'
    BY <1>1, <1>2 DEF TreeStays, Components
  <2> QED BY <1>1, <1>2, <1>19, <2>1
<1>21. S \in SUBSET Components'
  BY <1>1, <1>10 DEF Components
<1>22. \E R \in SUBSET Components' : MirrorRight(R, seen, faulty, unread, reads, built, mirror)'
  BY <1>16, <1>21
<1> QED BY <1>17, <1>18, <1>20, <1>22 DEF TreeInv

\* Every step of the tree keeps the invariant.
LEMMA TreeInvSteps == TreeInv /\ [TreeNext]_treeVars => TreeInv'
<1> SUFFICES ASSUME TreeInv, [TreeNext]_treeVars PROVE TreeInv'
  OBVIOUS
<1>1. CASE RegisterTree
  BY <1>1, TreeInvRegisters
<1>2. CASE \E s \in Components : AddServer(s)
  BY <1>2, TreeInvTakesServer
<1>3. CASE ConnectDevice
  BY <1>3, TreeInvConnects
<1>4. CASE DropDevice
  BY <1>4, TreeInvDrops
<1>5. CASE UNCHANGED treeVars
  <2>1. /\ object' = object /\ nodes' = nodes /\ faulty' = faulty /\ unread' = unread /\ reads' = reads
        /\ seen' = seen /\ built' = built /\ mirror' = mirror
    BY <1>5 DEF treeVars
  <2>2. \A N : NodesHang(N)' <=> NodesHang(N)
    BY <2>1 DEF NodesHang, Hung, Hangs, Public, Components, KindOf, ShownBy, ListOf, IsBlock, Placed, PlacedAt, Earlier
  <2>3. TreeStays' /\ NodesHang(nodes)' /\ NodesHang(seen)'
    <3>1. TreeStays'
      BY <2>1 DEF TreeInv, TreeStays, Components
    <3> QED BY <2>1, <2>2, <3>1 DEF TreeInv
  <2>4. MirrorTypes(faulty, unread, reads, built)'
    BY <2>1, MirrorTypesStay DEF TreeInv
  <2>5. ASSUME mirror' # << >>
        PROVE  \E S \in SUBSET Components' : MirrorRight(S, seen, faulty, unread, reads, built, mirror)'
    <3>1. PICK S \in SUBSET Components : MirrorRight(S, seen, faulty, unread, reads, built, mirror)
      BY <2>1, <2>5 DEF TreeInv
    <3>2. MirrorRight(S, seen, faulty, unread, reads, built, mirror)'
      BY <2>1, <3>1, MirrorStays
    <3> QED BY <2>1, <3>2 DEF Components
  <2> QED BY <2>1, <2>3, <2>4, <2>5 DEF TreeInv
<1> QED BY <1>1, <1>2, <1>3, <1>4, <1>5 DEF TreeNext
-----------------------------------------------------------------------------
(* What follows for the properties *)

\* A node of a block, an io folder or a folder that counts for what is lost.
TakesAlong(n) == KindOf(n.owner) # "device" /\ n.list # "FB" /\ n.comp \in Sought(n.owner, n.list)

\* What is lost is faulty, or has something lost that it is made of.
LEMMA LostIsLost ==
  ASSUME TreeStays, NodesHang(seen)
  PROVE  /\ Lost \subseteq Components
         /\ \A c \in Components : c \in Lost <=> c \in faulty \/ \E n \in seen : n.owner = c /\ TakesAlong(n) /\ n.comp \in Lost
<1> DEFINE N == Len(object.kind)
           Held(c) == {m \in seen : m.owner = c /\ TakesAlong(m)}
           below == [c \in 1..N |-> {n.comp : n \in Held(c)}]
           FailsIn(g, c) == \/ c \in faulty
                            \/ KindOf(c) # "device" /\ \E n \in seen : /\ n.owner = c /\ n.list # "FB"
                                                                      /\ n.comp \in Sought(c, n.list) /\ g[n.comp]
           Failer(g) == g = [c \in Components |-> FailsIn(g, c)]
<1>1. N \in Nat /\ Components = 1..N
  BY ComponentsOfTree
<1>2. \A n \in seen : n.owner \in 1..N /\ n.comp \in 1..N /\ n.comp > n.owner
  BY <1>1 DEF NodesHang, Hung
<1>3. below \in [1..N -> SUBSET (1..N)] /\ \A c \in 1..N : \A d \in below[c] : d > c
  BY <1>2
<1>4. PICK F \in SUBSET (1..N) : \A c \in 1..N : c \in F <=> c \in faulty \/ \E d \in below[c] : d \in F
  <2> HIDE DEF N, below
  <2>1. Failing(N, faulty, below) # {}
    BY <1>1, <1>3, FailuresExist
  <2> QED BY <2>1 DEF Failing
<1>5. \A g : \A c \in Components : FailsIn(g, c) <=> c \in faulty \/ \E n \in seen : n.owner = c /\ TakesAlong(n) /\ g[n.comp]
  BY DEF TakesAlong
<1>6. \A g : \A c \in Components : FailsIn(g, c) \in BOOLEAN
  OBVIOUS
<1> DEFINE b == [c \in Components |-> c \in F]
<1>7. \A c \in Components : b[c] = FailsIn(b, c)
  <2> SUFFICES ASSUME NEW c \in Components PROVE b[c] = FailsIn(b, c)
    OBVIOUS
  <2>1. b[c] <=> c \in F
    OBVIOUS
  <2>2. c \in F <=> c \in faulty \/ \E n \in seen : n.owner = c /\ TakesAlong(n) /\ n.comp \in F
    <3>1. \A d : d \in below[c] <=> \E n \in seen : n.owner = c /\ TakesAlong(n) /\ n.comp = d
      BY <1>1
    <3> HIDE DEF below
    <3> QED BY <1>1, <1>4, <3>1
  <2>3. \A n \in seen : b[n.comp] <=> n.comp \in F
    BY <1>1, <1>2
  <2>4. FailsIn(b, c) <=> c \in faulty \/ \E n \in seen : n.owner = c /\ TakesAlong(n) /\ b[n.comp]
    BY <1>5
  <2>5. b[c] \in BOOLEAN /\ FailsIn(b, c) \in BOOLEAN
    BY <1>6
  <2> HIDE DEF b, FailsIn
  <2>6. b[c] <=> FailsIn(b, c)
    BY <2>1, <2>2, <2>3, <2>4
  <2> QED BY <2>5, <2>6
<1>8. Failer(b)
  <2> HIDE DEF FailsIn
  <2> QED BY <1>7
<1> DEFINE g == CHOOSE h : Failer(h)
<1>9. Failer(g)
  <2> HIDE DEF Failer, b
  <2> QED BY <1>8
<1>10. Lost = {c \in Components : g[c]}
  BY DEF Lost
<1>11. \A c \in Components : g[c] = FailsIn(g, c)
  <2> HIDE DEF g, FailsIn
  <2> QED BY <1>9
<1> HIDE DEF g, Failer, b
<1>12. ASSUME NEW c \in Components
       PROVE  c \in Lost <=> c \in faulty \/ \E n \in seen : n.owner = c /\ TakesAlong(n) /\ n.comp \in Lost
  <2>1. c \in Lost <=> FailsIn(g, c)
    <3> HIDE DEF FailsIn
    <3> QED BY <1>10, <1>11
  <2>2. FailsIn(g, c) <=> c \in faulty \/ \E n \in seen : n.owner = c /\ TakesAlong(n) /\ g[n.comp]
    BY <1>5
  <2>3. \A n \in seen : n.comp \in Lost <=> g[n.comp]
    BY <1>1, <1>2, <1>10
  <2> HIDE DEF FailsIn
  <2> QED BY <2>1, <2>2, <2>3
<1>13. Lost \subseteq Components
  BY <1>10
<1> QED BY <1>12, <1>13

\* What is sought in a list is what its nodes show.
LEMMA SoughtIsLookedFor ==
  ASSUME NodesHang(seen), NEW n \in seen
  PROVE  n.comp \in Sought(n.owner, n.list) <=> LookedFor(n)
<1>1. n.comp \in Sought(n.owner, n.list) <=> \E m \in seen : m.owner = n.owner /\ m.list = n.list /\ LookedFor(m) /\ m.comp = n.comp
  BY DEF Sought
<1>2. \A m \in seen : m.owner = n.owner /\ m.comp = n.comp => m = n
  BY DEF NodesHang
<1> QED BY <1>1, <1>2

\* The client fails with the nodes that the property counts, and no others.
LEMMA LostTogether ==
  ASSUME NodesHang(seen), NEW n \in seen
  PROVE  FailsWith(n) <=> TakesAlong(n)
<1>1. Hung(n)
  BY DEF NodesHang
<1>2. TakesAlong(n) <=> KindOf(n.owner) # "device" /\ n.list # "FB" /\ LookedFor(n)
  BY SoughtIsLookedFor DEF TakesAlong
<1>3. CASE KindOf(n.owner) = "device"
  BY <1>2, <1>3 DEF FailsWith, Strict, IsBlock
<1>4. CASE IsBlock(n.owner)
  <2>1. /\ KindOf(n.owner) # "device"
        /\ \/ n.list = "Sig" /\ KindOf(n.comp) = "signal"
           \/ n.list = "IP" /\ KindOf(n.comp) = "port"
           \/ n.list = "FB" /\ KindOf(n.comp) = "fb"
    BY <1>1, <1>4, KindsOfLists DEF IsBlock
  <2>2. FailsWith(n) <=> (n.list = "Sig" /\ HasType(n.comp, "signal")) \/ (n.list = "IP" /\ HasType(n.comp, "port"))
    <3>1. Strict(n.owner) = {<<"Sig", "signal">>, <<"IP", "port">>}
      BY <1>4 DEF Strict, IsBlock
    <3> QED BY <3>1 DEF FailsWith
  <2>3. KindOf(n.comp) = "signal" => HasType(n.comp, "signal")
    BY DEF HasType, TypeOf
  <2>4. KindOf(n.comp) = "port" => HasType(n.comp, "port")
    BY DEF HasType, TypeOf
  <2>5. n.list \in {"Sig", "IP"} => LookedFor(n)
    BY DEF LookedFor
  <2> QED BY <1>2, <2>1, <2>2, <2>3, <2>4, <2>5
<1>5. CASE KindOf(n.owner) = "io"
  <2>1. n.list = "Items"
    BY <1>1, <1>5, KindsOfLists DEF IsBlock
  <2>2. FailsWith(n) <=> HasType(n.comp, "io") \/ HasType(n.comp, "channel")
    <3>1. Strict(n.owner) = {<<"Items", "io">>, <<"Items", "channel">>}
      BY <1>5 DEF Strict, IsBlock
    <3> QED BY <3>1, <2>1 DEF FailsWith
  <2>3. LookedFor(n) <=> HasType(n.comp, "io") \/ HasType(n.comp, "channel")
    BY <1>5, <2>1 DEF LookedFor, HasType, Subtypes
  <2> QED BY <1>2, <1>5, <2>1, <2>2, <2>3
<1>6. CASE KindOf(n.owner) = "folder"
  <2>1. n.list = "Items"
    BY <1>1, <1>6, KindsOfLists DEF IsBlock
  <2>2. FailsWith(n) <=> HasType(n.comp, "component")
    <3>1. Strict(n.owner) = {<<"Items", "component">>}
      BY <1>6 DEF Strict, IsBlock
    <3> QED BY <3>1, <2>1 DEF FailsWith
  <2>3. LookedFor(n) <=> HasType(n.comp, "component")
    BY <1>6, <2>1 DEF LookedFor
  <2> QED BY <1>2, <1>6, <2>1, <2>2, <2>3
<1> QED BY <1>1, <1>3, <1>4, <1>5, <1>6, KindsOfLists

\* Of what was read, the client builds all but what is lost.
LEMMA BuiltIsNotLost ==
  ASSUME TreeStays, NodesHang(seen), NEW S, ReadWhole(S, seen, reads), BuiltWhole(S, seen, faulty, built)
  PROVE  \A c \in S : c \in built <=> c \notin Lost
<1> DEFINE Odd == {c \in S : ~(c \in built <=> c \notin Lost)}
<1> SUFFICES ASSUME Odd # {} PROVE FALSE
  OBVIOUS
<1>1. Components = 1..Len(object.kind) /\ Len(object.kind) \in Nat
  BY ComponentsOfTree
<1>2. Odd \subseteq 1..Len(object.kind)
  BY <1>1 DEF ReadWhole
<1>3. PICK c \in Odd : \A x \in Odd : x <= c
  <2> HIDE DEF Odd
  <2> QED BY <1>1, <1>2, LargestOf
<1>4. c \in S /\ c \in Components /\ ~(c \in built <=> c \notin Lost)
  BY DEF ReadWhole
<1>5. ASSUME NEW n \in seen, n.owner = c PROVE n.comp \in built <=> n.comp \notin Lost
  <2>1. n.comp \in S
    BY <1>4, <1>5 DEF ReadWhole
  <2>2. n.comp > c /\ n.comp \in 1..Len(object.kind) /\ c \in 1..Len(object.kind)
    BY <1>1, <1>5 DEF NodesHang, Hung
  <2>3. n.comp \notin Odd
    <3> HIDE DEF Odd
    <3> QED BY <1>3, <2>2
  <2> QED BY <2>1, <2>3
<1>6. c \in built <=> c \notin faulty /\ \A n \in seen : n.owner = c /\ FailsWith(n) => n.comp \in built
  BY <1>4 DEF BuiltWhole
<1>7. c \in Lost <=> c \in faulty \/ \E n \in seen : n.owner = c /\ TakesAlong(n) /\ n.comp \in Lost
  BY <1>4, LostIsLost
<1>8. \A n \in seen : FailsWith(n) <=> TakesAlong(n)
  BY LostTogether
<1> QED BY <1>4, <1>5, <1>6, <1>7, <1>8

\* What a client shows from the root on was read as a whole, and built.
LEMMA PresentIsBuilt ==
  ASSUME NodesHang(seen), NEW S, MirrorRight(S, seen, faulty, unread, reads, built, mirror), NEW p \in Present
  PROVE  p \in S /\ p \in built
<1> DEFINE R == S \cap built
<1>1. S \subseteq Components /\ 1 \in R
  BY DEF MirrorRight, ReadWhole, ListsRight
<1>2. ASSUME NEW n \in seen, n.owner \in R, n.comp \in ToSet(mirror[n.owner][n.list]) PROVE n.comp \in R
  <2>1. n.comp \in S
    BY <1>2 DEF MirrorRight, ReadWhole
  <2>2. n.list \in DOMAIN mirror[n.owner]
    BY <1>2 DEF MirrorRight, ListsRight
  <2>3. HasSought(mirror[n.owner][n.list], seen, n.owner, n.list, built)
    BY <1>2, <2>2 DEF MirrorRight, ListsRight
  <2>4. \A i \in DOMAIN mirror[n.owner][n.list] : mirror[n.owner][n.list][i] \in built
    BY <2>3 DEF HasSought
  <2>5. n.comp \in built
    BY <1>2, <2>4 DEF ToSet
  <2> QED BY <2>1, <2>5
<1>3. R \in {Q \in SUBSET Components :
               /\ 1 \in Q
               /\ \A n \in seen : /\ n.owner \in Q \cap DOMAIN mirror
                                 /\ n.comp \in ToSet(mirror[n.owner][n.list]) => n.comp \in Q}
  <2> HIDE DEF R
  <2>1. R \in SUBSET Components
    BY <1>1 DEF R
  <2> QED BY <1>1, <1>2, <2>1
<1>4. p \in R
  <2> HIDE DEF R
  <2> QED BY <1>3 DEF Present
<1> QED BY <1>4

\* The lists hold components of the tree.
LEMMA TreeTypes == TreeInv => ComponentTreeTypeOK
<1> SUFFICES ASSUME TreeInv PROVE ComponentTreeTypeOK
  OBVIOUS
<1>1. object.children \in [Components -> Seq(Components)]
  BY DEF TreeInv, TreeStays
<1>2. \A n \in nodes : n.comp \in Components /\ n.owner \in Components /\ n.number \in Nat
  BY DEF TreeInv, NodesHang, Hung
<1>3. ASSUME NEW p \in DOMAIN mirror, NEW l \in DOMAIN mirror[p] PROVE mirror[p][l] \in Seq(Components)
  <2>1. mirror # << >>
    OBVIOUS
  <2>2. PICK S \in SUBSET Components : MirrorRight(S, seen, faulty, unread, reads, built, mirror)
    BY <2>1 DEF TreeInv
  <2> QED BY <2>2 DEF MirrorRight, ListsRight, HasSought
<1> QED BY <1>1, <1>2, <1>3 DEF ComponentTreeTypeOK, TreeInv, MirrorTypes, ReadAttributes

\* They are in the application's order.
LEMMA TreeOrder == TreeInv => OrderIsKept
<1> SUFFICES ASSUME TreeInv, mirror # << >>, NEW p \in Present, NEW l \in DOMAIN mirror[p]
             PROVE  InOrder(mirror[p][l], p, unread)
  BY DEF OrderIsKept, InOrder
<1>1. PICK S \in SUBSET Components : MirrorRight(S, seen, faulty, unread, reads, built, mirror)
  BY DEF TreeInv
<1>2. p \in S /\ p \in built
  BY <1>1, PresentIsBuilt DEF TreeInv
<1> QED BY <1>1, <1>2 DEF MirrorRight, ListsRight

\* They miss what is lost and nothing else.
LEMMA TreeFailures == TreeInv => FailureStaysInItsPart
<1> SUFFICES ASSUME TreeInv, mirror # << >>, NEW p \in Present, NEW l \in DOMAIN mirror[p]
             PROVE  /\ IsInjective(mirror[p][l])
                    /\ l # "Caps" \/ Lost \cap Sought(p, l) = {} => ToSet(mirror[p][l]) = Sought(p, l) \ Lost
  BY DEF FailureStaysInItsPart
<1>1. PICK S \in SUBSET Components : MirrorRight(S, seen, faulty, unread, reads, built, mirror)
  BY DEF TreeInv
<1>2. p \in S /\ p \in built
  BY <1>1, PresentIsBuilt DEF TreeInv
<1>3. HasSought(mirror[p][l], seen, p, l, built)
  BY <1>1, <1>2 DEF MirrorRight, ListsRight
<1>4. \A c \in S : c \in built <=> c \notin Lost
  BY <1>1, BuiltIsNotLost DEF TreeInv, MirrorRight
<1>5. \A n \in seen : n.owner = p => n.comp \in S
  BY <1>1, <1>2 DEF MirrorRight, ReadWhole
<1> DEFINE list == mirror[p][l]
           sought == {n \in seen : n.owner = p /\ n.list = l /\ LookedFor(n)}
<1>6. \A c : c \in Sought(p, l) <=> \E n \in sought : n.comp = c
  BY DEF Sought
<1>7. \A n \in sought : n.comp \in built <=> n.comp \notin Lost
  BY <1>4, <1>5
<1>8. /\ IsInjective(list)
      /\ \A i \in DOMAIN list : list[i] \in built /\ \E n \in sought : n.comp = list[i]
      /\ (l # "Caps" \/ \A n \in sought : n.comp \in built)
         => \A n \in sought : n.comp \in built => \E i \in DOMAIN list : list[i] = n.comp
  BY <1>3 DEF HasSought
<1> HIDE DEF list, sought
<1>9. \A c \in ToSet(list) : c \in Sought(p, l) \ Lost
  <2> SUFFICES ASSUME NEW c \in ToSet(list) PROVE c \in Sought(p, l) \ Lost
    OBVIOUS
  <2>1. PICK i \in DOMAIN list : list[i] = c
    BY DEF ToSet
  <2> QED BY <1>6, <1>7, <1>8, <2>1
<1>10. ASSUME l # "Caps" \/ Lost \cap Sought(p, l) = {}, NEW c \in Sought(p, l) \ Lost PROVE c \in ToSet(list)
  <2>1. l # "Caps" \/ \A n \in sought : n.comp \in built
    BY <1>6, <1>7, <1>10
  <2>2. \E i \in DOMAIN list : list[i] = c
    BY <1>6, <1>7, <1>8, <1>10, <2>1
  <2> QED BY <2>2 DEF ToSet
<1>11. ASSUME l # "Caps" \/ Lost \cap Sought(p, l) = {} PROVE ToSet(list) = Sought(p, l) \ Lost
  BY <1>9, <1>10, <1>11
<1> QED BY <1>8, <1>11 DEF list

\* What they are looked for in was read ahead.
LEMMA TreeReadAhead == TreeInv => BuiltIsReadAhead
<1> SUFFICES ASSUME TreeInv, mirror # << >>,
                    NEW p \in Present, NEW l \in DOMAIN mirror[p], NEW c \in Sought(p, l)
             PROVE  OwnAttributes(c) \subseteq reads
  BY DEF BuiltIsReadAhead
<1>1. PICK S \in SUBSET Components : MirrorRight(S, seen, faulty, unread, reads, built, mirror)
  BY DEF TreeInv
<1>2. p \in S
  BY <1>1, PresentIsBuilt DEF TreeInv
<1>3. PICK n \in seen : n.owner = p /\ n.comp = c
  BY DEF Sought
<1> QED BY <1>1, <1>2, <1>3 DEF MirrorRight, ReadWhole

\* The invariant has all that is asked of the tree.
LEMMA TreeInvHolds ==
  TreeInv => ComponentTreeTypeOK /\ OrderIsKept /\ FailureStaysInItsPart /\ BuiltIsReadAhead
BY TreeTypes, TreeOrder, TreeFailures, TreeReadAhead

\* The invariant of the tree holds in every behaviour of the library.
LEMMA TreeInvariant == Spec => []TreeInv
<1>1. Init => TreeInv
  BY PartsInitially, TreeInvInitially
<1>2. TreeInv /\ [Next]_tmsVars => TreeInv'
  BY StepOfParts, TreeInvSteps
<1> QED BY <1>1, <1>2, PTL DEF Spec

\* Whatever a client looks for when it builds a device (the numbers of all
\* children, the types of blocks, the names of signals), the collector has come by
\* and read before (TmsAttributeCollector against the client objects' findAndCreate
\* functions), for any trees of components, servers added late, browse orders and
\* failures.
THEOREM CollectorMissesNothing == Spec => []BuiltIsReadAhead
<1> QED BY TreeInvariant, TreeReadAhead, PTL

\* The tree a client shows is the application's (TmsClientDeviceImpl and its like
\* against TmsServerDevice): every list has the components that are there, once,
\* in the application's order as far as their numbers could be read; a component
\* that cannot be built takes with it what it is a part of, and nothing else; and
\* what is built with was read ahead.  This for any trees, for any components that
\* fail and numbers that cannot be read, for browses in either order and for
\* servers added at any time.
THEOREM TreeMirrored == Spec => []TreeIsMirrored
<1>1. TreeInv => TreeIsMirrored
  BY TreeInvHolds DEF TreeIsMirrored
<1> QED BY <1>1, TreeInvariant, PTL
=============================================================================
