-------------------------- MODULE ReferenceBrowser --------------------------
(***************************************************************************)
(* CachedReferenceBrowser of the OPC UA client: a cache of the references  *)
(* of nodes, filled by recursive browsing in batches, while the server     *)
(* changes its nodes, refuses some and fails requests.  A reference is     *)
(* represented by the node it leads to, which has a fixed browse name; all *)
(* references of a node arrive in one response.                            *)
(***************************************************************************)
EXTENDS Integers, FiniteSets, Sequences, SequencesExt

CONSTANTS Nodes,      \* nodes of the server
          Names,      \* browse names
          NameOf,     \* NameOf[n]: the browse name of n
          Trees,      \* what the server may hold: functions from Nodes to sets of nodes
          MaxNodes,   \* maxNodesPerBrowse; 0 is no limit
          MaxRefused, \* bound on the nodes the server refuses at a time
          Missing     \* no entry

ASSUME ReferenceBrowserAssumption ==
  /\ MaxNodes \in Nat /\ MaxRefused \in Nat /\ IsFiniteSet(Nodes)
  /\ Missing \notin Nodes /\ (\A ns \in SUBSET Nodes : Missing # ns)
  /\ Missing \notin [ids : SUBSET Nodes, names : [Names -> Nodes \cup {Missing}]]
  /\ NameOf \in [Nodes -> Names]
  /\ Trees \subseteq [Nodes -> SUBSET Nodes]

VARIABLES
  tree,      \* the forward references of each node at the server
  cache,     \* references: an entry [ids, names] or Missing for every node
  op,        \* "idle", "many": in browseMultiple(), "one": in browseOne()
  level,     \* the nodes browseMultiple() was called with
  at,        \* its i
  next,      \* its browseNext
  touched,   \* history: nodes answered for in the operation, or in the last one
  told,      \* history: the last list the server gave for a node, or Missing
  spoiled    \* history: marked as cached and never answered for

browserVars == <<tree, cache, op, level, at, next, touched, told, spoiled>>

NoName == [x \in Names |-> Missing]
Empty == [ids |-> {}, names |-> NoName]
Cached(n) == cache[n] # Missing

ReferenceBrowserInit ==
  /\ tree \in Trees
  /\ cache = [n \in Nodes |-> Missing]
  /\ op = "idle" /\ level = <<>> /\ at = 0 /\ next = <<>>
  /\ touched = {} /\ told = [n \in Nodes |-> Missing]
  /\ spoiled = {}

-----------------------------------------------------------------------------
(* The server *)

\* The statuses of a response: "ok", "denied" (or unknown), "bad" (any other).
Statuses == {access \in [Nodes -> {"ok", "denied", "bad"}] :
               Cardinality({n \in Nodes : access[n] # "ok"}) <= MaxRefused}

ServerChanges ==
  /\ tree' \in Trees
  /\ UNCHANGED <<cache, op, level, at, next, touched, told, spoiled>>

\* The entry for the references of n: the first of equal names is the one that
\* is found by name.
Entry(n) ==
  [ids |-> tree[n],
   names |-> [x \in Names |-> LET named == {m \in tree[n] : NameOf[m] = x}
                             IN  IF named = {} THEN Missing ELSE CHOOSE m \in named : TRUE]]

\* Mutant: a new answer is added to the old entry.
EntryOnTop(n) == [Entry(n) EXCEPT !.ids = @ \cup (IF Cached(n) THEN cache[n].ids ELSE {})]

\* What processBrowseResults() makes of the references in the answer for n.
Answer(n) == Entry(n)

-----------------------------------------------------------------------------
(* Browsing *)

BatchSize ==
  LET left == Len(level) - at
  IN  IF MaxNodes = 0 \/ left < MaxNodes THEN left ELSE MaxNodes

Batch == SubSeq(level, at + 1, at + BatchSize)

\* The references that are browsed next: those without an entry.
Follow(c, ids) == {m \in ids : c[m] = Missing}

\* The places of a batch whose answers are kept: processBrowseResults() goes over
\* the results in order, skips those that are refused and stops at the first bad
\* status.
Kept(batch, access) ==
  {i \in DOMAIN batch : access[batch[i]] = "ok" /\ \A j \in 1..i : access[batch[j]] # "bad"}

Stops(batch, access) == \E n \in ToSet(batch) : access[n] = "bad"

\* What processBrowseResults() makes of the cache and of browseNext.  The whole
\* batch was marked before, so what has no entry is the same for every result.
Processed(batch, marked, access) ==
  LET answered == {batch[i] : i \in Kept(batch, access)} IN
    [cache |-> [n \in Nodes |-> IF n \in answered THEN Answer(n) ELSE marked[n]],
     next |-> next \o FlattenSeq([i \in 1..Len(batch) |->
                        IF i \in Kept(batch, access) THEN SetToSeq(Follow(marked, tree[batch[i]])) ELSE <<>>]),
     bad |-> Stops(batch, access)]

MarkAsCached(ns) == [n \in Nodes |-> IF n \in ns /\ ~Cached(n) THEN Empty ELSE cache[n]]

\* The nodes of the batch whose result was looked at: the server has spoken.
Looked(batch, bad, access) ==
  IF bad THEN {n \in ToSet(batch) : \E i \in DOMAIN batch : batch[i] = n
                 /\ \A j \in 1..i : access[batch[j]] # "bad"}
  ELSE ToSet(batch)

Tells(looked, access) ==
  [n \in Nodes |-> IF n \notin looked THEN told[n]
                   ELSE IF access[n] = "ok" THEN tree[n]
                   ELSE IF told[n] = Missing \/ ~Cached(n) THEN {} ELSE told[n]]

\* The end of an operation, with an exception or without.
Ends ==
  /\ op' = "idle" /\ level' = <<>> /\ at' = 0 /\ next' = <<>>

Throws(marked, newlySpoiled) ==
  /\ cache' = marked /\ spoiled' = spoiled \cup newlySpoiled
  /\ touched' = {} /\ Ends

\* browse() of a node without an entry, browseMultiple().
BrowseMultiple(ns) ==
  /\ op = "idle" /\ ns # <<>>
  /\ op' = "many" /\ level' = ns /\ at' = 0 /\ next' = <<>>
  /\ touched' = {}
  /\ UNCHANGED <<tree, cache, told, spoiled>>

Browse(n) == ~Cached(n) /\ BrowseMultiple(<<n>>)

\* browseBatch(): the request fails, or its results are processed; then the
\* next batch, the next level, or the end.
BrowseBatch ==
  /\ op = "many"
  /\ LET marked == MarkAsCached(ToSet(Batch))
         new == {n \in ToSet(Batch) : ~Cached(n)}
     IN  \/ Throws(marked, new) /\ UNCHANGED told
         \/ \E access \in Statuses :
              LET done == Processed(Batch, marked, access)
                  looked == Looked(Batch, done.bad, access)
                  well == {n \in looked : access[n] = "ok"}
              IN  /\ told' = Tells(looked, access)
                  /\ IF done.bad THEN Throws(done.cache, new \ looked)
                     ELSE /\ cache' = done.cache
                          /\ touched' = touched \cup well /\ spoiled' = spoiled \ well
                          /\ IF at + BatchSize < Len(level)
                             THEN at' = at + BatchSize /\ next' = done.next /\ UNCHANGED <<op, level>>
                             ELSE IF done.next # <<>>
                             THEN level' = done.next /\ at' = 0 /\ next' = <<>> /\ UNCHANGED op
                             ELSE Ends
  /\ UNCHANGED tree

\* browseOne(): false, with nothing kept, unless request and status are good;
\* the children are browsed after that.
BrowseOne(n) ==
  /\ op = "idle"
  /\ LET done == Processed(<<n>>, MarkAsCached({n}), [m \in Nodes |-> "ok"]) IN
       /\ cache' = done.cache /\ level' = done.next
       /\ op' = IF done.next = <<>> THEN "idle" ELSE "many"
  /\ told' = [told EXCEPT ![n] = tree[n]] /\ touched' = {n} /\ spoiled' = spoiled \ {n}
  /\ at' = 0 /\ next' = <<>>
  /\ UNCHANGED tree

-----------------------------------------------------------------------------
(* Use of the cache *)

\* invalidate() and invalidateRecursive(), which goes one level down only.
Invalidate(n, recursive) ==
  /\ op = "idle" /\ Cached(n)
  /\ LET gone == {n} \cup (IF recursive THEN cache[n].ids ELSE {}) IN
       /\ cache' = [m \in Nodes |-> IF m \in gone THEN Missing ELSE cache[m]]
       /\ spoiled' = spoiled \ gone
  /\ touched' = {}
  /\ UNCHANGED <<tree, op, level, at, next, told>>

ReferenceBrowserNext ==
  \/ ServerChanges
  \/ \E n \in Nodes : Browse(n) \/ BrowseOne(n)
  \/ \E n, m \in Nodes : n # m /\ BrowseMultiple(<<n, m>>)
  \/ BrowseBatch
  \/ \E n \in Nodes, r \in BOOLEAN : Invalidate(n, r)

ReferenceBrowserFairness == WF_browserVars(BrowseBatch)

-----------------------------------------------------------------------------
(* Properties *)

ReferenceBrowserTypeOK ==
  /\ tree \in Trees
  /\ \A n \in Nodes : Cached(n) => /\ cache[n].ids \subseteq Nodes
                                   /\ cache[n].names \in [Names -> Nodes \cup {Missing}]
  /\ op \in {"idle", "many"} /\ level \in Seq(Nodes) /\ next \in Seq(Nodes)
  /\ op = "many" <=> at < Len(level)
  /\ touched \subseteq Nodes /\ spoiled \subseteq Nodes

\* An entry is one whole answer of the server and not a mixture or a guess: it
\* has the references the server gave last, and finds them by name.  The
\* exception: browseBatch() marks its nodes before the request, so a request
\* that fails leaves them cached without references until they are invalidated.
EntryIsOneAnswer ==
  \A n \in Nodes : Cached(n) /\ n \notin spoiled =>
    /\ cache[n].ids = told[n]
    /\ \A x \in Names : cache[n].names[x] = Missing <=> \A m \in told[n] : NameOf[m] # x

\* A browse that ends without an exception has an entry for every node it can
\* reach from those it was called with, over all its batches and levels
\* (browseMultiple, browseBatch, processBrowseResults).
BrowseReachesAll ==
  op = "idle" => \A n \in touched : \A m \in cache[n].ids : Cached(m)

\* Browsing ends, on a cyclic graph that changes too.
BrowseEnds == (op = "many") ~> (op = "idle")
=============================================================================
