-------------------------- MODULE TmsServerProofs --------------------------
(***************************************************************************)
(* Proofs about TmsServer: the inductive invariant, for any number of      *)
(* servers, sessions and activations, and what follows from it.  And about *)
(* PropertyCalls: what clients are answered, for any property objects and  *)
(* any way of showing them by which what is shown is what is there.        *)
(***************************************************************************)
EXTENDS TmsServer, PropertyCalls, TLAPS

USE ServerAssumption

\* What the assumption on the constants says of client numbers.
LEMMA Numbers ==
  /\ MaxActivations \in Nat /\ 1 <= MaxActivations
  /\ \A v \in Servers : v # None
  /\ \A n \in Int : n # None
  OBVIOUS

LEMMA InitIInv == Init => IInv
<1> SUFFICES ASSUME Init
             PROVE  IInv
  OBVIOUS
<1> USE Numbers DEF Init
<1>1. TypeOK
  <2>1. registered \in [Sessions -> (0..MaxActivations) \cup {None}]
    OBVIOUS
  <2>2. activations \in [Sessions -> 0..MaxActivations]
    OBVIOUS
  <2> QED BY <2>1, <2>2 DEF TypeOK, Phases, Threads
<1>2. ThreadConsistent
  BY DEF ThreadConsistent
<1>3. SessionConsistent
  BY DEF SessionConsistent
<1>4. InfoConsistent
  BY DEF InfoConsistent
<1>5. RegisteredAreListed /\ EntriesAreRegistered
  BY DEF RegisteredAreListed, EntriesAreRegistered
<1> QED BY <1>1, <1>2, <1>3, <1>4, <1>5 DEF IInv

\* The session of a task has been activated: its server is one of Servers.
LEMMA InfoHome ==
  ASSUME TypeOK, SessionConsistent, InfoConsistent, NEW i \in infos
  PROVE  i.session \in Sessions /\ home[i.session] \in Servers
<1>1. i.session \in Sessions /\ i.number \in 1..MaxActivations
  BY DEF TypeOK, Info
<1>2. activations[i.session] # 0
  BY <1>1, Numbers DEF TypeOK, InfoConsistent
<1> QED BY <1>1, <1>2 DEF TypeOK, SessionConsistent

\* start() and the steps of stop() that leave the clients alone.
LEMMA HostKeeps ==
  ASSUME IInv, NEW v \in Servers,
         \/ StartChecked(v) \/ Advertise(v) \/ Run(v)
         \/ BeginStop(v) \/ Terminate(v) \/ Stopped(v)
  PROVE  IInv'
<1> USE DEF IInv, TypeOK, Phases, Threads, hostVars, sessionVars, clientVars
<1>1. TypeOK'
  BY DEF StartChecked, Advertise, Run, BeginStop, Terminate, Stopped
<1>2. ThreadConsistent'
  BY DEF StartChecked, Advertise, Run, BeginStop, Terminate, Stopped,
         ThreadConsistent, Idle
<1>3. SessionConsistent'
  BY DEF StartChecked, Advertise, Run, BeginStop, Terminate, Stopped,
         ThreadConsistent, SessionConsistent
<1>4. InfoConsistent'
  <2>1. CASE Stopped(v)
    BY <2>1 DEF Stopped, Drained, InfoConsistent
  <2>0. \A i \in infos : i.session \in Sessions /\ home[i.session] \in Servers
    BY InfoHome
  <2>2. CASE StartChecked(v) \/ Advertise(v) \/ Run(v)
    <3>1. \A i \in infos : home[i.session] # v
      BY <2>2 DEF StartChecked, Advertise, Run, InfoConsistent
    <3> QED BY <2>0, <2>2, <3>1 DEF StartChecked, Advertise, Run, InfoConsistent
  <2>3. CASE BeginStop(v) \/ Terminate(v)
    BY <2>0, <2>3 DEF BeginStop, Terminate, InfoConsistent
  <2> QED BY <2>1, <2>2, <2>3
<1>5. RegisteredAreListed' /\ EntriesAreRegistered'
  BY DEF StartChecked, Advertise, Run, BeginStop, Terminate, Stopped,
         RegisteredAreListed, EntriesAreRegistered, EntryOf
<1> QED BY <1>1, <1>2, <1>3, <1>4, <1>5

LEMMA ClearKeeps ==
  ASSUME IInv, NEW v \in Servers, ClearClients(v)
  PROVE  IInv'
<1> USE DEF IInv, TypeOK, ClearClients, sessionVars, SessionsOf, EntryOf
<1>1. TypeOK'
  <2>1. registered' \in [Sessions -> (0..MaxActivations) \cup {None}]
    OBVIOUS
  <2>2. entries' \subseteq Entry
    OBVIOUS
  <2> QED BY <2>1, <2>2 DEF Phases, hostVars
<1>2. ThreadConsistent' /\ SessionConsistent' /\ InfoConsistent'
  BY DEF ThreadConsistent, SessionConsistent, InfoConsistent
<1>3. RegisteredAreListed'
  <2> SUFFICES ASSUME NEW s \in Sessions, registered'[s] \in 1..MaxActivations
               PROVE  [session |-> s, number |-> registered'[s]] \in entries'
    BY DEF RegisteredAreListed
  <2>1. home[s] # v /\ registered'[s] = registered[s]
    BY Numbers
  <2>2. EntryOf(s) \in entries
    BY <2>1 DEF RegisteredAreListed
  <2> QED BY <2>1, <2>2
<1>4. EntriesAreRegistered'
  <2> SUFFICES ASSUME NEW e \in entries', activations'[e.session] <= 1
               PROVE  registered'[e.session] = e.number
    BY DEF EntriesAreRegistered, Entry
  <2>1. e \in entries /\ registered[e.session] = e.number
    BY DEF EntriesAreRegistered, Entry
  <2>2. e = EntryOf(e.session)
    BY <2>1 DEF Entry
  <2>3. home[e.session] # v
    BY <2>2 DEF Entry
  <2> QED BY <2>1, <2>3 DEF Entry
<1> QED BY <1>1, <1>2, <1>3, <1>4

LEMMA ActivateKeeps ==
  ASSUME IInv, NEW v \in Servers, NEW s \in Sessions, ActivateSession(v, s)
  PROVE  IInv'
<1> USE DEF IInv, TypeOK, ActivateSession, hostVars, Inserted
<1>1. TypeOK'
  <2>1. activations' \in [Sessions -> 0..MaxActivations]
    BY Numbers
  <2>2. registered' \in [Sessions -> (0..MaxActivations) \cup {None}]
    BY Numbers
  <2>3. infos' \subseteq Info
    <3>1. activations[s] \in Nat /\ activations[s] + 1 \in 1..MaxActivations
      BY Numbers
    <3> DEFINE task == [session |-> s, number |-> activations[s] + 1, checked |-> FALSE]
    <3>2. task \in Info
      BY <3>1 DEF Info
    <3>3. infos' = infos \/ infos' = infos \cup {task}
      OBVIOUS
    <3> HIDE DEF task
    <3> QED BY <3>2, <3>3
  <2> QED BY <2>1, <2>2, <2>3
<1>2. ThreadConsistent'
  BY DEF ThreadConsistent
<1>3. SessionConsistent'
  BY DEF SessionConsistent
<1>4. InfoConsistent'
  BY DEF InfoConsistent, ThreadConsistent, SessionConsistent, Info, Entry
<1>5. RegisteredAreListed'
  BY DEF RegisteredAreListed, EntryOf
<1>6. EntriesAreRegistered'
  BY DEF EntriesAreRegistered, InfoConsistent, Entry
<1> QED BY <1>1, <1>2, <1>3, <1>4, <1>5, <1>6

LEMMA CloseKeeps ==
  ASSUME IInv, NEW s \in Sessions, CloseSession(s)
  PROVE  IInv'
<1> USE DEF IInv, TypeOK, CloseSession, hostVars, Unlisted
<1>1. TypeOK'
  BY DEF Entry
<1>2. ThreadConsistent' /\ SessionConsistent' /\ InfoConsistent'
  BY DEF ThreadConsistent, SessionConsistent, InfoConsistent
<1>3. RegisteredAreListed'
  BY DEF RegisteredAreListed, EntryOf
<1>4. EntriesAreRegistered'
  BY DEF EntriesAreRegistered, EntryOf, Entry
<1> QED BY <1>1, <1>2, <1>3, <1>4

LEMMA TasksKeep ==
  ASSUME IInv, NEW i \in infos, CheckRunning(i) \/ ReportClient(i)
  PROVE  IInv'
<1> USE DEF IInv, TypeOK, CheckRunning, ReportClient, hostVars, sessionVars,
            StillRegistered, Info
<1>1. TypeOK'
  <2>1. infos' \subseteq Info
    <3> DEFINE task == [session |-> i.session, number |-> i.number, checked |-> TRUE]
    <3>1. task \in Info
      BY DEF Info
    <3>2. infos' \subseteq infos \cup {task}
      OBVIOUS
    <3> HIDE DEF task
    <3> QED BY <3>1, <3>2
  <2>2. entries' \subseteq Entry
    BY DEF Entry
  <2>3. registered' \in [Sessions -> (0..MaxActivations) \cup {None}]
    BY Numbers
  <2> QED BY <2>1, <2>2, <2>3
<1>2. ThreadConsistent' /\ SessionConsistent'
  BY DEF ThreadConsistent, SessionConsistent
<1>3. InfoConsistent'
  BY DEF InfoConsistent
<1>4. RegisteredAreListed'
  BY DEF RegisteredAreListed, EntryOf
<1>5. EntriesAreRegistered'
  BY DEF EntriesAreRegistered, InfoConsistent, Entry
<1> QED BY <1>1, <1>2, <1>3, <1>4, <1>5

LEMMA ExitKeeps ==
  ASSUME IInv, NEW v \in Servers, ExitThread(v)
  PROVE  IInv'
  BY DEF ExitThread, IInv, TypeOK, Threads, hostVars, sessionVars, clientVars,
         SessionsOf, ThreadConsistent, SessionConsistent, InfoConsistent,
         RegisteredAreListed, EntriesAreRegistered, EntryOf

LEMMA NextIInv == IInv /\ [Next]_vars => IInv'
<1> SUFFICES ASSUME IInv, [Next]_vars
             PROVE  IInv'
  OBVIOUS
<1>1. CASE UNCHANGED vars
  BY <1>1 DEF vars, hostVars, sessionVars, clientVars, IInv, TypeOK,
         ThreadConsistent, SessionConsistent, InfoConsistent,
         RegisteredAreListed, EntriesAreRegistered, EntryOf
<1>2. CASE Next
  BY <1>2, HostKeeps, ClearKeeps, ActivateKeeps, CloseKeeps, TasksKeep, ExitKeeps
     DEF Next, Host
<1> QED BY <1>1, <1>2

\* The inductive invariant: the number registered for a client, the entries of
\* the device and the open sessions agree under every order of the handlers.
THEOREM ServerIInv == Spec => []IInv
  BY InitIInv, NextIInv, PTL DEF Spec

\* A registered number is that of an entry the device has, and every entry is
\* removed by disconnecting or by stop(), except those of sessions that were
\* activated again.
THEOREM ServerEntriesAgree == Spec => []EntriesAgree
<1>1. IInv => EntriesAgree
  BY DEF IInv, EntriesAgree
<1> QED BY <1>1, ServerIInv, PTL

\* A server that has stopped leaves no session and no task behind.
THEOREM ServerStoppedIsClean == Spec => []StoppedIsClean
<1>1. IInv => StoppedIsClean
  <2> SUFFICES ASSUME IInv, NEW v \in Servers, phase[v] = "off"
               PROVE  /\ SessionsOf(v) \cap context = {}
                      /\ \A i \in infos : home[i.session] # v
    BY DEF StoppedIsClean
  <2>1. SessionsOf(v) \cap context = {}
    BY DEF IInv, SessionConsistent, ThreadConsistent, SessionsOf
  <2>2. \A i \in infos : home[i.session] # v
    BY DEF IInv, InfoConsistent
  <2> QED BY <2>1, <2>2
<1> QED BY <1>1, ServerIInv, PTL

\* A client is listed only while its session is open.
THEOREM ServerListedWhileOpen == Spec => ListedWhileOpen
<1>1. IInv /\ [Next]_vars => [\A e \in entries' \ entries : e.session \in context]_vars
  <2> SUFFICES ASSUME IInv, Next, NEW e \in entries' \ entries
               PROVE  e.session \in context
    BY DEF vars
  <2>1. PICK i \in infos : ReportClient(i)
    <3>1. ASSUME NEW v \in Servers, Host(v) \/ ExitThread(v)
          PROVE  FALSE
      BY <3>1 DEF Host, StartChecked, Advertise, Run, BeginStop, ClearClients,
         Terminate, Stopped, ExitThread, clientVars
    <3>2. ASSUME NEW v \in Servers, NEW s \in Sessions, ActivateSession(v, s)
          PROVE  FALSE
      BY <3>2 DEF ActivateSession
    <3>3. ASSUME NEW s \in Sessions, CloseSession(s)
          PROVE  FALSE
      BY <3>3 DEF CloseSession, Unlisted
    <3>4. ASSUME NEW i \in infos, CheckRunning(i)
          PROVE  FALSE
      BY <3>4 DEF CheckRunning
    <3> QED BY <3>1, <3>2, <3>3, <3>4 DEF Next
  <2>2. i.session \in Sessions /\ registered[i.session] # None
        /\ e = [session |-> i.session, number |-> i.number]
    BY <2>1 DEF ReportClient, StillRegistered, IInv, TypeOK, Info
  <2> QED BY <2>2 DEF IInv, SessionConsistent
<1> QED BY <1>1, ServerIInv, PTL DEF Spec, ListedWhileOpen

-----------------------------------------------------------------------------
(* The calls of clients on the properties of an object *)

HIDE ServerAssumption

Calls(o) == [at : {"set", "get"}, c : PropClients, n : Names(o), v : {0, 1, Nobody},
             protected : BOOLEAN, checked : BOOLEAN, asked : Names(o)]

\* What a call under way knows: it asks for a property of the object or for one
\* that this refers to, and what it was allowed to write is not always read-only.
CallFits ==
  /\ call \in Calls(object)
  /\ views[call.c] # <<>>
  /\ \/ call.n = call.asked
     \/ ~IsReference(Named(object, call.n)) /\ call.n \in ToSet(Named(object, call.asked).to)
  /\ call.at = "set" => call.v \in 0..1
  /\ call.checked => ~IsReference(Named(object, call.n))
  /\ call.at = "set" /\ call.checked /\ call.c \in Writers =>
       call.protected \/ ~AlwaysReadOnly(Named(object, call.n))

CallsInv ==
  /\ object \in Objects
  /\ updates \in 0..MaxBegins
  /\ values \in [Names(object) -> 0..1]
  /\ pending \in [Names(object) -> {0, 1, Nobody}]
  /\ DOMAIN views = PropClients
  /\ \A c \in PropClients : views[c] # <<>> => Fits(views[c], object, c \in Writers)
  /\ call.at \in {"set", "get", "idle"}
  /\ call.at # "idle" => CallFits

LEMMA CallsInitially == PropertyMirrorInit => CallsInv
<1> SUFFICES ASSUME PropertyMirrorInit PROVE CallsInv
  OBVIOUS
<1>1. call.at = "idle"
  BY DEF PropertyMirrorInit, NoCall
<1> QED BY <1>1, PropertyCallsAssumption DEF PropertyMirrorInit, CallsInv

\* What a reference stands for is one of those it refers to.
LEMMA TargetIsReferredTo ==
  ASSUME NEW o \in Objects, NEW vals \in [Names(o) -> 0..1], NEW n \in Names(o), IsReference(Named(o, n))
  PROVE  LET t == Target(Named(o, n), vals)
         IN  t \in Names(o) /\ t \in ToSet(Named(o, n).to) /\ ~IsReference(Named(o, t))
<1> DEFINE p == Named(o, n)
           i == vals[p.by] + 1
<1>1. /\ p.by \in Names(o)
      /\ \A j \in 1..2 : j \in DOMAIN p.to /\ p.to[j] \in Names(o) /\ ~IsReference(Named(o, p.to[j]))
  BY PropertyCallsAssumption DEF ReferencesEnd
<1>2. i \in 1..2
  BY <1>1
<1>3. Target(p, vals) = p.to[i] /\ i \in DOMAIN p.to
  BY <1>1, <1>2 DEF Target
<1> QED BY <1>1, <1>2, <1>3 DEF ToSet

\* Writing puts the value where the object keeps it.
LEMMA StoreKeeps ==
  ASSUME CallsInv, NEW n \in Names(object), NEW v \in 0..1, Store(n, v)
  PROVE  /\ values' \in [Names(object) -> 0..1]
         /\ pending' \in [Names(object) -> {0, 1, Nobody}]
         /\ v = IF updates = 0 THEN values'[n] ELSE pending'[n]
BY DEF CallsInv, Store

\* The object and what is shown of it stay, or a client connects.
LEMMA CallChanges ==
  ASSUME CallsInv, UNCHANGED <<object, updates, views>>,
         values' \in [Names(object) -> 0..1], pending' \in [Names(object) -> {0, 1, Nobody}],
         call'.at \in {"set", "get", "idle"}, call'.at # "idle" => CallFits'
  PROVE  CallsInv'
BY DEF CallsInv

\* A call that starts.
LEMMA StartFits ==
  ASSUME CallsInv,
         call' \in Calls(object),
         call'.asked = call'.n, call'.checked = FALSE, call'.at = "set" => call'.v \in 0..1,
         views[call'.c] # <<>>, UNCHANGED <<object, values, updates, pending, views>>
  PROVE  CallsInv'
<1>1. CallFits'
  BY DEF CallFits
<1>2. call'.at \in {"set", "get", "idle"}
  BY DEF Calls
<1> QED BY <1>1, <1>2, CallChanges DEF CallsInv

LEMMA StartKeeps ==
  ASSUME CallsInv, NEW c \in PropClients, NEW n \in DOMAIN values,
         \/ \E v \in 0..1, protected \in BOOLEAN : StartSet(c, n, v, protected)
         \/ \E v \in {"x", "y"} : SetSelection(c, n, v)
         \/ StartGet(c, n)
  PROVE  CallsInv'
<1>0. n \in Names(object)
  BY DEF CallsInv
<1>1. ASSUME NEW v \in 0..1, NEW protected \in BOOLEAN, StartSet(c, n, v, protected) PROVE CallsInv'
  <2>1. /\ call' = [at |-> "set", c |-> c, n |-> n, v |-> v, protected |-> protected, checked |-> FALSE, asked |-> n]
        /\ UNCHANGED <<object, values, updates, pending, views>> /\ views[c] # <<>>
    BY <1>1 DEF StartSet
  <2>2. call' \in Calls(object)
    BY <1>0, <2>1 DEF Calls
  <2>3. /\ call'.asked = call'.n /\ call'.checked = FALSE /\ (call'.at = "set" => call'.v \in 0..1)
        /\ views[call'.c] # <<>>
    BY <2>1
  <2> QED BY <2>1, <2>2, <2>3, StartFits
<1>2. ASSUME NEW v \in {"x", "y"}, SetSelection(c, n, v) PROVE CallsInv'
  <2>1. PICK i \in DOMAIN Named(views[c], n).fields["SelectionValues"].v :
          call' = [at |-> "set", c |-> c, n |-> n, v |-> i - 1, protected |-> FALSE, checked |-> FALSE, asked |-> n]
    BY <1>2 DEF SetSelection
  <2>2. /\ UNCHANGED <<object, values, updates, pending, views>> /\ n \in Names(views[c])
        /\ "SelectionValues" \in DOMAIN Named(views[c], n).fields
    BY <1>2 DEF SetSelection
  <2>3. views[c] # <<>>
    BY <2>2 DEF Names
  <2>4. i \in 1..2
    BY <2>2, <2>3 DEF CallsInv, Fits
  <2>5. i - 1 \in 0..1
    BY <2>4
  <2>6. call' \in Calls(object)
    BY <1>0, <2>1, <2>5 DEF Calls
  <2>7. /\ call'.asked = call'.n /\ call'.checked = FALSE /\ (call'.at = "set" => call'.v \in 0..1)
        /\ views[call'.c] # <<>>
    BY <2>1, <2>3, <2>5
  <2> QED BY <2>2, <2>6, <2>7, StartFits
<1>3. ASSUME StartGet(c, n) PROVE CallsInv'
  <2>1. /\ call' = [at |-> "get", c |-> c, n |-> n, v |-> Nobody, protected |-> FALSE, checked |-> FALSE, asked |-> n]
        /\ UNCHANGED <<object, values, updates, pending, views>> /\ views[c] # <<>>
    BY <1>3 DEF StartGet
  <2>2. call' \in Calls(object)
    BY <1>0, <2>1 DEF Calls
  <2>3. /\ call'.asked = call'.n /\ call'.checked = FALSE /\ (call'.at = "set" => call'.v \in 0..1)
        /\ views[call'.c] # <<>>
    BY <2>1
  <2> QED BY <2>1, <2>2, <2>3, StartFits
<1> QED BY <1>1, <1>2, <1>3

\* What a view has that a call found in it.
LEMMA FoundInView ==
  ASSUME CallsInv, CallFits, How(call.n) # "none"
  PROVE  LET x == Named(View, call.n)
             p == Named(object, call.n)
         IN  /\ x.how = How(call.n)
             /\ x.how = "reference" => IsReference(p) /\ x.prop = p
             /\ x.how = "introspection" => ~IsReference(p)
             /\ x.how = "introspection" /\ call.c \in Writers /\ "IsReadOnly" \in DOMAIN p.fields =>
                  "IsReadOnly" \in DOMAIN x.fields /\ x.fields["IsReadOnly"] = p.fields["IsReadOnly"]
<1>1. call.n \in Names(View) /\ How(call.n) = Named(View, call.n).how
  BY DEF How, Has
<1>2. Fits(View, object, call.c \in Writers)
  BY DEF CallsInv, CallFits, View, Calls
<1> QED BY <1>1, <1>2 DEF Fits

\* A reference leads to a property of the object that refers to no other.
LEMMA ReferenceKeeps ==
  ASSUME CallsInv, SetReference \/ GetReference
  PROVE  CallsInv'
<1> DEFINE t == Target(Named(View, call.n).prop, values)
<1>1. /\ call.at \in {"set", "get"} /\ How(call.n) = "reference"
      /\ UNCHANGED <<object, frozen, values, updates, pending, views, answer>>
  BY DEF SetReference, GetReference
<1>2. CallFits
  BY <1>1 DEF CallsInv
<1>3. IsReference(Named(object, call.n)) /\ Named(View, call.n).prop = Named(object, call.n)
  BY <1>1, <1>2, FoundInView
<1>4. t \in Names(object) /\ t \in ToSet(Named(object, call.n).to) /\ ~IsReference(Named(object, t))
  BY <1>2, <1>3, TargetIsReferredTo DEF CallsInv, CallFits, Calls
<1>5. call.n = call.asked
  BY <1>2, <1>3 DEF CallFits
<1>6. ~call.checked
  BY <1>2, <1>3 DEF CallFits
<1>7. CASE SetReference
  <2>1. call' = [call EXCEPT !.n = t, !.protected = FALSE]
    BY <1>7 DEF SetReference
  <2>2. CallFits'
    BY <1>1, <1>2, <1>4, <1>5, <1>6, <2>1 DEF CallFits, Calls
  <2>3. call'.at \in {"set", "get", "idle"}
    BY <2>2 DEF CallFits, Calls
  <2> QED BY <1>1, <2>2, <2>3, CallChanges DEF CallsInv
<1>8. CASE GetReference
  <2>1. call' = [call EXCEPT !.n = t]
    BY <1>8 DEF GetReference
  <2>2. CallFits'
    BY <1>1, <1>2, <1>4, <1>5, <1>6, <2>1 DEF CallFits, Calls
  <2>3. call'.at \in {"set", "get", "idle"}
    BY <2>2 DEF CallFits, Calls
  <2> QED BY <1>1, <2>2, <2>3, CallChanges DEF CallsInv
<1> QED BY <1>7, <1>8

\* A call that ends leaves what it has written, or nothing.
LEMMA EndKeeps ==
  ASSUME CallsInv, SetRefused \/ SetWrites \/ GetReads \/ GetFails
  PROVE  CallsInv'
<1>1. UNCHANGED <<object, updates, views>> /\ call' = NoCall
  BY DEF SetRefused, SetWrites, GetReads, GetFails, Return, Got
<1>2. values' \in [Names(object) -> 0..1] /\ pending' \in [Names(object) -> {0, 1, Nobody}]
  <2>1. CASE SetWrites
    <3>1. CallFits /\ call.n \in Names(object) /\ call.v \in 0..1
      BY <2>1 DEF SetWrites, CallsInv, CallFits, Calls
    <3>2. CASE Store(call.n, call.v)
      BY <3>1, <3>2, StoreKeeps
    <3>3. CASE UNCHANGED <<values, pending>>
      BY <3>3 DEF CallsInv
    <3> QED BY <2>1, <3>2, <3>3 DEF SetWrites
  <2>2. CASE SetRefused \/ GetReads \/ GetFails
    BY <2>2 DEF SetRefused, GetReads, GetFails, Got, CallsInv
  <2> QED BY <2>1, <2>2
<1>3. call'.at = "idle"
  BY <1>1 DEF NoCall
<1> QED BY <1>1, <1>2, <1>3, CallChanges

\* What the call may write has been looked at: the view has the flag of the
\* object's property when that is always read-only.
LEMMA CheckKeeps ==
  ASSUME CallsInv, SetChecked
  PROVE  CallsInv'
<1> DEFINE x == Named(View, call.n)
           p == Named(object, call.n)
<1>1. /\ call.at = "set" /\ How(call.n) = "introspection"
      /\ call.protected \/ ~ReadOnly(x, values)
      /\ call' = [call EXCEPT !.checked = TRUE]
      /\ UNCHANGED <<object, frozen, values, updates, pending, views, answer>>
  BY DEF SetChecked
<1>2. CallFits
  BY <1>1 DEF CallsInv
<1>3. /\ ~IsReference(p)
      /\ call.c \in Writers /\ "IsReadOnly" \in DOMAIN p.fields =>
           "IsReadOnly" \in DOMAIN x.fields /\ x.fields["IsReadOnly"] = p.fields["IsReadOnly"]
  BY <1>1, <1>2, FoundInView
<1>4. call.c \in Writers => call.protected \/ ~AlwaysReadOnly(p)
  BY <1>1, <1>3 DEF ReadOnly, AlwaysReadOnly, Val
<1>5. CallFits'
  BY <1>1, <1>2, <1>3, <1>4 DEF CallFits, Calls
<1>6. call'.at \in {"set", "get", "idle"}
  BY <1>5 DEF CallFits, Calls
<1> QED BY <1>1, <1>5, <1>6, CallChanges DEF CallsInv

\* A client that connects gets a view that fits; an update that ends moves the
\* values that waited.
LEMMA OthersKeep ==
  ASSUME CallsInv,
         \/ \E n \in DOMAIN values, v \in 0..1 : ApplicationSets(n, v)
         \/ \E c \in PropClients : Connect(c) \/ ClientBegins(c) \/ ClientEnds(c)
         \/ \E c \in PropClients, n \in DOMAIN values, args \in Arguments : Call(c, n, args)
         \/ UNCHANGED mirrorVars
  PROVE  CallsInv'
<1>1. ASSUME NEW n \in DOMAIN values, NEW v \in 0..1, ApplicationSets(n, v) PROVE CallsInv'
  <2>1. UNCHANGED <<object, frozen, updates, views, call, answer>> /\ Store(n, v) /\ n \in Names(object)
    BY <1>1 DEF ApplicationSets, CallsInv
  <2>2. values' \in [Names(object) -> 0..1] /\ pending' \in [Names(object) -> {0, 1, Nobody}]
    BY <2>1, StoreKeeps
  <2>3. CallFits => CallFits'
    BY <2>1 DEF CallFits
  <2> QED BY <2>1, <2>2, <2>3 DEF CallsInv
<1>2. ASSUME NEW c \in PropClients, Connect(c) PROVE CallsInv'
  <2> DEFINE built == ViewOf(object, values, c \in Writers)
  <2>1. /\ views[c] = <<>> /\ views' = [views EXCEPT ![c] = built]
        /\ UNCHANGED <<object, frozen, values, updates, pending, call, answer>>
    BY <1>2 DEF Connect
  <2>2. Fits(built, object, c \in Writers)
    <3>1. object \in Objects /\ values \in [Names(object) -> 0..1]
      BY DEF CallsInv
    <3>2. (c \in Writers) \in BOOLEAN
      OBVIOUS
    <3> QED BY <3>1, <3>2, PropertyCallsAssumption, Zenon
  <2>3. CallFits => CallFits'
    BY <2>1 DEF CallFits, CallsInv
  <2>4. ASSUME NEW d \in PropClients, views'[d] # <<>> PROVE Fits(views'[d], object, d \in Writers)
    BY <2>1, <2>2, <2>4 DEF CallsInv
  <2> HIDE DEF built
  <2> QED BY <2>1, <2>3, <2>4 DEF CallsInv
<1>3. ASSUME NEW c \in PropClients, ClientBegins(c) \/ ClientEnds(c) PROVE CallsInv'
  <2>1. UNCHANGED <<object, frozen, views, call, answer>> /\ ((BeginUpdate /\ UNCHANGED <<values, pending>>) \/ EndUpdate)
    BY <1>3 DEF ClientBegins, ClientEnds
  <2>2. updates' \in 0..MaxBegins
    BY <2>1, PropertyCallsAssumption DEF CallsInv, BeginUpdate, EndUpdate
  <2>3. values' \in [Names(object) -> 0..1] /\ pending' \in [Names(object) -> {0, 1, Nobody}]
    BY <2>1 DEF CallsInv, EndUpdate
  <2>4. CallFits => CallFits'
    BY <2>1 DEF CallFits
  <2> QED BY <2>1, <2>2, <2>3, <2>4 DEF CallsInv
<1>4. ASSUME NEW c \in PropClients, NEW n \in DOMAIN values, NEW args \in Arguments, Call(c, n, args) PROVE CallsInv'
  <2>1. UNCHANGED <<object, frozen, values, updates, pending, views, call>>
    BY <1>4 DEF Call
  <2>2. CallFits => CallFits'
    BY <2>1 DEF CallFits
  <2> QED BY <2>1, <2>2 DEF CallsInv
<1>5. ASSUME UNCHANGED mirrorVars PROVE CallsInv'
  <2>1. UNCHANGED <<object, frozen, values, updates, pending, views, call>>
    BY <1>5 DEF mirrorVars
  <2>2. CallFits => CallFits'
    BY <2>1 DEF CallFits
  <2> QED BY <2>1, <2>2 DEF CallsInv
<1> QED BY <1>1, <1>2, <1>3, <1>4, <1>5

LEMMA CallsKept == CallsInv /\ [PropertyMirrorNext]_mirrorVars => CallsInv'
<1> SUFFICES ASSUME CallsInv, [PropertyMirrorNext]_mirrorVars PROVE CallsInv'
  OBVIOUS
<1>1. CASE ClientStep
  BY <1>1, ReferenceKeeps, EndKeeps, CheckKeeps DEF ClientStep
<1>2. CASE \E c \in PropClients, n \in DOMAIN values :
             \/ \E v \in 0..1, protected \in BOOLEAN : StartSet(c, n, v, protected)
             \/ \E v \in {"x", "y"} : SetSelection(c, n, v)
             \/ StartGet(c, n)
  BY <1>2, StartKeeps
<1>3. CASE \/ \E n \in DOMAIN values, v \in 0..1 : ApplicationSets(n, v)
           \/ \E c \in PropClients : Connect(c) \/ ClientBegins(c) \/ ClientEnds(c)
           \/ \E c \in PropClients, n \in DOMAIN values, args \in Arguments : Call(c, n, args)
           \/ UNCHANGED mirrorVars
  BY <1>3, OthersKeep
<1> QED BY <1>1, <1>2, <1>3 DEF PropertyMirrorNext

\* What ends the call of a client writes only what the client may write.
LEMMA AnswerOfSet ==
  ASSUME CallsInv, PropertyMirrorNext, answer' # answer, answer'.op = "set"
  PROVE  /\ values' # values \/ pending' # pending =>
              answer'.c \in Writers /\ (~answer'.protected => ~AlwaysReadOnly(Named(object, answer'.n)))
         /\ answer'.result # "success" \/ answer'.really = "refused" => values' = values /\ pending' = pending
         /\ answer'.really = "written" =>
              answer'.v = IF updates = 0 THEN values'[answer'.n] ELSE pending'[answer'.n]
<1>1. SetRefused \/ SetWrites
  BY DEF PropertyMirrorNext, ClientStep, ApplicationSets, Connect, ClientBegins, ClientEnds, StartSet, SetSelection, StartGet, Call,
         SetReference, SetChecked, GetReference, GetReads, GetFails, Got, Nothing
<1>2. CASE SetRefused
  <2>1. values' = values /\ pending' = pending /\ answer'.really \in {"notfound", "notimplemented", "denied"}
    BY <1>2 DEF SetRefused, Return
  <2> QED BY <2>1
<1>3. CASE SetWrites
  <2>1. CallFits /\ call.at = "set" /\ call.checked
    BY <1>3 DEF SetWrites, CallsInv
  <2>2. call.n \in Names(object) /\ call.v \in 0..1
    BY <2>1 DEF CallFits, Calls
  <2>3. answer'.c = call.c /\ answer'.n = call.n /\ answer'.v = call.v
    BY <1>3 DEF SetWrites, Return
  <2>4. answer'.protected = call.protected
    BY <1>3 DEF SetWrites, Return
  <2>5. CASE ServerTakes(call.n) /\ Store(call.n, call.v) /\ (Return("success", "written") \/ Return("failed", "lost"))
    <3>1. call.c \in Writers
      BY <2>5 DEF ServerTakes
    <3>2. call.protected \/ ~AlwaysReadOnly(Named(object, call.n))
      BY <2>1, <3>1 DEF CallFits
    <3>3. call.v = IF updates = 0 THEN values'[call.n] ELSE pending'[call.n]
      BY <2>2, <2>5, StoreKeeps
    <3>4. ~(answer'.result # "success" \/ answer'.really = "refused")
      BY <2>5 DEF Return
    <3> QED BY <2>3, <2>4, <3>1, <3>2, <3>3, <3>4
  <2>6. CASE UNCHANGED <<values, pending>> /\ (Return("failed", "refused") \/ Return("failed", "lost"))
    <3>1. answer'.really \in {"refused", "lost"}
      BY <2>6 DEF Return
    <3> QED BY <2>6, <3>1
  <2> QED BY <1>3, <2>5, <2>6 DEF SetWrites
<1> QED BY <1>1, <1>2, <1>3

\* A value that is returned is one of the server's.
LEMMA AnswerOfGet ==
  ASSUME CallsInv, PropertyMirrorNext, answer' # answer, answer'.op = "get", answer'.v # Nobody
  PROVE  /\ answer'.v = values[answer'.n]
         /\ answer'.n = answer'.asked \/ answer'.n \in ToSet(Named(object, answer'.asked).to)
<1>1. GetReads \/ GetFails \/ SetRefused \/ SetWrites
  BY DEF PropertyMirrorNext, ClientStep, ApplicationSets, Connect, ClientBegins, ClientEnds, StartSet, SetSelection, StartGet, Call,
         SetReference, SetChecked, GetReference, Nothing
<1>2. ~SetRefused /\ ~SetWrites
  BY DEF SetRefused, SetWrites, Return
<1>3. ~GetFails
  BY DEF GetFails, Got
<1>4. call.at = "get" /\ Got(values[call.n])
  BY <1>1, <1>2, <1>3 DEF GetReads
<1>5. CallFits
  BY <1>4 DEF CallsInv
<1> QED BY <1>4, <1>5 DEF CallFits, Got

\* The calls of clients, whatever the objects and however they are shown.
\* A client is answered what the server had, a write that it is told of has
\* happened, and what is always read-only is kept.
THEOREM AnswersTrue == PropertyCallsSpec => AnswersAreTrue
<1>1. CallsInv /\ [PropertyMirrorNext]_mirrorVars =>
        [answer' # answer /\ answer'.op = "set" /\ (values' # values \/ pending' # pending) =>
           /\ answer'.c \in Writers
           /\ ~answer'.protected => ~AlwaysReadOnly(Named(object, answer'.n))]_mirrorVars
  BY AnswerOfSet
<1>2. CallsInv /\ [PropertyMirrorNext]_mirrorVars =>
        [answer' # answer /\ answer'.op = "get" /\ answer'.v # Nobody =>
           /\ answer'.v = values[answer'.n]
           /\ answer'.n = answer'.asked \/ answer'.n \in ToSet(Named(object, answer'.asked).to)]_mirrorVars
  BY AnswerOfGet
<1>3. CallsInv /\ [PropertyMirrorNext]_mirrorVars =>
        [answer' # answer /\ answer'.op = "set" =>
           /\ answer'.result # "success" \/ answer'.really = "refused" => values' = values /\ pending' = pending
           /\ answer'.really = "written" =>
                answer'.v = IF updates = 0 THEN values'[answer'.n] ELSE pending'[answer'.n]]_mirrorVars
  BY AnswerOfSet
<1> QED BY CallsInitially, CallsKept, <1>1, <1>2, <1>3, PTL
     DEF PropertyCallsSpec, AnswersAreTrue, ReadOnlyIsKept, GetsWhatTheServerHas, WriteIsAccountedFor

\* What a method gets of the arguments of a call.
Arrives(args, handed) ==
  /\ handed.v = args.v
  /\ (args.k = "list" => Len(args.v) > 1) => handed.k = args.k
  /\ handed.k = "list" <=> Len(args.v) > 1

LEMMA HandedAsGiven == ASSUME NEW args \in Arguments PROVE Arrives(args, Handed(Request(args)))
<1> USE DEF Handed, Request, Arrives
<1>1. CASE args = [k |-> "none", v |-> <<>>]
  BY <1>1
<1>2. CASE args = [k |-> "one", v |-> <<1>>]
  BY <1>2
<1>3. CASE args = [k |-> "list", v |-> <<>>]
  BY <1>3
<1>4. CASE args = [k |-> "list", v |-> <<1>>]
  BY <1>4
<1>5. CASE args = [k |-> "list", v |-> <<0, 1>>]
  BY <1>5
<1> QED BY <1>1, <1>2, <1>3, <1>4, <1>5 DEF Arguments

LEMMA CallArrivesKept == CallsInv /\ CallArrives /\ [PropertyMirrorNext]_mirrorVars => CallArrives'
<1> SUFFICES ASSUME CallsInv, CallArrives, [PropertyMirrorNext]_mirrorVars, answer' # answer, answer'.op = "call"
             PROVE  answer'.result = "success" => Arrives(answer'.args, answer'.handed)
  BY DEF CallArrives, Arrives
<1>1. PICK c \in PropClients, n \in DOMAIN values, args \in Arguments : Call(c, n, args)
  <2>1. ~ClientStep
    BY DEF ClientStep, SetReference, SetRefused, SetChecked, SetWrites, GetReference, GetReads, GetFails, Got, Return
  <2> QED BY <2>1 DEF PropertyMirrorNext, mirrorVars, ApplicationSets, Connect, ClientBegins, ClientEnds, StartSet,
                      SetSelection, StartGet, Nothing
<1> QED BY <1>1, HandedAsGiven DEF Call

\* A method gets the values the client gave, as a list when there are several,
\* and a view shows nothing that the object does not have.
THEOREM CallsArrive == PropertyCallsSpec => [](PropertyMirrorTypeOK /\ CallArrives)
<1>1. PropertyMirrorInit => CallArrives
  BY DEF PropertyMirrorInit, CallArrives, Nothing
<1>2. CallsInv => PropertyMirrorTypeOK
  <2> SUFFICES ASSUME CallsInv PROVE PropertyMirrorTypeOK
    OBVIOUS
  <2>1. call.at \in {"idle", "set", "get"} /\ object \in Objects /\ updates \in 0..MaxBegins
    BY DEF CallsInv
  <2>2. ASSUME NEW c \in PropClients PROVE Names(views[c]) \subseteq Names(object)
    <3>1. CASE views[c] = <<>>
      BY <3>1 DEF Names
    <3>2. CASE views[c] # <<>>
      BY <3>2 DEF CallsInv, Fits
    <3> QED BY <3>1, <3>2
  <2> QED BY <2>1, <2>2 DEF CallsInv, PropertyMirrorTypeOK
<1> QED BY CallsInitially, CallsKept, <1>1, <1>2, CallArrivesKept, PTL DEF PropertyCallsSpec
=============================================================================
