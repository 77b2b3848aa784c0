-------------------------- MODULE MonitoredItemFb --------------------------
(***************************************************************************)
(* A monitored item of the generic OPC UA client                            *)
(* (opcuageneric_client/src/opcua_monitored_item_fb_impl.cpp): the sampling *)
(* thread, which reads the node and publishes samples, and a thread that    *)
(* writes properties. Both report errors to one StatusContainer             *)
(* (status_container.h) and publish a component status from it.             *)
(*                                                                         *)
(* processingMutex protects everything but the last step of processSample,  *)
(* its updateStatuses(), so only that one interleaves with the writer, whose *)
(* handler is split where updateStatuses() can meet it.                     *)
(***************************************************************************)
EXTENDS Integers

CONSTANTS
  Types,      \* supported value types of a node
  Messages,   \* what an error can say
  Stamps,     \* timestamps a value can carry, in the unit of the domain signal
  None        \* no message, no timestamp

ASSUME NoneAssumption == None \notin Messages \cup Stamps
ASSUME TypesAssumption == "Undefined" \notin Types

VARIABLES
  prop,        \* the properties, as written
  mode,        \* config.domainSource: "Stamped" is any but None
  statuses,    \* the StatusContainer: messages, and the kinds with a news
  shown,       \* the component status
  nodeDataType, descriptor, signalDescriptor,
  domain,      \* outputDomainSignal is assigned
  lastPublished, \* lastPublishedDomainTs
  writer,      \* where propertyChanged() is
  upd, view,   \* of each thread: where its updateStatuses() is, what it saw
  lastSent,    \* history: latest timestamp sent on the present domain signal
  carried,     \* history: the timestamp of the last sample sent whole on it
  overlapped   \* history: see TakeMutex

propVars   == <<prop, mode>>
stampVars  == <<lastPublished, lastSent, carried>>
signalVars == <<nodeDataType, descriptor, signalDescriptor, domain, stampVars>>
vars == <<propVars, statuses, shown, signalVars, writer, upd, view, overlapped>>

Threads == {"sampler", "writer"}
Kinds   == {"config", "node", "response", "value", "exception"}
Rank    == [k \in Kinds |-> CASE k = "config" -> 1 [] k = "node" -> 2 [] k = "response" -> 3
                              [] k = "value" -> 4 [] k = "exception" -> 5]
Props   == [node : {"set", "empty"}, interval : {"valid", "invalid"}, mode : {"None", "Stamped"}]
StatusSet == [msg : [Kinds -> Messages \cup {None}], news : SUBSET Kinds]
Fine    == <<"ok", None>>
Shown   == {Fine} \cup (Kinds \X Messages)

TypeOK ==
  /\ prop \in Props /\ mode \in {"None", "Stamped"}
  /\ statuses \in StatusSet
  /\ shown \in Shown
  /\ nodeDataType \in Types \cup {"Undefined"}
  /\ descriptor \in Types \cup {"Undefined"}
  /\ signalDescriptor \in Types \cup {"Undefined"}
  /\ domain \in BOOLEAN
  /\ lastPublished \in Stamps \cup {None}
  /\ lastSent \in Stamps \cup {None} /\ carried \in Stamps \cup {None}
  /\ writer \in {"idle", "entered", "read", "validate", "final"}
  /\ upd \in [Threads -> {"off", "check", "decide", "show"}]
  /\ view \in [Threads -> Shown]
  /\ overlapped \in BOOLEAN

-----------------------------------------------------------------------------
(* StatusContainer *)

Ok(s, k) == s.msg[k] = None

\* set: news only when the message is another one.
SetMsg(s, k, m) ==
  [msg  |-> [s.msg EXCEPT ![k] = m],
   news |-> IF s.msg[k] = m THEN s.news ELSE s.news \cup {k}]

\* add: appends, always news; what the joined text says is left open.
Add(s, k, m) == [msg |-> [s.msg EXCEPT ![k] = m], news |-> s.news \cup {k}]

\* Mutant: an error that goes is no news.
ClearQuietly(s, K) == [s EXCEPT !.msg = [k \in Kinds |-> IF k \in K THEN None ELSE s.msg[k]]]

\* reset of the kinds in K: news where there was an error.
Clear(s, K) ==
  [msg  |-> [k \in Kinds |-> IF k \in K THEN None ELSE s.msg[k]],
   news |-> s.news \cup {k \in K : ~Ok(s, k)}]

ResetAll(s) == Clear(s, Kinds)

-----------------------------------------------------------------------------
(* updateStatuses *)

\* The errors in the order in which updateStatuses asks for them.
Worst(s) ==
  IF \A k \in Kinds : Ok(s, k) THEN Fine
  ELSE LET k == CHOOSE k \in Kinds : /\ ~Ok(s, k)
                                     /\ \A j \in Kinds : ~Ok(s, j) => Rank[k] <= Rank[j]
       IN  <<k, s.msg[k]>>

\* isUpdated() takes the news of every kind.
CheckNews(t) ==
  /\ upd[t] = "check"
  /\ upd' = [upd EXCEPT ![t] = IF statuses.news = {} THEN "off" ELSE "decide"]
  /\ statuses' = [statuses EXCEPT !.news = {}]
  /\ UNCHANGED <<propVars, shown, signalVars, writer, view, overlapped>>

Decide(t) ==
  /\ upd[t] = "decide"
  /\ view' = [view EXCEPT ![t] = Worst(statuses)]
  /\ upd' = [upd EXCEPT ![t] = "show"]
  /\ UNCHANGED <<propVars, statuses, shown, signalVars, writer, overlapped>>

\* setComponentStatus, setComponentStatusWithMessage
Show(t) ==
  /\ upd[t] = "show"
  /\ shown' = view[t]
  /\ upd' = [upd EXCEPT ![t] = "off"]
  /\ UNCHANGED <<propVars, statuses, signalVars, writer, view, overlapped>>

-----------------------------------------------------------------------------
(* What both threads do under processingMutex *)

\* readProperties: an empty node ID and a bad interval are configuration errors.
ConfigError(p) == p.node = "empty" \/ p.interval = "invalid"
ReadProperties(s, p, m) ==
  LET s1 == Clear(s, {"config"})
  IN  IF ConfigError(p) THEN Add(s1, "config", m) ELSE s1

\* validateNode, with what the server makes of the node.
ValidateNode(s, usable, m) ==
  LET s1 == Clear(s, {"node"})
  IN  IF usable THEN s1 ELSE Add(s1, "node", m)

\* Mutant: the descriptor follows the type of the node only while reading.
AdjustedNever(s, type) == descriptor

\* adjustSignalDescriptor
Adjusted(s, type) == IF Ok(s, "node") THEN type ELSE "Undefined"

MutexFree == writer \in {"idle", "entered"}

-----------------------------------------------------------------------------
(* The sampling thread: processSample, onConnectionRestored *)

SamplerReady == upd["sampler"] = "off" /\ MutexFree

Polls == Ok(statuses, "config") /\ Ok(statuses, "node")

LeaveMutex == upd' = [upd EXCEPT !["sampler"] = "check"]

\* A block in error does not read, but updates its status.
SkipSample ==
  /\ SamplerReady /\ ~Polls
  /\ LeaveMutex
  /\ UNCHANGED <<propVars, statuses, shown, signalVars, writer, view, overlapped>>

ReadFails ==
  /\ SamplerReady /\ Polls
  /\ \E m \in Messages : statuses' = SetMsg(statuses, "exception", m)
  /\ LeaveMutex
  /\ UNCHANGED <<propVars, shown, signalVars, writer, view, overlapped>>

\* validateResponse: bad status, no value, or no timestamp for the mode.
BadResponse ==
  /\ SamplerReady /\ Polls
  /\ \E m \in Messages :
        statuses' = SetMsg(Clear(statuses, {"exception"}), "response", m)
  /\ LeaveMutex
  /\ UNCHANGED <<propVars, shown, signalVars, writer, view, overlapped>>

\* Mutant: the signal is not told that the type has changed.
TypeChangedQuietly(type) ==
  /\ nodeDataType' = type
  /\ descriptor' = IF type = nodeDataType THEN descriptor ELSE Adjusted(statuses, type)
  /\ UNCHANGED signalDescriptor

\* validateValueDataType: a value of another type than the last one changes
\* the descriptor of the signal.
TypeChanged(type) ==
  /\ nodeDataType' = type
  /\ descriptor' = IF type = nodeDataType THEN descriptor ELSE Adjusted(statuses, type)
  /\ signalDescriptor' = IF type = nodeDataType THEN signalDescriptor ELSE descriptor'

UnsupportedValue ==
  /\ SamplerReady /\ Polls
  /\ \E m \in Messages :
        statuses' = SetMsg(Clear(statuses, {"exception", "response"}), "value", m)
  /\ TypeChanged("Undefined")
  /\ LeaveMutex
  /\ UNCHANGED <<propVars, shown, domain, stampVars, writer, view, overlapped>>

\* The signal has its new descriptor, and telling the connected ports of it
\* throws: the value is not validated, so an error about it stays.
TellingTypeFails(type) ==
  /\ SamplerReady /\ Polls /\ type # nodeDataType
  /\ \E m \in Messages :
        statuses' = SetMsg(Clear(statuses, {"exception", "response"}), "exception", m)
  /\ TypeChanged(type)
  /\ LeaveMutex
  /\ UNCHANGED <<propVars, shown, domain, stampVars, writer, view, overlapped>>

\* resolveDomainTimestamp
DomainTs(ts) == IF domain /\ mode # "None" THEN ts ELSE None

\* isNewDomainTimestamp, or no timestamp to compare
IsNew(ts) == ts = None \/ lastPublished = None \/ lastPublished # ts

\* The errors that a response with a supported value removes.
Accepted == Clear(statuses, {"exception", "response", "value"})

Read(type) ==
  /\ SamplerReady /\ Polls
  /\ TypeChanged(type)
  /\ LeaveMutex
  /\ UNCHANGED <<propVars, shown, domain, writer, view, overlapped>>

Publish(type, ts) ==
  /\ Read(type) /\ IsNew(DomainTs(ts))
  /\ statuses' = Accepted
  /\ lastPublished' = DomainTs(ts) /\ lastSent' = DomainTs(ts) /\ carried' = DomainTs(ts)

\* The timestamp was published already: the sample is dropped.
DropUnchanged(type, ts) ==
  /\ Read(type) /\ ~IsNew(DomainTs(ts))
  /\ statuses' = Accepted
  /\ UNCHANGED stampVars

\* No packet for the value (an array of strings), or building or sending the
\* first packet throws (an array of numbers is no scalar).
NothingSent(type, ts) ==
  /\ Read(type) /\ IsNew(DomainTs(ts))
  /\ \E k \in {"value", "exception"}, m \in Messages : statuses' = SetMsg(Accepted, k, m)
  /\ UNCHANGED stampVars

\* The domain packet is sent, to some ports at least, then sending it or the
\* value throws: the timestamp does not count as published.
HalfSent(type, ts) ==
  /\ Read(type) /\ IsNew(DomainTs(ts)) /\ DomainTs(ts) # None
  /\ \E m \in Messages : statuses' = SetMsg(Accepted, "exception", m)
  /\ lastSent' = DomainTs(ts)
  /\ UNCHANGED <<lastPublished, carried>>

\* onConnectionRestored, its updateStatuses() included: it keeps the mutex.
ConnectionRestored ==
  /\ SamplerReady
  /\ \E usable \in BOOLEAN, m \in Messages :
       LET s == ValidateNode(Clear(statuses, {"response", "value", "exception"}), usable, m)
       IN  /\ descriptor' = Adjusted(s, nodeDataType)
           /\ statuses' = [s EXCEPT !.news = {}]
           /\ shown' = IF s.news = {} THEN shown ELSE Worst(s)
  /\ signalDescriptor' = descriptor'
  /\ UNCHANGED <<propVars, nodeDataType, domain, stampVars, writer, upd, view, overlapped>>

-----------------------------------------------------------------------------
(* A property is written: propertyChanged *)

WriteProperty(p) ==
  /\ writer = "idle"
  /\ prop' = p
  /\ writer' = "entered"
  /\ UNCHANGED <<mode, statuses, shown, signalVars, upd, view, overlapped>>

\* resetAll and readProperties, up to its updateStatuses(). History: a writer
\* that gets the mutex while the sampler is in its last updateStatuses() has
\* overlapped with it.
TakeMutex ==
  /\ writer = "entered"
  /\ \E m \in Messages : statuses' = ReadProperties(ResetAll(statuses), prop, m)
  /\ mode' = prop.mode
  /\ writer' = "read"
  /\ upd' = [upd EXCEPT !["writer"] = "check"]
  /\ overlapped' = (overlapped \/ upd["sampler"] # "off")
  /\ UNCHANGED <<prop, shown, signalVars, view>>

\* Mutant: every write starts the domain over.
ReconfigureSignalAfresh ==
  /\ domain' = (mode # "None")
  /\ lastPublished' = None
  /\ lastSent' = IF domain' /\ ~domain THEN None ELSE lastSent
  /\ carried' = IF domain' /\ ~domain THEN None ELSE carried

\* reconfigureSignal: the domain signal comes and goes with the mode; a new
\* one has not carried any timestamp.
ReconfigureSignal ==
  /\ domain' = (mode # "None")
  /\ lastPublished' = IF domain' /\ ~domain THEN None ELSE lastPublished
  /\ lastSent' = IF domain' /\ ~domain THEN None ELSE lastSent
  /\ carried' = IF domain' /\ ~domain THEN None ELSE carried

Validate ==
  /\ writer = "read" /\ upd["writer"] = "off"
  /\ \E usable \in BOOLEAN, m \in Messages :
        statuses' = ValidateNode(statuses, usable, m)
  /\ descriptor' = Adjusted(statuses', nodeDataType)
  /\ ReconfigureSignal
  /\ signalDescriptor' = descriptor'
  /\ writer' = "final"
  /\ upd' = [upd EXCEPT !["writer"] = "check"]
  /\ UNCHANGED <<propVars, shown, nodeDataType, view, overlapped>>

WriteReturns ==
  /\ writer = "final" /\ upd["writer"] = "off"
  /\ writer' = "idle"
  /\ UNCHANGED <<propVars, statuses, shown, signalVars, upd, view, overlapped>>

-----------------------------------------------------------------------------
\* The constructor: any properties, any answer of the server about the node.
Init ==
  /\ prop \in Props /\ mode = prop.mode
  /\ \E usable \in BOOLEAN, m \in Messages :
       LET none == [msg |-> [k \in Kinds |-> None], news |-> {}]
           s == ValidateNode(ReadProperties(none, prop, m), usable, m)
       IN  statuses = [s EXCEPT !.news = {}] /\ shown = Worst(s)
  /\ nodeDataType = "Undefined" /\ descriptor = "Undefined" /\ signalDescriptor = "Undefined"
  /\ domain = (mode # "None") 
  /\ lastPublished = None /\ lastSent = None /\ carried = None
  /\ writer = "idle"
  /\ upd = [t \in Threads |-> "off"] /\ view = [t \in Threads |-> Fine]
  /\ overlapped = FALSE

Sampling ==
  \/ SkipSample \/ ReadFails \/ BadResponse \/ UnsupportedValue
  \/ \E type \in Types \cup {"Undefined"} : TellingTypeFails(type)
  \/ \E type \in Types, ts \in Stamps :
        \/ Publish(type, ts) \/ DropUnchanged(type, ts)
        \/ NothingSent(type, ts) \/ HalfSent(type, ts)
Updating(t) == CheckNews(t) \/ Decide(t) \/ Show(t)
Writing == TakeMutex \/ Validate \/ WriteReturns

Next ==
  \/ Sampling \/ ConnectionRestored
  \/ \E t \in Threads : Updating(t)
  \/ \E p \in Props : WriteProperty(p)
  \/ Writing

Spec == Init /\ [][Next]_vars

-----------------------------------------------------------------------------
(* Correctness *)

Quiet == writer = "idle" /\ \A t \in Threads : upd[t] = "off"

\* A packet is only built for a value of the type that its descriptor, which
\* sizes the buffer, and the signal announce (buildDataPacket), also when it is
\* not sent to the end.
PacketsMatchDescriptor ==
  [][\A type \in Types, ts \in Stamps :
       Publish(type, ts) \/ HalfSent(type, ts) =>
         descriptor' = type /\ signalDescriptor' = type]_vars

\* Two consecutive samples sent whole on one domain signal never carry the same
\* timestamp, whatever is written to the properties and fails in between; and
\* the domain signal repeats a timestamp only when the value of that sample was
\* not sent (processSample: the domain packet goes first, the timestamp counts
\* after the value).
NoDuplicateTimestamps ==
  [][\A type \in Types, ts \in Stamps :
       /\ Publish(type, ts) /\ domain => carried' # carried
       /\ (Publish(type, ts) \/ HalfSent(type, ts)) /\ domain /\ lastSent' = lastSent
            => lastSent # carried]_vars

\* The component status says what the errors are once both threads are done,
\* except after a write has overlapped with the end of a sample.
StatusCurrentUnlessOverlapped == Quiet /\ ~overlapped => shown = Worst(statuses)

\* The inductive strengthening: what a thread in updateStatuses() has taken
\* upon itself to show, and that the descriptor is the one of the node's type.
DescriptorConsistent ==
  writer \in {"idle", "entered", "final"} =>
    /\ Ok(statuses, "node") => descriptor = nodeDataType
    /\ signalDescriptor = descriptor
StampConsistent ==
  /\ writer # "read" => domain = (mode # "None")
  /\ domain => lastPublished = carried
StatusConsistent ==
  ~overlapped =>
    /\ writer \in {"read", "final"} => upd["sampler"] = "off"
    /\ \A t \in Threads : upd[t] # "off" => \A u \in Threads : u # t => upd[u] = "off"
    /\ (\A t \in Threads : upd[t] = "off") => statuses.news = {} /\ shown = Worst(statuses)
    /\ \A t \in Threads :
         /\ upd[t] = "check" /\ statuses.news = {} => shown = Worst(statuses)
         /\ upd[t] = "show" => view[t] = Worst(statuses)
         /\ upd[t] \in {"decide", "show"} => statuses.news = {}
IInv ==
  /\ TypeOK /\ DescriptorConsistent /\ StampConsistent /\ StatusConsistent
  /\ (upd["writer"] # "off" => writer \in {"read", "final"})

=============================================================================
