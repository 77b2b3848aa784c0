----------------------- MODULE MonitoredItemFbProofs -----------------------
(***************************************************************************)
(* Proofs about MonitoredItemFb, for any types, messages and timestamps.    *)
(* Every operation of the StatusContainer tells: without news its result is *)
(* the container it was given. So when the last thread leaves               *)
(* updateStatuses() without news, what is shown still is what the errors    *)
(* say, unless another thread took the news meanwhile (overlapped).         *)
(***************************************************************************)
EXTENDS MonitoredItemFb, TLAPS

USE NoneAssumption, TypesAssumption

Tells(s, s2) == s2 \in StatusSet /\ (s2.news = {} => s2 = s)

LEMMA StatusEqual ==
  ASSUME NEW s \in StatusSet, NEW s2 \in StatusSet, s.msg = s2.msg, s.news = s2.news
  PROVE  s = s2
  BY DEF StatusSet

\* set flags a message that is another one.
LEMMA SetMsgTells ==
  ASSUME NEW s \in StatusSet, NEW k \in Kinds, NEW m \in Messages
  PROVE  Tells(s, SetMsg(s, k, m))
<1> DEFINE r == SetMsg(s, k, m)
<1>1. r \in StatusSet  BY DEF SetMsg, StatusSet
<1>2. ASSUME r.news = {} PROVE r.msg = s.msg /\ r.news = s.news
  <2>1. s.msg[k] = m /\ s.news = {}  BY <1>2 DEF SetMsg, StatusSet
  <2> QED  BY <2>1 DEF SetMsg, StatusSet
<1> QED  BY <1>1, <1>2, StatusEqual DEF Tells

\* add always flags.
LEMMA AddTells ==
  ASSUME NEW s \in StatusSet, NEW k \in Kinds, NEW m \in Messages
  PROVE  Tells(s, Add(s, k, m))
<1>1. Add(s, k, m) \in StatusSet  BY DEF Add, StatusSet
<1>2. k \in Add(s, k, m).news  BY DEF Add
<1> QED  BY <1>1, <1>2 DEF Tells

\* reset flags every error that it removes.
LEMMA ClearTells ==
  ASSUME NEW s \in StatusSet, NEW K \in SUBSET Kinds
  PROVE  Tells(s, Clear(s, K))
<1> DEFINE r == Clear(s, K)
<1>1. r \in StatusSet  BY DEF Clear, StatusSet
<1>2. ASSUME r.news = {} PROVE r.msg = s.msg /\ r.news = s.news
  <2>1. s.news = {} /\ \A k \in K : s.msg[k] = None  BY <1>2 DEF Clear, StatusSet, Ok
  <2>2. r.msg \in [Kinds -> Messages \cup {None}] /\ s.msg \in [Kinds -> Messages \cup {None}]
    BY <1>1 DEF StatusSet
  <2>3. \A k \in Kinds : r.msg[k] = s.msg[k]  BY <2>1 DEF Clear
  <2>4. r.msg = s.msg  BY <2>2, <2>3
  <2> QED  BY <2>1, <2>4, <1>2
<1> QED  BY <1>1, <1>2, StatusEqual DEF Tells

LEMMA TellsTransitive ==
  ASSUME NEW s, NEW s2, NEW s3, Tells(s, s2), Tells(s2, s3) PROVE Tells(s, s3)
  BY DEF Tells

LEMMA ReadPropertiesTells ==
  ASSUME NEW s \in StatusSet, NEW p, NEW m \in Messages
  PROVE  Tells(s, ReadProperties(s, p, m))
<1>1. Tells(s, Clear(s, {"config"}))  BY ClearTells DEF Kinds
<1>2. Clear(s, {"config"}) \in StatusSet  BY <1>1 DEF Tells
<1>3. Tells(Clear(s, {"config"}), Add(Clear(s, {"config"}), "config", m))
  BY <1>2, AddTells DEF Kinds
<1> QED  BY <1>1, <1>3, TellsTransitive DEF ReadProperties

LEMMA ValidateNodeTells ==
  ASSUME NEW s \in StatusSet, NEW usable \in BOOLEAN, NEW m \in Messages
  PROVE  Tells(s, ValidateNode(s, usable, m))
<1>1. Tells(s, Clear(s, {"node"}))  BY ClearTells DEF Kinds
<1>2. Clear(s, {"node"}) \in StatusSet  BY <1>1 DEF Tells
<1>3. Tells(Clear(s, {"node"}), Add(Clear(s, {"node"}), "node", m))
  BY <1>2, AddTells DEF Kinds
<1> QED  BY <1>1, <1>3, TellsTransitive DEF ValidateNode

\* What updateStatuses() shows is an error there is, or that there is none.
LEMMA WorstType == ASSUME NEW s \in StatusSet PROVE Worst(s) \in Shown
<1>1. CASE \A k \in Kinds : Ok(s, k)  BY <1>1 DEF Worst, Shown
<1>2. CASE \E k \in Kinds : ~Ok(s, k)
  <2> DEFINE P(k) == ~Ok(s, k) /\ \A j \in Kinds : ~Ok(s, j) => Rank[k] <= Rank[j]
  <2>1. /\ Rank["config"] = 1 /\ Rank["node"] = 2 /\ Rank["response"] = 3
        /\ Rank["value"] = 4 /\ Rank["exception"] = 5
    BY DEF Rank, Kinds
  <2>2. \E k \in Kinds : P(k)
    <3>1. CASE ~Ok(s, "config")  BY <3>1, <2>1 DEF Kinds
    <3>2. CASE Ok(s, "config") /\ ~Ok(s, "node")  BY <3>2, <2>1 DEF Kinds
    <3>3. CASE Ok(s, "config") /\ Ok(s, "node") /\ ~Ok(s, "response")
      BY <3>3, <2>1 DEF Kinds
    <3>4. CASE Ok(s, "config") /\ Ok(s, "node") /\ Ok(s, "response") /\ ~Ok(s, "value")
      BY <3>4, <2>1 DEF Kinds
    <3>5. CASE /\ Ok(s, "config") /\ Ok(s, "node") /\ Ok(s, "response") /\ Ok(s, "value")
               /\ ~Ok(s, "exception")
      BY <3>5, <2>1 DEF Kinds
    <3> QED  BY <1>2, <3>1, <3>2, <3>3, <3>4, <3>5 DEF Kinds
  <2>3. PICK k \in Kinds : k = (CHOOSE c \in Kinds : P(c)) /\ P(k)  BY <2>2
  <2>4. Worst(s) = <<k, s.msg[k]>>  BY <1>2, <2>3 DEF Worst
  <2>5. s.msg[k] \in Messages  BY <2>3 DEF StatusSet, Ok
  <2> QED  BY <2>4, <2>5 DEF Shown
<1> QED  BY <1>1, <1>2

-----------------------------------------------------------------------------
(* The inductive invariant *)

\* The status a block starts with is that of its first validation.
LEMMA InitIInv == Init => IInv
<1> SUFFICES ASSUME Init PROVE IInv
  OBVIOUS
<1>1. statuses \in StatusSet /\ statuses.news = {} /\ shown = Worst(statuses)
  <2>1. PICK usable \in BOOLEAN, m \in Messages :
          LET none == [msg |-> [k \in Kinds |-> None], news |-> {}]
              s == ValidateNode(ReadProperties(none, prop, m), usable, m)
          IN  statuses = [s EXCEPT !.news = {}] /\ shown = Worst(s)
    BY DEF Init
  <2> DEFINE none == [msg |-> [k \in Kinds |-> None], news |-> {}]
             s == ValidateNode(ReadProperties(none, prop, m), usable, m)
  <2>2. none \in StatusSet  BY DEF StatusSet
  <2>3. ReadProperties(none, prop, m) \in StatusSet  BY <2>2, ReadPropertiesTells DEF Tells
  <2>4. s \in StatusSet  BY <2>3, ValidateNodeTells DEF Tells
  <2> HIDE DEF s
  <2>5. statuses = [s EXCEPT !.news = {}] /\ shown = Worst(s)  BY <2>1 DEF s
  <2>6. Worst(statuses) = Worst(s)  BY <2>4, <2>5 DEF Worst, Ok, StatusSet
  <2> QED  BY <2>4, <2>5, <2>6 DEF StatusSet
<1>2. shown \in Shown  BY <1>1, WorstType
<1>3. TypeOK  BY <1>1, <1>2 DEF Init, TypeOK, Threads, Shown, Fine, Props
<1>4. DescriptorConsistent /\ StampConsistent
  BY DEF Init, DescriptorConsistent, StampConsistent
<1>5. StatusConsistent  BY <1>1 DEF Init, StatusConsistent, Threads
<1> QED  BY <1>3, <1>4, <1>5 DEF IInv, Init, Threads

\* The news in the container are only taken together with the duty to show them.
LEMMA SameWorst ==
  ASSUME NEW s \in StatusSet PROVE Worst([s EXCEPT !.news = {}]) = Worst(s)
  BY DEF Worst, Ok, StatusSet

\* A step of the sampler under the mutex, which leaves it for updateStatuses().
LEMMA LeavingKeepsStatus ==
  ASSUME IInv, SamplerReady, LeaveMutex, Tells(statuses, statuses'),
         UNCHANGED <<shown, writer, view, overlapped>>
  PROVE  StatusConsistent'
<1>1. upd["sampler"] = "off" /\ upd["writer"] = "off"
  BY DEF SamplerReady, MutexFree, IInv, TypeOK, Threads
<1>2. upd' = [t \in Threads |-> IF t = "sampler" THEN "check" ELSE "off"]
  BY <1>1 DEF LeaveMutex, IInv, TypeOK, Threads
<1>3. ~overlapped => statuses.news = {} /\ shown = Worst(statuses)
  BY <1>1 DEF IInv, StatusConsistent, Threads
<1>4. writer' \in {"idle", "entered"}  BY DEF SamplerReady, MutexFree
<1> QED  BY <1>2, <1>3, <1>4 DEF StatusConsistent, Tells, Threads

\* Steps of updateStatuses() itself.
LEMMA UpdatingKeepsIInv ==
  ASSUME IInv, NEW t \in Threads, Updating(t) PROVE IInv'
<1>1. statuses \in StatusSet /\ Worst(statuses) \in Shown
  BY WorstType DEF IInv, TypeOK
<1>2. TypeOK'
  <2>1. CASE CheckNews(t)
    BY <1>1, <2>1 DEF IInv, TypeOK, CheckNews, propVars, signalVars, stampVars, StatusSet
  <2>2. CASE Decide(t)
    BY <1>1, <2>2 DEF IInv, TypeOK, Decide, propVars, signalVars, stampVars
  <2>3. CASE Show(t)
    BY <1>1, <2>3 DEF IInv, TypeOK, Show, propVars, signalVars, stampVars
  <2> QED  BY <2>1, <2>2, <2>3 DEF Updating
<1>3. DescriptorConsistent' /\ StampConsistent'
  BY <1>1 DEF IInv, DescriptorConsistent, StampConsistent, Updating, CheckNews, Decide, Show,
         propVars, signalVars, stampVars, Ok, StatusSet
<1>4. StatusConsistent'
  <2> SUFFICES ASSUME ~overlapped' PROVE StatusConsistent'
    BY DEF StatusConsistent
  <2>0. ~overlapped  BY DEF Updating, CheckNews, Decide, Show
  <2>1. upd \in [Threads -> {"off", "check", "decide", "show"}]
    BY DEF IInv, TypeOK
  <2>2. \A u \in Threads : u # t => upd[u] = "off"
    BY <2>0 DEF IInv, StatusConsistent, Updating, CheckNews, Decide, Show
  <2>3. CASE CheckNews(t)
    <3>1. Worst(statuses') = Worst(statuses) /\ statuses'.news = {}
      BY <1>1, <2>3, SameWorst DEF CheckNews, StatusSet
    <3>2. statuses.news = {} => shown = Worst(statuses)
      BY <2>0, <2>3 DEF IInv, StatusConsistent, CheckNews
    <3>3. writer' \in {"read", "final"} => t # "sampler" /\ upd["sampler"] = "off"
      BY <2>0, <2>3 DEF IInv, StatusConsistent, CheckNews
    <3>4. upd' = [upd EXCEPT ![t] = upd'[t]] /\ upd'[t] \in {"off", "decide"}
          /\ (upd'[t] = "off" => statuses.news = {}) /\ UNCHANGED <<shown, view, overlapped>>
      BY <2>1, <2>3 DEF CheckNews
    <3>5. (writer \in {"read", "final"} => upd["sampler"] = "off")'
      BY <2>1, <3>3, <3>4 DEF Threads
    <3>6. \A u \in Threads : u # t => upd'[u] = "off"  BY <2>1, <2>2, <3>4
    <3> QED  BY <3>1, <3>2, <3>4, <3>5, <3>6 DEF StatusConsistent
  <2>4. CASE Decide(t)
    BY <2>0, <2>1, <2>2, <2>4 DEF Decide, IInv, TypeOK, StatusConsistent
  <2>5. CASE Show(t)
    BY <2>0, <2>1, <2>2, <2>5 DEF Show, IInv, StatusConsistent
  <2> QED  BY <2>3, <2>4, <2>5 DEF Updating
<1>5. (upd["writer"] # "off" => writer \in {"read", "final"})'
  BY DEF IInv, TypeOK, Threads, Updating, CheckNews, Decide, Show
<1> QED  BY <1>2, <1>3, <1>4, <1>5 DEF IInv

\* The steps of the sampler under the mutex.
LEMMA SamplingKeepsIInv == ASSUME IInv, Sampling PROVE IInv'
<1> USE DEF propVars, signalVars, stampVars
<1>1. /\ SamplerReady /\ Polls /\ LeaveMutex /\ UNCHANGED <<shown, writer, view, overlapped>>
      /\ UNCHANGED <<prop, mode, domain>>
      /\ \/ UNCHANGED <<nodeDataType, descriptor, signalDescriptor>>
         \/ \E type \in Types \cup {"Undefined"} : TypeChanged(type)
      /\ \/ UNCHANGED <<lastPublished, carried>>
         \/ \E ts \in Stamps : lastPublished' = DomainTs(ts) /\ carried' = DomainTs(ts)
      /\ lastSent' = lastSent \/ \E ts \in Stamps : lastSent' = DomainTs(ts)
      /\ Tells(statuses, statuses') /\ statuses'.msg["node"] = statuses.msg["node"]
   \/ SkipSample
  <2>1. statuses \in StatusSet /\ {"exception"} \in SUBSET Kinds
        /\ {"exception", "response"} \in SUBSET Kinds
        /\ {"exception", "response", "value"} \in SUBSET Kinds
        /\ "exception" \in Kinds /\ "response" \in Kinds /\ "value" \in Kinds /\ "node" \in Kinds
    BY DEF IInv, TypeOK, Kinds
  <2>2. CASE ReadFails
    <3>1. PICK m \in Messages : statuses' = SetMsg(statuses, "exception", m)
      BY <2>2 DEF ReadFails
    <3>2. Tells(statuses, statuses')  BY <2>1, <3>1, SetMsgTells
    <3>3. statuses'.msg["node"] = statuses.msg["node"]
      BY <2>1, <3>1 DEF SetMsg, StatusSet
    <3> QED  BY <2>2, <3>2, <3>3 DEF ReadFails
  <2>3. CASE BadResponse
    <3>1. PICK m \in Messages :
            statuses' = SetMsg(Clear(statuses, {"exception"}), "response", m)
      BY <2>3 DEF BadResponse
    <3>2. Tells(statuses, Clear(statuses, {"exception"}))  BY <2>1, ClearTells
    <3>3. Tells(Clear(statuses, {"exception"}), statuses')
      BY <2>1, <3>1, <3>2, SetMsgTells DEF Tells
    <3>4. Tells(statuses, statuses')  BY <3>2, <3>3, TellsTransitive
    <3>5. statuses'.msg["node"] = statuses.msg["node"]
      BY <2>1, <3>1 DEF SetMsg, Clear, StatusSet
    <3> QED  BY <2>3, <3>4, <3>5 DEF BadResponse
  <2>4. CASE UnsupportedValue
    <3>1. PICK m \in Messages :
            statuses' = SetMsg(Clear(statuses, {"exception", "response"}), "value", m)
      BY <2>4 DEF UnsupportedValue
    <3>2. Tells(statuses, Clear(statuses, {"exception", "response"}))
      BY <2>1, ClearTells
    <3>3. Tells(Clear(statuses, {"exception", "response"}), statuses')
      BY <2>1, <3>1, <3>2, SetMsgTells DEF Tells
    <3>4. Tells(statuses, statuses')  BY <3>2, <3>3, TellsTransitive
    <3>5. statuses'.msg["node"] = statuses.msg["node"]
      BY <2>1, <3>1 DEF SetMsg, Clear, StatusSet
    <3> QED  BY <2>4, <3>4, <3>5 DEF UnsupportedValue
  <2>5. ASSUME NEW type \in Types \cup {"Undefined"}, TellingTypeFails(type)
        PROVE  Tells(statuses, statuses') /\ statuses'.msg["node"] = statuses.msg["node"]
    <3>1. PICK m \in Messages :
            statuses' = SetMsg(Clear(statuses, {"exception", "response"}), "exception", m)
      BY <2>5 DEF TellingTypeFails
    <3>2. Tells(statuses, Clear(statuses, {"exception", "response"}))
      BY <2>1, ClearTells
    <3>3. Tells(Clear(statuses, {"exception", "response"}), statuses')
      BY <2>1, <3>1, <3>2, SetMsgTells DEF Tells
    <3>4. Tells(statuses, statuses')  BY <3>2, <3>3, TellsTransitive
    <3>5. statuses'.msg["node"] = statuses.msg["node"]
      BY <2>1, <3>1 DEF SetMsg, Clear, StatusSet
    <3> QED  BY <3>4, <3>5
  <2>6. CASE \E type \in Types \cup {"Undefined"} : TellingTypeFails(type)
    BY <2>5, <2>6 DEF TellingTypeFails, stampVars
  <2>7. Tells(statuses, Accepted) /\ Accepted.msg["node"] = statuses.msg["node"]
    <3>1. Tells(statuses, Accepted)  BY <2>1, ClearTells DEF Accepted
    <3>2. Accepted.msg["node"] = statuses.msg["node"]
      BY <2>1 DEF Accepted, Clear, StatusSet
    <3> QED  BY <3>1, <3>2
  <2>8. ASSUME NEW k \in {"value", "exception"}, NEW m \in Messages,
               statuses' = SetMsg(Accepted, k, m)
        PROVE  Tells(statuses, statuses') /\ statuses'.msg["node"] = statuses.msg["node"]
    <3>1. Accepted \in StatusSet /\ k \in Kinds /\ k # "node"
      BY <2>1, <2>7 DEF Tells
    <3>2. Tells(Accepted, statuses')  BY <2>8, <3>1, SetMsgTells
    <3>3. Tells(statuses, statuses')  BY <2>7, <3>2, TellsTransitive
    <3>4. statuses'.msg["node"] = Accepted.msg["node"]
      BY <2>1, <2>8, <3>1 DEF SetMsg, StatusSet
    <3> QED  BY <2>7, <3>3, <3>4
  <2>9. ASSUME NEW type \in Types, NEW ts \in Stamps,
               \/ Publish(type, ts) \/ DropUnchanged(type, ts)
               \/ NothingSent(type, ts) \/ HalfSent(type, ts)
        PROVE  /\ Read(type)
               /\ Tells(statuses, statuses') /\ statuses'.msg["node"] = statuses.msg["node"]
               /\ \/ UNCHANGED <<lastPublished, carried>>
                  \/ lastPublished' = DomainTs(ts) /\ carried' = DomainTs(ts)
               /\ lastSent' = lastSent \/ lastSent' = DomainTs(ts)
    <3>1. CASE Publish(type, ts)  BY <2>7, <3>1 DEF Publish
    <3>2. CASE DropUnchanged(type, ts)  BY <2>7, <3>2 DEF DropUnchanged, stampVars
    <3>3. CASE NothingSent(type, ts)  BY <2>8, <3>3 DEF NothingSent, stampVars
    <3>4. CASE HalfSent(type, ts)  BY <2>8, <3>4 DEF HalfSent
    <3> QED  BY <2>9, <3>1, <3>2, <3>3, <3>4
  <2>10. CASE \E type \in Types, ts \in Stamps :
                \/ Publish(type, ts) \/ DropUnchanged(type, ts)
                \/ NothingSent(type, ts) \/ HalfSent(type, ts)
    BY <2>9, <2>10 DEF Read
  <2> QED  BY <2>2, <2>3, <2>4, <2>6, <2>10 DEF Sampling
<1>2. CASE SkipSample
  <2>1. Tells(statuses, statuses')  BY <1>2 DEF SkipSample, Tells, IInv, TypeOK
  <2>2. StatusConsistent'  BY <1>2, <2>1, LeavingKeepsStatus DEF SkipSample
  <2>3. TypeOK' /\ DescriptorConsistent' /\ StampConsistent'
    BY <1>2 DEF SkipSample, LeaveMutex, IInv, TypeOK, DescriptorConsistent, StampConsistent,
                Threads
  <2>4. (upd["writer"] # "off" => writer \in {"read", "final"})'
    BY <1>2 DEF SkipSample, LeaveMutex, IInv, TypeOK, Threads
  <2> QED  BY <2>2, <2>3, <2>4 DEF IInv
<1>3. CASE ~SkipSample
  <2>1. StatusConsistent'  BY <1>1, <1>3, LeavingKeepsStatus
  <2>2. Ok(statuses, "node") /\ (Ok(statuses, "node"))'
    BY <1>1, <1>3 DEF Polls, Ok
  <2>3. nodeDataType' \in Types \cup {"Undefined"} /\ descriptor' = nodeDataType'
        /\ signalDescriptor' = descriptor'
    <3>1. descriptor = nodeDataType /\ signalDescriptor = descriptor
      BY <1>1, <1>3, <2>2 DEF IInv, DescriptorConsistent, SamplerReady, MutexFree
    <3> QED  BY <1>1, <1>3, <2>2, <3>1 DEF TypeChanged, Adjusted, IInv, TypeOK
  <2>4. DescriptorConsistent'  BY <2>3 DEF DescriptorConsistent
  <2>5. /\ lastPublished' \in Stamps \cup {None}
        /\ lastSent' \in Stamps \cup {None} /\ carried' \in Stamps \cup {None}
    BY <1>1, <1>3 DEF DomainTs, IInv, TypeOK
  <2>6. StampConsistent'  BY <1>1, <1>3 DEF IInv, StampConsistent
  <2>7. statuses' \in StatusSet  BY <1>1, <1>3 DEF Tells
  <2>8. upd' = [upd EXCEPT !["sampler"] = "check"]  BY <1>1, <1>3 DEF LeaveMutex
  <2>9. TypeOK'
    BY <1>1, <1>3, <2>3, <2>5, <2>7, <2>8 DEF IInv, TypeOK, Threads
  <2>10. (upd["writer"] # "off" => writer \in {"read", "final"})'
    BY <1>1, <1>3, <2>8 DEF IInv, TypeOK, Threads
  <2> QED  BY <2>1, <2>4, <2>6, <2>9, <2>10 DEF IInv
<1> QED  BY <1>2, <1>3

\* onConnectionRestored shows its status before it lets go of the mutex.
LEMMA RestoredKeepsIInv == ASSUME IInv, ConnectionRestored PROVE IInv'
<1> USE DEF propVars, signalVars, stampVars
<1>1. PICK usable \in BOOLEAN, m \in Messages :
        LET s == ValidateNode(Clear(statuses, {"response", "value", "exception"}), usable, m)
        IN  /\ descriptor' = Adjusted(s, nodeDataType)
            /\ statuses' = [s EXCEPT !.news = {}]
            /\ shown' = IF s.news = {} THEN shown ELSE Worst(s)
  BY DEF ConnectionRestored
<1> DEFINE c == Clear(statuses, {"response", "value", "exception"})
           s == ValidateNode(c, usable, m)
<1>2. statuses \in StatusSet  BY DEF IInv, TypeOK
<1>3. Tells(statuses, c)  BY <1>2, ClearTells DEF Kinds
<1>4. Tells(c, s)  BY <1>3, ValidateNodeTells DEF Tells
<1>5. Tells(statuses, s)  BY <1>3, <1>4, TellsTransitive
<1> HIDE DEF s
<1>6. /\ descriptor' = Adjusted(s, nodeDataType) /\ statuses' = [s EXCEPT !.news = {}]
      /\ shown' = IF s.news = {} THEN shown ELSE Worst(s)
  BY <1>1 DEF s
<1>7. s \in StatusSet /\ (s.news = {} => s = statuses)  BY <1>5 DEF Tells
<1>8. statuses' \in StatusSet /\ statuses'.news = {} /\ Worst(statuses') = Worst(s)
  BY <1>6, <1>7, SameWorst DEF StatusSet
<1>9. UNCHANGED <<prop, mode, nodeDataType, domain, stampVars, writer, upd, view,
                  overlapped>> /\ signalDescriptor' = descriptor' /\ SamplerReady
  BY DEF ConnectionRestored
<1>10. "sampler" \in Threads /\ \A t \in Threads : upd[t] = "off"
  BY <1>9 DEF SamplerReady, MutexFree, IInv, TypeOK, Threads
<1>11. ~overlapped => shown = Worst(statuses)
  BY <1>10 DEF IInv, StatusConsistent
<1>12. StatusConsistent'
  BY <1>6, <1>7, <1>8, <1>9, <1>10, <1>11 DEF StatusConsistent
<1>13. DescriptorConsistent' /\ StampConsistent'
  BY <1>6, <1>7, <1>9 DEF IInv, DescriptorConsistent, StampConsistent, Adjusted, Ok, StatusSet
<1>14. TypeOK'
  <2>1. shown' \in Shown  BY <1>6, <1>7, WorstType DEF IInv, TypeOK
  <2>2. descriptor' \in Types \cup {"Undefined"}
    BY <1>6 DEF Adjusted, IInv, TypeOK
  <2> QED  BY <1>8, <1>9, <2>1, <2>2 DEF IInv, TypeOK
<1>15. (upd["writer"] # "off" => writer \in {"read", "final"})'
  BY <1>9 DEF IInv
<1> QED  BY <1>12, <1>13, <1>14, <1>15 DEF IInv

\* The steps of a property write: validating after the properties were read
\* gives the signal its descriptor and its domain back.
LEMMA WritingKeepsIInv ==
  ASSUME IInv, Writing \/ \E p \in Props : WriteProperty(p) PROVE IInv'
<1> USE DEF propVars, signalVars, stampVars
<1>0. statuses \in StatusSet  BY DEF IInv, TypeOK
<1>1. ASSUME NEW p \in Props, WriteProperty(p) PROVE IInv'
  BY <1>1 DEF WriteProperty, IInv, TypeOK, DescriptorConsistent, StampConsistent,
              StatusConsistent
<1>2. CASE TakeMutex
  <2>1. PICK m \in Messages : statuses' = ReadProperties(ResetAll(statuses), prop, m)
    BY <1>2 DEF TakeMutex
  <2>2. Tells(statuses, ResetAll(statuses))  BY <1>0, ClearTells DEF ResetAll
  <2>3. Tells(ResetAll(statuses), statuses')
    BY <2>1, <2>2, ReadPropertiesTells DEF Tells
  <2>4. Tells(statuses, statuses')  BY <2>2, <2>3, TellsTransitive
  <2>5. upd["writer"] = "off" /\ upd \in [Threads -> {"off", "check", "decide", "show"}]
    BY <1>2 DEF TakeMutex, IInv, TypeOK, Threads
  <2>6. TypeOK'
    BY <1>2, <2>4, <2>5 DEF TakeMutex, Tells, IInv, TypeOK, Props, Threads
  <2>7. StatusConsistent'
    <3> SUFFICES ASSUME ~overlapped' PROVE StatusConsistent'
      BY DEF StatusConsistent
    <3>1. ~overlapped /\ upd["sampler"] = "off"  BY <1>2 DEF TakeMutex
    <3>2. statuses.news = {} /\ shown = Worst(statuses)
      BY <2>5, <3>1 DEF IInv, StatusConsistent, Threads
    <3>3. upd' = [t \in Threads |-> IF t = "writer" THEN "check" ELSE "off"]
      BY <1>2, <2>5, <3>1 DEF TakeMutex, Threads
    <3> QED  BY <1>2, <2>4, <3>2, <3>3 DEF TakeMutex, StatusConsistent, Tells, Threads
  <2>8. DescriptorConsistent' /\ StampConsistent'
    BY <1>2 DEF TakeMutex, IInv, DescriptorConsistent, StampConsistent
  <2>9. writer' = "read"  BY <1>2 DEF TakeMutex
  <2> QED  BY <2>6, <2>7, <2>8, <2>9 DEF IInv
<1>3. CASE Validate
  <2>1. PICK usable \in BOOLEAN, m \in Messages : statuses' = ValidateNode(statuses, usable, m)
    BY <1>3 DEF Validate
  <2>2. Tells(statuses, statuses')  BY <1>0, <2>1, ValidateNodeTells
  <2>3. upd["writer"] = "off" /\ upd \in [Threads -> {"off", "check", "decide", "show"}]
    BY <1>3 DEF Validate, IInv, TypeOK, Threads
  <2>4. descriptor' = Adjusted(statuses', nodeDataType) /\ signalDescriptor' = descriptor'
        /\ UNCHANGED <<prop, mode, shown, nodeDataType, view, overlapped>> /\ writer' = "final"
        /\ upd' = [upd EXCEPT !["writer"] = "check"]
    BY <1>3 DEF Validate
  <2>5. TypeOK'
    BY <1>3, <2>2, <2>3, <2>4 DEF Validate, ReconfigureSignal, Adjusted, Tells, IInv, TypeOK, Threads
  <2>6. DescriptorConsistent'
    BY <2>4 DEF DescriptorConsistent, Adjusted
  <2>7. StampConsistent'
    BY <1>3 DEF Validate, ReconfigureSignal, IInv, StampConsistent
  <2>8. StatusConsistent'
    <3> SUFFICES ASSUME ~overlapped PROVE StatusConsistent'
      BY <2>4 DEF StatusConsistent
    <3>1. CASE upd["sampler"] = "off"
      <4>1. statuses.news = {} /\ shown = Worst(statuses)
        BY <2>3, <3>1 DEF IInv, StatusConsistent, Threads
      <4>2. upd' = [t \in Threads |-> IF t = "writer" THEN "check" ELSE "off"]
        BY <2>3, <2>4, <3>1 DEF Threads
      <4> QED  BY <2>2, <2>4, <4>1, <4>2 DEF StatusConsistent, Tells, Threads
    <3>2. upd["sampler"] = "off"
      BY <1>3 DEF Validate, IInv, StatusConsistent
    <3> QED  BY <3>1, <3>2
  <2> QED  BY <2>4, <2>5, <2>6, <2>7, <2>8 DEF IInv
<1>4. CASE WriteReturns
  BY <1>4 DEF WriteReturns, IInv, TypeOK, DescriptorConsistent, StampConsistent, StatusConsistent
<1> QED  BY <1>1, <1>2, <1>3, <1>4 DEF Writing

LEMMA StepIInv == IInv /\ [Next]_vars => IInv'
<1> SUFFICES ASSUME IInv, [Next]_vars PROVE IInv'
  OBVIOUS
<1>1. CASE UNCHANGED vars
  BY <1>1 DEF vars, propVars, signalVars, stampVars, IInv, TypeOK, DescriptorConsistent, StampConsistent,
              StatusConsistent, Ok
<1>2. CASE Next
  BY <1>2, UpdatingKeepsIInv, SamplingKeepsIInv, RestoredKeepsIInv, WritingKeepsIInv DEF Next
<1> QED  BY <1>1, <1>2

\* The inductive invariant of a monitored item holds for every sequence of
\* samples, reconnects and property writes.
THEOREM ItemIInv == Spec => []IInv
  BY InitIInv, StepIInv, PTL DEF Spec

\* The component status says what the errors are once both threads are done,
\* unless a write has overlapped with the end of a sample.
THEOREM ItemStatusCurrent == Spec => []StatusCurrentUnlessOverlapped
<1>1. IInv => StatusCurrentUnlessOverlapped
  BY DEF IInv, StatusConsistent, StatusCurrentUnlessOverlapped, Quiet
<1> QED  BY <1>1, ItemIInv, PTL

\* A packet is built for a value of the type its descriptor announces, so the
\* value fits the buffer (buildDataPacket), also when sending it throws.
THEOREM ItemPacketsMatch == Spec => PacketsMatchDescriptor
<1>1. IInv /\ [Next]_vars =>
        [\A type \in Types, ts \in Stamps :
           Publish(type, ts) \/ HalfSent(type, ts) =>
             descriptor' = type /\ signalDescriptor' = type]_vars
  <2> SUFFICES ASSUME IInv, NEW type \in Types, NEW ts \in Stamps,
                      Publish(type, ts) \/ HalfSent(type, ts)
               PROVE  descriptor' = type /\ signalDescriptor' = type
    OBVIOUS
  <2>1. Ok(statuses, "node") /\ MutexFree /\ TypeChanged(type)
    BY DEF Publish, HalfSent, Read, Polls, SamplerReady
  <2>2. descriptor = nodeDataType /\ signalDescriptor = descriptor
    BY <2>1 DEF IInv, DescriptorConsistent, MutexFree
  <2> QED  BY <2>1, <2>2 DEF TypeChanged, Adjusted
<1> QED  BY <1>1, ItemIInv, PTL DEF Spec, PacketsMatchDescriptor

\* Two consecutive whole samples on one domain signal have different
\* timestamps, and the domain signal repeats a timestamp only when the value of
\* that sample was not sent.
THEOREM ItemTimestampsDiffer == Spec => NoDuplicateTimestamps
<1>1. IInv /\ [Next]_vars =>
        [\A type \in Types, ts \in Stamps :
           /\ Publish(type, ts) /\ domain => carried' # carried
           /\ (Publish(type, ts) \/ HalfSent(type, ts)) /\ domain /\ lastSent' = lastSent
                => lastSent # carried]_vars
  <2> SUFFICES ASSUME IInv, NEW type \in Types, NEW ts \in Stamps, domain,
                      Publish(type, ts) \/ HalfSent(type, ts)
               PROVE  /\ Publish(type, ts) => carried' # carried
                      /\ lastSent' = lastSent => lastSent # carried
    OBVIOUS
  <2>1. mode # "None" /\ lastPublished = carried
    BY DEF Publish, HalfSent, Read, SamplerReady, MutexFree, IInv, StampConsistent
  <2>2. lastSent' = ts /\ IsNew(ts) /\ (Publish(type, ts) => carried' = ts)
    BY <2>1 DEF Publish, HalfSent, DomainTs
  <2> QED  BY <2>1, <2>2 DEF IsNew
<1> QED  BY <1>1, ItemIInv, PTL DEF Spec, NoDuplicateTimestamps
=============================================================================
