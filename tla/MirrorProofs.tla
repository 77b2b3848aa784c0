----------------------------- MODULE MirrorProofs -----------------------------
(***************************************************************************)
(* Proofs about the parts of a mirrored device that keep a text, a value,  *)
(* a reference or a block in two places: NameMirror, DeviceInfoMirror,     *)
(* SignalMirror, SignalValues, EnumTypes and BlockMirror.  For each its    *)
(* inductive invariant, that the initial states have it and every step     *)
(* keeps it, and that the part's invariants follow; TmsLibraryProofs puts  *)
(* them together.                                                          *)
(***************************************************************************)
EXTENDS NameMirror, DeviceInfoMirror, SignalMirror, SignalValues, EnumTypes, BlockMirror,
        SequenceTheorems, FiniteSetTheorems, TLAPS

-----------------------------------------------------------------------------
(* NameMirror: the texts of a component and of its node *)

Changes(places) ==
  {Rest} \cup [at : places, attr : TextAttributes, text : Texts, alone : BOOLEAN]

TypesHold ==
  /\ objectText \in [TextAttributes -> Texts] /\ nodeText \in [TextAttributes -> Texts]
  /\ selfChange \in BOOLEAN /\ differ \subseteq TextAttributes
  /\ writeMask \subseteq TextAttributes
  /\ srv \in Changes({"check", "set", "hear", "end"})
  /\ app \in Changes({"hear", "write", "changed", "end"})

\* Only a change that is past its check has raised the flag.
FlagIsOfAChange ==
  selfChange => srv.at \in {"set", "hear", "end"} \/ app.at \in {"write", "changed", "end"}

\* Two changes at a time know of each other.
AloneIsAlone ==
  srv # Rest /\ app # Rest => ~srv.alone /\ ~app.alone

\* How far a change that has met no other has come: a client's starts in the
\* node, an application's in the component, and both end in both.
Progress ==
  /\ srv # Rest /\ srv.alone =>
       /\ nodeText[srv.attr] = srv.text
       /\ srv.at \in {"hear", "end"} => objectText[srv.attr] = srv.text
  /\ app # Rest /\ app.alone =>
       /\ objectText[app.attr] = app.text
       /\ app.at \in {"changed", "end"} => nodeText[app.attr] = app.text

\* A text that is being changed is among those that may differ, and the others
\* do not.
OthersAgree ==
  /\ srv # Rest => srv.attr \in differ
  /\ app # Rest => app.attr \in differ
  /\ \A a \in TextAttributes \ differ : objectText[a] = nodeText[a]

NamesInv == TypesHold /\ FlagIsOfAChange /\ AloneIsAlone /\ Progress /\ OthersAgree

-----------------------------------------------------------------------------

LEMMA NamesInitially == NameMirrorInit => NamesInv
BY DEF NameMirrorInit, NamesInv, TypesHold, Changes, Rest, FlagIsOfAChange, AloneIsAlone,
       Progress, OthersAgree

\* A change begins: the other one, if there is one, is no longer alone.
LEMMA BeginKeeps ==
  ASSUME NamesInv, NEW a \in TextAttributes, NEW t \in Texts,
         ClientWritesText(a, t) \/ AppSetsText(a, t)
  PROVE  NamesInv'
<1> USE DEF NamesInv, TypesHold, Changes, Rest, Change, Disturb
<1>1. CASE ClientWritesText(a, t)
  <2> USE <1>1 DEF ClientWritesText
  <2>1. TypesHold'
    OBVIOUS
  <2>2. FlagIsOfAChange'
    BY DEF FlagIsOfAChange
  <2>3. AloneIsAlone'
    BY DEF AloneIsAlone
  <2>4. Progress'
    BY DEF Progress
  <2>5. OthersAgree'
    BY DEF OthersAgree
  <2> QED BY <2>1, <2>2, <2>3, <2>4, <2>5
<1>2. CASE AppSetsText(a, t)
  <2> USE <1>2 DEF AppSetsText
  <2>1. TypesHold'
    OBVIOUS
  <2>2. FlagIsOfAChange'
    BY DEF FlagIsOfAChange
  <2>3. AloneIsAlone'
    BY DEF AloneIsAlone
  <2>4. Progress'
    BY DEF Progress
  <2>5. OthersAgree'
    BY DEF OthersAgree
  <2> QED BY <2>1, <2>2, <2>3, <2>4, <2>5
<1> QED BY <1>1, <1>2

\* The client's change goes on, on the server's thread.
LEMMA SrvKeeps ==
  ASSUME NamesInv, SrvChecks \/ SrvSets(TRUE) \/ SrvSets(FALSE) \/ SrvHears \/ SrvEnds
  PROVE  NamesInv'
<1> USE DEF NamesInv, TypesHold, Changes, Rest, Step
<1>1. CASE SrvChecks
  <2> USE <1>1 DEF SrvChecks
  <2>1. srv \in [at : {"check", "set", "hear", "end"}, attr : TextAttributes, text : Texts, alone : BOOLEAN]
    OBVIOUS
  <2>2. TypesHold'
    BY <2>1
  <2>3. FlagIsOfAChange'
    BY <2>1 DEF FlagIsOfAChange
  <2>4. AloneIsAlone'
    BY <2>1 DEF AloneIsAlone
  <2>5. Progress'
    BY <2>1 DEF Progress, AloneIsAlone, OthersAgree
  <2>6. OthersAgree'
    BY <2>1 DEF OthersAgree, Progress, AloneIsAlone
  <2> QED BY <2>2, <2>3, <2>4, <2>5, <2>6
<1>2. CASE SrvSets(TRUE)
  <2> USE <1>2 DEF SrvSets
  <2>1. srv \in [at : {"check", "set", "hear", "end"}, attr : TextAttributes, text : Texts, alone : BOOLEAN]
    OBVIOUS
  <2>2. TypesHold'
    BY <2>1
  <2>3. FlagIsOfAChange'
    BY <2>1 DEF FlagIsOfAChange
  <2>4. AloneIsAlone'
    BY <2>1 DEF AloneIsAlone
  <2>5. Progress'
    BY <2>1 DEF Progress, AloneIsAlone, OthersAgree
  <2>6. OthersAgree'
    BY <2>1 DEF OthersAgree, Progress, AloneIsAlone
  <2> QED BY <2>2, <2>3, <2>4, <2>5, <2>6
<1>3. CASE SrvSets(FALSE)
  <2>1. srv \in [at : {"check", "set", "hear", "end"}, attr : TextAttributes, text : Texts, alone : BOOLEAN]
    BY <1>3 DEF SrvSets
  <2>2. /\ objectText' = [objectText EXCEPT ![srv.attr] = srv.text]
        /\ UNCHANGED <<writeMask, nodeText, selfChange, app, differ>>
    BY <1>3, <2>1 DEF SrvSets
  <2>3. PICK place \in {"hear", "end"} : srv' = [srv EXCEPT !.at = place]
    BY <1>3, <2>1 DEF SrvSets
  <2>4. /\ srv # Rest /\ srv' # Rest /\ srv'.attr = srv.attr /\ srv'.text = srv.text
        /\ srv'.alone = srv.alone /\ srv'.at \in {"hear", "end"} /\ srv.at = "set"
    BY <1>3, <2>1, <2>3 DEF SrvSets
  <2>5. TypesHold'
    BY <2>1, <2>2, <2>3
  <2>6. FlagIsOfAChange'
    BY <2>2, <2>4 DEF FlagIsOfAChange
  <2>7. AloneIsAlone'
    BY <2>2, <2>4 DEF AloneIsAlone
  <2>8. Progress'
    BY <2>1, <2>2, <2>4 DEF Progress, AloneIsAlone
  <2>9. OthersAgree'
    BY <2>1, <2>2, <2>4 DEF OthersAgree
  <2> QED BY <2>5, <2>6, <2>7, <2>8, <2>9
<1>4. CASE SrvHears
  <2> USE <1>4 DEF SrvHears
  <2>1. srv \in [at : {"check", "set", "hear", "end"}, attr : TextAttributes, text : Texts, alone : BOOLEAN]
    OBVIOUS
  <2>2. TypesHold'
    BY <2>1
  <2>3. FlagIsOfAChange'
    BY <2>1 DEF FlagIsOfAChange
  <2>4. AloneIsAlone'
    BY <2>1 DEF AloneIsAlone
  <2>5. Progress'
    BY <2>1 DEF Progress, AloneIsAlone, OthersAgree
  <2>6. OthersAgree'
    BY <2>1 DEF OthersAgree, Progress, AloneIsAlone
  <2> QED BY <2>2, <2>3, <2>4, <2>5, <2>6
<1>5. CASE SrvEnds
  <2> USE <1>5 DEF SrvEnds
  <2>1. srv \in [at : {"check", "set", "hear", "end"}, attr : TextAttributes, text : Texts, alone : BOOLEAN]
    OBVIOUS
  <2>2. TypesHold'
    BY <2>1
  <2>3. FlagIsOfAChange'
    BY <2>1 DEF FlagIsOfAChange
  <2>4. AloneIsAlone'
    BY <2>1 DEF AloneIsAlone
  <2>5. Progress'
    BY <2>1 DEF Progress, AloneIsAlone, OthersAgree
  <2>6. OthersAgree'
    BY <2>1 DEF OthersAgree, Progress, AloneIsAlone
  <2> QED BY <2>2, <2>3, <2>4, <2>5, <2>6
<1> QED BY <1>1, <1>2, <1>3, <1>4, <1>5

\* The application's change goes on, on its thread.
LEMMA AppKeeps ==
  ASSUME NamesInv, AppHears \/ AppWritesNode(TRUE) \/ AppWritesNode(FALSE) \/ AppChanged \/ AppEnds
  PROVE  NamesInv'
<1> USE DEF NamesInv, TypesHold, Changes, Rest, Step
<1>1. CASE AppHears
  <2> USE <1>1 DEF AppHears
  <2>1. app \in [at : {"hear", "write", "changed", "end"}, attr : TextAttributes, text : Texts, alone : BOOLEAN]
    OBVIOUS
  <2>2. TypesHold'
    BY <2>1
  <2>3. FlagIsOfAChange'
    BY <2>1 DEF FlagIsOfAChange
  <2>4. AloneIsAlone'
    BY <2>1 DEF AloneIsAlone
  <2>5. Progress'
    BY <2>1 DEF Progress, AloneIsAlone, OthersAgree
  <2>6. OthersAgree'
    BY <2>1 DEF OthersAgree, Progress, AloneIsAlone
  <2> QED BY <2>2, <2>3, <2>4, <2>5, <2>6
<1>2. CASE AppWritesNode(TRUE)
  <2> USE <1>2 DEF AppWritesNode
  <2>1. app \in [at : {"hear", "write", "changed", "end"}, attr : TextAttributes, text : Texts, alone : BOOLEAN]
    OBVIOUS
  <2>2. /\ app' \in [at : {"end"}, attr : TextAttributes, text : Texts, alone : {FALSE}]
        /\ app'.attr = app.attr /\ UNCHANGED <<writeMask, objectText, nodeText, selfChange, srv, differ>>
    BY <2>1
  <2>3. app'.alone = FALSE /\ app'.at = "end" /\ app.at = "write" /\ Rest.at = "rest"
    BY <2>2
  <2>4. app # Rest /\ app' # Rest
    BY <2>3
  <2> HIDE <1>2 DEF AppWritesNode
  <2>5. TypesHold'
    BY <2>2
  <2>6. FlagIsOfAChange'
    BY <2>2, <2>3 DEF FlagIsOfAChange
  <2>7. AloneIsAlone'
    BY <2>2, <2>3, <2>4 DEF AloneIsAlone
  <2>8. Progress'
    BY <2>2, <2>3, <2>4 DEF Progress
  <2>9. OthersAgree'
    BY <2>2, <2>3, <2>4 DEF OthersAgree
  <2> QED BY <2>5, <2>6, <2>7, <2>8, <2>9
<1>3. CASE AppWritesNode(FALSE)
  <2> USE <1>3 DEF AppWritesNode
  <2>1. app \in [at : {"hear", "write", "changed", "end"}, attr : TextAttributes, text : Texts, alone : BOOLEAN]
    OBVIOUS
  <2>2. TypesHold'
    BY <2>1
  <2>3. FlagIsOfAChange'
    BY <2>1 DEF FlagIsOfAChange
  <2>4. AloneIsAlone'
    BY <2>1 DEF AloneIsAlone
  <2>5. Progress'
    BY <2>1 DEF Progress, AloneIsAlone, OthersAgree
  <2>6. OthersAgree'
    BY <2>1 DEF OthersAgree, Progress, AloneIsAlone
  <2> QED BY <2>2, <2>3, <2>4, <2>5, <2>6
<1>4. CASE AppChanged
  <2> USE <1>4 DEF AppChanged
  <2>1. app \in [at : {"hear", "write", "changed", "end"}, attr : TextAttributes, text : Texts, alone : BOOLEAN]
    OBVIOUS
  <2>2. TypesHold'
    BY <2>1
  <2>3. FlagIsOfAChange'
    BY <2>1 DEF FlagIsOfAChange
  <2>4. AloneIsAlone'
    BY <2>1 DEF AloneIsAlone
  <2>5. Progress'
    BY <2>1 DEF Progress, AloneIsAlone, OthersAgree
  <2>6. OthersAgree'
    BY <2>1 DEF OthersAgree, Progress, AloneIsAlone
  <2> QED BY <2>2, <2>3, <2>4, <2>5, <2>6
<1>5. CASE AppEnds
  <2> USE <1>5 DEF AppEnds
  <2>1. app \in [at : {"hear", "write", "changed", "end"}, attr : TextAttributes, text : Texts, alone : BOOLEAN]
    OBVIOUS
  <2>2. TypesHold'
    BY <2>1
  <2>3. FlagIsOfAChange'
    BY <2>1 DEF FlagIsOfAChange
  <2>4. AloneIsAlone'
    BY <2>1 DEF AloneIsAlone
  <2>5. Progress'
    BY <2>1 DEF Progress, AloneIsAlone, OthersAgree
  <2>6. OthersAgree'
    BY <2>1 DEF OthersAgree, Progress, AloneIsAlone
  <2> QED BY <2>2, <2>3, <2>4, <2>5, <2>6
<1> QED BY <1>1, <1>2, <1>3, <1>4, <1>5

LEMMA NamesStep ==
  ASSUME NamesInv, [NameMirrorNext]_nameVars
  PROVE  NamesInv'
<1>1. CASE UNCHANGED nameVars
  BY <1>1 DEF nameVars, NamesInv, TypesHold, FlagIsOfAChange, AloneIsAlone, Progress, OthersAgree
<1> QED BY <1>1, BeginKeeps, SrvKeeps, AppKeeps DEF NameMirrorNext

LEMMA NamesInvImplies == NamesInv => NameMirrorTypeOK /\ NamesAgreeAtRest
BY DEF NamesInv, TypesHold, Changes, Rest, FlagIsOfAChange, OthersAgree, NameMirrorTypeOK, NamesAgreeAtRest, AtRest

\* When neither a client nor the application is changing a text, the flag that
\* keeps changes from going round is down, and component and node have the same
\* texts except where two changes overlapped or one was refused.
THEOREM NamesAgree == NameMirrorSpec => []NamesAgreeAtRest
<1> QED BY NamesInitially, NamesStep, NamesInvImplies, PTL DEF NameMirrorSpec

-----------------------------------------------------------------------------
(* DeviceInfoMirror: what a client is told of the device info *)

USE DeviceInfoAssumption

\* What is in a node or a copy: a value as the server casts it.
ShownValues(f) == {0} \cup {Casted(f, v) : v \in InfoValues}
InfoNodes == [writable : BOOLEAN, written : {NotThere} \cup Nat]

InfoTypes ==
  /\ info \in [InfoFields -> InfoValues] /\ readOnly \subseteq InfoFields
  /\ infoNode \in [InfoFields -> {NotThere} \cup InfoNodes]
  /\ infoHad \in {NotThere} \cup [InfoFields -> SUBSET InfoValues]
  /\ mirrorInfo \in {NotThere} \cup [InfoFields -> [editable : BOOLEAN, copy : Nat]]
  /\ mode \in [{"root", "below"} -> Modes]

\* A node is a window on the device exactly where clients may write it; what was
\* written into another one the device has had.
NodesShowTheDevice ==
  \A f \in InfoFields : HasInfoNode(f) =>
    /\ infoNode[f].writable <=> f \notin readOnly
    /\ infoNode[f].written = NotThere <=> infoNode[f].writable
    /\ ~infoNode[f].writable => \E v \in infoHad[f] : infoNode[f].written = Casted(f, v)

\* Before the server has started nobody has asked; afterwards the present value
\* is among those the device has had.
HistoryIsComplete ==
  /\ ~Started => mirrorInfo = NotThere /\ told = NotThere
  /\ Started => \A f \in InfoFields : info[f] \in infoHad[f]

\* The copy of a field that is not edited is a value the device has had.
CopiesAreOld ==
  HasInfo => \A f \in InfoFields :
    IF HasInfoNode(f) THEN \E v \in infoHad[f] : mirrorInfo[f].copy = Casted(f, v)
                      ELSE mirrorInfo[f].copy = 0

\* The domain of the client is one of the device's, the present one among them.
DomainIsOld ==
  /\ domain \in domainHad /\ domainHad \subseteq Domains \cup {NotThere}
  /\ mirrorDomain # NotThere =>
       \E d \in domainHad : ServedDomain(d) # NotThere /\ ShowsDomain(mirrorDomain, d)

\* Who was told of a field has the info.
ToldHasInfo == told # NotThere /\ told.field # "domain" => HasInfo /\ told.field \in InfoFields

InfoInv ==
  /\ InfoTypes /\ NodesShowTheDevice /\ HistoryIsComplete /\ CopiesAreOld /\ ToldHasInfo /\ DomainIsOld
  /\ EditableIsWritable /\ ToldIsTheDevices

-----------------------------------------------------------------------------

LEMMA CastedIsNat == \A f \in InfoFields, v \in InfoValues : Casted(f, v) \in Nat
BY DEF Casted

LEMMA InfoInitially == DeviceInfoInit => InfoInv
BY DEF DeviceInfoInit, InfoInv, InfoTypes, NodesShowTheDevice, HistoryIsComplete, CopiesAreOld,
       ToldHasInfo, EditableIsWritable, ToldIsTheDevices, HasInfo, HasInfoNode, Started, DomainIsOld

\* A step that leaves the domains alone.
LEMMA DomainStays == DomainIsOld /\ UNCHANGED domainVars => DomainIsOld'
BY DEF DomainIsOld, domainVars, ShowsDomain

\* The server starts: the nodes are made of the values of now.
LEMMA PopulateKeeps ==
  ASSUME InfoInv, PopulateDeviceInfo
  PROVE  InfoInv'
<1> USE DEF InfoInv, PopulateDeviceInfo, infoVars
<1>1. mirrorInfo' = NotThere /\ told' = NotThere
  BY DEF HistoryIsComplete
<1>2. infoHad' \in [InfoFields -> SUBSET InfoValues] /\ infoHad' # NotThere
  BY DEF InfoTypes
<1>3. InfoTypes'
  BY <1>1, <1>2, CastedIsNat DEF InfoTypes, InfoNodes, modeVars
<1>4. NodesShowTheDevice'
  BY CastedIsNat DEF InfoTypes, NodesShowTheDevice, HasInfoNode, Casted
<1>5. HistoryIsComplete' /\ CopiesAreOld' /\ ToldHasInfo' /\ ToldIsTheDevices'
  BY <1>1, <1>2 DEF HistoryIsComplete, Started, CopiesAreOld, HasInfo, ToldHasInfo, ToldIsTheDevices
<1>6. EditableIsWritable'
  BY <1>1, <1>4 DEF EditableIsWritable, HasInfo, NodesShowTheDevice
<1> QED BY <1>3, <1>4, <1>5, <1>6, DomainStays

\* A value of the device changes, by itself or through a client.
LEMMA SetInfoKeeps ==
  ASSUME InfoInv, Started, NEW f \in InfoFields, NEW v \in InfoValues,
         info' = [info EXCEPT ![f] = v], infoHad' = [infoHad EXCEPT ![f] = @ \cup {v}], told' = NotThere,
         UNCHANGED <<readOnly, version, infoNode, mirrorInfo, modeVars, domainVars>>
  PROVE  InfoInv'
<1> USE DEF InfoInv
<1>1. /\ infoHad \in [InfoFields -> SUBSET InfoValues] /\ infoHad' \in [InfoFields -> SUBSET InfoValues]
      /\ infoHad # NotThere /\ infoHad' # NotThere
  BY DEF InfoTypes, Started
<1>2. \A g \in InfoFields : infoHad[g] \subseteq infoHad'[g]
  BY <1>1
<1>3. InfoTypes'
  BY <1>1 DEF InfoTypes, modeVars
<1>4. NodesShowTheDevice' /\ CopiesAreOld'
  BY <1>1, <1>2 DEF NodesShowTheDevice, CopiesAreOld, HasInfo, HasInfoNode, Casted
<1>5. HistoryIsComplete'
  BY <1>1 DEF HistoryIsComplete, Started, InfoTypes
<1>6. EditableIsWritable' /\ ToldHasInfo' /\ ToldIsTheDevices'
  BY DEF EditableIsWritable, HasInfo, HasInfoNode, ToldHasInfo, ToldIsTheDevices
<1> QED BY <1>3, <1>4, <1>5, <1>6, DomainStays

\* The client asks for the whole info.
LEMMA GetInfoKeeps ==
  ASSUME InfoInv, OnGetInfo
  PROVE  InfoInv'
<1> USE DEF InfoInv, OnGetInfo
<1>1. \A f \in InfoFields : HasInfoNode(f) => /\ ReadNode(f) \in Nat
                                             /\ \E v \in infoHad[f] : ReadNode(f) = Casted(f, v)
  <2> TAKE f \in InfoFields
  <2> HAVE HasInfoNode(f)
  <2>1. infoNode[f] \in InfoNodes
    BY DEF InfoTypes, HasInfoNode
  <2>2. CASE infoNode[f].written = NotThere
    BY <2>2, CastedIsNat DEF ReadNode, InfoTypes, HistoryIsComplete, Started
  <2>3. CASE infoNode[f].written # NotThere
    BY <2>1, <2>3 DEF ReadNode, InfoNodes, NodesShowTheDevice
  <2> QED BY <2>2, <2>3
<1>2. \A f \in InfoFields : HasInfoNode(f) => infoNode[f].writable \in BOOLEAN
  BY DEF InfoTypes, InfoNodes, HasInfoNode
<1>3. mirrorInfo' \in [InfoFields -> [editable : BOOLEAN, copy : Nat]]
  BY <1>1, <1>2 DEF EditableProperties
<1>4. \A f \in InfoFields :
        /\ mirrorInfo'[f].editable <=> (HasInfoNode(f) /\ infoNode[f].writable /\ version # "older")
        /\ mirrorInfo'[f].copy = IF HasInfoNode(f) THEN ReadNode(f) ELSE 0
  BY <1>2 DEF EditableProperties
<1> HIDE DEF OnGetInfo
<1>5. UNCHANGED <<info, readOnly, version, infoNode, infoHad, modeVars>> /\ told' = NotThere
  BY DEF OnGetInfo
<1>6. InfoTypes'
  BY <1>3, <1>5 DEF InfoTypes, modeVars
<1>7. NodesShowTheDevice' /\ ToldHasInfo' /\ ToldIsTheDevices'
  BY <1>5 DEF NodesShowTheDevice, ToldHasInfo, ToldIsTheDevices, HasInfoNode, Casted
<1>8. HistoryIsComplete'
  BY <1>5 DEF HistoryIsComplete, Started, OnGetInfo
<1>9. CopiesAreOld'
  BY <1>1, <1>4, <1>5 DEF CopiesAreOld, HasInfoNode, Casted
<1>10. EditableIsWritable'
  BY <1>4, <1>5 DEF EditableIsWritable, HasInfoNode, NodesShowTheDevice
<1>11. DomainIsOld'
  BY DomainStays DEF OnGetInfo
<1> QED BY <1>6, <1>7, <1>8, <1>9, <1>10, <1>11

\* A client is told of a field.
LEMMA ReadInfoKeeps ==
  ASSUME InfoInv, NEW f \in InfoFields, ClientReadsInfo(f)
  PROVE  InfoInv'
<1> USE DEF InfoInv, ClientReadsInfo
<1>1. InfoTypes' /\ NodesShowTheDevice' /\ CopiesAreOld' /\ EditableIsWritable'
  BY DEF InfoTypes, NodesShowTheDevice, CopiesAreOld, EditableIsWritable, HasInfo, HasInfoNode, Casted, modeVars
<1>2. HistoryIsComplete' /\ ToldHasInfo'
  BY DEF HistoryIsComplete, HasInfo, Started, ToldHasInfo
<1>3. ToldIsTheDevices'
  <2>1. told'.field = f /\ f # "domain"
        /\ told'.value = IF mirrorInfo[f].editable THEN ReadNode(f) ELSE mirrorInfo[f].copy
    OBVIOUS
  <2>2. ASSUME mirrorInfo[f].editable PROVE told'.value = Casted(f, info[f])
    BY <2>1, <2>2 DEF EditableIsWritable, NodesShowTheDevice, ReadNode
  <2>3. ASSUME ~mirrorInfo[f].editable
        PROVE  IF HasInfoNode(f) THEN \E v \in infoHad[f] : told'.value = Casted(f, v) ELSE told'.value = 0
    BY <2>1, <2>3 DEF CopiesAreOld
  <2> HIDE DEF InfoInv
  <2> QED BY <2>1, <2>2, <2>3 DEF ToldIsTheDevices, HasInfoNode, Casted
<1> QED BY <1>1, <1>2, <1>3, DomainStays

\* What a client receives of a domain that the server gives is what it shows.
LEMMA ReceivedIsShown ==
  ASSUME NEW d \in Domains \cup {NotThere}, ServedDomain(d) # NotThere
  PROVE  ShowsDomain(ReceivedDomain(d), d)
<1>1. d \in Domains /\ d.denominator \in Nat
  BY DomainsAssumption DEF ServedDomain
<1> QED BY <1>1 DEF ReceivedDomain, ShowsDomain

\* Of the time domain, and what does not concern the info.
LEMMA OthersKeepInfo ==
  ASSUME InfoInv,
         \/ DropInfo \/ FetchTimeDomain
         \/ \E d \in Domains \cup {NotThere} : AppSetsDomain(d)
         \/ \E m \in Modes : AppSetsMode(m)
         \/ \E m \in Modes, r \in BOOLEAN, x \in {"ok", "denied", "failed"} : SetOperationMode(m, r, x)
         \/ UNCHANGED deviceInfoVars
  PROVE  InfoInv'
<1> USE DEF InfoInv, InfoTypes, NodesShowTheDevice, HistoryIsComplete, CopiesAreOld, ToldHasInfo,
            EditableIsWritable, HasInfo, HasInfoNode, Started, Casted
<1>1. CASE DropInfo
  BY <1>1 DEF DropInfo, modeVars, ToldIsTheDevices, DomainIsOld
<1>2. CASE FetchTimeDomain
  <2>1. UNCHANGED <<info, readOnly, version, infoNode, mirrorInfo, infoHad, modeVars, domain, domainHad>>
        /\ told'.field = "domain" /\ told'.value = mirrorDomain'
    BY <1>2 DEF FetchTimeDomain
  <2>2. CASE ServedDomain(domain) = NotThere
    <3>1. UNCHANGED <<mirrorDomain, domain, domainHad>>
      BY <1>2, <2>2 DEF FetchTimeDomain
    <3>2. DomainIsOld'
      BY <3>1, DomainStays DEF domainVars
    <3>3. ToldIsTheDevices'
      BY <2>1, <2>2, <3>1 DEF DomainIsOld, ToldIsTheDevices, ServedDomain
    <3> QED BY <1>2, <3>2, <3>3 DEF FetchTimeDomain, modeVars
  <2>3. CASE ServedDomain(domain) # NotThere
    <3>1. mirrorDomain' = ReceivedDomain(domain) /\ domain' = domain /\ domainHad' = domainHad
      BY <1>2, <2>3 DEF FetchTimeDomain
    <3>2. domain \in domainHad /\ domain \in Domains \cup {NotThere}
      BY DEF DomainIsOld
    <3>3. ShowsDomain(mirrorDomain', domain)
      BY <2>3, <3>1, <3>2, ReceivedIsShown
    <3>4. DomainIsOld'
      BY <2>3, <3>1, <3>2, <3>3 DEF DomainIsOld
    <3>5. ToldIsTheDevices'
      BY <2>1, <2>3, <3>1, <3>3 DEF ToldIsTheDevices
    <3> QED BY <1>2, <3>4, <3>5 DEF FetchTimeDomain, modeVars
  <2> QED BY <2>2, <2>3
<1>3. CASE \E d \in Domains \cup {NotThere} : AppSetsDomain(d)
  <2>1. PICK d \in Domains \cup {NotThere} : AppSetsDomain(d)
    BY <1>3
  <2>2. DomainIsOld'
    BY <2>1 DEF AppSetsDomain, DomainIsOld
  <2> QED BY <2>1, <2>2 DEF AppSetsDomain, modeVars, ToldIsTheDevices
<1>4. CASE \E m \in Modes : AppSetsMode(m)
  BY <1>4, DomainStays DEF AppSetsMode, infoVars, domainVars, ToldIsTheDevices
<1>5. CASE \E m \in Modes, r \in BOOLEAN, x \in {"ok", "denied", "failed"} : SetOperationMode(m, r, x)
  BY <1>5, DomainStays DEF SetOperationMode, WriteMode, infoVars, domainVars, ToldIsTheDevices
<1>6. CASE UNCHANGED deviceInfoVars
  BY <1>6, DomainStays DEF deviceInfoVars, infoVars, modeVars, domainVars, ToldIsTheDevices
<1> QED BY <1>1, <1>2, <1>3, <1>4, <1>5, <1>6

LEMMA InfoStep ==
  ASSUME InfoInv, [InfoNext \/ ModeNext]_deviceInfoVars
  PROVE  InfoInv'
<1>1. ASSUME NEW f \in InfoFields, NEW v \in InfoValues, AppSetsInfo(f, v)
      PROVE  InfoInv'
  BY <1>1, SetInfoKeeps DEF AppSetsInfo, modeVars
<1>2. ASSUME NEW f \in InfoFields, NEW v \in InfoValues, ClientWritesInfo(f, v)
      PROVE  InfoInv'
  <2>1. CASE mirrorInfo[f].editable /\ infoNode[f].writable
    BY <1>2, <2>1, SetInfoKeeps DEF ClientWritesInfo, InfoInv, HistoryIsComplete, HasInfo, modeVars
  <2>2. CASE ~(mirrorInfo[f].editable /\ infoNode[f].writable)
    BY <1>2, <2>2, DomainStays DEF ClientWritesInfo, InfoInv, InfoTypes, NodesShowTheDevice, HistoryIsComplete,
          CopiesAreOld, ToldHasInfo, EditableIsWritable, ToldIsTheDevices, HasInfo, HasInfoNode, Started, Casted, modeVars
  <2> QED BY <2>1, <2>2
<1> QED BY <1>1, <1>2, PopulateKeeps, GetInfoKeeps, ReadInfoKeeps, OthersKeepInfo DEF InfoNext, ModeNext

\* What follows for a reader of the info.
LEMMA InfoInvImplies ==
  InfoInv => DeviceInfoTypeOK /\ EditableIsWritable /\ ToldIsTheDevices
<1> SUFFICES ASSUME InfoInv PROVE DeviceInfoTypeOK
  BY DEF InfoInv
<1>1. \A f \in InfoFields : HasInfoNode(f) => infoNode[f].writable \in BOOLEAN
  BY DEF InfoInv, InfoTypes, InfoNodes, HasInfoNode
<1>2. HasInfo => Started
  BY DEF InfoInv, HistoryIsComplete, HasInfo
<1>3. ASSUME HasInfo, NEW f \in InfoFields
      PROVE  mirrorInfo[f].editable \in BOOLEAN /\ mirrorInfo[f].copy \in ShownValues(f)
  <2>1. infoHad \in [InfoFields -> SUBSET InfoValues] /\ mirrorInfo \in [InfoFields -> [editable : BOOLEAN, copy : Nat]]
    BY <1>2, <1>3 DEF InfoInv, InfoTypes, Started, HasInfo
  <2> QED BY <1>3, <2>1 DEF InfoInv, CopiesAreOld, ShownValues
<1> QED BY <1>1, <1>3 DEF DeviceInfoTypeOK, InfoInv, InfoTypes, ShownValues

\* An answer to a request for a mode says what has become of the modes.
ModeIsAnswered ==
  asked' # asked /\ asked' # NotThere =>
    /\ asked'.result = "ok" => mode'["root"] = asked'.mode /\ (asked'.recursive => mode'["below"] = asked'.mode)
    /\ (asked'.result # "ok" \/ ~asked'.recursive) => mode'["below"] = mode["below"]

\* What the mode is when a request for one has been answered.
LEMMA ModeStep == [InfoNext \/ ModeNext]_deviceInfoVars => [ModeIsAnswered]_deviceInfoVars
<1> SUFFICES ASSUME InfoNext \/ ModeNext, asked' # asked, asked' # NotThere PROVE ModeIsAnswered
  BY DEF ModeIsAnswered
<1>1. PICK m \in Modes, r \in BOOLEAN, x \in {"ok", "denied", "failed"} : SetOperationMode(m, r, x)
  BY DEF InfoNext, ModeNext, PopulateDeviceInfo, OnGetInfo, DropInfo, ClientReadsInfo, AppSetsInfo, ClientWritesInfo,
         FetchTimeDomain, AppSetsMode, AppSetsDomain, modeVars
<1>2. asked'.mode = m /\ asked'.recursive = r /\ asked'.result = x
  BY <1>1 DEF SetOperationMode
<1> QED BY <1>1, <1>2 DEF ModeIsAnswered, SetOperationMode, WriteMode

HIDE DeviceInfoAssumption

-----------------------------------------------------------------------------
(* SignalMirror: the references of a port and the registry of a client *)

USE SignalMirrorAssumption

\* What stands behind the port and the registry.
PortInv ==
  /\ connection \in Signals \cup {Nothing} /\ references \subseteq Signals
  /\ ReferenceIsConnection
  /\ \A s, t \in references \ ClashingSignals : s = t

RegistryInv ==
  /\ objects \in [Signals -> Nat \cup {Nothing}] /\ numbered \in [Signals -> Nat] /\ looking \in [Signals -> Nat]
  /\ holding \in [Signals -> SUBSET Nat] /\ dying \in [Signals -> SUBSET Nat]
  /\ \A s \in Signals : dying[s] \subseteq holding[s] /\ holding[s] \subseteq 1..numbered[s]
  /\ RegistryHoldsObjects

SignalInv == PortInv /\ RegistryInv

LEMMA SignalInitially == SignalMirrorInit => SignalInv
<1> SUFFICES ASSUME SignalMirrorInit PROVE SignalInv
  OBVIOUS
<1>1. ~aside => connection \notin HiddenSignals
  BY Zenon DEF SignalMirrorInit
<1>2. PortInv
  BY <1>1 DEF SignalMirrorInit, PortInv, ReferenceIsConnection, FindSignalNodeId
<1>3. RegistryInv
  BY DEF SignalMirrorInit, RegistryInv, RegistryHoldsObjects
<1> QED BY <1>2, <1>3 DEF SignalInv

\* What happens to the port, of which the registry knows nothing.
LEMMA PortKeeps ==
  ASSUME SignalInv,
         \/ \E s \in Signals \cup {Nothing} : AppConnects(s)
         \/ \E s \in Signals, refused \in BOOLEAN : ConnectRequest(s, refused)
         \/ DisconnectRequest
  PROVE  SignalInv'
<1>1. RegistryInv'
  BY DEF SignalInv, RegistryInv, RegistryHoldsObjects, AppConnects, ConnectRequest, DisconnectRequest, registryVars
<1>2. ASSUME NEW s \in Signals, NEW refused \in BOOLEAN, ConnectRequest(s, refused)
      PROVE  PortInv'
  <2>1. references' \subseteq KeptReferences \cup {s} /\ KeptReferences \subseteq Signals \cap ClashingSignals
    BY <1>2 DEF ConnectRequest, FindSignalNodeId, KeptReferences, SignalInv, PortInv
  <2>2. ~aside' => KeptReferences = {} /\ s \notin HiddenSignals /\ connection' = s
    BY <1>2, Zenon DEF ConnectRequest
  <2>3. ReferenceIsConnection'
    BY <1>2, <2>2 DEF ConnectRequest, FindSignalNodeId, ReferenceIsConnection
  <2> QED BY <1>2, <2>1, <2>3 DEF ConnectRequest, SignalInv, PortInv
<1>3. CASE DisconnectRequest
  <2>1. ~aside' => KeptReferences = {}
    BY <1>3, Zenon DEF DisconnectRequest
  <2>2. ReferenceIsConnection'
    BY <1>3, <2>1, Zenon DEF DisconnectRequest, ReferenceIsConnection
  <2> QED BY <1>1, <1>3, <2>2 DEF DisconnectRequest, KeptReferences, SignalInv, PortInv
<1>4. CASE \E s \in Signals \cup {Nothing} : AppConnects(s)
  <2>1. aside' /\ connection' \in Signals \cup {Nothing} /\ references' = references
    BY <1>4, Zenon DEF AppConnects
  <2>2. ReferenceIsConnection'
    BY <2>1, Zenon DEF ReferenceIsConnection
  <2> QED BY <1>1, <2>1, <2>2 DEF SignalInv, PortInv
<1> QED BY <1>1, <1>2, <1>3, <1>4 DEF SignalInv

\* What happens to the objects of a signal.
LEMMA RegistryKeeps ==
  ASSUME SignalInv, NEW s \in Signals,
         FindNoObject(s) \/ MakeObject(s) \/ \E n \in holding[s] : Release(s, n) \/ Unregister(s, n)
  PROVE  SignalInv'
<1>1. PortInv'
  BY DEF SignalInv, PortInv, ReferenceIsConnection, FindNoObject, MakeObject, Release, Unregister, portVars
<1>2. RegistryInv'
  <2> USE DEF SignalInv, RegistryInv, RegistryHoldsObjects
  <2>1. CASE FindNoObject(s)
    BY <2>1 DEF FindNoObject
  <2>2. CASE MakeObject(s)
    BY <2>2 DEF MakeObject
  <2>3. CASE \E n \in holding[s] : Release(s, n)
    BY <2>3 DEF Release
  <2>4. CASE \E n \in holding[s] : Unregister(s, n)
    BY <2>4 DEF Unregister
  <2> QED BY <2>1, <2>2, <2>3, <2>4
<1> QED BY <1>1, <1>2 DEF SignalInv

LEMMA SignalStep ==
  ASSUME SignalInv, [PortNext]_signalVars
  PROVE  SignalInv'
<1>1. CASE UNCHANGED signalVars
  BY <1>1 DEF signalVars, portVars, registryVars, SignalInv, PortInv, RegistryInv, ReferenceIsConnection, RegistryHoldsObjects
<1> QED BY <1>1, PortKeeps, RegistryKeeps DEF PortNext, Connect, OtherConnects

LEMMA SignalInvImplies ==
  SignalInv => SignalMirrorTypeOK /\ ReferenceIsConnection /\ OneReference /\ RegistryHoldsObjects
<1> SUFFICES ASSUME SignalInv PROVE OneReference
  BY DEF SignalInv, PortInv, RegistryInv, SignalMirrorTypeOK
<1> DEFINE others == references \ ClashingSignals
<1>1. CASE others = {}
  BY <1>1, FS_EmptySet DEF OneReference
<1>2. ASSUME NEW s \in others
      PROVE  OneReference
  <2>1. others = {s}
    BY DEF SignalInv, PortInv
  <2>2. Cardinality({s}) = 1
    BY FS_Singleton
  <2>3. Cardinality(others) = 1
    BY <2>1, <2>2, Zenon
  <2> QED BY <2>3 DEF OneReference
<1> QED BY <1>1, <1>2

HIDE SignalMirrorAssumption

-----------------------------------------------------------------------------
(* SignalValues: the value nodes of a signal and what a client reads *)

USE SignalValuesAssumption


DescriptorTypes == SampleTypes \cup {Unset}

\* The two nodes were made for one type, which need not be the signal's any more
\* when that has lost its descriptor.
NodesAreOfOneType ==
  HasValueNode /\ HasAnalogNode =>
    \E type \in DescriptorTypes : /\ valueType = NodeType(SampleTypeToDataType(type))
                        /\ analogType = NodeType(AnalogDataType(type))

ValueNodesInv ==
  /\ sampleType \in DescriptorTypes /\ replacing \in BOOLEAN
  /\ failed \in {{}, {"AnalogValue"}, {"Value", "AnalogValue"}}
  /\ ValueHasSampleType /\ NodesAreOfOneType

\* A client that was made whole knows every node.
ValueClientInv ==
  /\ progress \in {"start", "browsed", "ahead", "made"}
  /\ answer # Unset => progress = "made"
  /\ whole /\ progress \in {"ahead", "made"} => found = {"Value", "AnalogValue", "DataDescriptor"}
  /\ whole /\ progress = "browsed" => found = {"Value", "AnalogValue"}
  /\ whole /\ progress = "made" => descriptorNodeId = "DataDescriptor"
  /\ ClientKeepsReading

ValuesInv == ValueNodesInv /\ ValueClientInv

-----------------------------------------------------------------------------

\* A type with an OPC UA type is told by it.
LEMMA TypeOfNode ==
  ASSUME NEW s \in DescriptorTypes, NEW t \in SampleTypes,
         NodeType(SampleTypeToDataType(s)) = SampleTypeToDataType(t)
  PROVE  s = t
BY DEF DescriptorTypes, NodeType, SampleTypeToDataType

LEMMA NodesNeverUnset ==
  ASSUME NEW s \in DescriptorTypes
  PROVE  NodeType(SampleTypeToDataType(s)) # Unset /\ NodeType(AnalogDataType(s)) # Unset
BY DEF DescriptorTypes, NodeType, SampleTypeToDataType, AnalogDataType

LEMMA ValuesInitially == SignalValuesInit => ValuesInv
<1> SUFFICES ASSUME SignalValuesInit PROVE ValuesInv
  OBVIOUS
<1>1. ValueNodesInv
  BY NodesNeverUnset DEF SignalValuesInit, ValueNodesInv, ValueHasSampleType, NodesAreOfOneType, HasValueNode, HasAnalogNode, DescriptorTypes
<1>2. ValueClientInv
  BY DEF SignalValuesInit, ValueClientInv, ClientKeepsReading
<1> QED BY <1>1, <1>2 DEF ValuesInv

\* The descriptor changes, and with it the nodes if they are of another type.
LEMMA DescriptorKeeps ==
  ASSUME ValueNodesInv, NEW type \in DescriptorTypes, DescriptorChanges(type)
  PROVE  ValueNodesInv'
<1> USE DEF DescriptorChanges
<1>1. CASE valueType' = Unset /\ analogType' = Unset /\ replacing'
  BY <1>1 DEF ValueNodesInv, ValueHasSampleType, NodesAreOfOneType, HasValueNode, HasAnalogNode
<1>2. CASE /\ type = Unset \/ ~HasValueNode \/ valueType = SampleTypeToDataType(type)
           /\ UNCHANGED <<valueType, analogType, replacing>>
  <2>1. /\ sampleType' \in DescriptorTypes /\ replacing' \in BOOLEAN
        /\ failed' \in {{}, {"AnalogValue"}, {"Value", "AnalogValue"}} /\ NodesAreOfOneType'
    BY <1>2 DEF ValueNodesInv, NodesAreOfOneType, HasValueNode, HasAnalogNode
  <2>2. ASSUME type # Unset
        PROVE  /\ valueType \in {Unset, NodeType(SampleTypeToDataType(type))}
               /\ analogType \in {Unset, NodeType(AnalogDataType(type))}
    <3>1. CASE ~HasValueNode
      BY <3>1, <1>2 DEF ValueNodesInv, ValueHasSampleType, HasValueNode, HasAnalogNode
    <3>2. CASE HasValueNode
      <4>1. valueType = SampleTypeToDataType(type) /\ valueType # Unset /\ type \in SampleTypes
        BY <1>2, <2>2, <3>2 DEF HasValueNode, DescriptorTypes
      <4>2. valueType = NodeType(SampleTypeToDataType(type))
        BY <4>1 DEF NodeType
      <4>3. analogType # Unset => analogType = NodeType(AnalogDataType(type))
        BY <4>1, TypeOfNode DEF ValueNodesInv, NodesAreOfOneType, HasValueNode, HasAnalogNode
      <4> QED BY <4>2, <4>3
    <3> QED BY <3>1, <3>2
  <2>3. ValueHasSampleType'
    BY <1>2, <2>2 DEF ValueNodesInv, ValueHasSampleType, HasValueNode, HasAnalogNode
  <2> QED BY <2>1, <2>3 DEF ValueNodesInv
<1> QED BY <1>1, <1>2

\* New nodes are of the signal's type, or fail to be made.
LEMMA ReplaceKeeps ==
  ASSUME ValueNodesInv, NEW fails \in {"none", "Value", "AnalogValue"}, ReplaceValueNodes(fails)
  PROVE  ValueNodesInv'
BY NodesNeverUnset
   DEF ReplaceValueNodes, ValueNodesInv, ValueHasSampleType, NodesAreOfOneType, HasValueNode, HasAnalogNode

\* The client asks: it is told of the signal as it is, or nothing.
LEMMA AnswerKeeps ==
  ASSUME ValueNodesInv, ValueClientInv, OnGetDescriptor \/ GetLastValue \/ OnGetDomainSignal
  PROVE  ValueClientInv'
<1>1. ASSUME OnGetDescriptor
      PROVE  ClientKeepsReading'
  BY <1>1 DEF OnGetDescriptor, Told, ReadDataDescriptor, ValueNodesInv, ValueClientInv, ValueHasSampleType,
              ClientKeepsReading, HasValueNode, HasAnalogNode
<1>2. ASSUME GetLastValue
      PROVE  ClientKeepsReading'
  <2>1. sampleType # Unset => AnalogDataType(sampleType) \in {Unset, sampleType}
    BY DEF AnalogDataType, SampleTypeToDataType
  <2>2. sampleType = Unset => AnalogDataType(sampleType) = Unset
    BY DEF AnalogDataType, SampleTypeToDataType
  <2> QED BY <1>2, <2>1, <2>2 DEF GetLastValue, Told, ReadAnalogValue, ValueNodesInv, ValueClientInv,
              ValueHasSampleType, ClientKeepsReading, HasValueNode, HasAnalogNode
<1>3. ASSUME OnGetDomainSignal
      PROVE  ClientKeepsReading'
  BY <1>3 DEF OnGetDomainSignal, Told, ClientKeepsReading
<1> QED BY <1>1, <1>2, <1>3 DEF ValueClientInv, OnGetDescriptor, GetLastValue, OnGetDomainSignal, Told

\* The client is made: it has not been told anything yet.
LEMMA MakeKeeps ==
  ASSUME ValueClientInv, BrowseSignal \/ BrowseValue \/ MakeSignal
  PROVE  ValueClientInv'
<1>1. answer' = Unset
  BY DEF ValueClientInv, BrowseSignal, BrowseValue, MakeSignal
<1>2. ClientKeepsReading'
  BY <1>1 DEF ClientKeepsReading
<1>3. CASE BrowseSignal
  BY <1>1, <1>2, <1>3 DEF ValueClientInv, BrowseSignal
<1>4. CASE BrowseValue
  BY <1>1, <1>2, <1>4 DEF ValueClientInv, BrowseValue
<1>5. CASE MakeSignal
  BY <1>1, <1>2, <1>5 DEF ValueClientInv, MakeSignal
<1> QED BY <1>3, <1>4, <1>5

LEMMA ValuesStep ==
  ASSUME ValuesInv, [SignalValuesNext]_valueVars
  PROVE  ValuesInv'
<1> USE DEF ValuesInv
<1>1. CASE UNCHANGED valueVars
  BY <1>1 DEF valueVars, serverValueVars, clientValueVars, ValueNodesInv, ValueClientInv, ValueHasSampleType,
              NodesAreOfOneType, ClientKeepsReading, HasValueNode, HasAnalogNode
<1>2. ASSUME UNCHANGED clientValueVars
      PROVE  ValueClientInv'
  BY <1>2 DEF clientValueVars, ValueClientInv, ClientKeepsReading
<1>3. ASSUME UNCHANGED <<sampleType, valueType, analogType, replacing, failed>>
      PROVE  ValueNodesInv'
  BY <1>3 DEF ValueNodesInv, ValueHasSampleType, NodesAreOfOneType, HasValueNode, HasAnalogNode
<1>4. CASE \E type \in DescriptorTypes : DescriptorChanges(type)
  BY <1>2, <1>4, DescriptorKeeps DEF DescriptorChanges
<1>5. CASE \E fails \in {"none", "Value", "AnalogValue"} : ReplaceValueNodes(fails)
  BY <1>2, <1>5, ReplaceKeeps DEF ReplaceValueNodes
<1>6. CASE \E s \in DomainSignals : DomainSignalChanges(s)
  BY <1>2, <1>3, <1>6 DEF DomainSignalChanges
<1>7. CASE BrowseSignal \/ BrowseValue \/ MakeSignal
  BY <1>3, <1>7, MakeKeeps DEF BrowseSignal, BrowseValue, MakeSignal, serverValueVars
<1>8. CASE OnGetDescriptor \/ GetLastValue \/ OnGetDomainSignal
  BY <1>3, <1>8, AnswerKeeps DEF OnGetDescriptor, GetLastValue, OnGetDomainSignal, Told, serverValueVars
<1> QED BY <1>1, <1>4, <1>5, <1>6, <1>7, <1>8 DEF SignalValuesNext, DescriptorTypes

\* The value nodes of a signal have the types of its samples through all changes
\* of the descriptor (TmsServerSignal::onCoreEvent), but for nodes that could not
\* be made again.
THEOREM ValueNodesHaveSampleType == SignalValuesSpec => []ValueHasSampleType
<1>1. ValuesInv => ValueHasSampleType
  BY DEF ValuesInv, ValueNodesInv
<1> QED BY <1>1, ValuesInitially, ValuesStep, PTL DEF SignalValuesSpec

\* A client is told the descriptor and the last value of now or nothing, and
\* nothing only when it met a replacement or the server has no nodes.
THEOREM ClientIsToldTheTruth == SignalValuesSpec => []ClientKeepsReading
<1>1. ValuesInv => ClientKeepsReading
  BY DEF ValuesInv, ValueClientInv
<1> QED BY <1>1, ValuesInitially, ValuesStep, PTL DEF SignalValuesSpec

HIDE SignalValuesAssumption

-----------------------------------------------------------------------------
(* EnumTypes: the labels of enumeration values *)

USE EnumTypesAssumption

\* What the type manager has under a name is the labels of something that was
\* defined under it, by a server that is there or was.
TypesWereDefined ==
  \A n \in DOMAIN typeManager : \E f \in defined : n \in DOMAIN f /\ typeManager[n] = Labels(f[n])

\* A connection that is made has passed the names that are not left.
PassedNamesAreKnown ==
  connecting # Unshown =>
    /\ connecting.host \in Hosts
    /\ DOMAIN firmware[connecting.host] \ connecting.left \subseteq DOMAIN typeManager
    /\ connecting.left \subseteq DOMAIN firmware[connecting.host]

EnumInv ==
  /\ firmware \in [Hosts -> Firmwares] /\ connectedTo \subseteq Hosts
  /\ defined \subseteq Firmwares /\ \A h \in Hosts : firmware[h] \in defined
  /\ TypesWereDefined /\ PassedNamesAreKnown
  /\ EnumerationArrives /\ ConnectedTypesAreKnown

LEMMA EnumInitially == EnumTypesInit => EnumInv
BY DEF EnumTypesInit, EnumInv, TypesWereDefined, PassedNamesAreKnown, EnumerationArrives, ConnectedTypesAreKnown

\* A server comes back with other types: what was read was of types that are
\* remembered, and a name that is disputed stays so.
LEMMA RestartKeeps ==
  ASSUME EnumInv, NEW h \in Hosts, NEW f \in Firmwares, Restart(h, f)
  PROVE  EnumInv'
<1> USE DEF EnumInv, Restart
<1>1. defined \subseteq defined' /\ defined' \subseteq Firmwares /\ firmware' \in [Hosts -> Firmwares]
      /\ \A g \in Hosts : firmware'[g] \in defined'
  OBVIOUS
<1>2. TypesWereDefined'
  BY <1>1 DEF TypesWereDefined
<1>3. PassedNamesAreKnown'
  BY DEF PassedNamesAreKnown
<1>4. EnumerationArrives'
  BY <1>1 DEF EnumerationArrives, Disputed
<1>5. ConnectedTypesAreKnown'
  BY DEF ConnectedTypesAreKnown
<1> QED BY <1>1, <1>2, <1>3, <1>4, <1>5

\* A type is taken over, or passed over.
LEMMA AddTypeKeeps ==
  ASSUME EnumInv, NEW n \in connecting.left, AddEnumerationType(n)
  PROVE  EnumInv'
<1> DEFINE h == connecting.host
<1>1. h \in Hosts /\ n \in DOMAIN firmware[h] /\ firmware[h] \in defined
      /\ UNCHANGED <<firmware, connectedTo, shown, defined>>
  BY DEF AddEnumerationType, EnumInv, PassedNamesAreKnown
<1>2. /\ DOMAIN typeManager' = DOMAIN typeManager \cup {n}
      /\ \A m \in DOMAIN typeManager : typeManager'[m] = typeManager[m]
      /\ n \notin DOMAIN typeManager => typeManager'[n] = Labels(firmware[h][n])
  BY DEF AddEnumerationType
<1>3. TypesWereDefined'
  <2>1. ASSUME NEW m \in DOMAIN typeManager
        PROVE  \E f \in defined : m \in DOMAIN f /\ typeManager'[m] = Labels(f[m])
    <3>1. PICK f \in defined : m \in DOMAIN f /\ typeManager[m] = Labels(f[m])
      BY DEF EnumInv, TypesWereDefined
    <3>2. typeManager'[m] = typeManager[m]
      BY <1>2
    <3> QED BY <3>1, <3>2
  <2>2. CASE n \notin DOMAIN typeManager
    BY <1>1, <1>2, <2>1, <2>2 DEF TypesWereDefined
  <2>3. CASE n \in DOMAIN typeManager
    BY <1>1, <1>2, <2>1, <2>3 DEF TypesWereDefined
  <2> QED BY <2>2, <2>3
<1>4. PassedNamesAreKnown'
  <2>1. connecting # Unshown /\ connecting' = [connecting EXCEPT !.left = @ \ {n}]
    BY DEF AddEnumerationType
  <2>2. connecting' # Unshown => connecting'.host = h /\ connecting'.left = connecting.left \ {n}
    BY <2>1
  <2> QED BY <1>1, <1>2, <2>1, <2>2 DEF EnumInv, PassedNamesAreKnown
<1>5. EnumerationArrives' /\ ConnectedTypesAreKnown'
  BY <1>1, <1>2 DEF EnumInv, EnumerationArrives, Disputed, ConnectedTypesAreKnown
<1> QED BY <1>1, <1>3, <1>4, <1>5 DEF EnumInv

\* A value is read: its label is that of its server, as all definitions of a name
\* that is not disputed are one.
LEMMA ReadEnumerationKeeps ==
  ASSUME EnumInv, NEW h \in Hosts, NEW n \in DOMAIN firmware[h], NEW i \in DOMAIN firmware[h][n],
         ReadEnumeration(h, n, i)
  PROVE  EnumInv'
<1> USE DEF EnumInv
<1>1. n \in DOMAIN typeManager /\ UNCHANGED <<firmware, typeManager, connecting, connectedTo, defined>>
  BY DEF ReadEnumeration, ConnectedTypesAreKnown
<1>2. ASSUME ~Disputed(n), Counted(firmware[h][n])
      PROVE  shown'.label = firmware[h][n][i].label
  <2>1. PICK f \in defined : n \in DOMAIN f /\ typeManager[n] = Labels(f[n])
    BY <1>1 DEF TypesWereDefined
  <2>2. f[n] = firmware[h][n]
    BY <1>2, <2>1 DEF Disputed
  <2>3. firmware[h][n][i].value + 1 = i
    BY <1>2 DEF Counted
  <2>4. i \in DOMAIN typeManager[n] /\ typeManager[n][i] = firmware[h][n][i].label
    BY <2>1, <2>2 DEF Labels
  <2> QED BY <2>3, <2>4 DEF ReadEnumeration
<1>3. shown'.name = n /\ shown'.counted = Counted(firmware[h][n]) /\ shown'.is = firmware[h][n][i]
  BY DEF ReadEnumeration
<1>4. EnumerationArrives'
  BY <1>1, <1>2, <1>3 DEF EnumerationArrives, Disputed
<1>5. TypesWereDefined' /\ PassedNamesAreKnown' /\ ConnectedTypesAreKnown'
  BY <1>1 DEF TypesWereDefined, PassedNamesAreKnown, ConnectedTypesAreKnown
<1> QED BY <1>1, <1>4, <1>5

LEMMA EnumStep ==
  ASSUME EnumInv, [EnumTypesNext]_enumVars
  PROVE  EnumInv'
<1> USE DEF EnumInv, TypesWereDefined, PassedNamesAreKnown, EnumerationArrives, ConnectedTypesAreKnown, Disputed
<1>1. CASE UNCHANGED enumVars
  BY <1>1 DEF enumVars
<1>2. CASE \E h \in Hosts : BeginConnect(h)
  BY <1>2 DEF BeginConnect
<1>3. CASE \E h \in Hosts : Disconnect(h)
  BY <1>3 DEF Disconnect
<1>4. CASE ReadLabelsFails
  BY <1>4 DEF ReadLabelsFails
<1>5. CASE Connected
  BY <1>5 DEF Connected
<1> QED BY <1>1, <1>2, <1>3, <1>4, <1>5, RestartKeeps, AddTypeKeeps, ReadEnumerationKeeps DEF EnumTypesNext

-----------------------------------------------------------------------------
(* BlockMirror: the blocks of the device, the server's and the clients' *)

\* Serial numbers grow along a list.
Growing(s) == \A i, j \in DOMAIN s : i < j => s[i].made < s[j].made

LEMMA AppendGrows ==
  ASSUME NEW S, NEW s \in Seq(S), NEW x \in S
  PROVE  /\ Append(s, x) \in Seq(S) /\ Len(Append(s, x)) = Len(s) + 1
         /\ \A i \in DOMAIN s : Append(s, x)[i] = s[i]
         /\ Append(s, x)[Len(s) + 1] = x
         /\ ToSet(Append(s, x)) = ToSet(s) \cup {x}
         /\ Growing(s) /\ (\A i \in DOMAIN s : s[i].made < x.made) => Growing(Append(s, x))
<1>1. /\ Append(s, x) \in Seq(S) /\ Len(Append(s, x)) = Len(s) + 1 /\ Len(s) \in Nat
      /\ DOMAIN s = 1..Len(s) /\ DOMAIN Append(s, x) = 1..(Len(s) + 1)
      /\ \A i \in DOMAIN s : Append(s, x)[i] = s[i]
      /\ Append(s, x)[Len(s) + 1] = x
  BY AppendProperties
<1>2. ToSet(Append(s, x)) = ToSet(s) \cup {x}
  BY <1>1 DEF ToSet
<1>3. Growing(s) /\ (\A i \in DOMAIN s : s[i].made < x.made) => Growing(Append(s, x))
  BY <1>1 DEF Growing
<1> QED BY <1>1, <1>2, <1>3

\* A list of which one place is erased.
LEMMA EraseKeeps ==
  ASSUME NEW S, NEW s \in Seq(S), NEW i \in DOMAIN s
  PROVE  /\ RemoveAt(s, i) \in Seq(S)
         /\ \A j \in DOMAIN RemoveAt(s, i) :
              /\ RemoveAt(s, i)[j] = IF j < i THEN s[j] ELSE s[j + 1]
              /\ j \in DOMAIN s /\ j + 1 \in DOMAIN s
         /\ ToSet(RemoveAt(s, i)) = {s[j] : j \in DOMAIN s \ {i}}
         /\ (\A j \in DOMAIN s : s[j].made \in Int) /\ Growing(s) => Growing(RemoveAt(s, i))
<1> DEFINE front == SubSeq(s, 1, i - 1)  back == SubSeq(s, i + 1, Len(s))
<1>1. Len(s) \in Nat /\ DOMAIN s = 1..Len(s) /\ \A j \in 1..Len(s) : s[j] \in S
  OBVIOUS
<1>2. /\ front \in Seq(S) /\ Len(front) = i - 1
      /\ \A j \in 1..(i - 1) : front[j] = s[j]
  BY <1>1, SubSeqProperties
<1>3. /\ back \in Seq(S) /\ Len(back) = Len(s) - i
      /\ \A j \in 1..(Len(s) - i) : back[j] = s[j + i]
  BY <1>1, SubSeqProperties
<1>4. /\ RemoveAt(s, i) \in Seq(S) /\ Len(RemoveAt(s, i)) = Len(s) - 1
      /\ \A j \in 1..(Len(s) - 1) : RemoveAt(s, i)[j] = IF j < i THEN s[j] ELSE s[j + 1]
  <2> HIDE DEF front, back
  <2>1. /\ front \o back \in Seq(S) /\ Len(front \o back) = Len(front) + Len(back)
        /\ \A j \in 1..(Len(front) + Len(back)) :
             (front \o back)[j] = IF j <= Len(front) THEN front[j] ELSE back[j - Len(front)]
    BY <1>2, <1>3, ConcatProperties
  <2>2. Len(front) + Len(back) = Len(s) - 1
    BY <1>1, <1>2, <1>3
  <2>3. ASSUME NEW j \in 1..(Len(s) - 1) PROVE (front \o back)[j] = IF j < i THEN s[j] ELSE s[j + 1]
    <3>1. CASE j < i
      BY <1>1, <1>2, <2>1, <2>2, <3>1
    <3>2. CASE ~(j < i)
      <4>1. j - (i - 1) \in 1..(Len(s) - i) /\ (j - (i - 1)) + i = j + 1 /\ ~(j <= Len(front))
        BY <1>1, <1>2, <3>2
      <4> QED BY <1>2, <1>3, <2>1, <2>2, <3>2, <4>1
    <3> QED BY <3>1, <3>2
  <2> QED BY <2>1, <2>2, <2>3 DEF RemoveAt, front, back
<1>5. DOMAIN RemoveAt(s, i) = 1..(Len(s) - 1)
  BY <1>4
<1>6. ToSet(RemoveAt(s, i)) = {s[j] : j \in DOMAIN s \ {i}}
  <2>1. ASSUME NEW j \in DOMAIN s \ {i} PROVE \E k \in DOMAIN RemoveAt(s, i) : RemoveAt(s, i)[k] = s[j]
    <3>1. CASE j < i
      BY <1>1, <1>4, <1>5, <3>1
    <3>2. CASE j > i
      <4>1. j - 1 \in 1..(Len(s) - 1) /\ ~(j - 1 < i) /\ (j - 1) + 1 = j
        BY <1>1, <3>2
      <4> QED BY <1>4, <1>5, <4>1
    <3> QED BY <1>1, <3>1, <3>2
  <2>2. ASSUME NEW k \in DOMAIN RemoveAt(s, i) PROVE \E j \in DOMAIN s \ {i} : RemoveAt(s, i)[k] = s[j]
    <3>1. k < i => k \in DOMAIN s \ {i}
      BY <1>1, <1>5
    <3>2. ~(k < i) => k + 1 \in DOMAIN s \ {i}
      BY <1>1, <1>5
    <3> QED BY <1>4, <1>5, <3>1, <3>2
  <2> QED BY <2>1, <2>2 DEF ToSet
<1>7. ASSUME \A j \in DOMAIN s : s[j].made \in Int, Growing(s) PROVE Growing(RemoveAt(s, i))
  <2> SUFFICES ASSUME NEW j \in 1..(Len(s) - 1), NEW k \in 1..(Len(s) - 1), j < k
               PROVE  RemoveAt(s, i)[j].made < RemoveAt(s, i)[k].made
    BY <1>5 DEF Growing
  <2> DEFINE a == IF j < i THEN j ELSE j + 1
             b == IF k < i THEN k ELSE k + 1
  <2>1. a \in DOMAIN s /\ b \in DOMAIN s /\ a < b
    BY <1>1
  <2>2. RemoveAt(s, i)[j] = s[a] /\ RemoveAt(s, i)[k] = s[b]
    BY <1>4
  <2> HIDE DEF a, b
  <2> QED BY <1>7, <2>1, <2>2 DEF Growing
<1> QED BY <1>1, <1>4, <1>5, <1>6, <1>7

-----------------------------------------------------------------------------
(* The inductive invariant *)

BlockRecords == [id : BlockIds, made : 1..made]
ShownRecords == [id : BlockIds, made : 1..made, values : 1..made]
NodeRecords == [made : 1..made, number : Nat, name : Names]

\* The two lists of the server: an id and a serial number are one block's.
ListsOfBlocks ==
  /\ made \in 0..MaxBlocks
  /\ device \in Seq(BlockRecords) /\ tms \in Seq(BlockRecords)
  /\ Growing(device) /\ Growing(tms)
  /\ \A b, x \in ToSet(device) : b.id = x.id => b = x
  /\ \A b, x \in ToSet(tms) : b.id = x.id => b = x
  /\ \A b \in ToSet(device), x \in ToSet(tms) : b.made = x.made => b = x
  /\ MirrorDiffersWhereTold

\* Nodes and objects, numbered in the order of the list until one goes.
NodesOfBlocks ==
  /\ blockNode \in [BlockIds -> {Absent} \cup NodeRecords]
  /\ registry \in [BlockIds -> {Absent} \cup 1..made]
  /\ ToSet(tms) = {Block(id, blockNode[id].made) : id \in {x \in BlockIds : HasNode(x)}}
  /\ ~shrunk => \A i \in DOMAIN tms : blockNode[tms[i].id].number = i - 1
  /\ blockName \in [Blocks -> Names] /\ \A n \in Blocks : n > made => blockName[n] = "first"
  /\ FirstBlockIsHeard

\* What a client shows it has read since it connected.
ClientsHaveRead ==
  /\ shows \in [BlockClients -> {Absent} \cup Seq(ShownRecords)]
  /\ known \in [BlockClients -> [BlockIds -> {Absent} \cup 1..made]]
  /\ \A c \in BlockClients :
       /\ shows[c] = Absent => \A id \in BlockIds : known[c][id] = Absent
       /\ shows[c] # Absent =>
            /\ \A b \in ToSet(shows[c]) : known[c][b.id] = b.values /\ b.values <= b.made
            /\ ~shrunk => Growing(shows[c])

BlockInv == ListsOfBlocks /\ NodesOfBlocks /\ ClientsHaveRead

\* A block's id and number are those of one place.
LEMMA PlaceOfBlock ==
  ASSUME ListsOfBlocks, NEW s \in {device, tms}
  PROVE  /\ s \in Seq(BlockRecords) /\ Growing(s) /\ DOMAIN s = 1..Len(s) /\ Len(s) \in Nat
         /\ \A i \in DOMAIN s : s[i] \in ToSet(s) /\ s[i] \in BlockRecords
         /\ \A b \in ToSet(s) : b \in BlockRecords
         /\ \A i, j \in DOMAIN s : s[i].id = s[j].id => i = j
         /\ \A b, x \in ToSet(s) : b.made = x.made => b = x
<1>1. s \in Seq(BlockRecords) /\ Growing(s) /\ made \in Nat
  BY DEF ListsOfBlocks
<1>2. DOMAIN s = 1..Len(s) /\ Len(s) \in Nat /\ \A i \in DOMAIN s : s[i] \in BlockRecords
  BY <1>1
<1>4. \A i \in DOMAIN s : s[i] \in ToSet(s)
  BY DEF ToSet
<1>3. \A i, j \in DOMAIN s : s[i].made = s[j].made => i = j
  <2> SUFFICES ASSUME NEW i \in DOMAIN s, NEW j \in DOMAIN s, i < j PROVE s[i].made # s[j].made
    BY <1>2
  <2> QED BY <1>1, <1>2 DEF Growing, BlockRecords
<1>5. \A b, x \in ToSet(s) : b.id = x.id => b = x
  BY DEF ListsOfBlocks
<1>6. \A b \in ToSet(s) : b \in BlockRecords
  BY <1>2 DEF ToSet
<1>7. \A b, x \in ToSet(s) : b.made = x.made => b = x
  BY <1>3 DEF ToSet
<1> QED BY <1>1, <1>2, <1>3, <1>4, <1>5, <1>6, <1>7

\* Erasing the block with an id.
LEMMA WithoutKeeps ==
  ASSUME ListsOfBlocks, NEW s \in {device, tms}, NEW id
  PROVE  /\ Without(s, id) \in Seq(BlockRecords) /\ Growing(Without(s, id))
         /\ ToSet(Without(s, id)) = {b \in ToSet(s) : b.id # id}
<1>1. /\ s \in Seq(BlockRecords) /\ Growing(s)
      /\ \A i \in DOMAIN s : s[i] \in ToSet(s) /\ s[i] \in BlockRecords
      /\ \A i, j \in DOMAIN s : s[i].id = s[j].id => i = j
  BY PlaceOfBlock
<1>2. CASE id \in Ids(s)
  <2>1. PICK i \in DOMAIN s : s[i].id = id /\ Without(s, id) = RemoveAt(s, i)
    BY <1>2 DEF Without, Ids, ToSet
  <2>2. \A j \in DOMAIN s : s[j].made \in Int
    BY <1>1 DEF BlockRecords
  <2>3. Without(s, id) \in Seq(BlockRecords) /\ Growing(Without(s, id))
        /\ ToSet(Without(s, id)) = {s[j] : j \in DOMAIN s \ {i}}
    BY <1>1, <2>1, <2>2, EraseKeeps
  <2>4. {s[j] : j \in DOMAIN s \ {i}} = {b \in ToSet(s) : b.id # id}
    BY <1>1, <2>1 DEF ToSet
  <2> QED BY <2>3, <2>4
<1>3. CASE id \notin Ids(s)
  BY <1>1, <1>3 DEF Without, Ids
<1> QED BY <1>2, <1>3


LEMMA AbsentIsApart ==
  /\ MaxBlocks \in Nat /\ 2 <= MaxBlocks
  /\ Absent \notin Nat
  /\ Absent \notin [made : Nat, number : Nat, name : Names]
  /\ Absent \notin Seq([id : BlockIds, made : Nat, values : Nat])
BY BlockMirrorAssumption

\* The device of the server has some blocks when it starts.
LEMMA BlocksInitially == BlockMirrorInit => BlockInv
<1> SUFFICES ASSUME BlockMirrorInit PROVE BlockInv
  OBVIOUS
<1>1. PICK n \in 0..2, f \in {g \in [1..2 -> BlockIds] : IsInjective(g)} :
        device = [i \in 1..n |-> Block(f[i], i)] /\ made = n
  BY DEF BlockMirrorInit
<1>2. /\ n \in Nat /\ n <= 2 /\ made = n /\ device \in Seq(BlockRecords) /\ tms = device
      /\ DOMAIN device = 1..n /\ \A i \in 1..n : device[i] = Block(f[i], i) /\ device[i].id = f[i] /\ device[i].made = i
      /\ \A i \in 1..n : f[i] \in BlockIds
  BY <1>1 DEF BlockMirrorInit, BlockRecords, Block
<1>3. \A i, j \in 1..n : f[i] = f[j] => i = j
  BY <1>1, <1>2 DEF IsInjective
<1> DEFINE Node(i) == [made |-> i, number |-> i - 1, name |-> "first"]
<1>4. /\ \A i \in 1..n : blockNode[f[i]] = Node(i) /\ f[i] \in Ids(device)
      /\ \A id \in BlockIds : id \in Ids(device) => \E i \in 1..n : f[i] = id
      /\ \A id \in BlockIds : id \notin Ids(device) => blockNode[id] = Absent
  <2>1. \A i \in 1..n : f[i] \in Ids(device)
    BY <1>2 DEF Ids, ToSet
  <2>2. ASSUME NEW i \in 1..n PROVE blockNode[f[i]] = Node(i)
    <3>1. (CHOOSE j \in DOMAIN device : device[j].id = f[i]) = i
      BY <1>2, <1>3
    <3> QED BY <1>2, <2>1, <3>1 DEF BlockMirrorInit
  <2>3. \A id \in BlockIds : id \in Ids(device) => \E i \in 1..n : f[i] = id
    BY <1>2 DEF Ids, ToSet
  <2>4. \A id \in BlockIds : id \notin Ids(device) => blockNode[id] = Absent
    BY DEF BlockMirrorInit
  <2> QED BY <2>1, <2>2, <2>3, <2>4
<1>5. ListsOfBlocks
  <2>1. MirrorDiffersWhereTold /\ apart = {} /\ dangling = {}
    BY <1>2 DEF MirrorDiffersWhereTold, BlockMirrorInit
  <2>2. Growing(device)
    BY <1>2 DEF Growing
  <2>3. \A b \in ToSet(device) : \E i \in 1..n : b = device[i]
    BY <1>2 DEF ToSet
  <2>4. \A b, x \in ToSet(device) : b.id = x.id \/ b.made = x.made => b = x
    BY <1>2, <1>3, <2>3
  <2> QED BY <1>2, <2>1, <2>2, <2>4, AbsentIsApart DEF ListsOfBlocks
<1>6. NodesOfBlocks
  <2>1. \A i \in 1..n : /\ Node(i) \in NodeRecords /\ Node(i) # Absent
                        /\ Node(i).made = i /\ Node(i).number = i - 1 /\ Node(i).name = "first"
    BY <1>2, AbsentIsApart DEF NodeRecords, Names
  <2> HIDE DEF Node
  <2>2. \A id \in BlockIds : HasNode(id) <=> id \in Ids(device)
    BY <1>4, <2>1 DEF HasNode
  <2>3. blockNode \in [BlockIds -> {Absent} \cup NodeRecords]
    <3>1. blockNode = [id \in BlockIds |-> blockNode[id]]
      BY DEF BlockMirrorInit
    <3>2. \A id \in BlockIds : blockNode[id] \in {Absent} \cup NodeRecords
      BY <1>4, <2>1
    <3> QED BY <3>1, <3>2
  <2>4. \A i \in 1..n : registry[f[i]] = i
    BY <1>2, <1>4, <2>1, <2>2 DEF BlockMirrorInit
  <2>5. \A id \in BlockIds : id \notin Ids(device) => registry[id] = Absent
    BY <2>2 DEF BlockMirrorInit
  <2>6. registry \in [BlockIds -> {Absent} \cup 1..made]
    <3>1. registry = [id \in BlockIds |-> registry[id]]
      BY DEF BlockMirrorInit
    <3> QED BY <1>2, <1>4, <2>4, <2>5, <3>1
  <2>7. ToSet(tms) = {Block(id, blockNode[id].made) : id \in {x \in BlockIds : HasNode(x)}}
    <3>1. \A i \in 1..n : device[i] = Block(f[i], blockNode[f[i]].made)
      BY <1>2, <1>4, <2>1
    <3>2. ToSet(tms) = {device[i] : i \in 1..n}
      BY <1>2 DEF ToSet
    <3> QED BY <1>2, <1>4, <2>1, <2>2, <3>1, <3>2
  <2>8. blockName \in [Blocks -> Names] /\ \A m \in Blocks : blockName[m] = "first"
    BY DEF BlockMirrorInit, Names
  <2>9. FirstBlockIsHeard
    <3> SUFFICES ASSUME NEW i \in 1..n
                 PROVE  /\ registry[f[i]] # Absent /\ registry[f[i]] <= blockNode[f[i]].made
                        /\ blockNode[f[i]].name = blockName[registry[f[i]]]
      BY <1>4, <2>2 DEF FirstBlockIsHeard
    <3>1. i \in Blocks
      BY <1>2, AbsentIsApart DEF Blocks
    <3> QED BY <1>2, <1>4, <2>1, <2>4, <2>8, <3>1, AbsentIsApart
  <2> QED BY <1>2, <1>4, <2>1, <2>3, <2>6, <2>7, <2>8, <2>9 DEF NodesOfBlocks
<1>7. ClientsHaveRead
  BY DEF ClientsHaveRead, BlockMirrorInit
<1> QED BY <1>5, <1>6, <1>7 DEF BlockInv

-----------------------------------------------------------------------------
(* The steps: the two lists *)

\* The numbers of blocks grow.
LEMMA MoreNumbers ==
  ASSUME made \in Nat, made' = made + 1
  PROVE  BlockRecords \subseteq BlockRecords' /\ NodeRecords \subseteq NodeRecords' /\ ShownRecords \subseteq ShownRecords'
BY DEF BlockRecords, NodeRecords, ShownRecords

\* A list gets a block that is made, with an id it does not have.
LEMMA ListGrows ==
  ASSUME ListsOfBlocks, NEW s \in {device, tms}, NEW id \in BlockIds, id \notin Ids(s), made < MaxBlocks, made' = made + 1,
         NEW t, t = Append(s, Block(id, made'))
  PROVE  /\ made' \in 0..MaxBlocks /\ t \in Seq(BlockRecords') /\ Growing(t) /\ Len(t) = Len(s) + 1
         /\ \A i \in DOMAIN s : t[i] = s[i]
         /\ t[Len(s) + 1] = Block(id, made')
         /\ ToSet(t) = ToSet(s) \cup {Block(id, made')}
         /\ \A b \in ToSet(s) : b.id # id
<1>1. /\ s \in Seq(BlockRecords) /\ Growing(s) /\ \A i \in DOMAIN s : s[i] \in BlockRecords
      /\ made \in Nat
  BY PlaceOfBlock DEF ListsOfBlocks
<1>2. s \in Seq(BlockRecords')
  BY <1>1, MoreNumbers, SeqMonotonic
<1>3. made' \in 0..MaxBlocks /\ Block(id, made') \in BlockRecords'
  BY <1>1, AbsentIsApart DEF BlockRecords, Block
<1>4. \A i \in DOMAIN s : s[i].made < Block(id, made').made
  BY <1>1 DEF BlockRecords, Block
<1>5. \A b \in ToSet(s) : b.id # id
  BY DEF Ids
<1> QED BY <1>1, <1>2, <1>3, <1>4, <1>5, AppendGrows

LEMMA ServerListGrows ==
  ASSUME ListsOfBlocks, NEW id \in BlockIds, id \notin Ids(tms), made < MaxBlocks, made' = made + 1,
         tms' = Append(tms, Block(id, made'))
  PROVE  /\ made' \in 0..MaxBlocks /\ tms' \in Seq(BlockRecords') /\ Len(tms') = Len(tms) + 1
         /\ \A i \in DOMAIN tms : tms'[i] = tms[i]
         /\ tms'[Len(tms) + 1] = Block(id, made')
         /\ ToSet(tms') = ToSet(tms) \cup {Block(id, made')}
<1>1. made' \in 0..MaxBlocks /\ tms' \in Seq(BlockRecords')
  BY ListGrows
<1>2. Len(tms') = Len(tms) + 1
  BY ListGrows
<1>3. \A i \in DOMAIN tms : tms'[i] = tms[i]
  BY ListGrows
<1>4. tms'[Len(tms) + 1] = Block(id, made')
  BY ListGrows
<1>5. ToSet(tms') = ToSet(tms) \cup {Block(id, made')}
  BY ListGrows
<1> QED BY <1>1, <1>2, <1>3, <1>4, <1>5

\* What is made is new.
LEMMA NewBlock ==
  ASSUME ListsOfBlocks, made' = made + 1
  PROVE  /\ \A b \in ToSet(device) \cup ToSet(tms) : b \in BlockRecords /\ b.made # made'
         /\ made' \notin Numbers(device) \cup Numbers(tms) \cup apart \cup dangling
<1>1. \A b \in ToSet(device) \cup ToSet(tms) : b \in BlockRecords
  BY PlaceOfBlock
<1>2. \A b \in ToSet(device) \cup ToSet(tms) : b.made # made'
  BY <1>1 DEF BlockRecords, ListsOfBlocks
<1> QED BY <1>1, <1>2 DEF Numbers, ListsOfBlocks, MirrorDiffersWhereTold

LEMMA AddsKeepLists ==
  ASSUME ListsOfBlocks, NEW id \in BlockIds,
         made < MaxBlocks, id \notin Ids(device), made' = made + 1, device' = Append(device, Block(id, made')),
         dangling' = dangling,
         \/ tms' = tms /\ apart' = apart \cup {made'}
         \/ tms' = Append(tms, Block(id, made')) /\ apart' = apart /\ id \notin Ids(tms)
  PROVE  ListsOfBlocks'
<1> DEFINE new == Block(id, made')
<1>1. /\ made' \in 0..MaxBlocks /\ device' \in Seq(BlockRecords') /\ Growing(device')
      /\ ToSet(device') = ToSet(device) \cup {new} /\ \A b \in ToSet(device) : b.id # id
  BY ListGrows
<1>2. new.id = id /\ new.made = made'
  BY DEF Block
<1>3. /\ \A b \in ToSet(device) \cup ToSet(tms) : b.made # made'
      /\ made' \notin Numbers(device) \cup Numbers(tms)
  BY NewBlock
<1>4. /\ \A b, x \in ToSet(device) : b.id = x.id => b = x
      /\ \A b, x \in ToSet(tms) : b.id = x.id => b = x
      /\ \A b \in ToSet(device), x \in ToSet(tms) : b.made = x.made => b = x
      /\ tms \in Seq(BlockRecords) /\ Growing(tms)
      /\ Numbers(device) \ Numbers(tms) = apart /\ Numbers(tms) \ Numbers(device) = dangling
  BY DEF ListsOfBlocks, MirrorDiffersWhereTold
<1> HIDE DEF new
<1>5. \A b, x \in ToSet(device') : b.id = x.id => b = x
  BY <1>1, <1>2, <1>4
<1>6. Numbers(device') = Numbers(device) \cup {made'}
  BY <1>1, <1>2 DEF Numbers
<1>7. CASE tms' = tms /\ apart' = apart \cup {made'}
  <2>1. tms' \in Seq(BlockRecords')
    BY <1>4, <1>7, MoreNumbers, SeqMonotonic DEF ListsOfBlocks
  <2>2. \A b \in ToSet(device'), x \in ToSet(tms') : b.made = x.made => b = x
    BY <1>1, <1>2, <1>3, <1>4, <1>7
  <2>3. MirrorDiffersWhereTold'
    BY <1>3, <1>4, <1>6, <1>7 DEF MirrorDiffersWhereTold
  <2> QED BY <1>1, <1>4, <1>5, <1>7, <2>1, <2>2, <2>3 DEF ListsOfBlocks
<1>8. CASE tms' = Append(tms, Block(id, made')) /\ apart' = apart /\ id \notin Ids(tms)
  <2>1. /\ tms' \in Seq(BlockRecords') /\ Growing(tms')
        /\ ToSet(tms') = ToSet(tms) \cup {new} /\ \A b \in ToSet(tms) : b.id # id
    BY <1>8, ListGrows DEF new
  <2>2. \A b, x \in ToSet(tms') : b.id = x.id => b = x
    BY <1>2, <1>4, <2>1
  <2>3. \A b \in ToSet(device'), x \in ToSet(tms') : b.made = x.made => b = x
    BY <1>1, <1>2, <1>3, <1>4, <2>1
  <2>4. Numbers(tms') = Numbers(tms) \cup {made'}
    BY <1>2, <2>1 DEF Numbers
  <2>5. MirrorDiffersWhereTold'
    BY <1>3, <1>4, <1>6, <1>8, <2>4 DEF MirrorDiffersWhereTold
  <2> QED BY <1>1, <1>5, <2>1, <2>2, <2>3, <2>5 DEF ListsOfBlocks
<1> QED BY <1>7, <1>8

\* A list loses the block with an id: the other one may keep it.
LEMMA RemovalsKeepLists ==
  ASSUME ListsOfBlocks, NEW id \in BlockIds, made' = made,
         \/ device' = Without(device, id) /\ tms' = tms /\ apart' = apart \ With(device, id)
              /\ dangling' = dangling \cup (With(device, id) \ apart)
         \/ device' = device /\ tms' = Without(tms, id) /\ apart' = apart \cup With(device, id)
              /\ dangling' = dangling \ With(tms, id)
         \/ device' = Without(device, id) /\ tms' = Without(tms, id) /\ apart' = apart \ With(device, id)
              /\ dangling' = dangling \ With(tms, id)
  PROVE  ListsOfBlocks'
<1>1. BlockRecords' = BlockRecords
  BY DEF BlockRecords
<1>2. /\ device' \in Seq(BlockRecords) /\ Growing(device') /\ tms' \in Seq(BlockRecords) /\ Growing(tms')
      /\ device' = Without(device, id) => ToSet(device') = {b \in ToSet(device) : b.id # id}
      /\ tms' = Without(tms, id) => ToSet(tms') = {b \in ToSet(tms) : b.id # id}
  BY WithoutKeeps DEF ListsOfBlocks
<1>3. /\ \A b, x \in ToSet(device) : b.id = x.id => b = x
      /\ \A b, x \in ToSet(tms) : b.id = x.id => b = x
      /\ \A b \in ToSet(device), x \in ToSet(tms) : b.made = x.made => b = x
      /\ Numbers(device) \ Numbers(tms) = apart /\ Numbers(tms) \ Numbers(device) = dangling
      /\ made \in 0..MaxBlocks
  BY DEF ListsOfBlocks, MirrorDiffersWhereTold
<1> DEFINE W == With(device, id)  V == With(tms, id)  Nd == Numbers(device)  Nt == Numbers(tms)
<1>4. Nd \cap V \subseteq W /\ Nt \cap W \subseteq V
  BY <1>3 DEF With, Numbers
<1>5. /\ device' = Without(device, id) => Numbers(device') = Nd \ W
      /\ tms' = Without(tms, id) => Numbers(tms') = Nt \ V
  <2>1. /\ \A b, x \in ToSet(device) : b.made = x.made => b = x
        /\ \A b, x \in ToSet(tms) : b.made = x.made => b = x
    BY PlaceOfBlock
  <2> QED BY <1>2, <2>1 DEF With, Numbers
<1> HIDE DEF W, V, Nd, Nt
<1>6. MirrorDiffersWhereTold'
  <2>1. Nd \ Nt = apart /\ Nt \ Nd = dangling
    BY <1>3 DEF Nd, Nt
  <2>2. CASE device' = Without(device, id) /\ tms' = tms /\ apart' = apart \ W /\ dangling' = dangling \cup (W \ apart)
    <3>1. Numbers(device') = Nd \ W /\ Numbers(tms') = Nt
      BY <1>5, <2>2 DEF Nt
    <3>2. (Nd \ W) \ Nt = apart \ W
      BY <2>1
    <3>3. Nt \ (Nd \ W) = dangling \cup (W \ apart)
      <4>1. W \subseteq Nd
        BY DEF W, Nd, With, Numbers
      <4> QED BY <1>4, <2>1, <4>1
    <3> QED BY <2>2, <3>1, <3>2, <3>3 DEF MirrorDiffersWhereTold
  <2>3. CASE device' = device /\ tms' = Without(tms, id) /\ apart' = apart \cup W /\ dangling' = dangling \ V
    <3>1. Numbers(device') = Nd /\ Numbers(tms') = Nt \ V
      BY <1>5, <2>3 DEF Nd
    <3>2. W \subseteq Nd
      BY DEF W, Nd, With, Numbers
    <3> QED BY <1>4, <2>1, <2>3, <3>1, <3>2 DEF MirrorDiffersWhereTold
  <2>4. CASE device' = Without(device, id) /\ tms' = Without(tms, id) /\ apart' = apart \ W /\ dangling' = dangling \ V
    <3>1. Numbers(device') = Nd \ W /\ Numbers(tms') = Nt \ V
      BY <1>5, <2>4
    <3> QED BY <1>4, <2>1, <2>4, <3>1 DEF MirrorDiffersWhereTold
  <2> QED BY <2>2, <2>3, <2>4 DEF W, V
<1>7. ToSet(device') \subseteq ToSet(device) /\ ToSet(tms') \subseteq ToSet(tms)
  BY <1>2
<1> QED BY <1>1, <1>2, <1>3, <1>6, <1>7 DEF ListsOfBlocks

-----------------------------------------------------------------------------
(* The steps: the nodes *)

\* A node is an entry of the server's list.
LEMMA NodeOfEntry ==
  ASSUME ListsOfBlocks, NodesOfBlocks
  PROVE  /\ \A id \in BlockIds : HasNode(id) <=> id \in Ids(tms)
         /\ \A i \in DOMAIN tms : tms[i].id \in BlockIds /\ HasNode(tms[i].id) /\ blockNode[tms[i].id].made = tms[i].made
         /\ \A id \in BlockIds : HasNode(id) => blockNode[id] \in NodeRecords
<1>1. ToSet(tms) = {Block(id, blockNode[id].made) : id \in {x \in BlockIds : HasNode(x)}}
  BY DEF NodesOfBlocks
<1>2. \A b \in ToSet(tms) : b.id \in BlockIds /\ HasNode(b.id) /\ b.made = blockNode[b.id].made
  BY <1>1 DEF Block
<1>3. ASSUME NEW id \in BlockIds, HasNode(id) PROVE id \in Ids(tms)
  <2>1. Block(id, blockNode[id].made) \in ToSet(tms) /\ Block(id, blockNode[id].made).id = id
    BY <1>1, <1>3 DEF Block
  <2> QED BY <2>1 DEF Ids
<1>4. \A id \in BlockIds : HasNode(id) => blockNode[id] \in NodeRecords
  BY DEF NodesOfBlocks, HasNode
<1> QED BY <1>2, <1>3, <1>4 DEF Ids, ToSet

\* The device alone changes.
LEMMA DeviceKeepsNodes ==
  ASSUME ListsOfBlocks, NodesOfBlocks, UNCHANGED <<tms, blockNode, registry, blockName>>,
         ~shrunk' => ~shrunk, made' \in {made, made + 1},
         \A b \in ToSet(device') : b \in ToSet(device) \/ b.made = made + 1
  PROVE  NodesOfBlocks'
<1>1. made \in Nat /\ \A id \in BlockIds : HasNode(id)' = HasNode(id)
  BY DEF ListsOfBlocks, HasNode
<1>2. NodeRecords \subseteq NodeRecords' /\ 1..made \subseteq 1..made'
  BY <1>1 DEF NodeRecords
<1>3. FirstBlockIsHeard'
  <2> SUFFICES ASSUME NEW id \in BlockIds, HasNode(id), registry[id] = blockNode[id].made, Block(id, registry[id]) \in ToSet(device')
               PROVE  Block(id, registry[id]) \in ToSet(device)
    BY <1>1 DEF FirstBlockIsHeard, NodesOfBlocks
  <2>1. registry[id] \in 1..made
    BY NodeOfEntry DEF NodeRecords
  <2> QED BY <1>1, <2>1 DEF Block
<1>4. /\ blockNode' \in [BlockIds -> {Absent} \cup NodeRecords']
      /\ registry' \in [BlockIds -> {Absent} \cup 1..made']
  BY <1>2 DEF NodesOfBlocks
<1>5. ToSet(tms') = {Block(id, blockNode'[id].made) : id \in {x \in BlockIds : HasNode(x)'}}
  BY <1>1 DEF NodesOfBlocks
<1>6. /\ ~shrunk' => \A i \in DOMAIN tms' : blockNode'[tms'[i].id].number = i - 1
      /\ blockName' \in [Blocks -> Names]
  BY DEF NodesOfBlocks
<1>7. \A n \in Blocks : n > made' => blockName'[n] = "first"
  BY <1>1, AbsentIsApart DEF NodesOfBlocks, Blocks
<1> QED BY <1>3, <1>4, <1>5, <1>6, <1>7 DEF NodesOfBlocks

\* A block is added through the server and gets a node.
LEMMA NewNodeKeepsNodes ==
  ASSUME ListsOfBlocks, NodesOfBlocks, NEW id \in BlockIds, ~HasNode(id), id \notin Ids(device),
         made < MaxBlocks, made' = made + 1, device' = Append(device, Block(id, made')),
         tms' = Append(tms, Block(id, made')), blockNode' = NewNode(id, made'), registry' = Registered(id, made'),
         UNCHANGED <<blockName, shrunk>>
  PROVE  NodesOfBlocks'
<1> DEFINE node == [made |-> made', number |-> Len(tms), name |-> "first"]
           new == Block(id, made')
<1>1. id \notin Ids(tms) /\ \A x \in BlockIds : HasNode(x) => x # id
  BY NodeOfEntry
<1>2. /\ made' \in 0..MaxBlocks /\ Len(tms') = Len(tms) + 1 /\ tms' \in Seq(BlockRecords')
      /\ \A i \in DOMAIN tms : tms'[i] = tms[i]
      /\ tms'[Len(tms) + 1] = new
      /\ ToSet(tms') = ToSet(tms) \cup {new}
      /\ ToSet(device') = ToSet(device) \cup {new}
  <2>1. ToSet(device') = ToSet(device) \cup {new}
    BY ListGrows
  <2>3. /\ made' \in 0..MaxBlocks /\ tms' \in Seq(BlockRecords') /\ Len(tms') = Len(tms) + 1
        /\ \A i \in DOMAIN tms : tms'[i] = tms[i]
        /\ tms'[Len(tms) + 1] = Block(id, made')
        /\ ToSet(tms') = ToSet(tms) \cup {Block(id, made')}
    BY <1>1, ServerListGrows
  <2> QED BY <2>1, <2>3
<1>3. /\ blockNode' = [blockNode EXCEPT ![id] = node] /\ blockNode'[id] = node
      /\ \A x \in BlockIds \ {id} : blockNode'[x] = blockNode[x]
  BY DEF NewNode, NodesOfBlocks
<1>4. made \in Nat /\ Len(tms) \in Nat /\ tms \in Seq(BlockRecords)
  BY DEF ListsOfBlocks
<1>5. node \in NodeRecords' /\ node # Absent /\ node.made = made' /\ node.number = Len(tms) /\ node.name = "first"
  BY <1>4, AbsentIsApart DEF NodeRecords, Names
<1> HIDE DEF node
<1>6. \A x \in BlockIds : HasNode(x)' <=> HasNode(x) \/ x = id
  BY <1>3, <1>5 DEF HasNode
<1>7. blockNode' \in [BlockIds -> {Absent} \cup NodeRecords']
  BY <1>3, <1>4, <1>5, MoreNumbers DEF NodesOfBlocks
<1>8. /\ registry' \in [BlockIds -> {Absent} \cup 1..made']
      /\ \A x \in BlockIds \ {id} : registry'[x] = registry[x]
      /\ registry'[id] = IF registry[id] = Absent THEN made' ELSE registry[id]
  BY <1>4 DEF Registered, NodesOfBlocks
<1>9. ToSet(tms') = {Block(x, blockNode'[x].made) : x \in {y \in BlockIds : HasNode(y)'}}
  <2>1. ToSet(tms) = {Block(x, blockNode[x].made) : x \in {y \in BlockIds : HasNode(y)}}
    BY DEF NodesOfBlocks
  <2>2. new = Block(id, blockNode'[id].made)
    BY <1>3, <1>5
  <2>3. \A x \in BlockIds : HasNode(x) => Block(x, blockNode'[x].made) = Block(x, blockNode[x].made)
    BY <1>1, <1>3
  <2> HIDE DEF new
  <2> QED BY <1>2, <1>6, <2>1, <2>2, <2>3
<1>10. ~shrunk' => \A i \in DOMAIN tms' : blockNode'[tms'[i].id].number = i - 1
  <2> SUFFICES ASSUME ~shrunk, NEW i \in 1..(Len(tms) + 1) PROVE blockNode'[tms'[i].id].number = i - 1
    BY <1>2
  <2>1. CASE i \in DOMAIN tms
    <3>1. tms'[i] = tms[i] /\ tms[i].id \in BlockIds \ {id}
      BY <1>1, <1>2, <2>1, NodeOfEntry
    <3> QED BY <1>3, <2>1, <3>1 DEF NodesOfBlocks
  <2>2. CASE i = Len(tms) + 1
    BY <1>2, <1>3, <1>4, <1>5, <2>2 DEF Block
  <2> QED BY <1>4, <2>1, <2>2
<1>11. /\ blockName' \in [Blocks -> Names] /\ \A n \in Blocks : n > made' => blockName'[n] = "first"
       /\ blockName'[made'] = "first"
  BY <1>2, <1>4, AbsentIsApart DEF NodesOfBlocks, Blocks
<1>12. FirstBlockIsHeard'
  <2> SUFFICES ASSUME NEW x \in BlockIds, HasNode(x)'
               PROVE  /\ registry'[x] # Absent /\ registry'[x] <= blockNode'[x].made
                      /\ (registry'[x] = blockNode'[x].made /\ Block(x, registry'[x]) \in ToSet(device')
                            => blockNode'[x].name = blockName'[registry'[x]])
    BY DEF FirstBlockIsHeard
  <2>1. CASE x = id
    <3>1. registry[id] = Absent \/ registry[id] \in 1..made
      BY DEF NodesOfBlocks
    <3> QED BY <1>3, <1>4, <1>5, <1>8, <1>11, <2>1, <3>1, AbsentIsApart
  <2>2. CASE x # id
    <3>1. HasNode(x) /\ registry'[x] = registry[x] /\ blockNode'[x] = blockNode[x] /\ FirstBlockIsHeard
      BY <1>3, <1>6, <1>8, <2>2 DEF NodesOfBlocks
    <3>2. Block(x, registry[x]) # new
      BY <2>2 DEF Block
    <3> QED BY <1>2, <3>1, <3>2 DEF FirstBlockIsHeard
  <2> QED BY <2>1, <2>2
<1> QED BY <1>7, <1>8, <1>9, <1>10, <1>11, <1>12 DEF NodesOfBlocks

\* A block is removed through the server, whatever the device does then.
LEMMA RemovalKeepsNodes ==
  ASSUME ListsOfBlocks, NodesOfBlocks, NEW id \in BlockIds, ForgetBlock(id), ToSet(device') \subseteq ToSet(device),
         shrunk' = TRUE, UNCHANGED <<made, registry, blockName>>
  PROVE  NodesOfBlocks'
<1>1. /\ blockNode' \in [BlockIds -> {Absent} \cup NodeRecords] /\ blockNode'[id] = Absent
      /\ \A x \in BlockIds \ {id} : blockNode'[x] = blockNode[x]
  BY NodeOfEntry DEF ForgetBlock, NodesOfBlocks, HasNode
<1>2. NodeRecords' = NodeRecords /\ \A x \in BlockIds : HasNode(x)' <=> HasNode(x) /\ x # id
  BY <1>1 DEF NodeRecords, HasNode
<1>3. ToSet(tms') = {b \in ToSet(tms) : b.id # id}
  BY WithoutKeeps DEF ForgetBlock
<1>4. ToSet(tms') = {Block(x, blockNode'[x].made) : x \in {y \in BlockIds : HasNode(y)'}}
  <2>1. ToSet(tms) = {Block(x, blockNode[x].made) : x \in {y \in BlockIds : HasNode(y)}}
    BY DEF NodesOfBlocks
  <2>2. \A x : Block(x, blockNode[x].made).id = x
    BY DEF Block
  <2>3. \A x \in BlockIds : HasNode(x)' => Block(x, blockNode'[x].made) = Block(x, blockNode[x].made)
    BY <1>1, <1>2
  <2> QED BY <1>2, <1>3, <2>1, <2>2, <2>3
<1>5. FirstBlockIsHeard'
  BY <1>1, <1>2 DEF FirstBlockIsHeard, NodesOfBlocks
<1> QED BY <1>1, <1>2, <1>4, <1>5 DEF NodesOfBlocks

\* A block of the device gets another name: its node, if it is the first under the
\* id, is told.
LEMMA RenameKeepsNodes ==
  ASSUME ListsOfBlocks, NodesOfBlocks, NEW b \in ToSet(device), AppRenames(b)
  PROVE  NodesOfBlocks'
<1>1. /\ b \in BlockRecords /\ made \in 0..MaxBlocks /\ b.made \in Blocks /\ b.made <= made /\ b.id \in BlockIds
      /\ UNCHANGED <<device, made, tms, registry, shrunk>>
  BY PlaceOfBlock, AbsentIsApart DEF AppRenames, BlockRecords, Blocks, ListsOfBlocks
<1>2. /\ blockName' = [blockName EXCEPT ![b.made] = "second"] /\ blockName \in [Blocks -> Names]
      /\ \A n \in Blocks : blockName[n] = "first"
  BY DEF AppRenames, NodesOfBlocks
<1>3. /\ CoreEvent(b.id) => blockNode' = [blockNode EXCEPT ![b.id].name = "second"]
      /\ ~CoreEvent(b.id) => blockNode' = blockNode
  BY DEF AppRenames
<1>4. \A x \in BlockIds : blockNode[x] # Absent => blockNode[x] \in NodeRecords
  BY DEF NodesOfBlocks
<1>5. \A x \in BlockIds : x # b.id \/ ~CoreEvent(b.id) => blockNode'[x] = blockNode[x]
  BY <1>3 DEF NodesOfBlocks
<1>6. CoreEvent(b.id) => /\ blockNode'[b.id] = [blockNode[b.id] EXCEPT !.name = "second"]
                         /\ blockNode[b.id] \in NodeRecords
                         /\ blockNode'[b.id] \in NodeRecords
                         /\ blockNode'[b.id].made = blockNode[b.id].made /\ blockNode'[b.id].number = blockNode[b.id].number
                         /\ blockNode'[b.id].name = "second"
  BY <1>1, <1>3, <1>4 DEF CoreEvent, HasNode, NodeRecords, Names, NodesOfBlocks
<1>7. NodeRecords' = NodeRecords /\ Absent \notin NodeRecords
  BY <1>1, AbsentIsApart DEF NodeRecords
<1>8. /\ \A x \in BlockIds : HasNode(x)' <=> HasNode(x)
      /\ \A x \in BlockIds : HasNode(x) => blockNode'[x].made = blockNode[x].made /\ blockNode'[x].number = blockNode[x].number
  BY <1>5, <1>6, <1>7 DEF HasNode, CoreEvent
<1>9. blockNode' \in [BlockIds -> {Absent} \cup NodeRecords']
  <2>1. \A x \in BlockIds : blockNode'[x] \in {Absent} \cup NodeRecords
    BY <1>4, <1>5, <1>6
  <2>2. DOMAIN blockNode' = BlockIds /\ blockNode' = [x \in DOMAIN blockNode' |-> blockNode'[x]]
    BY <1>3 DEF NodesOfBlocks
  <2> QED BY <1>7, <2>1, <2>2
<1>10. ToSet(tms') = {Block(x, blockNode'[x].made) : x \in {y \in BlockIds : HasNode(y)'}}
  <2>1. ToSet(tms) = {Block(x, blockNode[x].made) : x \in {y \in BlockIds : HasNode(y)}}
    BY DEF NodesOfBlocks
  <2>2. \A x \in BlockIds : HasNode(x) => Block(x, blockNode'[x].made) = Block(x, blockNode[x].made)
    BY <1>8
  <2> QED BY <1>1, <1>8, <2>1, <2>2
<1>11. ~shrunk' => \A i \in DOMAIN tms' : blockNode'[tms'[i].id].number = i - 1
  BY <1>1, <1>8, NodeOfEntry DEF NodesOfBlocks
<1>12. /\ blockName' \in [Blocks -> Names] /\ \A n \in Blocks : n > made' => blockName'[n] = "first"
       /\ blockName'[b.made] = "second" /\ \A n \in Blocks : n # b.made => blockName'[n] = "first"
  BY <1>1, <1>2, AbsentIsApart DEF Names, Blocks
<1>13. FirstBlockIsHeard'
  <2> SUFFICES ASSUME NEW x \in BlockIds, HasNode(x), registry[x] = blockNode[x].made, Block(x, registry[x]) \in ToSet(device)
               PROVE  blockNode'[x].name = blockName'[registry[x]]
    BY <1>1, <1>8 DEF FirstBlockIsHeard, NodesOfBlocks
  <2>1. blockNode[x].name = "first" /\ registry[x] \in Blocks
    <3>1. registry[x] \in 1..made
      BY <1>4 DEF HasNode, NodeRecords
    <3>2. registry[x] \in Blocks
      BY <1>1, <3>1, AbsentIsApart DEF Blocks
    <3> QED BY <1>2, <3>2 DEF NodesOfBlocks, FirstBlockIsHeard
  <2>2. Block(x, registry[x]).id = x /\ Block(x, registry[x]).made = registry[x]
    BY DEF Block
  <2>3. CASE x = b.id
    <3>1. b = Block(x, registry[x]) /\ CoreEvent(x)
      BY <2>2, <2>3 DEF ListsOfBlocks, CoreEvent
    <3> QED BY <1>6, <1>12, <2>2, <2>3, <3>1
  <2>4. CASE x # b.id
    <3>1. registry[x] # b.made
      BY <2>2, <2>4, PlaceOfBlock
    <3> QED BY <1>5, <1>12, <2>1, <2>4, <3>1
  <2> QED BY <2>3, <2>4
<1> QED BY <1>1, <1>9, <1>10, <1>11, <1>12, <1>13 DEF NodesOfBlocks

-----------------------------------------------------------------------------
(* The steps: the clients *)

\* What one client shows and has read.
Reads(c) ==
  /\ shows[c] \in {Absent} \cup Seq(ShownRecords) /\ known[c] \in [BlockIds -> {Absent} \cup 1..made]
  /\ shows[c] = Absent => \A id \in BlockIds : known[c][id] = Absent
  /\ shows[c] # Absent =>
       /\ \A b \in ToSet(shows[c]) : known[c][b.id] = b.values /\ b.values <= b.made
       /\ ~shrunk => Growing(shows[c])

LEMMA EachClientReads ==
  ClientsHaveRead <=> /\ shows = [c \in BlockClients |-> shows[c]] /\ known = [c \in BlockClients |-> known[c]]
                      /\ \A c \in BlockClients : Reads(c)
BY DEF ClientsHaveRead, Reads

\* A client for which nothing happens.
LEMMA OtherClientReads ==
  ASSUME NEW c, Reads(c), made \in Nat, made' \in {made, made + 1}, ~shrunk' => ~shrunk,
         shows'[c] = shows[c], known'[c] = known[c]
  PROVE  Reads(c)'
<1>1. ShownRecords \subseteq ShownRecords' /\ 1..made \subseteq 1..made'
  BY DEF ShownRecords
<1>2. shows'[c] \in {Absent} \cup Seq(ShownRecords')
  BY <1>1, SeqMonotonic DEF Reads
<1>3. known'[c] \in [BlockIds -> {Absent} \cup 1..made']
  BY <1>1 DEF Reads
<1> QED BY <1>2, <1>3 DEF Reads

\* What a client shows is not mistaken for nothing.
LEMMA ShownIsThere ==
  ASSUME made \in Nat
  PROVE  Absent \notin Seq(ShownRecords) /\ Absent \notin 1..made
<1>1. ShownRecords \subseteq [id : BlockIds, made : Nat, values : Nat]
  BY DEF ShownRecords
<1>2. Seq(ShownRecords) \subseteq Seq([id : BlockIds, made : Nat, values : Nat])
  BY <1>1, SeqMonotonic
<1> QED BY <1>2, AbsentIsApart

\* Until a node goes the numbers are those of the list: a client that connects
\* has the blocks in their order.
LEMMA ConnectionReads ==
  ASSUME ListsOfBlocks, NodesOfBlocks, ClientsHaveRead, NEW c \in BlockClients, ClientConnects(c)
  PROVE  Reads(c)' /\ \A b \in ToSet(shows'[c]) : b.values = b.made
<1>1. UNCHANGED serverVars /\ shows[c] = Absent /\ made \in Nat /\ Reads(c)
  BY EachClientReads DEF ClientConnects, ListsOfBlocks
<1>2. ShownRecords' = ShownRecords
  BY <1>1 DEF serverVars, ShownRecords
<1> DEFINE Nodes == {id \in BlockIds : HasNode(id)}
<1>3. /\ known'[c] \in [BlockIds -> {Absent} \cup 1..made]
      /\ \A id \in Nodes : known'[c][id] = blockNode[id].made /\ blockNode[id].made \in 1..made
  <2>1. \A id \in BlockIds : known[c][id] = Absent
    BY <1>1 DEF Reads
  <2>2. \A id \in Nodes : blockNode[id].made \in 1..made
    BY NodeOfEntry DEF NodeRecords
  <2>3. known'[c] = [id \in BlockIds |-> IF HasNode(id) THEN blockNode[id].made ELSE Absent]
    BY <2>1 DEF ClientConnects, ClientsHaveRead, ReadAhead
  <2> QED BY <2>2, <2>3
<1>4. PICK list \in SetToSeqs(Nodes) :
        /\ ByNumber(list)
        /\ shows'[c] = [i \in DOMAIN list |->
             [id |-> list[i], made |-> blockNode[list[i]].made, values |-> known'[c][list[i]]]]
  BY DEF ClientConnects, ClientsHaveRead
<1>5. /\ list \in Seq(Nodes) /\ DOMAIN list = 1..Len(list) /\ Len(list) \in Nat
      /\ \A i, j \in DOMAIN list : list[i] = list[j] => i = j
  <2>1. Cardinality(Nodes) \in Nat
    <3>1. IsFiniteSet(DOMAIN tms)
      BY PlaceOfBlock, FS_Interval
    <3> DEFINE IdAt == [i \in DOMAIN tms |-> tms[i].id]
    <3>2. \A id \in Nodes : \E i \in DOMAIN tms : tms[i].id = id
      BY NodeOfEntry DEF Ids, ToSet
    <3>3. IdAt \in Surjection(DOMAIN tms, Nodes)
      BY <3>2, NodeOfEntry DEF Surjection
    <3> QED BY <3>1, <3>3, FS_Surjection, FS_CardinalityType
  <2>2. list \in [1..Cardinality(Nodes) -> Nodes] /\ \A i, j \in 1..Cardinality(Nodes) : i # j => list[i] # list[j]
    BY <1>4 DEF SetToSeqs
  <2> HIDE DEF Nodes
  <2> QED BY <2>1, <2>2
<1>6. \A i \in DOMAIN list : list[i] \in Nodes
  BY <1>5
<1>7. shows'[c] \in Seq(ShownRecords) /\ DOMAIN shows'[c] = DOMAIN list
  <2>1. \A i \in 1..Len(list) : [id |-> list[i], made |-> blockNode[list[i]].made, values |-> known'[c][list[i]]] \in ShownRecords
    BY <1>3, <1>5, <1>6 DEF ShownRecords
  <2> QED BY <1>4, <1>5, <2>1
<1>8. \A b \in ToSet(shows'[c]) : known'[c][b.id] = b.values /\ b.values = b.made /\ b.values <= b.made
  BY <1>3, <1>4, <1>6, <1>7 DEF ToSet
<1>9. ~shrunk => Growing(shows'[c])
  <2> SUFFICES ASSUME ~shrunk PROVE Growing(shows'[c])
    OBVIOUS
  <2>1. \A id \in Nodes : \E i \in DOMAIN tms : tms[i].id = id /\ blockNode[id].number = i - 1 /\ blockNode[id].made = tms[i].made
    <3> SUFFICES ASSUME NEW id \in Nodes
                 PROVE  \E i \in DOMAIN tms : tms[i].id = id /\ blockNode[id].number = i - 1 /\ blockNode[id].made = tms[i].made
      OBVIOUS
    <3>1. PICK i \in DOMAIN tms : tms[i].id = id
      BY NodeOfEntry DEF Ids, ToSet
    <3>2. blockNode[tms[i].id].number = i - 1
      BY DEF NodesOfBlocks
    <3> QED BY <3>1, <3>2, NodeOfEntry
  <2>2. /\ \A i, j \in DOMAIN tms : i < j => tms[i].made < tms[j].made
        /\ DOMAIN tms \subseteq Nat
    BY PlaceOfBlock DEF Growing
  <2>3. \A x, y \in Nodes : blockNode[x].number < blockNode[y].number => blockNode[x].made < blockNode[y].made
    <3> SUFFICES ASSUME NEW x \in Nodes, NEW y \in Nodes, blockNode[x].number < blockNode[y].number
                 PROVE  blockNode[x].made < blockNode[y].made
      OBVIOUS
    <3>1. PICK i \in DOMAIN tms : tms[i].id = x /\ blockNode[x].number = i - 1 /\ blockNode[x].made = tms[i].made
      BY <2>1
    <3>2. PICK j \in DOMAIN tms : tms[j].id = y /\ blockNode[y].number = j - 1 /\ blockNode[y].made = tms[j].made
      BY <2>1
    <3> QED BY <2>2, <3>1, <3>2
  <2>4. \A x, y \in Nodes : blockNode[x].number = blockNode[y].number => x = y
    <3> SUFFICES ASSUME NEW x \in Nodes, NEW y \in Nodes, blockNode[x].number = blockNode[y].number
                 PROVE  x = y
      OBVIOUS
    <3>1. PICK i \in DOMAIN tms : tms[i].id = x /\ blockNode[x].number = i - 1
      BY <2>1
    <3>2. PICK j \in DOMAIN tms : tms[j].id = y /\ blockNode[y].number = j - 1
      BY <2>1
    <3>3. i \in Nat /\ j \in Nat /\ i - 1 = j - 1
      BY <2>2, <3>1, <3>2
    <3>4. i = j
      BY <3>3
    <3> QED BY <3>1, <3>2, <3>4
  <2>5. PICK first \in 0..Len(list) :
          /\ \A i, j \in 1..first : i < j => blockNode[list[i]].number < blockNode[list[j]].number
          /\ \A j \in (first + 1)..Len(list) : \E i \in 1..first : blockNode[list[i]].number = blockNode[list[j]].number
    <3> DEFINE number == [i \in DOMAIN list |-> blockNode[list[i]].number]
    <3>1. PICK first \in 0..Len(list) :
            /\ \A i, j \in 1..first : i < j => number[i] < number[j]
            /\ \A j \in (first + 1)..Len(list) : \E i \in 1..first : number[i] = number[j]
      BY <1>4 DEF ByNumber
    <3>2. \A i \in 1..Len(list) : number[i] = blockNode[list[i]].number
      BY <1>5
    <3>3. 1..first \subseteq 1..Len(list) /\ (first + 1)..Len(list) \subseteq 1..Len(list)
      BY <1>5
    <3> HIDE DEF number
    <3>4. \A i, j \in 1..first : i < j => blockNode[list[i]].number < blockNode[list[j]].number
      BY <3>1, <3>2, <3>3
    <3>5. \A j \in (first + 1)..Len(list) : \E i \in 1..first : blockNode[list[i]].number = blockNode[list[j]].number
      BY <3>1, <3>2, <3>3
    <3> QED BY <3>1, <3>4, <3>5
  <2>6. ~(first < Len(list))
    <3> SUFFICES ASSUME first < Len(list) PROVE FALSE
      OBVIOUS
    <3>1. PICK i \in 1..first : blockNode[list[i]].number = blockNode[list[first + 1]].number
      <4>1. first + 1 \in (first + 1)..Len(list)
        BY <1>5
      <4> QED BY <2>5, <4>1
    <3>2. list[i] = list[first + 1]
      BY <1>5, <1>6, <2>4, <3>1
    <3> QED BY <1>5, <3>2
  <2>7. 1..Len(list) \subseteq 1..first
    BY <1>5, <2>6
  <2>8. \A i, j \in DOMAIN list : i < j => blockNode[list[i]].made < blockNode[list[j]].made
    BY <1>5, <1>6, <2>3, <2>5, <2>7
  <2> QED BY <1>4, <1>7, <2>8 DEF Growing
<1> QED BY <1>1, <1>2, <1>3, <1>7, <1>8, <1>9, ShownIsThere DEF Reads, serverVars

\* The block a client adds has its values, unless it has read those of an earlier one.
LEMMA AdditionReads ==
  ASSUME ListsOfBlocks, NodesOfBlocks, ClientsHaveRead, NEW c \in BlockClients, NEW id \in BlockIds,
         NEW fails \in BOOLEAN, ClientAdds(c, id, fails)
  PROVE  /\ Reads(c)'
         /\ \A x \in ToSet(shows'[c]) : x.values = x.made \/ (x.values = known[c][x.id] /\ x.values < x.made) \/ x \in ToSet(shows[c])
<1>1. made \in Nat /\ made' = made + 1 /\ shrunk' = shrunk /\ shows[c] # Absent /\ Reads(c) /\ made' \in 1..made'
  BY EachClientReads DEF ClientAdds, ServerAdds, ListsOfBlocks
<1>2. CASE UNCHANGED <<shows, known>>
  BY <1>1, <1>2, OtherClientReads
<1> DEFINE b == [id |-> id, made |-> made', values |-> ReadAhead(c, id, made')]
<1>3. CASE /\ known' = [known EXCEPT ![c][id] = ReadAhead(c, id, made')]
           /\ shows' = [shows EXCEPT ![c] = Append(@, [id |-> id, made |-> made', values |-> known'[c][id]])]
  <2>1. /\ known'[c] = [known[c] EXCEPT ![id] = ReadAhead(c, id, made')]
        /\ known'[c][id] = ReadAhead(c, id, made')
        /\ known[c] \in [BlockIds -> {Absent} \cup 1..made]
    BY <1>3 DEF ClientsHaveRead
  <2>2. shows'[c] = Append(shows[c], b)
    BY <1>3, <2>1 DEF ClientsHaveRead
  <2>3. ReadAhead(c, id, made') \in 1..made' /\ known'[c] \in [BlockIds -> {Absent} \cup 1..made']
    <3>1. ReadAhead(c, id, made') \in 1..made'
      BY <1>1, <2>1 DEF ReadAhead
    <3> QED BY <1>1, <2>1, <3>1
  <2>4. /\ b \in ShownRecords' /\ b.id = id /\ b.made = made' /\ b.values = known'[c][id] /\ b.values <= b.made
    BY <1>1, <2>1, <2>3 DEF ShownRecords
  <2> HIDE DEF b
  <2>5. shows[c] \in Seq(ShownRecords) /\ shows[c] \in Seq(ShownRecords') /\ ShownRecords \subseteq ShownRecords'
    BY <1>1, MoreNumbers, SeqMonotonic DEF Reads
  <2>6. /\ shows'[c] \in Seq(ShownRecords') /\ ToSet(shows'[c]) = ToSet(shows[c]) \cup {b}
        /\ Growing(shows[c]) /\ (\A i \in DOMAIN shows[c] : shows[c][i].made < b.made) => Growing(shows'[c])
    BY <2>2, <2>4, <2>5, AppendGrows
  <2>7. \A i \in DOMAIN shows[c] : shows[c][i].made < b.made
    <3>1. \A i \in DOMAIN shows[c] : shows[c][i] \in ShownRecords
      BY <2>5
    <3>2. \A x \in ShownRecords : x.made < made'
      BY <1>1 DEF ShownRecords
    <3> QED BY <2>4, <3>1, <3>2
  <2>8. \A x \in ToSet(shows'[c]) : known'[c][x.id] = x.values /\ x.values <= x.made
    <3>1. ASSUME NEW x \in ToSet(shows[c]) PROVE known'[c][x.id] = x.values /\ x.values <= x.made
      <4>1. x \in ShownRecords /\ known[c][x.id] = x.values /\ x.values <= x.made
        BY <1>1, <2>5 DEF Reads, ToSet
      <4>2. known[c][x.id] # Absent
        BY <1>1, <4>1, ShownIsThere DEF ShownRecords
      <4> QED BY <2>1, <4>1, <4>2 DEF ReadAhead, ShownRecords
    <3> QED BY <2>4, <2>6, <3>1
  <2>9. shows'[c] # Absent
    <3>1. ShownRecords' \subseteq [id : BlockIds, made : Nat, values : Nat]
      BY <1>1 DEF ShownRecords
    <3> QED BY <2>6, <3>1, SeqMonotonic, AbsentIsApart
  <2>10. b.values = b.made \/ (b.values = known[c][b.id] /\ b.values < b.made)
    BY <1>1, <2>1, <2>4 DEF ReadAhead
  <2> QED BY <1>1, <2>3, <2>6, <2>7, <2>8, <2>9, <2>10 DEF Reads
<1> QED BY <1>2, <1>3 DEF ClientAdds

\* A block is no longer shown; what was read of it is.
LEMMA RemovalReads ==
  ASSUME ListsOfBlocks, ClientsHaveRead, NEW c \in BlockClients, shows[c] # Absent, NEW i \in DOMAIN shows[c],
         NEW refused \in BOOLEAN, ClientRemoves(c, i, refused)
  PROVE  Reads(c)' /\ ToSet(shows'[c]) \subseteq ToSet(shows[c])
<1>1. made \in Nat /\ made' = made /\ shrunk' = TRUE /\ Reads(c) /\ shows[c] \in Seq(ShownRecords)
  BY EachClientReads DEF ClientRemoves, ServerRemoves, ListsOfBlocks, Reads
<1>2. CASE shows' = shows
  BY <1>1, <1>2, OtherClientReads DEF ClientRemoves
<1>3. CASE shows' = [shows EXCEPT ![c] = RemoveAt(@, i)]
  <2>1. shows'[c] = RemoveAt(shows[c], i)
    BY <1>3 DEF ClientsHaveRead
  <2>2. /\ shows'[c] \in Seq(ShownRecords)
        /\ ToSet(shows'[c]) = {shows[c][j] : j \in DOMAIN shows[c] \ {i}}
    BY <1>1, <2>1, EraseKeeps
  <2>3. ToSet(shows'[c]) \subseteq ToSet(shows[c]) /\ ShownRecords' = ShownRecords /\ known' = known
    BY <1>1, <2>2 DEF ToSet, ShownRecords, ClientRemoves
  <2> QED BY <1>1, <2>2, <2>3, ShownIsThere DEF Reads
<1> QED BY <1>2, <1>3 DEF ClientRemoves

\* One client does something: the others are what they were.
LEMMA ClientKeepsOthers ==
  ASSUME ListsOfBlocks, ClientsHaveRead, NEW c \in BlockClients, Reads(c)', made' \in {made, made + 1}, ~shrunk' => ~shrunk,
         shows' = [shows EXCEPT ![c] = shows'[c]], known' = [known EXCEPT ![c] = known'[c]]
  PROVE  ClientsHaveRead'
<1>1. made \in Nat /\ \A d \in BlockClients : Reads(d)
  BY EachClientReads DEF ListsOfBlocks
<1>2. /\ DOMAIN shows = BlockClients /\ DOMAIN known = BlockClients
  BY DEF ClientsHaveRead
<1>3. ASSUME NEW d \in BlockClients, d # c PROVE Reads(d)'
  <2>1. shows'[d] = shows[d] /\ known'[d] = known[d]
    BY <1>2, <1>3
  <2> QED BY <1>1, <2>1, OtherClientReads
<1>4. shows' = [d \in BlockClients |-> shows'[d]] /\ known' = [d \in BlockClients |-> known'[d]]
  BY <1>2
<1>5. \A d \in BlockClients : Reads(d)'
  BY <1>3
<1> QED BY <1>4, <1>5 DEF ClientsHaveRead, Reads

LEMMA BlockStep == BlockInv /\ [BlockMirrorNext]_blockVars => BlockInv'
<1> SUFFICES ASSUME BlockInv, [BlockMirrorNext]_blockVars PROVE BlockInv'
  OBVIOUS
<1>1. ListsOfBlocks /\ NodesOfBlocks /\ ClientsHaveRead /\ made \in Nat
  BY DEF BlockInv, ListsOfBlocks
<1>2. ASSUME UNCHANGED serverVars PROVE ListsOfBlocks' /\ NodesOfBlocks'
  <2>1. ListsOfBlocks'
    BY <1>1, <1>2 DEF serverVars, ListsOfBlocks, BlockRecords, Growing, MirrorDiffersWhereTold
  <2>2. NodesOfBlocks'
    BY <1>1, <1>2, DeviceKeepsNodes DEF serverVars
  <2> QED BY <2>1, <2>2
<1>3. ASSUME UNCHANGED <<shows, known>>, made' \in {made, made + 1}, ~shrunk' => ~shrunk PROVE ClientsHaveRead'
  <2>1. \A c \in BlockClients : Reads(c)'
    BY <1>1, <1>3, EachClientReads, OtherClientReads
  <2> QED BY <1>1, <1>3, <2>1 DEF ClientsHaveRead, Reads
<1>4. ASSUME NEW id \in BlockIds, ServerAdds(id) PROVE ListsOfBlocks' /\ NodesOfBlocks'
  <2>1. /\ made < MaxBlocks /\ id \notin Ids(device) /\ made' = made + 1 /\ device' = Append(device, Block(id, made'))
        /\ UNCHANGED <<blockName, dangling, shrunk>>
    BY <1>4 DEF ServerAdds
  <2>2. \A b \in ToSet(device') : b \in ToSet(device) \/ b.made = made + 1
    <3>1. ToSet(device') = ToSet(device) \cup {Block(id, made')}
      BY <1>1, <2>1, ListGrows
    <3> QED BY <2>1, <3>1 DEF Block
  <2>3. CASE HasNode(id)
    <3>1. apart' = apart \cup {made'} /\ UNCHANGED <<tms, blockNode, registry>>
      BY <1>4, <2>3 DEF ServerAdds
    <3>2. ListsOfBlocks'
      BY <1>1, <2>1, <3>1, AddsKeepLists
    <3> QED BY <1>1, <2>1, <2>2, <3>1, <3>2, DeviceKeepsNodes
  <2>4. CASE ~HasNode(id)
    <3>1. /\ tms' = Append(tms, Block(id, made')) /\ blockNode' = NewNode(id, made')
          /\ registry' = Registered(id, made') /\ apart' = apart
      BY <1>4, <2>4 DEF ServerAdds
    <3>2. id \notin Ids(tms)
      BY <1>1, <2>4, NodeOfEntry
    <3>3. ListsOfBlocks'
      BY <1>1, <2>1, <3>1, <3>2, AddsKeepLists
    <3> QED BY <1>1, <2>1, <2>4, <3>1, <3>3, NewNodeKeepsNodes
  <2> QED BY <2>3, <2>4
<1>5. ASSUME NEW id \in BlockIds, AppAdds(id) PROVE BlockInv'
  <2>1. /\ made < MaxBlocks /\ id \notin Ids(device) /\ made' = made + 1 /\ device' = Append(device, Block(id, made'))
        /\ apart' = apart \cup {made'} /\ UNCHANGED <<tms, blockNode, registry, blockName, shows, known, dangling, shrunk>>
    BY <1>5 DEF AppAdds
  <2>2. \A b \in ToSet(device') : b \in ToSet(device) \/ b.made = made + 1
    <3>1. ToSet(device') = ToSet(device) \cup {Block(id, made')}
      BY <1>1, <2>1, ListGrows
    <3> QED BY <2>1, <3>1 DEF Block
  <2>3. ListsOfBlocks'
    BY <1>1, <2>1, AddsKeepLists
  <2>4. NodesOfBlocks'
    BY <1>1, <2>1, <2>2, DeviceKeepsNodes
  <2> QED BY <1>3, <2>1, <2>3, <2>4 DEF BlockInv
<1>6. ASSUME NEW id \in BlockIds, AppRemoves(id) PROVE BlockInv'
  <2>1. /\ device' = Without(device, id) /\ dangling' = dangling \cup (With(device, id) \ apart)
        /\ apart' = apart \ With(device, id) /\ UNCHANGED <<made, tms, blockNode, registry, blockName, shows, known, shrunk>>
    BY <1>6 DEF AppRemoves
  <2>2. ListsOfBlocks'
    BY <1>1, <2>1, RemovalsKeepLists
  <2>3. ToSet(device') \subseteq ToSet(device)
    BY <1>1, <2>1, WithoutKeeps
  <2>4. NodesOfBlocks'
    BY <1>1, <2>1, <2>3, DeviceKeepsNodes
  <2> QED BY <1>3, <2>1, <2>2, <2>4 DEF BlockInv
<1>7. ASSUME NEW b \in ToSet(device), AppRenames(b) PROVE BlockInv'
  <2>1. UNCHANGED <<device, made, tms, registry, shows, known, apart, dangling, shrunk>>
    BY <1>7 DEF AppRenames
  <2>2. ListsOfBlocks'
    BY <1>1, <2>1 DEF ListsOfBlocks, BlockRecords, Growing, MirrorDiffersWhereTold
  <2> QED BY <1>1, <1>3, <1>7, <2>1, <2>2, RenameKeepsNodes DEF BlockInv
<1>8. ASSUME NEW c \in BlockClients, ClientConnects(c) \/ ClientDisconnects(c) PROVE BlockInv'
  <2>1. UNCHANGED serverVars /\ made' = made /\ shrunk' = shrunk
    BY <1>8 DEF ClientConnects, ClientDisconnects, serverVars
  <2>2. shows' = [shows EXCEPT ![c] = shows'[c]] /\ known' = [known EXCEPT ![c] = known'[c]]
    BY <1>1, <1>8 DEF ClientConnects, ClientDisconnects, ClientsHaveRead
  <2>3. ClientDisconnects(c) => Reads(c)'
    BY <1>1 DEF ClientDisconnects, ClientsHaveRead, Reads
  <2>4. Reads(c)'
    BY <1>1, <1>8, <2>3, ConnectionReads
  <2> QED BY <1>1, <1>2, <2>1, <2>2, <2>4, ClientKeepsOthers DEF BlockInv
<1>9. ASSUME NEW c \in BlockClients, NEW id \in BlockIds, NEW fails \in BOOLEAN, ClientAdds(c, id, fails) PROVE BlockInv'
  <2>1. ServerAdds(id) /\ made' = made + 1 /\ shrunk' = shrunk
    BY <1>9 DEF ClientAdds, ServerAdds
  <2>2. shows' = [shows EXCEPT ![c] = shows'[c]] /\ known' = [known EXCEPT ![c] = known'[c]]
    BY <1>1, <1>9 DEF ClientAdds, ClientsHaveRead
  <2>3. Reads(c)'
    BY <1>1, <1>9, AdditionReads
  <2> QED BY <1>1, <1>4, <2>1, <2>2, <2>3, ClientKeepsOthers DEF BlockInv
<1>10. ASSUME NEW c \in BlockClients, shows[c] # Absent, NEW i \in DOMAIN shows[c], NEW refused \in BOOLEAN,
              ClientRemoves(c, i, refused)
       PROVE  BlockInv'
  <2> DEFINE id == shows[c][i].id
  <2>1. id \in BlockIds
    <3>1. shows[c] \in Seq(ShownRecords)
      BY <1>1, <1>10 DEF ClientsHaveRead
    <3>2. shows[c][i] \in ShownRecords
      BY <3>1
    <3> QED BY <3>2 DEF ShownRecords
  <2>2. ServerRemoves(id, refused) /\ known' = known
    BY <1>10 DEF ClientRemoves
  <2> HIDE DEF id
  <2>3. /\ ForgetBlock(id) /\ dangling' = dangling \ With(tms, id) /\ shrunk' = TRUE /\ tms' = Without(tms, id)
        /\ refused => apart' = apart \cup With(device, id) /\ device' = device
        /\ ~refused => apart' = apart \ With(device, id) /\ device' = Without(device, id)
        /\ UNCHANGED <<made, registry, blockName>>
    BY <2>2 DEF ServerRemoves, ForgetBlock
  <2>4. ListsOfBlocks'
    BY <1>1, <2>1, <2>3, RemovalsKeepLists
  <2>5. ToSet(device') \subseteq ToSet(device)
    BY <1>1, <2>3, WithoutKeeps
  <2>6. NodesOfBlocks'
    BY <1>1, <2>1, <2>3, <2>5, RemovalKeepsNodes
  <2>7. shows' = [shows EXCEPT ![c] = shows'[c]] /\ known' = [known EXCEPT ![c] = known'[c]]
    BY <1>1, <1>10 DEF ClientRemoves, ClientsHaveRead
  <2>8. Reads(c)'
    BY <1>1, <1>10, RemovalReads
  <2> QED BY <1>1, <2>3, <2>4, <2>6, <2>7, <2>8, ClientKeepsOthers DEF BlockInv
<1>11. CASE UNCHANGED blockVars
  BY <1>2, <1>3, <1>11 DEF blockVars, serverVars, BlockInv
<1> QED BY <1>5, <1>6, <1>7, <1>8, <1>9, <1>10, <1>11 DEF BlockMirrorNext

LEMMA BlockInvImplies ==
  BlockInv => BlockMirrorTypeOK /\ MirrorDiffersWhereTold /\ OrderUntilRemoval /\ FirstBlockIsHeard
<1> SUFFICES ASSUME BlockInv PROVE BlockMirrorTypeOK /\ OrderUntilRemoval
  BY DEF BlockInv, ListsOfBlocks, NodesOfBlocks
<1>1. ListsOfBlocks /\ NodesOfBlocks /\ ClientsHaveRead /\ made \in Nat
  BY DEF BlockInv, ListsOfBlocks
<1>2. ASSUME NEW c \in BlockClients, shows[c] # Absent
      PROVE  /\ DOMAIN shows[c] \subseteq Nat /\ \A i \in DOMAIN shows[c] : shows[c][i] \in ShownRecords
             /\ ~shrunk => Growing(shows[c])
  <2>1. shows[c] \in Seq(ShownRecords) /\ (~shrunk => Growing(shows[c]))
    BY <1>1, <1>2 DEF ClientsHaveRead
  <2> QED BY <2>1
<1>3. OrderUntilRemoval
  <2> SUFFICES ASSUME ~shrunk, NEW c \in BlockClients, shows[c] # Absent,
                      NEW i \in DOMAIN shows[c], NEW j \in DOMAIN shows[c], NEW k \in DOMAIN device, NEW l \in DOMAIN device,
                      shows[c][i].made = device[k].made, shows[c][j].made = device[l].made
               PROVE  i < j <=> k < l
    BY DEF OrderUntilRemoval
  <2>1. /\ i \in Nat /\ j \in Nat /\ shows[c][i].made \in Nat /\ shows[c][j].made \in Nat
        /\ i < j => shows[c][i].made < shows[c][j].made
        /\ j < i => shows[c][j].made < shows[c][i].made
    BY <1>2 DEF ShownRecords, Growing
  <2>2. /\ k \in Nat /\ l \in Nat
        /\ k < l => device[k].made < device[l].made
        /\ l < k => device[l].made < device[k].made
    BY <1>1, PlaceOfBlock DEF Growing
  <2> QED BY <2>1, <2>2
<1>4. BlockMirrorTypeOK
  <2>1. made \in 0..MaxBlocks /\ \A b \in ToSet(device) \cup ToSet(tms) : b.id \in BlockIds /\ b.made \in 1..made
    BY <1>1, PlaceOfBlock DEF ListsOfBlocks, BlockRecords
  <2>2. \A blocks \in {device, tms} : \A i, j \in DOMAIN blocks : blocks[i].id = blocks[j].id => i = j
    BY <1>1, PlaceOfBlock
  <2>3. \A c \in BlockClients : shows[c] # Absent => \A b \in ToSet(shows[c]) : b.made \in 1..made /\ b.values \in 1..made
    BY <1>2 DEF ShownRecords, ToSet
  <2> QED BY <1>1, <2>1, <2>2, <2>3 DEF NodesOfBlocks, BlockMirrorTypeOK
<1> QED BY <1>3, <1>4

\* What a client is shown it has read, or had read of an earlier block.
ShowsOldValues ==
  \A c \in BlockClients : shows'[c] # Absent =>
    \A b \in ToSet(shows'[c]) :
      \/ b.values = b.made
      \/ shows[c] # Absent /\ b.values = known[c][b.id] /\ b.values < b.made

LEMMA OldValuesStep == BlockInv /\ [BlockMirrorNext]_blockVars => [ShowsOldValues]_blockVars
<1> SUFFICES ASSUME BlockInv, BlockMirrorNext,
                    NEW c \in BlockClients, shows'[c] # Absent, NEW b \in ToSet(shows'[c])
             PROVE  \/ b.values = b.made
                    \/ shows[c] # Absent /\ b.values = known[c][b.id] /\ b.values < b.made
  BY DEF ShowsOldValues
<1>1. ListsOfBlocks /\ NodesOfBlocks /\ ClientsHaveRead /\ made \in Nat
  BY DEF BlockInv, ListsOfBlocks
<1>2. /\ shows[c] # Absent => \A x \in ToSet(shows[c]) : x \in ShownRecords /\ known[c][x.id] = x.values /\ x.values <= x.made
      /\ DOMAIN shows = BlockClients
  <2>1. ASSUME shows[c] # Absent, NEW x \in ToSet(shows[c]) PROVE x \in ShownRecords
    <3>1. shows[c] \in Seq(ShownRecords)
      BY <1>1, <2>1 DEF ClientsHaveRead
    <3> QED BY <2>1, <3>1 DEF ToSet
  <2> QED BY <1>1, <2>1 DEF ClientsHaveRead
<1>3. ASSUME shows[c] # Absent, b \in ToSet(shows[c])
      PROVE  b.values = b.made \/ (b.values = known[c][b.id] /\ b.values < b.made)
  <2>1. b \in ShownRecords /\ known[c][b.id] = b.values /\ b.values <= b.made
    BY <1>2, <1>3
  <2>2. b.values \in Nat /\ b.made \in Nat
    BY <2>1 DEF ShownRecords
  <2> QED BY <2>1, <2>2
<1>4. CASE ClientConnects(c)
  BY <1>1, <1>4, ConnectionReads
<1>5. ASSUME NEW id \in BlockIds, NEW fails \in BOOLEAN, ClientAdds(c, id, fails)
      PROVE  \/ b.values = b.made
             \/ shows[c] # Absent /\ b.values = known[c][b.id] /\ b.values < b.made
  <2>1. shows[c] # Absent
    BY <1>5 DEF ClientAdds
  <2>2. b.values = b.made \/ (b.values = known[c][b.id] /\ b.values < b.made) \/ b \in ToSet(shows[c])
    BY <1>1, <1>5, AdditionReads
  <2> QED BY <1>3, <2>1, <2>2
<1>6. ASSUME shows[c] # Absent, NEW i \in DOMAIN shows[c], NEW refused \in BOOLEAN, ClientRemoves(c, i, refused)
      PROVE  \/ b.values = b.made
             \/ shows[c] # Absent /\ b.values = known[c][b.id] /\ b.values < b.made
  <2>1. b \in ToSet(shows[c])
    BY <1>1, <1>6, RemovalReads
  <2> QED BY <1>3, <1>6, <2>1
<1>7. CASE shows'[c] = shows[c]
  <2>1. shows[c] # Absent /\ b \in ToSet(shows[c])
    BY <1>7
  <2> QED BY <1>3, <2>1
<1>8. \/ shows'[c] = shows[c] \/ ClientConnects(c)
      \/ \E id \in BlockIds, fails \in BOOLEAN : ClientAdds(c, id, fails)
      \/ shows[c] # Absent /\ \E i \in DOMAIN shows[c], refused \in BOOLEAN : ClientRemoves(c, i, refused)
  <2>1. ASSUME NEW d \in BlockClients, d # c,
               \/ ClientConnects(d) \/ ClientDisconnects(d)
               \/ \E id \in BlockIds, fails \in BOOLEAN : ClientAdds(d, id, fails)
               \/ shows[d] # Absent /\ \E i \in DOMAIN shows[d], refused \in BOOLEAN : ClientRemoves(d, i, refused)
        PROVE  shows'[c] = shows[c]
    BY <1>2, <2>1 DEF ClientConnects, ClientDisconnects, ClientAdds, ClientRemoves
  <2>2. ~ClientDisconnects(c)
    BY <1>2 DEF ClientDisconnects
  <2>3. ASSUME \/ \E id \in BlockIds : AppAdds(id) \/ AppRemoves(id)
               \/ \E x \in ToSet(device) : AppRenames(x)
        PROVE  shows'[c] = shows[c]
    BY <2>3 DEF AppAdds, AppRemoves, AppRenames
  <2> QED BY <2>1, <2>2, <2>3 DEF BlockMirrorNext
<1> QED BY <1>4, <1>5, <1>6, <1>7, <1>8
=============================================================================
