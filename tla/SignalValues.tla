----------------------------- MODULE SignalValues -----------------------------
(***************************************************************************)
(* A signal of the server and one client's object of it: the nodes that    *)
(* carry its value, which are replaced with the type of its samples, the   *)
(* reference to its domain signal, made once, and what the client, which   *)
(* looks at the nodes once and remembers them, is told when it asks.       *)
(***************************************************************************)
CONSTANTS
  SampleTypes,
  TextTypes,      \* sample types that are no numbers
  OtherTypes,     \* sample types for which there is no OPC UA type
  DomainSignals,
  Unset           \* no type, no node, no signal, no answer

ASSUME SignalValuesAssumption ==
  /\ TextTypes \subseteq SampleTypes /\ OtherTypes \subseteq SampleTypes
  /\ "default" \notin SampleTypes /\ Unset \notin SampleTypes \cup {"default"}

VARIABLES
  sampleType,       \* the type in the signal's descriptor, Unset without one
  valueType,        \* the type of its Value node, Unset without a node
  analogType,       \* the type of its AnalogValue node
  replacing,        \* the nodes are being replaced
  failed,           \* the nodes that could not be made again
  domainSignal,     \* the signal's domain signal
  domainReference,  \* the target of HasDomainSignal
  progress,            \* the client: "start", "browsed", "ahead", "made"
  found,             \* what it has found below the signal and its Value
  descriptorNodeId, \* TmsClientSignalImpl::descriptorNodeId
  whole,            \* it has found every node
  answer            \* what it was told last: [call, of, got, gap]

serverValueVars == <<sampleType, valueType, analogType, replacing, failed, domainSignal, domainReference>>
clientValueVars == <<progress, found, descriptorNodeId, whole, answer>>
valueVars == <<serverValueVars, clientValueVars>>

HasValueNode == valueType # Unset
HasAnalogNode == analogType # Unset

\* SampleTypeToOpcUaDataType(): each sample type has its own, or there is none.
SampleTypeToDataType(type) == IF type \in OtherTypes THEN Unset ELSE type
AnalogDataType(type) == IF type \in TextTypes THEN Unset ELSE SampleTypeToDataType(type)

\* A node whose type is not known has the type its definition has.
NodeType(type) == IF type = Unset THEN "default" ELSE type

\* Nodes are there for all signals before references are made between them.
CreateNonhierarchicalReferences == domainReference = domainSignal

SignalValuesInit ==
  /\ sampleType \in SampleTypes \cup {Unset}
  /\ valueType = NodeType(SampleTypeToDataType(sampleType))
  /\ analogType = NodeType(AnalogDataType(sampleType))
  /\ replacing = FALSE /\ failed = {}
  /\ domainSignal \in DomainSignals \cup {Unset} /\ CreateNonhierarchicalReferences
  /\ progress = "start" /\ found = {} /\ descriptorNodeId = Unset /\ whole = TRUE /\ answer = Unset

-----------------------------------------------------------------------------
(* The server *)

\* onCoreEvent(): the nodes go when the samples have another type than the node,
\* always if they have none.
DescriptorChanges(type) ==
  /\ ~replacing
  /\ sampleType' = type
  /\ IF type = Unset \/ ~HasValueNode \/ valueType = SampleTypeToDataType(type)
     THEN UNCHANGED <<valueType, analogType, replacing>>
     ELSE valueType' = Unset /\ analogType' = Unset /\ replacing' = TRUE
  /\ UNCHANGED <<failed, domainSignal, domainReference, clientValueVars>>

\* The new nodes are made one after the other; without a Value node there is
\* nothing to compare the next time, and the signal has none for good.
ReplaceValueNodes(fails) ==
  /\ replacing /\ replacing' = FALSE
  /\ valueType' = IF fails = "Value" THEN Unset ELSE NodeType(SampleTypeToDataType(sampleType))
  /\ analogType' = IF fails = "none" THEN NodeType(AnalogDataType(sampleType)) ELSE Unset
  /\ failed' = CASE fails = "Value" -> {"Value", "AnalogValue"}
                 [] fails = "AnalogValue" -> {"AnalogValue"}
                 [] fails = "none" -> {}
  /\ UNCHANGED <<sampleType, domainSignal, domainReference, clientValueVars>>

\* Nothing listens for it.
DomainSignalChanges(s) ==
  /\ domainSignal' = s
  /\ UNCHANGED <<sampleType, valueType, analogType, replacing, failed, domainReference, clientValueVars>>

-----------------------------------------------------------------------------
(* The client *)

\* The browser reads ahead level by level: the signal's nodes ...
BrowseSignal ==
  /\ progress = "start" /\ progress' = "browsed"
  /\ found' = {n \in {"Value", "AnalogValue"} : IF n = "Value" THEN HasValueNode ELSE HasAnalogNode}
  /\ whole' = (found' = {"Value", "AnalogValue"})
  /\ UNCHANGED <<serverValueVars, descriptorNodeId, answer>>

\* ... and what is below Value, if that is still there.
BrowseValue ==
  /\ progress = "browsed" /\ progress' = "ahead"
  /\ found' = IF "Value" \in found /\ HasValueNode THEN found \cup {"DataDescriptor"} ELSE found
  /\ whole' = (whole /\ "DataDescriptor" \in found')
  /\ UNCHANGED <<serverValueVars, descriptorNodeId, answer>>

\* The constructor asks for the descriptor's node below a Value it has found: the
\* null node if it is not there.
MakeSignal ==
  /\ progress = "ahead" /\ progress' = "made"
  /\ descriptorNodeId' = IF "Value" \notin found THEN Unset
                         ELSE IF "DataDescriptor" \in found THEN "DataDescriptor" ELSE "null"
  /\ UNCHANGED <<serverValueVars, found, whole, answer>>

Told(call, of, got) ==
  /\ progress = "made"
  /\ answer' = [call |-> call, of |-> of, got |-> got, gap |-> replacing \/ failed # {}]
  /\ UNCHANGED <<serverValueVars, progress, found, descriptorNodeId, whole>>

\* Nodes that were replaced have the names, and so the ids, of those before.
ReadDataDescriptor == IF descriptorNodeId = "DataDescriptor" /\ HasValueNode THEN sampleType ELSE Unset
OnGetDescriptor == Told("descriptor", sampleType, ReadDataDescriptor)

\* The value is read as the analog value alone, which the server has for numbers.
ReadAnalogValue == IF HasAnalogNode THEN AnalogDataType(sampleType) ELSE Unset
GetLastValue ==
  Told("value", sampleType, IF "AnalogValue" \in found THEN ReadAnalogValue ELSE Unset)

OnGetDomainSignal == Told("domain", domainSignal, domainReference)

SignalValuesNext ==
  \/ \E type \in SampleTypes \cup {Unset} : DescriptorChanges(type)
  \/ \E fails \in {"none", "Value", "AnalogValue"} : ReplaceValueNodes(fails)
  \/ \E s \in DomainSignals : DomainSignalChanges(s)
  \/ BrowseSignal \/ BrowseValue \/ MakeSignal
  \/ OnGetDescriptor \/ GetLastValue \/ OnGetDomainSignal

SignalValuesSpec == SignalValuesInit /\ [][SignalValuesNext]_valueVars

-----------------------------------------------------------------------------
(* Properties *)

\* The value nodes have the types of the samples, the analog one where they are
\* numbers, when no replacement is going on; a signal has no Value node only
\* after making it failed, and no replacement repairs that.
ValueHasSampleType ==
  /\ sampleType # Unset =>
       /\ valueType \in {Unset, NodeType(SampleTypeToDataType(sampleType))}
       /\ analogType \in {Unset, NodeType(AnalogDataType(sampleType))}
  /\ ~HasValueNode <=> replacing \/ "Value" \in failed
  /\ ~HasAnalogNode <=> replacing \/ "AnalogValue" \in failed

\* A client that found every node when it made the signal is told the descriptor
\* and the last value of now through all replacements, and nothing only while
\* the server has no nodes; a value that is no number it is never told.  One
\* that met a replacement may be told nothing for good, but nothing false.
ClientKeepsReading ==
  answer # Unset /\ answer.call \in {"descriptor", "value"} =>
    /\ answer.got \in {Unset, answer.of}
    /\ whole /\ ~answer.gap => \/ answer.got = answer.of
                               \/ answer.call = "value" /\ AnalogDataType(answer.of) = Unset
=============================================================================
