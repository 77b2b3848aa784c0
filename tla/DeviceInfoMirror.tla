-------------------------- MODULE DeviceInfoMirror --------------------------
(***************************************************************************)
(* The device info, the operation mode and the time domain of a device,    *)
(* as the server shows them in nodes and a client reads them.  A field is  *)
(* either a value that the server wrote once or a window on the device;    *)
(* the client decides from the version and the access level of the server  *)
(* which fields it lets its user edit, and keeps a copy of the others.     *)
(***************************************************************************)
EXTENDS Integers, FiniteSets

CONSTANTS
  InfoFields,
  OptionalFields, \* have a node only if the device has a value at the start
  NarrowFields,   \* the server casts their value to fewer bits
  InfoValues,     \* 0 is the empty value
  Span,           \* the narrow values are 0..(Span - 1)
  Modes,
  Domains,        \* [unit, denominator, rest]; unit is NotThere or [id, symbol], id of 32 bits
  NotThere        \* no node, no info, no domain, no unit, no question

ASSUME DeviceInfoAssumption ==
  /\ OptionalFields \subseteq InfoFields /\ NarrowFields \subseteq InfoFields
  /\ 0 \in InfoValues /\ InfoValues \subseteq Nat /\ Span \in Nat \ {0}
  /\ "domain" \notin InfoFields
  /\ NotThere \notin Nat \cup [InfoFields -> SUBSET InfoValues]

ASSUME DomainsAssumption ==
  /\ \A d \in Domains : d.denominator \in Nat /\ (d.unit # NotThere => d.unit.id \in Int)
  /\ NotThere \notin Domains

VARIABLES
  info,       \* the device's info
  readOnly,   \* the fields of it that only the device itself changes
  version,    \* of openDAQ that the device states: "none", "older" or "newer" than 3.11
  infoNode,   \* field -> NotThere or [writable, written]: written is NotThere for a window
  mirrorInfo, \* field -> [editable, copy], once the client has asked for the info
  infoHad,    \* the values a field has had since the server started
  told,       \* the answer to a client that asked last: [field, value]
  mode,       \* the mode of the device and of a device below it
  asked,      \* the last mode a client asked for: [mode, recursive, result]
  domain,     \* the device's domain
  domainHad,  \* the domains it has had
  mirrorDomain \* what the client's device has as its domain

infoVars == <<info, readOnly, version, infoNode, mirrorInfo, infoHad, told>>
modeVars == <<mode, asked>>
domainVars == <<domain, domainHad, mirrorDomain>>
deviceInfoVars == <<infoVars, modeVars, domainVars>>

HasInfo == mirrorInfo # NotThere
Started == infoHad # NotThere
Casted(f, v) == IF f \in NarrowFields THEN v % Span ELSE v
HasInfoNode(f) == infoNode[f] # NotThere

\* A client that asks a node: what was written or what the device has now.
ReadNode(f) == IF infoNode[f].written = NotThere THEN Casted(f, info[f]) ELSE infoNode[f].written

DeviceInfoInit ==
  /\ info \in [InfoFields -> InfoValues \cap {0, 1}]
  /\ readOnly \in SUBSET InfoFields
  /\ version \in {"none", "older", "newer"}
  /\ infoNode = [f \in InfoFields |-> NotThere]
  /\ mirrorInfo = NotThere /\ infoHad = NotThere /\ told = NotThere
  /\ mode \in [{"root", "below"} -> Modes] /\ asked = NotThere
  /\ domain \in Domains \cup {NotThere} /\ domainHad = {domain} /\ mirrorDomain = NotThere

\* createOptionalNode
CreatesNode(f) == f \notin OptionalFields \/ info[f] # 0

\* The server starts: a read-only field is written to its node for good, the
\* others are read from and written to the device.
PopulateDeviceInfo ==
  /\ ~Started
  /\ infoNode' = [f \in InfoFields |->
       IF CreatesNode(f)
       THEN [writable |-> f \notin readOnly,
             written |-> IF f \in readOnly THEN Casted(f, info[f]) ELSE NotThere]
       ELSE NotThere]
  /\ infoHad' = [f \in InfoFields |-> {info[f]}]
  /\ UNCHANGED <<info, readOnly, version, mirrorInfo, told, modeVars, domainVars>>

\* The device changes a field of its own, read-only or not.
AppSetsInfo(f, v) ==
  /\ Started /\ v # info[f]
  /\ info' = [info EXCEPT ![f] = v]
  /\ infoHad' = [infoHad EXCEPT ![f] = @ \cup {v}]
  /\ told' = NotThere
  /\ UNCHANGED <<readOnly, version, infoNode, mirrorInfo, modeVars, domainVars>>

\* serverSupportsEditableProperties: a server that states no version does.
EditableProperties == version # "older"

\* onGetInfo(): the fields the server lets write become windows, the others
\* keep the value read now; a field with no node keeps its default.
OnGetInfo ==
  /\ Started /\ ~HasInfo
  /\ mirrorInfo' = [f \in InfoFields |->
       IF HasInfoNode(f)
       THEN [editable |-> EditableProperties /\ infoNode[f].writable, copy |-> ReadNode(f)]
       ELSE [editable |-> FALSE, copy |-> 0]]
  /\ told' = NotThere
  /\ UNCHANGED <<info, readOnly, version, infoNode, infoHad, modeVars, domainVars>>

\* getOnPropertyValueRead
ClientReadsInfo(f) ==
  /\ HasInfo
  /\ told' = [field |-> f, value |-> IF mirrorInfo[f].editable THEN ReadNode(f) ELSE mirrorInfo[f].copy]
  /\ UNCHANGED <<info, readOnly, version, infoNode, mirrorInfo, infoHad, modeVars, domainVars>>

\* getOnPropertyValueWrite: the value goes to the device, uncast; a field that
\* is not editable, or a node that is not writable, is an error.
ClientWritesInfo(f, v) ==
  /\ HasInfo
  /\ IF mirrorInfo[f].editable /\ infoNode[f].writable
     THEN /\ info' = [info EXCEPT ![f] = v]
          /\ infoHad' = [infoHad EXCEPT ![f] = @ \cup {v}]
     ELSE UNCHANGED <<info, infoHad>>
  /\ told' = NotThere
  /\ UNCHANGED <<readOnly, version, infoNode, mirrorInfo, modeVars, domainVars>>

\* The client drops the device: the next one asks again.
DropInfo ==
  /\ HasInfo /\ mirrorInfo' = NotThere /\ told' = NotThere /\ mirrorDomain' = NotThere
  /\ UNCHANGED <<info, readOnly, version, infoNode, infoHad, modeVars, domain, domainHad>>

-----------------------------------------------------------------------------
AppSetsMode(m) ==
  /\ mode' = [mode EXCEPT !["root"] = m] /\ asked' = NotThere
  /\ UNCHANGED <<infoVars, domainVars>>

\* The text of a recursive request starts with "Recursive".
WriteMode(m, recursive) == [d \in {"root", "below"} |-> IF d = "root" \/ recursive THEN m ELSE mode[d]]

\* setOperationModeImpl(): the user may lack the right, or the device refuse.
SetOperationMode(m, recursive, result) ==
  /\ Started
  /\ mode' = IF result = "ok" THEN WriteMode(m, recursive) ELSE mode
  /\ asked' = [mode |-> m, recursive |-> recursive, result |-> result]
  /\ UNCHANGED <<infoVars, domainVars>>

-----------------------------------------------------------------------------
AppSetsDomain(d) ==
  /\ domain' = d /\ domainHad' = domainHad \cup {d} /\ told' = NotThere
  /\ UNCHANGED <<info, readOnly, version, infoNode, mirrorInfo, infoHad, modeVars, mirrorDomain>>

\* The read callback of the node: nothing where there is no domain, or where
\* converting it throws, for it has no unit.
ServedDomain(d) == IF d # NotThere /\ d.unit # NotThere THEN d ELSE NotThere

NoUnit == [id |-> -1, symbol |-> ""]

\* What the client makes of a domain: a unit only of an id above 0.
ReceivedDomain(d) ==
  [unit |-> IF d.unit.id > 0 THEN d.unit ELSE NoUnit,
   denominator |-> IF d.denominator = 0 THEN 1 ELSE d.denominator,
   rest |-> d.rest]

\* getDomain(), fetchTimeDomain(): no domain leaves the one before.
FetchTimeDomain ==
  /\ Started
  /\ mirrorDomain' = IF ServedDomain(domain) = NotThere THEN mirrorDomain ELSE ReceivedDomain(domain)
  /\ told' = [field |-> "domain", value |-> mirrorDomain']
  /\ UNCHANGED <<info, readOnly, version, infoNode, mirrorInfo, infoHad, modeVars, domain, domainHad>>

InfoNext ==
  \/ PopulateDeviceInfo \/ OnGetInfo \/ DropInfo
  \/ \E f \in InfoFields : ClientReadsInfo(f) \/ \E v \in InfoValues : AppSetsInfo(f, v) \/ ClientWritesInfo(f, v)

ModeNext ==
  \/ PopulateDeviceInfo \/ FetchTimeDomain
  \/ \E m \in Modes : AppSetsMode(m) \/ \E r \in BOOLEAN, x \in {"ok", "denied", "failed"} : SetOperationMode(m, r, x)
  \/ \E d \in Domains \cup {NotThere} : AppSetsDomain(d)

-----------------------------------------------------------------------------
(* Properties *)

\* Type invariant.
DeviceInfoTypeOK ==
  /\ info \in [InfoFields -> InfoValues]
  /\ \A f \in InfoFields : HasInfoNode(f) => infoNode[f].writable \in BOOLEAN
  /\ HasInfo => \A f \in InfoFields : /\ mirrorInfo[f].editable \in BOOLEAN
                                      /\ mirrorInfo[f].copy \in {0} \cup {Casted(f, v) : v \in InfoValues}
  /\ mode \in [{"root", "below"} -> Modes]

\* The client lets its user edit exactly the fields that the server lets it
\* write, unless the server states an older version, and the device's own
\* read-only fields never change through a client.
EditableIsWritable ==
  /\ HasInfo => \A f \in InfoFields :
       mirrorInfo[f].editable <=> (HasInfoNode(f) /\ infoNode[f].writable /\ version # "older")
  /\ \A f \in InfoFields : HasInfoNode(f) /\ infoNode[f].writable => f \notin readOnly

\* A client shows a domain with its resolution, unless that has no denominator,
\* and its unit, unless that has no id.
ShowsDomain(shown, d) ==
  /\ shown.rest = d.rest
  /\ shown.denominator # 0 /\ (d.denominator # 0 => shown.denominator = d.denominator)
  /\ shown.unit = IF d.unit.id > 0 THEN d.unit ELSE NoUnit

\* What a client is told of a field is what the device has, cast; where it may
\* not edit the field, it is what the device has had, or nothing when the
\* device had nothing at the start.  A time domain is the device's, as far as a
\* client shows it; when the server can give none, it is one the device has had,
\* or none (fetchTimeDomain).
ToldIsTheDevices ==
  told # NotThere =>
    LET f == told.field
    IN /\ f = "domain" =>
            \/ ServedDomain(domain) # NotThere /\ ShowsDomain(told.value, domain)
            \/ /\ ServedDomain(domain) = NotThere
               /\ told.value = NotThere
                    \/ \E d \in domainHad : ServedDomain(d) # NotThere /\ ShowsDomain(told.value, d)
       /\ f # "domain" /\ mirrorInfo[f].editable => told.value = Casted(f, info[f])
       /\ f # "domain" /\ ~mirrorInfo[f].editable =>
            IF HasInfoNode(f) THEN \E v \in infoHad[f] : told.value = Casted(f, v) ELSE told.value = 0

\* A mode that was accepted is the mode of the device, and of those below it
\* when it was asked for them; one that was not accepted changes nothing.
AcceptedModeIsSet ==
  [][(asked' # asked /\ asked' # NotThere) =>
       /\ asked'.result = "ok" => mode'["root"] = asked'.mode /\ (asked'.recursive => mode'["below"] = asked'.mode)
       /\ (asked'.result # "ok" \/ ~asked'.recursive) => mode'["below"] = mode["below"]]_deviceInfoVars
=============================================================================
