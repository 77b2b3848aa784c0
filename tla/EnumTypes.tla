------------------------------- MODULE EnumTypes -------------------------------
(***************************************************************************)
(* The enumeration types of servers and the one type manager into which a  *)
(* client takes them when it connects: under their names, which servers    *)
(* share, and as lists of labels, while a value travels as an integer.     *)
(***************************************************************************)
EXTENDS Integers

CONSTANTS
  Firmwares,    \* what a server may define: [names -> sequence of [value, label]]
  Hosts,        \* servers
  Unshown

ASSUME EnumTypesAssumption ==
  \A f \in Firmwares : \A n \in DOMAIN f : DOMAIN f[n] \subseteq Nat

VARIABLES
  firmware,     \* host -> what it defines
  typeManager,  \* name -> the labels of its type, in the order of their values
  connecting,   \* Unshown, or the connection made: [host, left]
  connectedTo,  \* hosts the client is connected to
  shown,        \* the enumeration read last: [name, is, counted, label]
  defined       \* history: what any server has ever defined

enumVars == <<firmware, typeManager, connecting, connectedTo, shown, defined>>

Labels(definition) == [i \in DOMAIN definition |-> definition[i].label]

\* A list of labels stands for the values 0, 1, ...
Counted(definition) == \A i \in DOMAIN definition : definition[i].value = i - 1

Disputed(n) == \E f, g \in defined : n \in DOMAIN f \cap DOMAIN g /\ f[n] # g[n]

EnumTypesInit ==
  /\ firmware \in [Hosts -> Firmwares]
  /\ typeManager = << >> /\ connecting = Unshown /\ connectedTo = {} /\ shown = Unshown
  /\ defined = {firmware[h] : h \in Hosts}

\* A server comes back with other types; what was connected to it is not.
Restart(h, f) ==
  /\ f # firmware[h] /\ firmware' = [firmware EXCEPT ![h] = f]
  /\ connectedTo' = connectedTo \ {h}
  /\ connecting' = IF connecting # Unshown /\ connecting.host = h THEN Unshown ELSE connecting
  /\ defined' = defined \cup {f}
  /\ UNCHANGED <<typeManager, shown>>

\* connect() is called under the mutex of the module: one at a time.
BeginConnect(h) ==
  /\ connecting = Unshown /\ h \notin connectedTo
  /\ connecting' = [host |-> h, left |-> DOMAIN firmware[h]]
  /\ UNCHANGED <<firmware, typeManager, connectedTo, shown, defined>>

\* One round of addEnumerationTypesToTypeManager(): a name that has a type is
\* passed over, be it the type of another server.
AddEnumerationType(n) ==
  /\ connecting # Unshown /\ n \in connecting.left
  /\ typeManager' =
       IF n \in DOMAIN typeManager THEN typeManager
       ELSE [m \in DOMAIN typeManager \cup {n} |->
               IF m = n THEN Labels(firmware[connecting.host][n]) ELSE typeManager[m]]
  /\ connecting' = [connecting EXCEPT !.left = @ \ {n}]
  /\ UNCHANGED <<firmware, connectedTo, shown, defined>>

\* Reading the labels fails, and with it the connection; the types stay.
ReadLabelsFails ==
  /\ connecting # Unshown /\ connecting.left # {}
  /\ connecting' = Unshown
  /\ UNCHANGED <<firmware, typeManager, connectedTo, shown, defined>>

Connected ==
  /\ connecting # Unshown /\ connecting.left = {}
  /\ connectedTo' = connectedTo \cup {connecting.host} /\ connecting' = Unshown
  /\ UNCHANGED <<firmware, typeManager, shown, defined>>

Disconnect(h) ==
  /\ h \in connectedTo /\ connectedTo' = connectedTo \ {h}
  /\ UNCHANGED <<firmware, typeManager, connecting, shown, defined>>

\* The integer of a value becomes the label the type manager has for it, none if
\* it has no such value.
ReadEnumeration(h, n, i) ==
  /\ h \in connectedTo /\ n \in DOMAIN firmware[h] /\ i \in DOMAIN firmware[h][n]
  /\ LET read == firmware[h][n][i]
         labels == typeManager[n]
     IN shown' = [name |-> n, is |-> read, counted |-> Counted(firmware[h][n]),
                  label |-> IF read.value + 1 \in DOMAIN labels THEN labels[read.value + 1] ELSE Unshown]
  /\ UNCHANGED <<firmware, typeManager, connecting, connectedTo, defined>>

EnumTypesNext ==
  \/ \E h \in Hosts :
       \/ BeginConnect(h) \/ Disconnect(h)
       \/ \E f \in Firmwares : Restart(h, f)
       \/ \E n \in DOMAIN firmware[h] : \E i \in DOMAIN firmware[h][n] : ReadEnumeration(h, n, i)
  \/ connecting # Unshown /\ \E n \in connecting.left : AddEnumerationType(n)
  \/ ReadLabelsFails \/ Connected

-----------------------------------------------------------------------------
(* Properties *)

\* A value shows the label its server gives it, over connections that fail, end
\* and come back, unless its type's name was ever defined in two ways, by two
\* servers or by one at two times, or its values are not counted from 0.
EnumerationArrives ==
  shown # Unshown /\ ~Disputed(shown.name) /\ shown.counted => shown.label = shown.is.label

\* A server the client is connected to has every type of its in the manager.
ConnectedTypesAreKnown ==
  \A h \in connectedTo : DOMAIN firmware[h] \subseteq DOMAIN typeManager
=============================================================================
