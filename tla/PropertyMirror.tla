--------------------------- MODULE PropertyMirror ---------------------------
(***************************************************************************)
(* The nodes by which the server shows a property object, and the views    *)
(* that clients build from the nodes.                                      *)
(*   node      [name, class, type, number, fields, prop, children]         *)
(***************************************************************************)
EXTENDS PropertyCalls

NoNumber == 1000        \* std::numeric_limits<uint32_t>::max()
ToSeqOf(S) == SetToSortSeq(S, LAMBDA x, y : x.number < y.number)

\* A reference property stands for one of those it refers to.
Resolved(o, p, val) == IF IsReference(p) THEN Named(o, Target(p, val)) ELSE p

-----------------------------------------------------------------------------
(* The server's nodes *)

\* TmsServerProperty::getTmsTypeId()
NodeType(p) ==
  CASE "SelectionValues" \in DOMAIN p.fields -> "Selection"
    [] IsReference(p) -> "Reference"
    [] p.type \in {"Int", "Float"} -> "Numeric"
    [] p.type = "Struct" -> "Structure"
    [] OTHER -> "Introspection"

Introspection == {"IsVisible", "IsReadOnly", "DefaultValue", "Unit", "ValidationExpression", "CoercionExpression"}

\* The hide...TypeChildren(): optional children that are not created.
Hidden(p) ==
  LET absent == Introspection \ DOMAIN p.fields
  IN  CASE NodeType(p) = "Reference" -> {"IsVisible"}
        [] NodeType(p) = "Numeric" ->
             (absent \ {"DefaultValue"}) \cup ({"MinValue", "MaxValue", "SuggestedValues"} \ DOMAIN p.fields)
        [] NodeType(p) = "Selection" -> absent \ {"DefaultValue"}
        [] NodeType(p) = "Structure" -> {"FieldCoercionExpression", "FieldValidationExpression"}
        [] OTHER -> absent

\* The children of a property with a value: add...TypeChildNodes() and the
\* expressions bound by bindCallbacks().  An unassigned one reads as null.
Null == [e |-> FALSE, v |-> Nobody]
FieldNodes(p) ==
  LET offered == CASE NodeType(p) = "Reference" -> {}
                   [] NodeType(p) = "Numeric" -> Introspection \cup {"MinValue", "MaxValue", "SuggestedValues"}
                   [] NodeType(p) = "Selection" -> Introspection \cup {"SelectionValues"}
                   [] OTHER -> Introspection
  IN  [f \in offered \ Hidden(p) |-> IF f \in DOMAIN p.fields THEN p.fields[f] ELSE Null]

Node(p, class, type, number, fields, children) ==
  [name |-> p.name, class |-> class, type |-> type, number |-> number, fields |-> fields,
   prop |-> p, children |-> children]

\* A variable, with the properties it refers to below it: addReferenceTypeChildNodes().
\* A property that is referred to twice gets a node below each.
VariableNode(o, p, order) ==
  Node(p, "variable", NodeType(p), order[p.name], FieldNodes(p),
       {Node(q, "variable", NodeType(q), order[q.name], FieldNodes(q), {}) :
          q \in {Named(o, n) : n \in ToSet(p.to)} \ {q \in ToSet(o) : q.type = "Object"}})

\* CoreTypeToUANodeID knows these types of arguments.
HasNodeId(t) == t \in {"Bool", "Int", "Float", "String", "Ratio"}

\* addMethodPropertyNode(): it fails, and is logged, when an argument or the
\* result has no UA type.
MethodNode(p, number) ==
  IF \A t \in ToSet(p.args) \cup {p.ret} : HasNodeId(t) \/ t = "Undefined"
  THEN {Node(p, "method", "Method", number, <<>>, {})} ELSE {}

Compatible(p) == ToSet(p.args) \cap {"List", "Dict"} = {}

UpdateMethods ==
  {Node([name |-> n, args |-> <<>>, ret |-> "Undefined"], "method", "Method", NoNumber, <<>>, {}) : n \in {"BeginUpdate", "EndUpdate"}}

\* TmsServerPropertyObject::addChildNodes()
RECURSIVE ChildNodes(_, _)
ChildNodes(o, val) ==
  LET order == [n \in Names(o) |-> (CHOOSE i \in DOMAIN o : o[i].name = n) - 1]
      ToNodes(p) ==
        LET r == Resolved(o, p, val)
        IN  IF r.type = "Object" /\ ~IsReference(p)
            THEN {Node(p, "object", "Block", order[p.name],
                       [f \in DOMAIN p.fields \cap {"IsVisible", "IsReadOnly"} |-> p.fields[f]],
                       ChildNodes(p.sub, val))}
            ELSE IF IsReferenced(o, p) THEN {}
            ELSE IF r.type \in {"Func", "Proc"}
            THEN IF Compatible(r) THEN MethodNode([r EXCEPT !.name = p.name], order[p.name]) ELSE {}
            ELSE IF r.type \in {"Struct", "Enum"} /\ ~r.native THEN {}
            ELSE {VariableNode(o, p, order)}
  IN  UNION {ToNodes(p) : p \in ToSet(o)} \cup UpdateMethods

-----------------------------------------------------------------------------
(* The client's properties *)

\* TmsClientPropertyImpl::configurePropertyFields(): the fields it reads; a
\* default that is missing is the value at the time.
ClientFields(x, val, write) ==
  LET known == {f \in DOMAIN x.fields : x.fields[f] # Null \/ f = "DefaultValue"}
      read == [f \in known |-> IF x.fields[f] = Null THEN [e |-> FALSE, v |-> val[x.name]] ELSE x.fields[f]]
      locked == IF write THEN <<>> ELSE [f \in {"IsReadOnly"} |-> [e |-> FALSE, v |-> 1]]
  IN  locked @@ read

\* addVariableBlockProperty() reads two.
BlockFields(x) == [f \in DOMAIN x.fields \cap {"IsReadOnly", "IsVisible"} |-> x.fields[f]]

\* The attributes that TmsAttributeCollector has read before the properties
\* are built: <<path, attribute>>.  What is not there cannot be read later.
Base == {"NODECLASS", "WRITEMASK", "USERWRITEMASK"}
Expressions == {"ValidationExpression", "CoercionExpression"}
Of(path, attributes) == {<<path, a>> : a \in attributes}
ValuesOf(path, names) == {<<Append(path, n), "VALUE">> : n \in names}
Evals(x) == DOMAIN x.fields \ Expressions
MethodChildren(p) == {"NumberInList"} \cup (IF p.args = <<>> THEN {} ELSE {"InputArguments"})
                     \cup (IF p.ret = "Undefined" THEN {} ELSE {"OutputArguments"})

\* collectEvaluationPropertyAttributes()
CollectedEvals(x, path) ==
  ValuesOf(path, Evals(x)) \cup UNION {ValuesOf(Append(path, f), {"EvaluationExpression"}) : f \in Evals(x)}

\* Mutant: only what stands directly below an object is collected.
CollectedFlat(x, path) ==
  IF x.class = "method" THEN Of(path, {"EXECUTABLE", "USEREXECUTABLE"}) \cup ValuesOf(path, MethodChildren(x.prop))
  ELSE Of(path, Base \cup {"DESCRIPTION", "VALUE", "DISPLAYNAME", "DATATYPE", "ACCESSLEVEL", "USERACCESSLEVEL"})
       \cup ValuesOf(path, {"NumberInList"} \cup Expressions) \cup CollectedEvals(x, path)

\* collectPropertyObjectAttributes() and, of what is below, collectMethodAttributes()
\* and collectPropertyAttributes()
RECURSIVE Collected(_, _)
Collected(x, path) ==
  LET below == UNION {Collected(y, Append(path, y.name)) : y \in x.children}
  IN  CASE x.class = "method" ->
             Of(path, {"EXECUTABLE", "USEREXECUTABLE"}) \cup ValuesOf(path, MethodChildren(x.prop))
        [] x.class = "object" ->
             Of(path, Base \cup {"DESCRIPTION"}) \cup ValuesOf(path, {"NumberInList"}) \cup CollectedEvals(x, path) \cup below
        [] OTHER ->
             Of(path, Base \cup {"VALUE", "DISPLAYNAME", "DESCRIPTION", "DATATYPE", "ACCESSLEVEL", "USERACCESSLEVEL"})
             \cup ValuesOf(path, {"NumberInList"} \cup (DOMAIN x.fields \cap Expressions))
             \cup CollectedEvals(x, path) \cup below

\* What readBasicInfo(), configurePropertyFields(), addVariableBlockProperty()
\* and addMethodProperties() ask for.
Needed(x, path) ==
  CASE x.class = "method" -> ValuesOf(path, MethodChildren(x.prop) \ {"NumberInList"})
    [] x.class = "object" -> Of(path, {"DESCRIPTION"}) \cup CollectedEvals(x, path)
    [] x.type = "Reference" -> Of(path, {"VALUE"})
    [] OTHER -> Of(path, {"DESCRIPTION", "VALUE", "DATATYPE", "ACCESSLEVEL", "USERACCESSLEVEL"})
                \cup ValuesOf(path, DOMAIN x.fields) \cup CollectedEvals(x, path)

RECURSIVE Build(_, _, _, _, _)

\* A property of a client: how it is reached (the map its name is put in).
ClientProperty(x, path, read, val, write) ==
  LET p == [name |-> x.name, number |-> x.number]
  IN  CASE x.class = "method" ->
             p @@ [how |-> "method", type |-> IF x.prop.ret = "Undefined" THEN "Proc" ELSE "Func",
                   fields |-> <<>>, prop |-> x.prop, sub |-> <<>>]
        [] x.class = "object" ->
             p @@ [how |-> "object", type |-> "Object", fields |-> BlockFields(x), prop |-> x.prop,
                   sub |-> Build(x.children, path, read, val, write)]
        [] x.type = "Reference" ->
             p @@ [how |-> "reference", type |-> "Reference", fields |-> <<>>, prop |-> x.prop, sub |-> <<>>]
        [] OTHER ->
             p @@ [how |-> "introspection", type |-> x.prop.type, fields |-> ClientFields(x, val, write),
                   prop |-> x.prop, sub |-> <<>>]

\* A property that cannot be built is left out: an attribute was not read, or
\* the value is a function (below a reference).
Buildable(x, path, read) ==
  /\ Needed(x, path) \subseteq read
  /\ ~(x.class = "variable" /\ x.type # "Reference" /\ x.prop.type \in {"Func", "Proc"})

\* addProperties() and addMethodProperties()
PropertiesOf(nodes, path, read, val, write) ==
  LET below(x) == IF x.type = "Reference" THEN {<<y, <<x.name, y.name>>>> : y \in x.children} ELSE {}
      all == {<<x, <<x.name>>>> : x \in nodes} \cup UNION {below(x) : x \in nodes}
      ignored == {"BeginUpdate", "EndUpdate", "GetErrorInformation"}
  IN  {ClientProperty(x[1], path \o x[2], read, val, write) :
         x \in {y \in all : Buildable(y[1], path \o y[2], read) /\ y[1].name \notin ignored}}

\* browseRawProperties(): by number; those without one, or whose number is
\* taken, at the end; a name only once.
Build(nodes, path, read, val, write) ==
  LET found == PropertiesOf(nodes, path, read, val, write)
      numbers == {p.number : p \in found} \ {NoNumber}
      ordered == {CHOOSE p \in found : p.number = n : n \in numbers}
      rest == {p \in found \ ordered : \A q \in ordered : q.name # p.name}
  IN  ToSeqOf(ordered) \o SetToSeq(rest)

\* What a client builds when it connects: of the nodes there are, as far as it
\* has read their attributes.
ClientView(o, val, write) ==
  LET nodes == ChildNodes(o, val)
      read == UNION {Collected(x, <<x.name>>) : x \in nodes}
  IN  Build(nodes, <<>>, read, val, write)

-----------------------------------------------------------------------------
(* Properties *)

\* What OPC UA can show of an object: no functions that take lists, none that
\* only a reference leads to, no structures without a UA type.
CanBeShown(o, p) ==
  LET r == Resolved(o, p, [n \in Names(o) |-> 0])
  IN  CASE r.type \in {"Func", "Proc"} ->
             (\A t \in ToSet(r.args) \cup {r.ret} : HasNodeId(t) \/ t = "Undefined") /\ ~IsReferenced(o, p)
        [] r.type \in {"Struct", "Enum"} -> r.native
        [] OTHER -> TRUE

\* A client shows every property that can be shown, once, in the order of the
\* server's object, with the fields it has there.
MirrorIsFaithful ==
  \A c \in PropClients :
    views[c] # <<>> =>
      LET shown == SelectSeq(object, LAMBDA p : CanBeShown(object, p))
      IN  /\ [i \in DOMAIN views[c] |-> views[c][i].name] = [i \in DOMAIN shown |-> shown[i].name]
          /\ c \in Writers =>
               \A i \in DOMAIN shown :
                 views[c][i].how = "introspection" =>
                   \A f \in DOMAIN shown[i].fields : views[c][i].fields[f] = shown[i].fields[f]

\* What a client is shown and what it hands over: the object is mirrored with
\* its types, its properties in order, and the arguments of its calls.
ObjectIsMirrored == PropertyMirrorTypeOK /\ MirrorIsFaithful /\ CallArrives
=============================================================================
