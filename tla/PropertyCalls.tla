---------------------------- MODULE PropertyCalls ----------------------------
(***************************************************************************)
(* A property object of the server and the calls by which clients read and *)
(* write the properties of their own property objects, their views of it.  *)
(*   property  [name, type, fields, to, by, native, args, ret, sub]        *)
(*             to = <<a, b>>: refers to a or b as the property by says     *)
(*   field     [e |-> TRUE, v |-> a property's name] when it is evaluated, *)
(*             [e |-> FALSE, v |-> its value] when not                     *)
(* Values are 0 and 1, 1 standing for true.  Clients call by steps: what a *)
(* call reads first may have changed when it writes.                       *)
(***************************************************************************)
EXTENDS Integers, Sequences, SequencesExt, FiniteSets

CONSTANTS Objects,      \* the property objects that may be shown
          PropClients,  \* the clients ...
          Writers,      \* ... and those whose user may write
          MaxBegins,    \* bound: nested updates
          Nobody,       \* no client, no value
          ViewOf(_, _, _)  \* what a client builds of an object with its values,
                           \* with the right to write or without

VARIABLES object,       \* the properties, in order
          frozen,       \* the object takes no writes
          values,       \* value of each property on the server
          updates,      \* open beginUpdate() calls
          pending,      \* values set in the update
          views,        \* client -> its properties
          call,         \* the call under way
          answer        \* what the last call returned

mirrorVars == <<object, frozen, values, updates, pending, views, call, answer>>

Named(o, n) == CHOOSE p \in ToSet(o) : p.name = n
Names(o) == {o[i].name : i \in DOMAIN o}
Val(x, val) == IF x.e THEN val[x.v] ELSE x.v

\* A reference property stands for one of those it refers to.
IsReference(p) == p.to # <<>>
Target(p, val) == p.to[val[p.by] + 1]
IsReferenced(o, p) == \E q \in ToSet(o) : p.name \in ToSet(q.to)

\* Properties refer to others of their object, which refer to no more.
ReferencesEnd(o) ==
  \A n \in Names(o) :
    LET p == Named(o, n)
    IN  IsReference(p) => /\ p.by \in Names(o)
                          /\ \A i \in 1..2 : i \in DOMAIN p.to /\ p.to[i] \in Names(o)
                                             /\ ~IsReference(Named(o, p.to[i]))

\* A view shows properties of the object by what they are: references as such,
\* selections among the values there are, and to a client that may write the
\* read-only flag as the object has it.
Fits(view, o, write) ==
  \A n \in Names(view) :
    LET x == Named(view, n)
        p == Named(o, n)
    IN  /\ n \in Names(o)
        /\ x.how = "reference" => IsReference(p) /\ x.prop = p
        /\ x.how = "introspection" => ~IsReference(p)
        /\ "SelectionValues" \in DOMAIN x.fields => DOMAIN x.fields["SelectionValues"].v \subseteq 1..2
        /\ x.how = "introspection" /\ write /\ "IsReadOnly" \in DOMAIN p.fields =>
             "IsReadOnly" \in DOMAIN x.fields /\ x.fields["IsReadOnly"] = p.fields["IsReadOnly"]

ASSUME PropertyCallsAssumption ==
  /\ MaxBegins \in Nat /\ Writers \subseteq PropClients /\ Nobody \notin 0..1
  /\ \A o \in Objects :
       /\ ReferencesEnd(o)
       /\ \A vals \in [Names(o) -> 0..1], write \in BOOLEAN : Fits(ViewOf(o, vals, write), o, write)

-----------------------------------------------------------------------------
(* The server's object; the calls of openDAQ itself *)

ReadOnly(p, val) == "IsReadOnly" \in DOMAIN p.fields /\ Val(p.fields["IsReadOnly"], val) = 1

\* A value that is set during an update waits for its end.
Store(n, v) ==
  IF updates = 0
  THEN values' = [values EXCEPT ![n] = v] /\ UNCHANGED pending
  ELSE pending' = [pending EXCEPT ![n] = v] /\ UNCHANGED values

Plain(o) == {p.name : p \in {q \in ToSet(o) : ~IsReference(q) /\ q.type \notin {"Object", "Func", "Proc"}}}

ApplicationSets(n, v) ==
  /\ n \in Plain(object)
  /\ ~ReadOnly(Named(object, n), values) /\ ~frozen
  /\ Store(n, v)
  /\ UNCHANGED <<object, frozen, updates, views, call, answer>>

BeginUpdate ==
  /\ updates < MaxBegins
  /\ updates' = updates + 1

EndUpdate ==
  /\ updates > 0
  /\ updates' = updates - 1
  /\ IF updates = 1
     THEN /\ values' = [n \in DOMAIN values |-> IF pending[n] # Nobody THEN pending[n] ELSE values[n]]
          /\ pending' = [n \in DOMAIN pending |-> Nobody]
     ELSE UNCHANGED <<values, pending>>

-----------------------------------------------------------------------------
(* The client's calls *)

NoCall == [at |-> "idle"]
Nothing == [op |-> "none"]

Connect(c) ==
  /\ views[c] = <<>>
  /\ views' = [views EXCEPT ![c] = ViewOf(object, values, c \in Writers)]
  /\ UNCHANGED <<object, frozen, values, updates, pending, call, answer>>

\* setOPCUAPropertyValueInternal(): the name is looked up.  A reference is
\* resolved on the client and set by its own, unprotected call.
StartSet(c, n, v, protected) ==
  /\ call = NoCall /\ views[c] # <<>>
  /\ call' = [at |-> "set", c |-> c, n |-> n, v |-> v, protected |-> protected, checked |-> FALSE, asked |-> n]
  /\ answer' = Nothing
  /\ UNCHANGED <<object, frozen, values, updates, pending, views>>

View == views[call.c]
Has(n) == n \in Names(View)
How(n) == IF Has(n) THEN Named(View, n).how ELSE "none"

\* How a call ends: an error other than these two is logged and reported as
\* success.
Return(result, really) ==
  /\ call' = NoCall
  /\ answer' = [op |-> call.at, c |-> call.c, n |-> call.n, asked |-> call.asked, v |-> call.v,
                protected |-> call.protected,
                result |-> IF result \in {"notfound", "denied"} THEN result ELSE "success",
                really |-> really]

SetReference ==
  /\ call.at = "set" /\ How(call.n) = "reference"
  /\ call' = [call EXCEPT !.n = Target(Named(View, call.n).prop, values), !.protected = FALSE]
  /\ UNCHANGED <<object, frozen, values, updates, pending, views, answer>>

SetRefused ==
  /\ call.at = "set" /\ ~call.checked
  /\ \/ /\ How(call.n) \in {"none", "method"}
        /\ Return("notfound", "notfound")
     \/ /\ How(call.n) = "object"
        /\ Return("notimplemented", "notimplemented")
     \/ /\ How(call.n) = "introspection"
        /\ ~call.protected /\ ReadOnly(Named(View, call.n), values)
        /\ Return("denied", "denied")
  /\ UNCHANGED <<object, frozen, values, updates, pending, views>>

\* Mutant: the flag is not looked at.
SetCheckedAlways ==
  /\ call.at = "set" /\ How(call.n) = "introspection" /\ ~call.checked
  /\ call' = [call EXCEPT !.checked = TRUE]
  /\ UNCHANGED <<object, frozen, values, updates, pending, views, answer>>

\* prop.getReadOnly() may read the value of another property.
SetChecked ==
  /\ call.at = "set" /\ How(call.n) = "introspection" /\ ~call.checked
  /\ call.protected \/ ~ReadOnly(Named(View, call.n), values)
  /\ call' = [call EXCEPT !.checked = TRUE]
  /\ UNCHANGED <<object, frozen, values, updates, pending, views, answer>>

\* The write callback of the node: below a reference it sets the property as
\* an application does, elsewhere past the read-only flag.
ServerTakes(n) ==
  /\ ~frozen
  /\ call.c \in Writers
  /\ ~IsReferenced(object, Named(object, n)) \/ ~ReadOnly(Named(object, n), values)

\* client->writeValue(): the server takes the value, or refuses it; the
\* request, or the answer to it, may be lost.
SetWrites ==
  /\ call.at = "set" /\ call.checked
  /\ \/ /\ ServerTakes(call.n) /\ Store(call.n, call.v)
        /\ Return("success", "written") \/ Return("failed", "lost")
     \/ ~ServerTakes(call.n) /\ Return("failed", "refused") /\ UNCHANGED <<values, pending>>
     \/ Return("failed", "lost") /\ UNCHANGED <<values, pending>>
  /\ UNCHANGED <<object, frozen, updates, views>>

\* getPropertyValue()
StartGet(c, n) ==
  /\ call = NoCall /\ views[c] # <<>>
  /\ call' = [at |-> "get", c |-> c, n |-> n, v |-> Nobody, protected |-> FALSE, checked |-> FALSE, asked |-> n]
  /\ answer' = Nothing
  /\ UNCHANGED <<object, frozen, values, updates, pending, views>>

GetReference ==
  /\ call.at = "get" /\ How(call.n) = "reference"
  /\ call' = [call EXCEPT !.n = Target(Named(View, call.n).prop, values)]
  /\ UNCHANGED <<object, frozen, values, updates, pending, views, answer>>

Got(v) ==
  /\ call' = NoCall
  /\ answer' = [op |-> "get", c |-> call.c, n |-> call.n, asked |-> call.asked, v |-> v, result |-> "success"]
  /\ UNCHANGED <<object, frozen, values, updates, pending, views>>

GetReads ==
  /\ call.at = "get" /\ How(call.n) = "introspection"
  /\ Got(values[call.n])

\* A read that fails, or a name that is not there: success without a value.
GetFails ==
  /\ call.at = "get" /\ How(call.n) # "reference"
  /\ Got(Nobody)

\* setPropertySelectionValue(): the index of the value in the list.
SetSelection(c, n, v) ==
  /\ call = NoCall /\ n \in Names(views[c])
  /\ LET fields == Named(views[c], n).fields
     IN  /\ "SelectionValues" \in DOMAIN fields
         /\ \E i \in DOMAIN fields["SelectionValues"].v :
              /\ fields["SelectionValues"].v[i] = v
              /\ call' = [at |-> "set", c |-> c, n |-> n, v |-> i - 1, protected |-> FALSE, checked |-> FALSE, asked |-> n]
  /\ answer' = Nothing
  /\ UNCHANGED <<object, frozen, values, updates, pending, views>>

\* TmsClientFunctionImpl::call(), TmsClientProcedureImpl::dispatch(): none, a
\* value or a list become the arguments of the request.
Request(args) == IF args.k = "none" THEN <<>> ELSE args.v

\* The callback of the method hands them on.
Handed(request) ==
  IF Len(request) = 0 THEN [k |-> "none", v |-> <<>>]
  ELSE IF Len(request) = 1 THEN [k |-> "one", v |-> request]
  ELSE [k |-> "list", v |-> request]

Call(c, n, args) ==
  /\ call = NoCall /\ n \in Names(views[c]) /\ Named(views[c], n).how = "method"
  /\ \/ /\ Len(Request(args)) = Len(Named(views[c], n).prop.args)
        /\ answer' = [op |-> "call", c |-> c, n |-> n, args |-> args, handed |-> Handed(Request(args)),
                      out |-> IF Named(object, n).type = "Func" THEN 1 ELSE 0,
                      result |-> IF (Named(views[c], n).type = "Func") = (Named(object, n).type = "Func")
                                 THEN "success" ELSE "failed"]
     \/ answer' = [op |-> "call", c |-> c, n |-> n, args |-> args, handed |-> [k |-> "none", v |-> <<>>],
                   out |-> 0, result |-> "failed"]
  /\ UNCHANGED <<object, frozen, values, updates, pending, views, call>>

\* beginUpdate() and endUpdate() of a client are methods of the object; the
\* right to write is asked for as well.
ClientBegins(c) ==
  /\ views[c] # <<>> /\ c \in Writers /\ BeginUpdate
  /\ UNCHANGED <<object, frozen, values, pending, views, call, answer>>

ClientEnds(c) ==
  /\ views[c] # <<>> /\ c \in Writers /\ EndUpdate
  /\ UNCHANGED <<object, frozen, views, call, answer>>

-----------------------------------------------------------------------------

\* Nothing, a value, and lists of as many values as they have.
Arguments ==
  {[k |-> "none", v |-> <<>>], [k |-> "one", v |-> <<1>>], [k |-> "list", v |-> <<>>],
   [k |-> "list", v |-> <<1>>], [k |-> "list", v |-> <<0, 1>>]}

PropertyMirrorInit ==
  /\ object \in Objects
  /\ frozen \in BOOLEAN
  /\ values = [n \in Names(object) |-> 0]
  /\ updates = 0
  /\ pending = [n \in Names(object) |-> Nobody]
  /\ views = [c \in PropClients |-> <<>>]
  /\ call = NoCall /\ answer = Nothing

ClientStep ==
  \/ SetReference \/ SetRefused \/ SetChecked \/ SetWrites
  \/ GetReference \/ GetReads \/ GetFails

PropertyMirrorNext ==
  \/ \E n \in DOMAIN values, v \in 0..1 : ApplicationSets(n, v)
  \/ ClientStep
  \/ \E c \in PropClients :
       \/ Connect(c) \/ ClientBegins(c) \/ ClientEnds(c)
       \/ \E n \in DOMAIN values :
            \/ \E v \in 0..1, protected \in BOOLEAN : StartSet(c, n, v, protected)
            \/ \E v \in {"x", "y"} : SetSelection(c, n, v)
            \/ \E args \in Arguments : Call(c, n, args)
            \/ StartGet(c, n)

PropertyCallsSpec == PropertyMirrorInit /\ [][PropertyMirrorNext]_mirrorVars

-----------------------------------------------------------------------------
(* Properties *)

PropertyMirrorTypeOK ==
  /\ object \in Objects
  /\ values \in [Names(object) -> 0..1]
  /\ updates \in 0..MaxBegins
  /\ pending \in [Names(object) -> {0, 1, Nobody}]
  /\ call.at \in {"idle", "set", "get"}
  /\ \A c \in PropClients : Names(views[c]) \subseteq Names(object)

AlwaysReadOnly(p) ==
  "IsReadOnly" \in DOMAIN p.fields /\ ~p.fields["IsReadOnly"].e /\ p.fields["IsReadOnly"].v = 1

\* A client that does not ask for a protected write changes no property that
\* is always read-only, directly or through a reference; a user without the
\* right to write changes none at all.
ReadOnlyIsKept ==
  [][answer' # answer /\ answer'.op = "set" /\ (values' # values \/ pending' # pending) =>
       /\ answer'.c \in Writers
       /\ ~answer'.protected =>
            ~AlwaysReadOnly(Named(object, answer'.n))]_mirrorVars

\* A value that a client gets was the server's while the call ran, of the
\* property or of one it refers to.
GetsWhatTheServerHas ==
  [][answer' # answer /\ answer'.op = "get" /\ answer'.v # Nobody =>
       /\ answer'.v = values[answer'.n]
       /\ answer'.n = answer'.asked \/ answer'.n \in ToSet(Named(object, answer'.asked).to)]_mirrorVars

\* An error that a client sees, and a refusal that is only logged, mean that
\* nothing was written; a write that the server confirmed is there, of the
\* property that the name stands for, at once or when the update ends.
WriteIsAccountedFor ==
  [][answer' # answer /\ answer'.op = "set" =>
       /\ answer'.result # "success" \/ answer'.really = "refused" => values' = values /\ pending' = pending
       /\ answer'.really = "written" =>
            answer'.v = IF updates = 0 THEN values'[answer'.n] ELSE pending'[answer'.n]]_mirrorVars

\* A method is handed the values that the client gave, in number and order; as
\* a list only if there are several, for then nothing tells a list of one value
\* from the value, or an empty one from none (bindMethodCallbacks).
CallArrives ==
  answer.op = "call" /\ answer.result = "success" =>
    /\ answer.handed.v = answer.args.v
    /\ (answer.args.k = "list" => Len(answer.args.v) > 1) => answer.handed.k = answer.args.k
    /\ answer.handed.k = "list" <=> Len(answer.args.v) > 1

\* What a client is answered is what has happened: reads, writes, refusals.
AnswersAreTrue == ReadOnlyIsKept /\ GetsWhatTheServerHas /\ WriteIsAccountedFor
=============================================================================
