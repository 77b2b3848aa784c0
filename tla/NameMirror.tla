------------------------------ MODULE NameMirror ------------------------------
(***************************************************************************)
(* The name and the description of a component, kept in the component and  *)
(* in its node.  A client writes the node, on the server's thread; the     *)
(* application changes the component, on its own; each side tells the      *)
(* other, and one flag, with no lock, is to keep the telling from going    *)
(* round: what comes while it is set is not passed on.                     *)
(***************************************************************************)
EXTENDS FiniteSets

CONSTANTS
  TextAttributes, \* "Name", "Description"
  Texts

VARIABLES
  objectText, \* attribute -> the component's text
  nodeText,   \* attribute -> the node's text
  writeMask,  \* the attributes that were not locked when the server started
  selfChange, \* TmsServerComponent::selfChange
  srv, app,   \* the change each thread is in: [at, attr, text, alone]
  differ      \* attributes of which the last change overlapped, was refused or failed

nameVars == <<objectText, nodeText, writeMask, selfChange, srv, app, differ>>

Rest == [at |-> "rest"]
AtRest == srv = Rest /\ app = Rest
Change(at, a, t, alone) == [at |-> at, attr |-> a, text |-> t, alone |-> alone]
Step(change, at) == [change EXCEPT !.at = at]

\* The other thread's change no longer has the component to itself.
Disturb(change) == IF change = Rest THEN change ELSE [change EXCEPT !.alone = FALSE]

NameMirrorInit ==
  /\ \E t \in Texts : objectText = [a \in TextAttributes |-> t]
  /\ nodeText = objectText /\ writeMask \in SUBSET TextAttributes
  /\ selfChange = FALSE /\ srv = Rest /\ app = Rest /\ differ = {}

-----------------------------------------------------------------------------
(* A client's write, on the server's thread *)

\* writeDisplayName(), writeDescription(): the node has the text.
ClientWritesText(a, t) ==
  /\ srv = Rest /\ a \in writeMask
  /\ nodeText' = [nodeText EXCEPT ![a] = t]
  /\ srv' = Change("check", a, t, app = Rest) /\ app' = Disturb(app)
  /\ differ' = differ \cup {a}
  /\ UNCHANGED <<writeMask, objectText, selfChange>>

\* nameChangedCallback: not while the flag is set.
SrvChecks ==
  /\ srv.at = "check"
  /\ IF selfChange
     THEN srv' = Rest /\ UNCHANGED selfChange
     ELSE selfChange' = TRUE /\ srv' = Step(srv, "set")
  /\ UNCHANGED <<writeMask, objectText, nodeText, app, differ>>

\* setName(): the component takes the text and raises an event if it is new to
\* it, or refuses.
SrvSets(refused) ==
  /\ srv.at = "set"
  /\ IF refused \/ objectText[srv.attr] = srv.text
     THEN /\ srv' = [srv EXCEPT !.at = "end", !.alone = @ /\ ~refused]
          /\ UNCHANGED objectText
     ELSE /\ objectText' = [objectText EXCEPT ![srv.attr] = srv.text]
          /\ srv' = Step(srv, "hear")
  /\ UNCHANGED <<writeMask, nodeText, selfChange, app, differ>>

\* onCoreEvent() within setName(): nothing to tell, unless the other thread has
\* taken the flag away.
SrvHears ==
  /\ srv.at = "hear"
  /\ IF selfChange
     THEN UNCHANGED <<nodeText, selfChange>>
     ELSE nodeText' = [nodeText EXCEPT ![srv.attr] = srv.text] /\ selfChange' = FALSE
  /\ srv' = Step(srv, "end")
  /\ UNCHANGED <<writeMask, objectText, app, differ>>

\* Mutant of SrvEnds: a change that was refused leaves the flag.
SrvEndsIfTaken ==
  /\ srv.at = "end"
  /\ selfChange' = (objectText[srv.attr] # srv.text) /\ srv' = Rest
  /\ differ' = IF srv.alone THEN differ \ {srv.attr} ELSE differ
  /\ UNCHANGED <<writeMask, objectText, nodeText, app>>

SrvEnds ==
  /\ srv.at = "end"
  /\ selfChange' = FALSE /\ srv' = Rest
  /\ differ' = IF srv.alone THEN differ \ {srv.attr} ELSE differ
  /\ UNCHANGED <<writeMask, objectText, nodeText, app>>

-----------------------------------------------------------------------------
(* A change by the application, on its thread *)

AppSetsText(a, t) ==
  /\ app = Rest /\ objectText[a] # t
  /\ objectText' = [objectText EXCEPT ![a] = t]
  /\ app' = Change("hear", a, t, srv = Rest) /\ srv' = Disturb(srv)
  /\ differ' = differ \cup {a}
  /\ UNCHANGED <<writeMask, nodeText, selfChange>>

\* onCoreEvent()
AppHears ==
  /\ app.at = "hear"
  /\ IF selfChange
     THEN app' = Rest /\ UNCHANGED selfChange
     ELSE selfChange' = TRUE /\ app' = Step(app, "write")
  /\ UNCHANGED <<writeMask, objectText, nodeText, srv, differ>>

\* setDisplayName() writes the node, or fails.
AppWritesNode(fails) ==
  /\ app.at = "write"
  /\ IF fails
     THEN app' = [app EXCEPT !.at = "end", !.alone = FALSE] /\ UNCHANGED nodeText
     ELSE nodeText' = [nodeText EXCEPT ![app.attr] = app.text] /\ app' = Step(app, "changed")
  /\ UNCHANGED <<writeMask, objectText, selfChange, srv, differ>>

\* Writing the node calls nameChangedCallback: nothing, unless the other thread
\* has taken the flag away; then the component is set to what the node got.
AppChanged ==
  /\ app.at = "changed"
  /\ IF selfChange
     THEN UNCHANGED <<objectText, selfChange>>
     ELSE objectText' = [objectText EXCEPT ![app.attr] = app.text] /\ selfChange' = FALSE
  /\ app' = Step(app, "end")
  /\ UNCHANGED <<writeMask, nodeText, srv, differ>>

AppEnds ==
  /\ app.at = "end"
  /\ selfChange' = FALSE /\ app' = Rest
  /\ differ' = IF app.alone THEN differ \ {app.attr} ELSE differ
  /\ UNCHANGED <<writeMask, objectText, nodeText, srv>>

NameMirrorNext ==
  \/ \E a \in TextAttributes, t \in Texts : ClientWritesText(a, t) \/ AppSetsText(a, t)
  \/ SrvChecks \/ SrvHears \/ SrvEnds \/ AppHears \/ AppChanged \/ AppEnds
  \/ \E fails \in BOOLEAN : SrvSets(fails) \/ AppWritesNode(fails)

NameMirrorSpec == NameMirrorInit /\ [][NameMirrorNext]_nameVars

-----------------------------------------------------------------------------
(* Properties *)

\* Type invariant.
NameMirrorTypeOK ==
  /\ objectText \in [TextAttributes -> Texts] /\ nodeText \in [TextAttributes -> Texts]
  /\ selfChange \in BOOLEAN /\ differ \subseteq TextAttributes
  /\ srv.at \in {"rest", "check", "set", "hear", "end"}
  /\ app.at \in {"rest", "hear", "write", "changed", "end"}

\* With no change under way the flag is down, so that the next change is passed
\* on, and a component and its node have the same text except where two changes
\* overlapped or the text was refused, until it is changed again.
NamesAgreeAtRest ==
  AtRest => /\ ~selfChange
            /\ \A a \in TextAttributes \ differ : objectText[a] = nodeText[a]
=============================================================================
