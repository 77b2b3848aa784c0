----------------------------- MODULE ItemCalls -----------------------------
(***************************************************************************)
(* What a sampled item may rely on, whatever the scheduler does inside:    *)
(* calls come one at a time, into living registered items only, and a      *)
(* reconnect that is announced owes every item registered at that moment   *)
(* one onConnectionRestored().                                             *)
(***************************************************************************)
CONSTANTS Items, None

VARIABLES
  alive,       \* items whose destructor has not begun
  registered,  \* items in the scheduler's list
  calling,     \* the item a call is in progress for, or None
  owed         \* items a reconnect was announced for, not called back yet

vars == <<alive, registered, calling, owed>>

Init == alive = {} /\ registered = {} /\ calling = None /\ owed = {}

Create(i) ==
  /\ i \notin alive \cup registered
  /\ alive' = alive \cup {i}
  /\ UNCHANGED <<registered, calling, owed>>

\* An item does not die under a call.
Die(i) ==
  /\ i \in alive /\ calling # i
  /\ alive' = alive \ {i}
  /\ UNCHANGED <<registered, calling, owed>>

Register(i) ==
  /\ i \in alive
  /\ registered' = registered \cup {i}
  /\ UNCHANGED <<alive, calling, owed>>

\* Does not wait for a call in progress.
Unregister(S) ==
  /\ registered' = registered \ S
  /\ owed' = owed \ S
  /\ UNCHANGED <<alive, calling>>

Begin(i) ==
  /\ calling = None /\ i \in alive \cap registered
  /\ calling' = i
  /\ UNCHANGED <<alive, registered>>

Sample(i) == Begin(i) /\ UNCHANGED owed
Restore(i) == Begin(i) /\ owed' = owed \ {i}

\* The end of a call may be the end of the item.
End ==
  /\ calling # None /\ calling' = None
  /\ alive' \in {alive, alive \ {calling}}
  /\ UNCHANGED <<registered, owed>>

Reconnected ==
  /\ owed' = registered
  /\ UNCHANGED <<alive, registered, calling>>

Stop ==
  /\ owed' = {}
  /\ UNCHANGED <<alive, registered, calling>>

Next ==
  \/ \E i \in Items : Create(i) \/ Die(i) \/ Register(i) \/ Sample(i) \/ Restore(i)
  \/ \E S \in SUBSET Items : Unregister(S)
  \/ End \/ Reconnected \/ Stop

Spec == Init /\ [][Next]_vars
=============================================================================
