------------------------- MODULE MCMonitoredItemFb -------------------------
(* MonitoredItemFb for TLC: types, messages and timestamps are interchangeable. *)
EXTENDS MonitoredItemFb, TLC

Symmetry == Permutations(Types) \cup Permutations(Messages) \cup Permutations(Stamps)
=============================================================================
