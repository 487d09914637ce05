----------------------------- MODULE MCSessions -----------------------------
(* Instances of Sessions for TLC. *)
EXTENDS Sessions, TLC

Interchangeable == Permutations(Calls) \cup Permutations(Tabs) \cup Permutations(Clicks)
=============================================================================
