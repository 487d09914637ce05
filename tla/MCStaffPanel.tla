----------------------------- MODULE MCStaffPanel -----------------------------
(* Instances of StaffPanel for TLC. *)
EXTENDS StaffPanel, TLC
=============================================================================
