----------------------------- MODULE MCEntryGate -----------------------------
(* Instances of EntryGate for TLC. *)
EXTENDS EntryGate
=============================================================================
