------------------------------- MODULE MCGate -------------------------------
(***************************************************************************)
(* Small instances of FlagGate for TLC.                                     *)
(***************************************************************************)
EXTENDS FlagGate, TLC

Interchangeable == Permutations(Request) \cup Permutations(Asker)
=============================================================================
