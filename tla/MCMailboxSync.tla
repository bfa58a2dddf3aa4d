---------------------------- MODULE MCMailboxSync ----------------------------
(***************************************************************************)
(* Small instances of MailboxSync for TLC.                                 *)
(***************************************************************************)
EXTENDS MailboxSync, TLC

WorkerSymmetry == Permutations(Worker)
=============================================================================
