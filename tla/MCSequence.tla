----------------------------- MODULE MCSequence -----------------------------
(***************************************************************************)
(* Small instances of SequenceEnrollment for TLC.                          *)
(***************************************************************************)
EXTENDS SequenceEnrollment, TLC

MCContactOf == [e \in Enrollment |-> CHOOSE c \in Contact : TRUE]
=============================================================================
