------------------------------ MODULE MCRollout ------------------------------
(***************************************************************************)
(* Small instances of FeatureRollout for TLC.                               *)
(***************************************************************************)
EXTENDS FeatureRollout
=============================================================================
