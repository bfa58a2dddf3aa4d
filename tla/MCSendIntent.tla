---------------------------- MODULE MCSendIntent ----------------------------
(***************************************************************************)
(* Instances of SendIntent for TLC.  Requests r1 and r2 repeat one compose *)
(* (one key, one body); r3 is another compose of the same user, in the     *)
(* same mailbox; r4 reuses r1's key for a different body.                  *)
(***************************************************************************)
EXTENDS SendIntent

CONSTANTS r1, r2, r3, r4, k1, k2, alice, box

MCKeyOf  == [r \in Request |-> IF r = r3 THEN k2 ELSE k1]
MCUserOf == [k \in Key |-> alice]
MCAcctOf == [r \in Request |-> box]
MCBodyOf == [r \in Request |-> IF r = r3 THEN 3 ELSE IF r = r4 THEN 4 ELSE 1]
=============================================================================
