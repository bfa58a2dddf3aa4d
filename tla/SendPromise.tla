----------------------------- MODULE SendPromise -----------------------------
(***************************************************************************)
(* What an idempotency key promises the person who pressed Send, with no    *)
(* requests, rows, locks or clocks in it (docs/dev/email-sync.md, "Sending"): *)
(* a key mails at most once; a key said to have sent nothing has sent      *)
(* nothing; a send of unknown outcome is never tried again; a mailed       *)
(* message is filed at most once, and only a mailed one is.                *)
(***************************************************************************)
EXTENDS Naturals

CONSTANT Key

VARIABLES
    stage,   \* where the key's send stands
    mailed,  \* messages the provider took under the key
    filed    \* times one was filed under the key

vars == <<stage, mailed, filed>>

Stage == {"unused", "trying", "refused", "doubtful", "filed"}

TypeOK ==
    /\ stage \in [Key -> Stage]
    /\ mailed \in [Key -> {0, 1}]
    /\ filed \in [Key -> {0, 1}]

Init ==
    /\ stage = [k \in Key |-> "unused"]
    /\ mailed = [k \in Key |-> 0]
    /\ filed = [k \in Key |-> 0]

Move(k, s) == stage' = [stage EXCEPT ![k] = s]

(* A first try, or another try after a refusal that sent nothing.           *)
Try(k) ==
    /\ stage[k] \in {"unused", "refused"}
    /\ Move(k, "trying")
    /\ UNCHANGED <<mailed, filed>>

(* The provider takes the message, perhaps after the sender gave up waiting. *)
Mail(k) ==
    /\ stage[k] \in {"trying", "doubtful"}
    /\ mailed[k] = 0
    /\ mailed' = [mailed EXCEPT ![k] = 1]
    /\ UNCHANGED <<stage, filed>>

Refuse(k) ==
    /\ stage[k] = "trying"
    /\ mailed[k] = 0
    /\ Move(k, "refused")
    /\ UNCHANGED <<mailed, filed>>

(* Doubt is decided for several keys at once by the sweep.                  *)
Doubt(keys) ==
    /\ \A k \in keys : stage[k] = "trying"
    /\ stage' = [k \in Key |-> IF k \in keys THEN "doubtful" ELSE stage[k]]
    /\ UNCHANGED <<mailed, filed>>

(* A page of Sent copies files several keys at once.                        *)
File(keys) ==
    /\ \A k \in keys : stage[k] \in {"trying", "doubtful"} /\ mailed[k] = 1 /\ filed[k] = 0
    /\ stage' = [k \in Key |-> IF k \in keys THEN "filed" ELSE stage[k]]
    /\ filed' = [k \in Key |-> IF k \in keys THEN 1 ELSE filed[k]]
    /\ UNCHANGED mailed

(* The key lives as long as its intent; afterwards it is a new key.         *)
Forget(keys) ==
    /\ stage' = [k \in Key |-> IF k \in keys THEN "unused" ELSE stage[k]]
    /\ mailed' = [k \in Key |-> IF k \in keys THEN 0 ELSE mailed[k]]
    /\ filed' = [k \in Key |-> IF k \in keys THEN 0 ELSE filed[k]]

Next ==
    \/ \E k \in Key : Try(k) \/ Mail(k) \/ Refuse(k)
    \/ \E keys \in SUBSET Key : Doubt(keys) \/ File(keys) \/ Forget(keys)

Spec == Init /\ [][Next]_vars
=============================================================================
