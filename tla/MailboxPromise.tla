--------------------------- MODULE MailboxPromise ---------------------------
(***************************************************************************)
(* What reading a mailbox promises its owner, with no workers, cursors of     *)
(* other numberings, leases or retries: the place to read on from is never     *)
(* past mail that was not dealt with; each page goes on from a place that was   *)
(* reached, in one instant; and a backfill job ends once, as complete only      *)
(* when all the mail it was opened for has been dealt with.                   *)
(***************************************************************************)
EXTENDS Integers

VARIABLES
    delivered,   \* messages 1..delivered are in the mailbox
    stored,      \* those that were dealt with
    position,    \* the place to read on from
    job,         \* the newest backfill job
    floor        \* messages in the mailbox when it was opened

vars == <<delivered, stored, position, job, floor>>

TypeOK ==
    /\ delivered \in Nat
    /\ stored \subseteq 1..delivered
    /\ position \in 0..delivered
    /\ job \in {"none", "open", "complete", "failed"}
    /\ floor \in 0..delivered

Init ==
    /\ delivered \in Nat
    /\ stored = {}
    /\ position = 0
    /\ job = "none"
    /\ floor = 0

Deliver ==
    /\ delivered' = delivered + 1
    /\ UNCHANGED <<stored, position, job, floor>>

(* A page from a place up to which all was dealt with.  The position may fall    *)
(* back to it: a late page of a slow reader, or a mailbox read from its start.   *)
Read(from, to) ==
    /\ position' = to
    /\ UNCHANGED <<delivered, job, floor>>
    /\ 1..from \subseteq stored
    /\ stored' = stored \cup (from + 1)..to
    /\ 1..to \subseteq stored'

OpenJob ==
    /\ job # "open"
    /\ job' = "open"
    /\ floor' = delivered
    /\ UNCHANGED <<delivered, stored, position>>

EndJob(outcome) ==
    /\ job = "open"
    /\ outcome = "complete" => 1..floor \subseteq stored
    /\ job' = outcome
    /\ UNCHANGED <<delivered, stored, position, floor>>

Next ==
    \/ Deliver
    \/ \E to \in 0..delivered, from \in 0..delivered : Read(from, to)
    \/ OpenJob
    \/ EndJob("complete") \/ EndJob("failed")

Spec == Init /\ [][Next]_vars
=============================================================================
