-------------------------- MODULE EnrollmentPromise --------------------------
(***************************************************************************)
(* What a sequence promises of each contact in it, with no statements, locks,  *)
(* transactions or crashes.  A process takes note of the steps on which        *)
(* enrollments stand, and of no others, when it is through with the last it    *)
(* noted; it fires a step it noted at most once, and moves the enrollment on    *)
(* or finishes it in the same instant.  An enrollment that has ended is noted    *)
(* no more and never starts again; one that was deleted fires nothing.         *)
(***************************************************************************)
EXTENDS Naturals

CONSTANTS Process, Enrollment, Contact, ContactOf, Step, NoStep

VARIABLES
    stage,   \* where the enrollment stands
    at,      \* the step it stands on, while it is on
    noted,   \* noted[w][e]: the step the process has still to fire, if any
    fired    \* fired[e][s]: activities the step has created for it

vars == <<stage, at, noted, fired>>

(* "left" was taken out, "finished" had no further step, "gone" was deleted     *)
(* with its sequence.                                                       *)
Stage == {"out", "on", "left", "finished", "gone"}

TypeOK ==
    /\ stage \in [Enrollment -> Stage]
    /\ at \in [Enrollment -> Step \cup {NoStep}]
    /\ noted \in [Process -> [Enrollment -> Step \cup {NoStep}]]
    /\ fired \in [Enrollment -> [Step -> Nat]]

Init ==
    /\ stage = [e \in Enrollment |-> "out"]
    /\ at = [e \in Enrollment |-> NoStep]
    /\ noted = [w \in Process |-> [e \in Enrollment |-> NoStep]]
    /\ fired = [e \in Enrollment |-> [s \in Step |-> 0]]

(* A contact is in the sequence once at a time.                               *)
Enroll(e, s) ==
    /\ stage[e] = "out"
    /\ \A f \in Enrollment : ContactOf[f] = ContactOf[e] => stage[f] # "on"
    /\ stage' = [stage EXCEPT ![e] = "on"]
    /\ at' = [at EXCEPT ![e] = s]
    /\ UNCHANGED <<noted, fired>>

Note(w, batch) ==
    /\ \A e \in Enrollment : noted[w][e] = NoStep
    /\ \A e \in batch : stage[e] = "on"
    /\ noted' = [noted EXCEPT ![w] =
                   [e \in Enrollment |-> IF e \in batch THEN at[e] ELSE NoStep]]
    /\ UNCHANGED <<stage, at, fired>>

FireNoted(w, e) ==
    /\ noted[w][e] \in Step
    /\ stage[e] \in {"on", "left", "finished"}
    /\ fired' = [fired EXCEPT ![e][noted[w][e]] = @ + 1]
    /\ noted' = [noted EXCEPT ![w][e] = NoStep]

(* One that has ended is not moved by a step that still fires.                 *)
GoOn(w, e, s) ==
    /\ FireNoted(w, e)
    /\ at' = IF stage[e] = "on" THEN [at EXCEPT ![e] = s] ELSE at
    /\ UNCHANGED stage

Finish(w, e) ==
    /\ FireNoted(w, e)
    /\ stage' = [stage EXCEPT ![e] = "finished"]
    /\ at' = [at EXCEPT ![e] = NoStep]

(* A crash gives up many at once.                                             *)
GiveUp(w, dropped) ==
    /\ noted' = [noted EXCEPT ![w] =
                   [e \in Enrollment |-> IF e \in dropped THEN NoStep ELSE noted[w][e]]]
    /\ UNCHANGED <<stage, at, fired>>

Leave(e) ==
    /\ stage[e] = "on"
    /\ stage' = [stage EXCEPT ![e] = "left"]
    /\ at' = [at EXCEPT ![e] = NoStep]
    /\ UNCHANGED <<noted, fired>>

(* The sequence goes with every row that ever was in it; none may be on.        *)
DeleteAll ==
    /\ \A e \in Enrollment : stage[e] # "on"
    /\ stage' = [e \in Enrollment |-> IF stage[e] = "out" THEN "out" ELSE "gone"]
    /\ UNCHANGED <<at, noted, fired>>

Next ==
    \/ \E e \in Enrollment : Leave(e) \/ \E s \in Step : Enroll(e, s)
    \/ \E w \in Process, e \in Enrollment : Finish(w, e) \/ \E s \in Step : GoOn(w, e, s)
    \/ \E w \in Process, rows \in SUBSET Enrollment : Note(w, rows) \/ GiveUp(w, rows)
    \/ DeleteAll

Spec == Init /\ [][Next]_vars
=============================================================================
