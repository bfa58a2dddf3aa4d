----------------------- MODULE SequenceEnrollmentProofs -----------------------
(***************************************************************************)
(* Proofs about SequenceEnrollment, for any number of processes, steps,      *)
(* enrollments, contacts and edits.                                        *)
(***************************************************************************)
EXTENDS SequenceEnrollment, TLAPS

-----------------------------------------------------------------------------
(***************************************************************************)
(* The inductive invariant.                                                *)
(***************************************************************************)
(* A transaction's KEY SHARE locks keep the steps it names: none of them is   *)
(* being deleted.                                                          *)
KeysHold ==
    \A w \in Process, e \in Enrollment :
        /\ work[w][e] \in {"firing", "advancing"} =>
              cap[w][e] \in Live /\ stepLock[cap[w][e]] = "free"
        /\ work[w][e] = "advancing" /\ next[w][e] # NoStep =>
              next[w][e] \in Live /\ stepLock[next[w][e]] = "free"

(* What a deletion counted under its lock still holds when it deletes.        *)
CountsHold ==
    /\ \A s \in Step : stepLock[s] = "counted" => ActiveOn(s) = {}
    /\ seqLock = "counted" => \A e \in Enrollment : status[e] # "active"

(* A tick holds only rows that were inserted, each with the step it read.      *)
WorkHasStep ==
    \A w \in Process, e \in Enrollment :
        /\ Holds(w, e) <=> cap[w][e] \in Step
        /\ Holds(w, e) => status[e] \notin {"none", "enrolling"}

(* A process may fire the step it holds, and any process the step the row       *)
(* stands on: it was put there once more than the process has fired it.       *)
Owed ==
    \A w \in Process, e \in Enrollment, s \in Step :
        cap[w][e] = s \/ (status[e] # "enrolling" /\ at[e] = s) => firedBy[w][e][s] < visits[e][s]

(* While ticks have kept apart on a row, one process at most holds it, and if   *)
(* it is active, it stands on the step that was read.                       *)
AloneMatchesRow ==
    \A e \in Enrollment \ overlapped :
        /\ \A v, w \in Process : Holds(v, e) /\ Holds(w, e) => v = w
        /\ \A w \in Process : Holds(w, e) =>
              /\ status[e] # "completed"
              /\ status[e] = "active" => at[e] = cap[w][e]

(* The accounts of steps fired: a row not yet inserted has none; one a tick     *)
(* holds alone owes the step it was read at, and a completed one stands         *)
(* nowhere.                                                                *)
Accounts ==
    /\ \A e \in Enrollment : status[e] \in {"none", "enrolling"} =>
          \A s \in Step : visits[e][s] = 0 /\ fired[e][s] = 0
    /\ \A e \in Enrollment \ overlapped :
          /\ \A w \in Process : Holds(w, e) =>
                \A s \in Step : visits[e][s] = fired[e][s] + (IF cap[w][e] = s THEN 1 ELSE 0)
          /\ status[e] = "completed" => at[e] = NoStep

(* A process that fired a row late is through with it: the row has ended.      *)
LateIsOver ==
    \A w \in Process, e \in Enrollment :
        \/ late[w][e] = 0
        \/ /\ late[w][e] = 1
           /\ ~Holds(w, e)
           /\ status[e] \in {"completed", "unenrolled", "deleted"}

(* Nothing comes back to a sequence that was deleted.                          *)
GoneIsGone ==
    /\ seq = "deleted" => Live = {}
    /\ \A e \in Enrollment : status[e] = "deleted" => seq = "deleted"

IInv ==
    /\ TypeOK
    /\ KeysHold
    /\ CountsHold
    /\ WorkHasStep
    /\ Owed
    /\ AloneMatchesRow
    /\ Accounts
    /\ LateIsOver
    /\ NeverStranded
    /\ GoneIsGone
    /\ StepsFireOnce
    /\ FireOncePerArrival

-----------------------------------------------------------------------------
(* Every step keeps the type of every variable.                             *)
LEMMA TypeStep == TypeOK /\ KeysHold /\ [Next]_vars => TypeOK'
<1> USE SequenceConstants DEF TypeOK, Deletion, sequence, steps, rows, tick, history
<1> SUFFICES ASSUME TypeOK /\ KeysHold, [Next]_vars PROVE TypeOK'
  OBVIOUS
<1>1. ASSUME SetEnabled PROVE TypeOK'
  BY <1>1 DEF SetEnabled
<1>2. ASSUME NEW s \in Step, NEW o \in 1..MaxOrder, CreateStep(s, o) PROVE TypeOK'
  BY <1>2 DEF CreateStep
<1>3. ASSUME NEW s \in Step, NEW o \in 1..MaxOrder, UpdateStep(s, o) PROVE TypeOK'
  BY <1>3 DEF UpdateStep, Referable, KeyShared
<1>4. ASSUME NEW s \in Step, LockStep(s) PROVE TypeOK'
  BY <1>4 DEF LockStep, Referable, KeyShared
<1>5. ASSUME NEW s \in Step, CountOnStep(s) PROVE TypeOK'
  BY <1>5 DEF CountOnStep, ActiveOn
<1>6. ASSUME NEW s \in Step, DeleteStep(s) PROVE TypeOK'
  BY <1>6 DEF DeleteStep
<1>7. ASSUME NEW s \in Step, DeleteStepFails(s) PROVE TypeOK'
  BY <1>7 DEF DeleteStepFails
<1>8. ASSUME LockSequence PROVE TypeOK'
  BY <1>8 DEF LockSequence
<1>9. ASSUME CountEnrolled PROVE TypeOK'
  BY <1>9 DEF CountEnrolled
<1>10. ASSUME DeleteSequence PROVE TypeOK'
  BY <1>10 DEF DeleteSequence, KeyShared, Ended
<1>11. ASSUME DeleteSequenceFails PROVE TypeOK'
  BY <1>11 DEF DeleteSequenceFails
<1>12. ASSUME NEW e \in Enrollment, BeginEnroll(e) PROVE TypeOK'
  BY <1>12 DEF BeginEnroll, IsNextAfter, Live
<1>13. ASSUME NEW e \in Enrollment, EnrollContact(e) PROVE TypeOK'
  BY <1>13 DEF EnrollContact, MayInsert, Referable, Live, Arrive
<1>14. ASSUME NEW e \in Enrollment, EnrollFails(e) PROVE TypeOK'
  BY <1>14 DEF EnrollFails
<1>15. ASSUME NEW e \in Enrollment, UnenrollContact(e) PROVE TypeOK'
  BY <1>15 DEF UnenrollContact
<1>16. ASSUME NEW e \in Enrollment, DueTimePasses(e) PROVE TypeOK'
  BY <1>16 DEF DueTimePasses
<1>17. ASSUME NEW w \in Process, AdvanceDueEnrollments(w) PROVE TypeOK'
  BY <1>17 DEF AdvanceDueEnrollments, DueRow, Live
<1>18. ASSUME NEW w \in Process, NEW e \in Enrollment, ReadNextStep(w, e) PROVE TypeOK'
  BY <1>18 DEF ReadNextStep
<1>19. ASSUME NEW w \in Process, NEW e \in Enrollment, FireStep(w, e) PROVE TypeOK'
  BY <1>19 DEF FireStep, Referable
<1>20. ASSUME NEW w \in Process, NEW e \in Enrollment, AdvanceRow(w, e) PROVE TypeOK'
  BY <1>20 DEF AdvanceRow, Referable
<1>21. ASSUME NEW w \in Process, NEW e \in Enrollment, CommitStep(w, e) PROVE TypeOK'
  <2> USE <1>21 DEF CommitStep
  <2>1. cap[w][e] \in Step
    BY DEF KeysHold, Live
  <2>2. fired' \in [Enrollment -> [Step -> Nat]]
    <3>1. [fired[e] EXCEPT ![cap[w][e]] = @ + 1] \in [Step -> Nat]
      BY <2>1
    <3> QED  BY <3>1
  <2>3. firedBy' \in [Process -> [Enrollment -> [Step -> Nat]]]
    <3>1. [firedBy[w][e] EXCEPT ![cap[w][e]] = @ + 1] \in [Step -> Nat]
      BY <2>1
    <3>2. [firedBy[w] EXCEPT ![e] = [firedBy[w][e] EXCEPT ![cap[w][e]] = @ + 1]]
            \in [Enrollment -> [Step -> Nat]]
      BY <3>1
    <3> QED  BY <3>2
  <2>4. late' \in [Process -> [Enrollment -> Nat]]
    <3>1. [late[w] EXCEPT ![e] = IF status[e] = "active" THEN @ ELSE @ + 1] \in [Enrollment -> Nat]
      OBVIOUS
    <3> QED  BY <3>1
  <2>5. at' \in [Enrollment -> Step \cup {NoStep}]
    BY DEF MoveOn
  <2>6. status' \in [Enrollment -> {"none", "enrolling", "active", "completed", "unenrolled", "deleted"}]
    <3>1. status' = status \/ status' = [status EXCEPT ![e] = "completed"]
      BY DEF MoveOn
    <3> QED  BY <3>1
  <2>7. due' \in [Enrollment -> BOOLEAN]
    <3>1. CASE next[w][e] = NoStep
      BY <3>1 DEF MoveOn
    <3>2. CASE next[w][e] # NoStep
      <4>1. PICK now \in BOOLEAN : due' = [due EXCEPT ![e] = now]
        BY <3>2 DEF MoveOn
      <4> QED  BY <4>1
    <3> QED  BY <3>1, <3>2
  <2>8. visits' \in [Enrollment -> [Step -> Nat]]
    <3>1. CASE next[w][e] = NoStep
      BY <3>1 DEF MoveOn
    <3>2. CASE next[w][e] # NoStep
      <4>1. [visits[e] EXCEPT ![next[w][e]] = @ + 1] \in [Step -> Nat]
        BY <3>2
      <4> QED  BY <3>2, <4>1 DEF MoveOn, Arrive
    <3> QED  BY <3>1, <3>2
  <2> QED
    BY <2>2, <2>3, <2>4, <2>5, <2>6, <2>7, <2>8 DEF DropWork
<1>22. ASSUME NEW w \in Process, NEW e \in Enrollment, StepIsGone(w, e) PROVE TypeOK'
  BY <1>22 DEF StepIsGone, DropWork
<1>23. ASSUME NEW w \in Process, NEW e \in Enrollment, StepFails(w, e) PROVE TypeOK'
  BY <1>23 DEF StepFails, DropWork
<1>24. ASSUME NEW w \in Process, Die(w) PROVE TypeOK'
  BY <1>24 DEF Die
<1>25. CASE UNCHANGED vars
  BY <1>25 DEF vars
<1> QED
  BY <1>1, <1>2, <1>3, <1>4, <1>5, <1>6, <1>7, <1>8, <1>9, <1>10, <1>11, <1>12,
     <1>13, <1>14, <1>15, <1>16, <1>17, <1>18, <1>19, <1>20, <1>21, <1>22, <1>23, <1>24, <1>25
     DEF Next, EditStep, EditSequence, RowRequest, ProcessEnrollmentStep

(* Locks on steps survive every action of another request.                  *)
LEMMA KeysStep == TypeOK /\ KeysHold /\ [Next]_vars => KeysHold'
<1> USE SequenceConstants DEF TypeOK, KeysHold, Live, Deletion, sequence, steps, rows, tick, history
<1> SUFFICES ASSUME TypeOK /\ KeysHold, [Next]_vars PROVE KeysHold'
  OBVIOUS
<1>1. ASSUME SetEnabled PROVE KeysHold'
  BY <1>1 DEF SetEnabled
<1>2. ASSUME NEW s \in Step, NEW o \in 1..MaxOrder, CreateStep(s, o) PROVE KeysHold'
  BY <1>2 DEF CreateStep
<1>3. ASSUME NEW s \in Step, NEW o \in 1..MaxOrder, UpdateStep(s, o) PROVE KeysHold'
  BY <1>3 DEF UpdateStep, Referable, KeyShared
<1>4. ASSUME NEW s \in Step, LockStep(s) PROVE KeysHold'
  BY <1>4 DEF LockStep, Referable, KeyShared
<1>5. ASSUME NEW s \in Step, CountOnStep(s) PROVE KeysHold'
  BY <1>5 DEF CountOnStep, ActiveOn
<1>6. ASSUME NEW s \in Step, DeleteStep(s) PROVE KeysHold'
  BY <1>6 DEF DeleteStep
<1>7. ASSUME NEW s \in Step, DeleteStepFails(s) PROVE KeysHold'
  BY <1>7 DEF DeleteStepFails
<1>8. ASSUME LockSequence PROVE KeysHold'
  BY <1>8 DEF LockSequence
<1>9. ASSUME CountEnrolled PROVE KeysHold'
  BY <1>9 DEF CountEnrolled
<1>10. ASSUME DeleteSequence PROVE KeysHold'
  BY <1>10 DEF DeleteSequence, KeyShared, Ended
<1>11. ASSUME DeleteSequenceFails PROVE KeysHold'
  BY <1>11 DEF DeleteSequenceFails
<1>12. ASSUME NEW e \in Enrollment, BeginEnroll(e) PROVE KeysHold'
  BY <1>12 DEF BeginEnroll, IsNextAfter, Live
<1>13. ASSUME NEW e \in Enrollment, EnrollContact(e) PROVE KeysHold'
  BY <1>13 DEF EnrollContact, MayInsert, Referable, Live, Arrive
<1>14. ASSUME NEW e \in Enrollment, EnrollFails(e) PROVE KeysHold'
  BY <1>14 DEF EnrollFails
<1>15. ASSUME NEW e \in Enrollment, UnenrollContact(e) PROVE KeysHold'
  BY <1>15 DEF UnenrollContact
<1>16. ASSUME NEW e \in Enrollment, DueTimePasses(e) PROVE KeysHold'
  BY <1>16 DEF DueTimePasses
<1>17. ASSUME NEW w \in Process, AdvanceDueEnrollments(w) PROVE KeysHold'
  BY <1>17 DEF AdvanceDueEnrollments, DueRow, Live
<1>18. ASSUME NEW w \in Process, NEW e \in Enrollment, ReadNextStep(w, e) PROVE KeysHold'
  BY <1>18 DEF ReadNextStep
<1>19. ASSUME NEW w \in Process, NEW e \in Enrollment, FireStep(w, e) PROVE KeysHold'
  BY <1>19 DEF FireStep, Referable
<1>20. ASSUME NEW w \in Process, NEW e \in Enrollment, AdvanceRow(w, e) PROVE KeysHold'
  BY <1>20 DEF AdvanceRow, Referable
<1>21. ASSUME NEW w \in Process, NEW e \in Enrollment, CommitStep(w, e) PROVE KeysHold'
  BY <1>21 DEF CommitStep, MoveOn, Arrive, DropWork
<1>22. ASSUME NEW w \in Process, NEW e \in Enrollment, StepIsGone(w, e) PROVE KeysHold'
  BY <1>22 DEF StepIsGone, DropWork
<1>23. ASSUME NEW w \in Process, NEW e \in Enrollment, StepFails(w, e) PROVE KeysHold'
  BY <1>23 DEF StepFails, DropWork
<1>24. ASSUME NEW w \in Process, Die(w) PROVE KeysHold'
  BY <1>24 DEF Die
<1>25. CASE UNCHANGED vars
  BY <1>25 DEF vars
<1> QED
  BY <1>1, <1>2, <1>3, <1>4, <1>5, <1>6, <1>7, <1>8, <1>9, <1>10, <1>11, <1>12,
     <1>13, <1>14, <1>15, <1>16, <1>17, <1>18, <1>19, <1>20, <1>21, <1>22, <1>23, <1>24, <1>25
     DEF Next, EditStep, EditSequence, RowRequest, ProcessEnrollmentStep

(* Nobody becomes active on a step, or in a sequence, that was counted.     *)
LEMMA CountsStep == TypeOK /\ KeysHold /\ CountsHold /\ [Next]_vars => CountsHold'
<1> USE SequenceConstants DEF TypeOK, KeysHold, CountsHold, ActiveOn, Deletion, sequence, steps, rows, tick, history
<1> SUFFICES ASSUME TypeOK /\ KeysHold /\ CountsHold, [Next]_vars PROVE CountsHold'
  OBVIOUS
<1>1. ASSUME SetEnabled PROVE CountsHold'
  BY <1>1 DEF SetEnabled
<1>2. ASSUME NEW s \in Step, NEW o \in 1..MaxOrder, CreateStep(s, o) PROVE CountsHold'
  BY <1>2 DEF CreateStep
<1>3. ASSUME NEW s \in Step, NEW o \in 1..MaxOrder, UpdateStep(s, o) PROVE CountsHold'
  BY <1>3 DEF UpdateStep, Referable, KeyShared
<1>4. ASSUME NEW s \in Step, LockStep(s) PROVE CountsHold'
  BY <1>4 DEF LockStep, Referable, KeyShared
<1>5. ASSUME NEW s \in Step, CountOnStep(s) PROVE CountsHold'
  BY <1>5 DEF CountOnStep, ActiveOn
<1>6. ASSUME NEW s \in Step, DeleteStep(s) PROVE CountsHold'
  BY <1>6 DEF DeleteStep
<1>7. ASSUME NEW s \in Step, DeleteStepFails(s) PROVE CountsHold'
  BY <1>7 DEF DeleteStepFails
<1>8. ASSUME LockSequence PROVE CountsHold'
  BY <1>8 DEF LockSequence
<1>9. ASSUME CountEnrolled PROVE CountsHold'
  BY <1>9 DEF CountEnrolled
<1>10. ASSUME DeleteSequence PROVE CountsHold'
  BY <1>10 DEF DeleteSequence, KeyShared, Ended
<1>11. ASSUME DeleteSequenceFails PROVE CountsHold'
  BY <1>11 DEF DeleteSequenceFails
<1>12. ASSUME NEW e \in Enrollment, BeginEnroll(e) PROVE CountsHold'
  BY <1>12 DEF BeginEnroll, IsNextAfter, Live
<1>13. ASSUME NEW e \in Enrollment, EnrollContact(e) PROVE CountsHold'
  BY <1>13 DEF EnrollContact, MayInsert, Referable, Live, Arrive
<1>14. ASSUME NEW e \in Enrollment, EnrollFails(e) PROVE CountsHold'
  BY <1>14 DEF EnrollFails
<1>15. ASSUME NEW e \in Enrollment, UnenrollContact(e) PROVE CountsHold'
  BY <1>15 DEF UnenrollContact
<1>16. ASSUME NEW e \in Enrollment, DueTimePasses(e) PROVE CountsHold'
  BY <1>16 DEF DueTimePasses
<1>17. ASSUME NEW w \in Process, AdvanceDueEnrollments(w) PROVE CountsHold'
  BY <1>17 DEF AdvanceDueEnrollments, DueRow, Live
<1>18. ASSUME NEW w \in Process, NEW e \in Enrollment, ReadNextStep(w, e) PROVE CountsHold'
  BY <1>18 DEF ReadNextStep
<1>19. ASSUME NEW w \in Process, NEW e \in Enrollment, FireStep(w, e) PROVE CountsHold'
  BY <1>19 DEF FireStep, Referable
<1>20. ASSUME NEW w \in Process, NEW e \in Enrollment, AdvanceRow(w, e) PROVE CountsHold'
  BY <1>20 DEF AdvanceRow, Referable
<1>21. ASSUME NEW w \in Process, NEW e \in Enrollment, CommitStep(w, e) PROVE CountsHold'
  BY <1>21 DEF CommitStep, MoveOn, Arrive, DropWork
<1>22. ASSUME NEW w \in Process, NEW e \in Enrollment, StepIsGone(w, e) PROVE CountsHold'
  BY <1>22 DEF StepIsGone, DropWork
<1>23. ASSUME NEW w \in Process, NEW e \in Enrollment, StepFails(w, e) PROVE CountsHold'
  BY <1>23 DEF StepFails, DropWork
<1>24. ASSUME NEW w \in Process, Die(w) PROVE CountsHold'
  BY <1>24 DEF Die
<1>25. CASE UNCHANGED vars
  BY <1>25 DEF vars
<1> QED
  BY <1>1, <1>2, <1>3, <1>4, <1>5, <1>6, <1>7, <1>8, <1>9, <1>10, <1>11, <1>12,
     <1>13, <1>14, <1>15, <1>16, <1>17, <1>18, <1>19, <1>20, <1>21, <1>22, <1>23, <1>24, <1>25
     DEF Next, EditStep, EditSequence, RowRequest, ProcessEnrollmentStep

(* A tick takes up rows on a step, and drops both together.                 *)
LEMMA WorkStep == TypeOK /\ KeysHold /\ WorkHasStep /\ [Next]_vars => WorkHasStep'
<1> USE SequenceConstants DEF TypeOK, KeysHold, WorkHasStep, Holds, Deletion, sequence, steps, rows, tick, history
<1> SUFFICES ASSUME TypeOK /\ KeysHold /\ WorkHasStep, [Next]_vars PROVE WorkHasStep'
  OBVIOUS
<1>1. ASSUME SetEnabled PROVE WorkHasStep'
  BY <1>1 DEF SetEnabled
<1>2. ASSUME NEW s \in Step, NEW o \in 1..MaxOrder, CreateStep(s, o) PROVE WorkHasStep'
  BY <1>2 DEF CreateStep
<1>3. ASSUME NEW s \in Step, NEW o \in 1..MaxOrder, UpdateStep(s, o) PROVE WorkHasStep'
  BY <1>3 DEF UpdateStep, Referable, KeyShared
<1>4. ASSUME NEW s \in Step, LockStep(s) PROVE WorkHasStep'
  BY <1>4 DEF LockStep, Referable, KeyShared
<1>5. ASSUME NEW s \in Step, CountOnStep(s) PROVE WorkHasStep'
  BY <1>5 DEF CountOnStep, ActiveOn
<1>6. ASSUME NEW s \in Step, DeleteStep(s) PROVE WorkHasStep'
  BY <1>6 DEF DeleteStep
<1>7. ASSUME NEW s \in Step, DeleteStepFails(s) PROVE WorkHasStep'
  BY <1>7 DEF DeleteStepFails
<1>8. ASSUME LockSequence PROVE WorkHasStep'
  BY <1>8 DEF LockSequence
<1>9. ASSUME CountEnrolled PROVE WorkHasStep'
  BY <1>9 DEF CountEnrolled
<1>10. ASSUME DeleteSequence PROVE WorkHasStep'
  BY <1>10 DEF DeleteSequence, KeyShared, Ended
<1>11. ASSUME DeleteSequenceFails PROVE WorkHasStep'
  BY <1>11 DEF DeleteSequenceFails
<1>12. ASSUME NEW e \in Enrollment, BeginEnroll(e) PROVE WorkHasStep'
  BY <1>12 DEF BeginEnroll, IsNextAfter, Live
<1>13. ASSUME NEW e \in Enrollment, EnrollContact(e) PROVE WorkHasStep'
  BY <1>13 DEF EnrollContact, MayInsert, Referable, Live, Arrive
<1>14. ASSUME NEW e \in Enrollment, EnrollFails(e) PROVE WorkHasStep'
  BY <1>14 DEF EnrollFails
<1>15. ASSUME NEW e \in Enrollment, UnenrollContact(e) PROVE WorkHasStep'
  BY <1>15 DEF UnenrollContact
<1>16. ASSUME NEW e \in Enrollment, DueTimePasses(e) PROVE WorkHasStep'
  BY <1>16 DEF DueTimePasses
<1>17. ASSUME NEW w \in Process, AdvanceDueEnrollments(w) PROVE WorkHasStep'
  BY <1>17 DEF AdvanceDueEnrollments, DueRow, Live
<1>18. ASSUME NEW w \in Process, NEW e \in Enrollment, ReadNextStep(w, e) PROVE WorkHasStep'
  BY <1>18 DEF ReadNextStep
<1>19. ASSUME NEW w \in Process, NEW e \in Enrollment, FireStep(w, e) PROVE WorkHasStep'
  BY <1>19 DEF FireStep, Referable
<1>20. ASSUME NEW w \in Process, NEW e \in Enrollment, AdvanceRow(w, e) PROVE WorkHasStep'
  BY <1>20 DEF AdvanceRow, Referable
<1>21. ASSUME NEW w \in Process, NEW e \in Enrollment, CommitStep(w, e) PROVE WorkHasStep'
  BY <1>21 DEF CommitStep, MoveOn, Arrive, DropWork
<1>22. ASSUME NEW w \in Process, NEW e \in Enrollment, StepIsGone(w, e) PROVE WorkHasStep'
  BY <1>22 DEF StepIsGone, DropWork
<1>23. ASSUME NEW w \in Process, NEW e \in Enrollment, StepFails(w, e) PROVE WorkHasStep'
  BY <1>23 DEF StepFails, DropWork
<1>24. ASSUME NEW w \in Process, Die(w) PROVE WorkHasStep'
  BY <1>24 DEF Die
<1>25. CASE UNCHANGED vars
  BY <1>25 DEF vars
<1> QED
  BY <1>1, <1>2, <1>3, <1>4, <1>5, <1>6, <1>7, <1>8, <1>9, <1>10, <1>11, <1>12,
     <1>13, <1>14, <1>15, <1>16, <1>17, <1>18, <1>19, <1>20, <1>21, <1>22, <1>23, <1>24, <1>25
     DEF Next, EditStep, EditSequence, RowRequest, ProcessEnrollmentStep

(* No deletion takes a step or a sequence from under an active row.         *)
LEMMA StrandedStep == TypeOK /\ KeysHold /\ CountsHold /\ NeverStranded /\ [Next]_vars => NeverStranded'
<1> USE SequenceConstants DEF TypeOK, KeysHold, CountsHold, ActiveOn, NeverStranded, Live, Deletion, sequence, steps, rows, tick, history
<1> SUFFICES ASSUME TypeOK /\ KeysHold /\ CountsHold /\ NeverStranded, [Next]_vars PROVE NeverStranded'
  OBVIOUS
<1>1. ASSUME SetEnabled PROVE NeverStranded'
  BY <1>1 DEF SetEnabled
<1>2. ASSUME NEW s \in Step, NEW o \in 1..MaxOrder, CreateStep(s, o) PROVE NeverStranded'
  BY <1>2 DEF CreateStep
<1>3. ASSUME NEW s \in Step, NEW o \in 1..MaxOrder, UpdateStep(s, o) PROVE NeverStranded'
  BY <1>3 DEF UpdateStep, Referable, KeyShared
<1>4. ASSUME NEW s \in Step, LockStep(s) PROVE NeverStranded'
  BY <1>4 DEF LockStep, Referable, KeyShared
<1>5. ASSUME NEW s \in Step, CountOnStep(s) PROVE NeverStranded'
  BY <1>5 DEF CountOnStep, ActiveOn
<1>6. ASSUME NEW s \in Step, DeleteStep(s) PROVE NeverStranded'
  BY <1>6 DEF DeleteStep
<1>7. ASSUME NEW s \in Step, DeleteStepFails(s) PROVE NeverStranded'
  BY <1>7 DEF DeleteStepFails
<1>8. ASSUME LockSequence PROVE NeverStranded'
  BY <1>8 DEF LockSequence
<1>9. ASSUME CountEnrolled PROVE NeverStranded'
  BY <1>9 DEF CountEnrolled
<1>10. ASSUME DeleteSequence PROVE NeverStranded'
  BY <1>10 DEF DeleteSequence, KeyShared, Ended
<1>11. ASSUME DeleteSequenceFails PROVE NeverStranded'
  BY <1>11 DEF DeleteSequenceFails
<1>12. ASSUME NEW e \in Enrollment, BeginEnroll(e) PROVE NeverStranded'
  BY <1>12 DEF BeginEnroll, IsNextAfter, Live
<1>13. ASSUME NEW e \in Enrollment, EnrollContact(e) PROVE NeverStranded'
  BY <1>13 DEF EnrollContact, MayInsert, Referable, Live, Arrive
<1>14. ASSUME NEW e \in Enrollment, EnrollFails(e) PROVE NeverStranded'
  BY <1>14 DEF EnrollFails
<1>15. ASSUME NEW e \in Enrollment, UnenrollContact(e) PROVE NeverStranded'
  BY <1>15 DEF UnenrollContact
<1>16. ASSUME NEW e \in Enrollment, DueTimePasses(e) PROVE NeverStranded'
  BY <1>16 DEF DueTimePasses
<1>17. ASSUME NEW w \in Process, AdvanceDueEnrollments(w) PROVE NeverStranded'
  BY <1>17 DEF AdvanceDueEnrollments, DueRow, Live
<1>18. ASSUME NEW w \in Process, NEW e \in Enrollment, ReadNextStep(w, e) PROVE NeverStranded'
  BY <1>18 DEF ReadNextStep
<1>19. ASSUME NEW w \in Process, NEW e \in Enrollment, FireStep(w, e) PROVE NeverStranded'
  BY <1>19 DEF FireStep, Referable
<1>20. ASSUME NEW w \in Process, NEW e \in Enrollment, AdvanceRow(w, e) PROVE NeverStranded'
  BY <1>20 DEF AdvanceRow, Referable
<1>21. ASSUME NEW w \in Process, NEW e \in Enrollment, CommitStep(w, e) PROVE NeverStranded'
  BY <1>21 DEF CommitStep, MoveOn, Arrive, DropWork
<1>22. ASSUME NEW w \in Process, NEW e \in Enrollment, StepIsGone(w, e) PROVE NeverStranded'
  BY <1>22 DEF StepIsGone, DropWork
<1>23. ASSUME NEW w \in Process, NEW e \in Enrollment, StepFails(w, e) PROVE NeverStranded'
  BY <1>23 DEF StepFails, DropWork
<1>24. ASSUME NEW w \in Process, Die(w) PROVE NeverStranded'
  BY <1>24 DEF Die
<1>25. CASE UNCHANGED vars
  BY <1>25 DEF vars
<1> QED
  BY <1>1, <1>2, <1>3, <1>4, <1>5, <1>6, <1>7, <1>8, <1>9, <1>10, <1>11, <1>12,
     <1>13, <1>14, <1>15, <1>16, <1>17, <1>18, <1>19, <1>20, <1>21, <1>22, <1>23, <1>24, <1>25
     DEF Next, EditStep, EditSequence, RowRequest, ProcessEnrollmentStep

(* Nothing is added to a sequence that was deleted.                         *)
LEMMA GoneStep == TypeOK /\ NeverStranded /\ GoneIsGone /\ [Next]_vars => GoneIsGone'
<1> USE SequenceConstants DEF TypeOK, NeverStranded, GoneIsGone, Live, Deletion, sequence, steps, rows, tick, history
<1> SUFFICES ASSUME TypeOK /\ NeverStranded /\ GoneIsGone, [Next]_vars PROVE GoneIsGone'
  OBVIOUS
<1>1. ASSUME SetEnabled PROVE GoneIsGone'
  BY <1>1 DEF SetEnabled
<1>2. ASSUME NEW s \in Step, NEW o \in 1..MaxOrder, CreateStep(s, o) PROVE GoneIsGone'
  BY <1>2 DEF CreateStep
<1>3. ASSUME NEW s \in Step, NEW o \in 1..MaxOrder, UpdateStep(s, o) PROVE GoneIsGone'
  BY <1>3 DEF UpdateStep, Referable, KeyShared
<1>4. ASSUME NEW s \in Step, LockStep(s) PROVE GoneIsGone'
  BY <1>4 DEF LockStep, Referable, KeyShared
<1>5. ASSUME NEW s \in Step, CountOnStep(s) PROVE GoneIsGone'
  BY <1>5 DEF CountOnStep, ActiveOn
<1>6. ASSUME NEW s \in Step, DeleteStep(s) PROVE GoneIsGone'
  BY <1>6 DEF DeleteStep
<1>7. ASSUME NEW s \in Step, DeleteStepFails(s) PROVE GoneIsGone'
  BY <1>7 DEF DeleteStepFails
<1>8. ASSUME LockSequence PROVE GoneIsGone'
  BY <1>8 DEF LockSequence
<1>9. ASSUME CountEnrolled PROVE GoneIsGone'
  BY <1>9 DEF CountEnrolled
<1>10. ASSUME DeleteSequence PROVE GoneIsGone'
  BY <1>10 DEF DeleteSequence, KeyShared, Ended
<1>11. ASSUME DeleteSequenceFails PROVE GoneIsGone'
  BY <1>11 DEF DeleteSequenceFails
<1>12. ASSUME NEW e \in Enrollment, BeginEnroll(e) PROVE GoneIsGone'
  BY <1>12 DEF BeginEnroll, IsNextAfter, Live
<1>13. ASSUME NEW e \in Enrollment, EnrollContact(e) PROVE GoneIsGone'
  BY <1>13 DEF EnrollContact, MayInsert, Referable, Live, Arrive
<1>14. ASSUME NEW e \in Enrollment, EnrollFails(e) PROVE GoneIsGone'
  BY <1>14 DEF EnrollFails
<1>15. ASSUME NEW e \in Enrollment, UnenrollContact(e) PROVE GoneIsGone'
  BY <1>15 DEF UnenrollContact
<1>16. ASSUME NEW e \in Enrollment, DueTimePasses(e) PROVE GoneIsGone'
  BY <1>16 DEF DueTimePasses
<1>17. ASSUME NEW w \in Process, AdvanceDueEnrollments(w) PROVE GoneIsGone'
  BY <1>17 DEF AdvanceDueEnrollments, DueRow, Live
<1>18. ASSUME NEW w \in Process, NEW e \in Enrollment, ReadNextStep(w, e) PROVE GoneIsGone'
  BY <1>18 DEF ReadNextStep
<1>19. ASSUME NEW w \in Process, NEW e \in Enrollment, FireStep(w, e) PROVE GoneIsGone'
  BY <1>19 DEF FireStep, Referable
<1>20. ASSUME NEW w \in Process, NEW e \in Enrollment, AdvanceRow(w, e) PROVE GoneIsGone'
  BY <1>20 DEF AdvanceRow, Referable
<1>21. ASSUME NEW w \in Process, NEW e \in Enrollment, CommitStep(w, e) PROVE GoneIsGone'
  BY <1>21 DEF CommitStep, MoveOn, Arrive, DropWork
<1>22. ASSUME NEW w \in Process, NEW e \in Enrollment, StepIsGone(w, e) PROVE GoneIsGone'
  BY <1>22 DEF StepIsGone, DropWork
<1>23. ASSUME NEW w \in Process, NEW e \in Enrollment, StepFails(w, e) PROVE GoneIsGone'
  BY <1>23 DEF StepFails, DropWork
<1>24. ASSUME NEW w \in Process, Die(w) PROVE GoneIsGone'
  BY <1>24 DEF Die
<1>25. CASE UNCHANGED vars
  BY <1>25 DEF vars
<1> QED
  BY <1>1, <1>2, <1>3, <1>4, <1>5, <1>6, <1>7, <1>8, <1>9, <1>10, <1>11, <1>12,
     <1>13, <1>14, <1>15, <1>16, <1>17, <1>18, <1>19, <1>20, <1>21, <1>22, <1>23, <1>24, <1>25
     DEF Next, EditStep, EditSequence, RowRequest, ProcessEnrollmentStep

(* A step that is put on a row is owed once more by every process.          *)
LEMMA OwedStep == TypeOK /\ WorkHasStep /\ Owed /\ StepsFireOnce /\ [Next]_vars => (Owed /\ StepsFireOnce)'
<1> USE SequenceConstants DEF TypeOK, WorkHasStep, Holds, Owed, StepsFireOnce, Deletion, sequence, steps, rows, tick, history
<1> SUFFICES ASSUME TypeOK /\ WorkHasStep /\ Owed /\ StepsFireOnce, [Next]_vars PROVE (Owed /\ StepsFireOnce)'
  OBVIOUS
<1>1. ASSUME SetEnabled PROVE (Owed /\ StepsFireOnce)'
  BY <1>1 DEF SetEnabled
<1>2. ASSUME NEW s \in Step, NEW o \in 1..MaxOrder, CreateStep(s, o) PROVE (Owed /\ StepsFireOnce)'
  BY <1>2 DEF CreateStep
<1>3. ASSUME NEW s \in Step, NEW o \in 1..MaxOrder, UpdateStep(s, o) PROVE (Owed /\ StepsFireOnce)'
  BY <1>3 DEF UpdateStep, Referable, KeyShared
<1>4. ASSUME NEW s \in Step, LockStep(s) PROVE (Owed /\ StepsFireOnce)'
  BY <1>4 DEF LockStep, Referable, KeyShared
<1>5. ASSUME NEW s \in Step, CountOnStep(s) PROVE (Owed /\ StepsFireOnce)'
  BY <1>5 DEF CountOnStep, ActiveOn
<1>6. ASSUME NEW s \in Step, DeleteStep(s) PROVE (Owed /\ StepsFireOnce)'
  BY <1>6 DEF DeleteStep
<1>7. ASSUME NEW s \in Step, DeleteStepFails(s) PROVE (Owed /\ StepsFireOnce)'
  BY <1>7 DEF DeleteStepFails
<1>8. ASSUME LockSequence PROVE (Owed /\ StepsFireOnce)'
  BY <1>8 DEF LockSequence
<1>9. ASSUME CountEnrolled PROVE (Owed /\ StepsFireOnce)'
  BY <1>9 DEF CountEnrolled
<1>10. ASSUME DeleteSequence PROVE (Owed /\ StepsFireOnce)'
  BY <1>10 DEF DeleteSequence, KeyShared, Ended
<1>11. ASSUME DeleteSequenceFails PROVE (Owed /\ StepsFireOnce)'
  BY <1>11 DEF DeleteSequenceFails
<1>12. ASSUME NEW e \in Enrollment, BeginEnroll(e) PROVE (Owed /\ StepsFireOnce)'
  BY <1>12 DEF BeginEnroll, IsNextAfter, Live
<1>13. ASSUME NEW e \in Enrollment, EnrollContact(e) PROVE (Owed /\ StepsFireOnce)'
  BY <1>13 DEF EnrollContact, MayInsert, Referable, Live, Arrive
<1>14. ASSUME NEW e \in Enrollment, EnrollFails(e) PROVE (Owed /\ StepsFireOnce)'
  BY <1>14 DEF EnrollFails
<1>15. ASSUME NEW e \in Enrollment, UnenrollContact(e) PROVE (Owed /\ StepsFireOnce)'
  BY <1>15 DEF UnenrollContact
<1>16. ASSUME NEW e \in Enrollment, DueTimePasses(e) PROVE (Owed /\ StepsFireOnce)'
  BY <1>16 DEF DueTimePasses
<1>17. ASSUME NEW w \in Process, AdvanceDueEnrollments(w) PROVE (Owed /\ StepsFireOnce)'
  BY <1>17 DEF AdvanceDueEnrollments, DueRow, Live
<1>18. ASSUME NEW w \in Process, NEW e \in Enrollment, ReadNextStep(w, e) PROVE (Owed /\ StepsFireOnce)'
  BY <1>18 DEF ReadNextStep
<1>19. ASSUME NEW w \in Process, NEW e \in Enrollment, FireStep(w, e) PROVE (Owed /\ StepsFireOnce)'
  BY <1>19 DEF FireStep, Referable
<1>20. ASSUME NEW w \in Process, NEW e \in Enrollment, AdvanceRow(w, e) PROVE (Owed /\ StepsFireOnce)'
  BY <1>20 DEF AdvanceRow, Referable
<1>21. ASSUME NEW w \in Process, NEW e \in Enrollment, CommitStep(w, e) PROVE (Owed /\ StepsFireOnce)'
  <2> USE <1>21 DEF CommitStep
  <2>1. cap[w][e] \in Step /\ status[e] # "enrolling"
    OBVIOUS
  <2>2. \A v \in Process, f \in Enrollment, s \in Step :
           firedBy'[v][f][s] = firedBy[v][f][s] + (IF v = w /\ f = e /\ s = cap[w][e] THEN 1 ELSE 0)
    BY <2>1
  <2>3. \A f \in Enrollment, s \in Step :
           visits'[f][s] = visits[f][s] + (IF f = e /\ s = next[w][e] THEN 1 ELSE 0)
    BY DEF MoveOn, Arrive
  <2>4. \A v \in Process, f \in Enrollment :
           cap'[v][f] = IF v = w /\ f = e THEN NoStep ELSE cap[v][f]
    BY DEF DropWork
  <2>5. \A f \in Enrollment :
           /\ at'[f] = IF f = e THEN next[w][e] ELSE at[f]
           /\ status'[f] # "enrolling" => status[f] # "enrolling"
    BY <2>1 DEF MoveOn
  <2>6. ASSUME NEW v \in Process, NEW f \in Enrollment, NEW s \in Step
        PROVE  /\ firedBy'[v][f][s] <= visits'[f][s]
               /\ cap'[v][f] = s \/ (status'[f] # "enrolling" /\ at'[f] = s) =>
                     firedBy'[v][f][s] < visits'[f][s]
    <3>1. firedBy[v][f][s] \in Nat /\ visits[f][s] \in Nat
      OBVIOUS
    <3>2. CASE v = w /\ f = e
      BY <2>1, <2>2, <2>3, <2>4, <2>5, <3>1, <3>2
    <3>3. CASE ~(v = w /\ f = e)
      BY <2>2, <2>3, <2>4, <2>5, <3>1, <3>3
    <3> QED  BY <3>2, <3>3
  <2> QED  BY <2>6
<1>22. ASSUME NEW w \in Process, NEW e \in Enrollment, StepIsGone(w, e) PROVE (Owed /\ StepsFireOnce)'
  BY <1>22 DEF StepIsGone, DropWork
<1>23. ASSUME NEW w \in Process, NEW e \in Enrollment, StepFails(w, e) PROVE (Owed /\ StepsFireOnce)'
  BY <1>23 DEF StepFails, DropWork
<1>24. ASSUME NEW w \in Process, Die(w) PROVE (Owed /\ StepsFireOnce)'
  BY <1>24 DEF Die
<1>25. CASE UNCHANGED vars
  BY <1>25 DEF vars
<1> QED
  BY <1>1, <1>2, <1>3, <1>4, <1>5, <1>6, <1>7, <1>8, <1>9, <1>10, <1>11, <1>12,
     <1>13, <1>14, <1>15, <1>16, <1>17, <1>18, <1>19, <1>20, <1>21, <1>22, <1>23, <1>24, <1>25
     DEF Next, EditStep, EditSequence, RowRequest, ProcessEnrollmentStep

(* A row held by one process only leaves its step by that process's commit. *)
LEMMA AloneStep == TypeOK /\ CountsHold /\ WorkHasStep /\ AloneMatchesRow /\ [Next]_vars => AloneMatchesRow'
<1> USE SequenceConstants DEF TypeOK, CountsHold, ActiveOn, WorkHasStep, Holds, AloneMatchesRow, Deletion, sequence, steps, rows, tick, history
<1> SUFFICES ASSUME TypeOK /\ CountsHold /\ WorkHasStep /\ AloneMatchesRow, [Next]_vars PROVE AloneMatchesRow'
  OBVIOUS
<1>1. ASSUME SetEnabled PROVE AloneMatchesRow'
  BY <1>1 DEF SetEnabled
<1>2. ASSUME NEW s \in Step, NEW o \in 1..MaxOrder, CreateStep(s, o) PROVE AloneMatchesRow'
  BY <1>2 DEF CreateStep
<1>3. ASSUME NEW s \in Step, NEW o \in 1..MaxOrder, UpdateStep(s, o) PROVE AloneMatchesRow'
  BY <1>3 DEF UpdateStep, Referable, KeyShared
<1>4. ASSUME NEW s \in Step, LockStep(s) PROVE AloneMatchesRow'
  BY <1>4 DEF LockStep, Referable, KeyShared
<1>5. ASSUME NEW s \in Step, CountOnStep(s) PROVE AloneMatchesRow'
  BY <1>5 DEF CountOnStep, ActiveOn
<1>6. ASSUME NEW s \in Step, DeleteStep(s) PROVE AloneMatchesRow'
  BY <1>6 DEF DeleteStep
<1>7. ASSUME NEW s \in Step, DeleteStepFails(s) PROVE AloneMatchesRow'
  BY <1>7 DEF DeleteStepFails
<1>8. ASSUME LockSequence PROVE AloneMatchesRow'
  BY <1>8 DEF LockSequence
<1>9. ASSUME CountEnrolled PROVE AloneMatchesRow'
  BY <1>9 DEF CountEnrolled
<1>10. ASSUME DeleteSequence PROVE AloneMatchesRow'
  BY <1>10 DEF DeleteSequence, KeyShared, Ended
<1>11. ASSUME DeleteSequenceFails PROVE AloneMatchesRow'
  BY <1>11 DEF DeleteSequenceFails
<1>12. ASSUME NEW e \in Enrollment, BeginEnroll(e) PROVE AloneMatchesRow'
  BY <1>12 DEF BeginEnroll, IsNextAfter, Live
<1>13. ASSUME NEW e \in Enrollment, EnrollContact(e) PROVE AloneMatchesRow'
  BY <1>13 DEF EnrollContact, MayInsert, Referable, Live, Arrive
<1>14. ASSUME NEW e \in Enrollment, EnrollFails(e) PROVE AloneMatchesRow'
  BY <1>14 DEF EnrollFails
<1>15. ASSUME NEW e \in Enrollment, UnenrollContact(e) PROVE AloneMatchesRow'
  BY <1>15 DEF UnenrollContact
<1>16. ASSUME NEW e \in Enrollment, DueTimePasses(e) PROVE AloneMatchesRow'
  BY <1>16 DEF DueTimePasses
<1>17. ASSUME NEW w \in Process, AdvanceDueEnrollments(w) PROVE AloneMatchesRow'
  BY <1>17 DEF AdvanceDueEnrollments, DueRow, Live
<1>18. ASSUME NEW w \in Process, NEW e \in Enrollment, ReadNextStep(w, e) PROVE AloneMatchesRow'
  BY <1>18 DEF ReadNextStep
<1>19. ASSUME NEW w \in Process, NEW e \in Enrollment, FireStep(w, e) PROVE AloneMatchesRow'
  BY <1>19 DEF FireStep, Referable
<1>20. ASSUME NEW w \in Process, NEW e \in Enrollment, AdvanceRow(w, e) PROVE AloneMatchesRow'
  BY <1>20 DEF AdvanceRow, Referable
<1>21. ASSUME NEW w \in Process, NEW e \in Enrollment, CommitStep(w, e) PROVE AloneMatchesRow'
  BY <1>21 DEF CommitStep, MoveOn, Arrive, DropWork
<1>22. ASSUME NEW w \in Process, NEW e \in Enrollment, StepIsGone(w, e) PROVE AloneMatchesRow'
  BY <1>22 DEF StepIsGone, DropWork
<1>23. ASSUME NEW w \in Process, NEW e \in Enrollment, StepFails(w, e) PROVE AloneMatchesRow'
  BY <1>23 DEF StepFails, DropWork
<1>24. ASSUME NEW w \in Process, Die(w) PROVE AloneMatchesRow'
  BY <1>24 DEF Die
<1>25. CASE UNCHANGED vars
  BY <1>25 DEF vars
<1> QED
  BY <1>1, <1>2, <1>3, <1>4, <1>5, <1>6, <1>7, <1>8, <1>9, <1>10, <1>11, <1>12,
     <1>13, <1>14, <1>15, <1>16, <1>17, <1>18, <1>19, <1>20, <1>21, <1>22, <1>23, <1>24, <1>25
     DEF Next, EditStep, EditSequence, RowRequest, ProcessEnrollmentStep

(* Every step keeps the accounts of arrivals and activities.                *)
LEMMA AccountsStep == TypeOK /\ CountsHold /\ WorkHasStep /\ AloneMatchesRow /\ Accounts /\ FireOncePerArrival /\ [Next]_vars => (Accounts /\ FireOncePerArrival)'
<1> USE SequenceConstants DEF TypeOK, CountsHold, ActiveOn, WorkHasStep, Holds, AloneMatchesRow, Accounts, FireOncePerArrival, Deletion, sequence, steps, rows, tick, history
<1> SUFFICES ASSUME TypeOK /\ CountsHold /\ WorkHasStep /\ AloneMatchesRow /\ Accounts /\ FireOncePerArrival, [Next]_vars PROVE (Accounts /\ FireOncePerArrival)'
  OBVIOUS
<1>1. ASSUME SetEnabled PROVE (Accounts /\ FireOncePerArrival)'
  BY <1>1 DEF SetEnabled
<1>2. ASSUME NEW s \in Step, NEW o \in 1..MaxOrder, CreateStep(s, o) PROVE (Accounts /\ FireOncePerArrival)'
  BY <1>2 DEF CreateStep
<1>3. ASSUME NEW s \in Step, NEW o \in 1..MaxOrder, UpdateStep(s, o) PROVE (Accounts /\ FireOncePerArrival)'
  BY <1>3 DEF UpdateStep, Referable, KeyShared
<1>4. ASSUME NEW s \in Step, LockStep(s) PROVE (Accounts /\ FireOncePerArrival)'
  BY <1>4 DEF LockStep, Referable, KeyShared
<1>5. ASSUME NEW s \in Step, CountOnStep(s) PROVE (Accounts /\ FireOncePerArrival)'
  BY <1>5 DEF CountOnStep, ActiveOn
<1>6. ASSUME NEW s \in Step, DeleteStep(s) PROVE (Accounts /\ FireOncePerArrival)'
  BY <1>6 DEF DeleteStep
<1>7. ASSUME NEW s \in Step, DeleteStepFails(s) PROVE (Accounts /\ FireOncePerArrival)'
  BY <1>7 DEF DeleteStepFails
<1>8. ASSUME LockSequence PROVE (Accounts /\ FireOncePerArrival)'
  BY <1>8 DEF LockSequence
<1>9. ASSUME CountEnrolled PROVE (Accounts /\ FireOncePerArrival)'
  BY <1>9 DEF CountEnrolled
<1>10. ASSUME DeleteSequence PROVE (Accounts /\ FireOncePerArrival)'
  BY <1>10 DEF DeleteSequence, KeyShared, Ended
<1>11. ASSUME DeleteSequenceFails PROVE (Accounts /\ FireOncePerArrival)'
  BY <1>11 DEF DeleteSequenceFails
<1>12. ASSUME NEW e \in Enrollment, BeginEnroll(e) PROVE (Accounts /\ FireOncePerArrival)'
  BY <1>12 DEF BeginEnroll, IsNextAfter, Live
<1>13. ASSUME NEW e \in Enrollment, EnrollContact(e) PROVE (Accounts /\ FireOncePerArrival)'
  BY <1>13 DEF EnrollContact, MayInsert, Referable, Live, Arrive
<1>14. ASSUME NEW e \in Enrollment, EnrollFails(e) PROVE (Accounts /\ FireOncePerArrival)'
  BY <1>14 DEF EnrollFails
<1>15. ASSUME NEW e \in Enrollment, UnenrollContact(e) PROVE (Accounts /\ FireOncePerArrival)'
  BY <1>15 DEF UnenrollContact
<1>16. ASSUME NEW e \in Enrollment, DueTimePasses(e) PROVE (Accounts /\ FireOncePerArrival)'
  BY <1>16 DEF DueTimePasses
<1>17. ASSUME NEW w \in Process, AdvanceDueEnrollments(w) PROVE (Accounts /\ FireOncePerArrival)'
  BY <1>17 DEF AdvanceDueEnrollments, DueRow, Live
<1>18. ASSUME NEW w \in Process, NEW e \in Enrollment, ReadNextStep(w, e) PROVE (Accounts /\ FireOncePerArrival)'
  BY <1>18 DEF ReadNextStep
<1>19. ASSUME NEW w \in Process, NEW e \in Enrollment, FireStep(w, e) PROVE (Accounts /\ FireOncePerArrival)'
  BY <1>19 DEF FireStep, Referable
<1>20. ASSUME NEW w \in Process, NEW e \in Enrollment, AdvanceRow(w, e) PROVE (Accounts /\ FireOncePerArrival)'
  BY <1>20 DEF AdvanceRow, Referable
<1>21. ASSUME NEW w \in Process, NEW e \in Enrollment, CommitStep(w, e) PROVE (Accounts /\ FireOncePerArrival)'
  BY <1>21 DEF CommitStep, MoveOn, Arrive, DropWork
<1>22. ASSUME NEW w \in Process, NEW e \in Enrollment, StepIsGone(w, e) PROVE (Accounts /\ FireOncePerArrival)'
  BY <1>22 DEF StepIsGone, DropWork
<1>23. ASSUME NEW w \in Process, NEW e \in Enrollment, StepFails(w, e) PROVE (Accounts /\ FireOncePerArrival)'
  BY <1>23 DEF StepFails, DropWork
<1>24. ASSUME NEW w \in Process, Die(w) PROVE (Accounts /\ FireOncePerArrival)'
  BY <1>24 DEF Die
<1>25. CASE UNCHANGED vars
  BY <1>25 DEF vars
<1> QED
  BY <1>1, <1>2, <1>3, <1>4, <1>5, <1>6, <1>7, <1>8, <1>9, <1>10, <1>11, <1>12,
     <1>13, <1>14, <1>15, <1>16, <1>17, <1>18, <1>19, <1>20, <1>21, <1>22, <1>23, <1>24, <1>25
     DEF Next, EditStep, EditSequence, RowRequest, ProcessEnrollmentStep

(* A process fires a row late once.                                         *)
LEMMA LateStep == TypeOK /\ WorkHasStep /\ GoneIsGone /\ KeysHold /\ LateIsOver /\ [Next]_vars => LateIsOver'
<1> USE SequenceConstants DEF TypeOK, WorkHasStep, GoneIsGone, KeysHold, Holds, LateIsOver, Deletion, sequence, steps, rows, tick, history
<1> SUFFICES ASSUME TypeOK /\ WorkHasStep /\ GoneIsGone /\ KeysHold /\ LateIsOver, [Next]_vars PROVE LateIsOver'
  OBVIOUS
<1>1. ASSUME SetEnabled PROVE LateIsOver'
  BY <1>1 DEF SetEnabled
<1>2. ASSUME NEW s \in Step, NEW o \in 1..MaxOrder, CreateStep(s, o) PROVE LateIsOver'
  BY <1>2 DEF CreateStep
<1>3. ASSUME NEW s \in Step, NEW o \in 1..MaxOrder, UpdateStep(s, o) PROVE LateIsOver'
  BY <1>3 DEF UpdateStep, Referable, KeyShared
<1>4. ASSUME NEW s \in Step, LockStep(s) PROVE LateIsOver'
  BY <1>4 DEF LockStep, Referable, KeyShared
<1>5. ASSUME NEW s \in Step, CountOnStep(s) PROVE LateIsOver'
  BY <1>5 DEF CountOnStep, ActiveOn
<1>6. ASSUME NEW s \in Step, DeleteStep(s) PROVE LateIsOver'
  BY <1>6 DEF DeleteStep
<1>7. ASSUME NEW s \in Step, DeleteStepFails(s) PROVE LateIsOver'
  BY <1>7 DEF DeleteStepFails
<1>8. ASSUME LockSequence PROVE LateIsOver'
  BY <1>8 DEF LockSequence
<1>9. ASSUME CountEnrolled PROVE LateIsOver'
  BY <1>9 DEF CountEnrolled
<1>10. ASSUME DeleteSequence PROVE LateIsOver'
  BY <1>10 DEF DeleteSequence, KeyShared, Ended
<1>11. ASSUME DeleteSequenceFails PROVE LateIsOver'
  BY <1>11 DEF DeleteSequenceFails
<1>12. ASSUME NEW e \in Enrollment, BeginEnroll(e) PROVE LateIsOver'
  BY <1>12 DEF BeginEnroll, IsNextAfter, Live
<1>13. ASSUME NEW e \in Enrollment, EnrollContact(e) PROVE LateIsOver'
  BY <1>13 DEF EnrollContact, MayInsert, Referable, Live, Arrive
<1>14. ASSUME NEW e \in Enrollment, EnrollFails(e) PROVE LateIsOver'
  BY <1>14 DEF EnrollFails
<1>15. ASSUME NEW e \in Enrollment, UnenrollContact(e) PROVE LateIsOver'
  BY <1>15 DEF UnenrollContact
<1>16. ASSUME NEW e \in Enrollment, DueTimePasses(e) PROVE LateIsOver'
  BY <1>16 DEF DueTimePasses
<1>17. ASSUME NEW w \in Process, AdvanceDueEnrollments(w) PROVE LateIsOver'
  BY <1>17 DEF AdvanceDueEnrollments, DueRow, Live
<1>18. ASSUME NEW w \in Process, NEW e \in Enrollment, ReadNextStep(w, e) PROVE LateIsOver'
  BY <1>18 DEF ReadNextStep
<1>19. ASSUME NEW w \in Process, NEW e \in Enrollment, FireStep(w, e) PROVE LateIsOver'
  BY <1>19 DEF FireStep, Referable
<1>20. ASSUME NEW w \in Process, NEW e \in Enrollment, AdvanceRow(w, e) PROVE LateIsOver'
  BY <1>20 DEF AdvanceRow, Referable
<1>21. ASSUME NEW w \in Process, NEW e \in Enrollment, CommitStep(w, e) PROVE LateIsOver'
  BY <1>21 DEF CommitStep, MoveOn, Arrive, DropWork
<1>22. ASSUME NEW w \in Process, NEW e \in Enrollment, StepIsGone(w, e) PROVE LateIsOver'
  BY <1>22 DEF StepIsGone, DropWork
<1>23. ASSUME NEW w \in Process, NEW e \in Enrollment, StepFails(w, e) PROVE LateIsOver'
  BY <1>23 DEF StepFails, DropWork
<1>24. ASSUME NEW w \in Process, Die(w) PROVE LateIsOver'
  BY <1>24 DEF Die
<1>25. CASE UNCHANGED vars
  BY <1>25 DEF vars
<1> QED
  BY <1>1, <1>2, <1>3, <1>4, <1>5, <1>6, <1>7, <1>8, <1>9, <1>10, <1>11, <1>12,
     <1>13, <1>14, <1>15, <1>16, <1>17, <1>18, <1>19, <1>20, <1>21, <1>22, <1>23, <1>24, <1>25
     DEF Next, EditStep, EditSequence, RowRequest, ProcessEnrollmentStep

-----------------------------------------------------------------------------
(***************************************************************************)
(* The theorems.                                                           *)
(***************************************************************************)
LEMMA InitIInv == Init => IInv
BY SequenceConstants DEF Init, IInv, TypeOK, KeysHold, CountsHold, WorkHasStep, Holds, Owed,
   AloneMatchesRow, Accounts, LateIsOver, NeverStranded, GoneIsGone, StepsFireOnce,
   FireOncePerArrival, Deletion

LEMMA StepIInv == IInv /\ [Next]_vars => IInv'
BY TypeStep, KeysStep, CountsStep, WorkStep, OwedStep, AloneStep, AccountsStep, LateStep,
   StrandedStep, GoneStep DEF IInv

LEMMA Inductive == Spec => []IInv
BY InitIInv, StepIInv, PTL DEF Spec

(* Every reachable state has its type.                                        *)
THEOREM TypeCorrect == Spec => []TypeOK
<1>1. IInv => TypeOK
  BY DEF IInv
<1> QED  BY <1>1, Inductive, PTL

(* No interleaving of deletions, enrollments and ticks leaves an active        *)
(* enrollment without its step.                                             *)
THEOREM EnrollmentsKeepTheirStep == Spec => []NeverStranded
<1>1. IInv => NeverStranded
  BY DEF IInv
<1> QED  BY <1>1, Inductive, PTL

(* However the ticks of processes overlap, none of them fires a step of an      *)
(* enrollment more often than the row was put on it.                         *)
THEOREM EachProcessFiresOnce == Spec => []StepsFireOnce
<1>1. IInv => StepsFireOnce
  BY DEF IInv
<1> QED  BY <1>1, Inductive, PTL

(* Every arrival at a step fires it exactly once before the row moves on, of     *)
(* a row on which ticks have kept apart.                                     *)
THEOREM EachArrivalFiresOnce == Spec => []FireOncePerArrival
<1>1. IInv => FireOncePerArrival
  BY DEF IInv
<1> QED  BY <1>1, Inductive, PTL

(* After a row stops being active each process fires at most the one step it    *)
(* had read.                                                                *)
THEOREM OneLateStep == Spec => []OneLateStepEach
<1>1. IInv => OneLateStepEach
  BY DEF IInv, LateIsOver, OneLateStepEach
<1> QED  BY <1>1, Inductive, PTL

(* What the accounts say when no row was ever held by two processes.            *)
FiresExactlyOnce ==
    \A e \in Enrollment :
        /\ status[e] \in {"active", "completed"} =>
              \A s \in Step : visits[e][s] = fired[e][s] + (IF at[e] = s THEN 1 ELSE 0)
        /\ \A w \in Process : late[w][e] <= 1

(* With one server process, as the operations guide has it, ticks keep apart     *)
(* on every row: every arrival of every enrollment fires exactly once, and at    *)
(* most one step fires late.                                                 *)
THEOREM OneProcessFiresOnce ==
  ASSUME \A v, w \in Process : v = w
  PROVE  Spec => []FiresExactlyOnce
<1>1. Init => overlapped = {}
  BY DEF Init
<1>2. overlapped = {} /\ [Next]_vars => (overlapped = {})'
  <2> SUFFICES ASSUME overlapped = {}, [Next]_vars PROVE overlapped' = {}
    OBVIOUS
  <2>1. ASSUME NEW w \in Process, AdvanceDueEnrollments(w) PROVE overlapped' = {}
    BY <2>1 DEF AdvanceDueEnrollments
  <2>2. ASSUME NEW s \in Step, EditStep(s) PROVE overlapped' = {}
    BY <2>2 DEF EditStep, CreateStep, UpdateStep, LockStep, CountOnStep, DeleteStep,
       DeleteStepFails, history
  <2>3. ASSUME EditSequence PROVE overlapped' = {}
    BY <2>3 DEF EditSequence, SetEnabled, LockSequence, CountEnrolled, DeleteSequence,
       DeleteSequenceFails, history
  <2>4. ASSUME NEW e \in Enrollment, RowRequest(e) \/ DueTimePasses(e) PROVE overlapped' = {}
    BY <2>4 DEF RowRequest, BeginEnroll, EnrollContact, EnrollFails, UnenrollContact,
       DueTimePasses, history
  <2>5. ASSUME NEW w \in Process, NEW e \in Enrollment,
               ProcessEnrollmentStep(w, e) \/ StepFails(w, e)
        PROVE overlapped' = {}
    BY <2>5 DEF ProcessEnrollmentStep, ReadNextStep, FireStep, AdvanceRow, CommitStep,
       StepIsGone, StepFails, history
  <2>6. ASSUME NEW w \in Process, Die(w) PROVE overlapped' = {}
    BY <2>6 DEF Die, history
  <2>7. CASE UNCHANGED vars
    BY <2>7 DEF vars, history
  <2> QED  BY <2>1, <2>2, <2>3, <2>4, <2>5, <2>6, <2>7 DEF Next
<1>3. IInv /\ overlapped = {} => FiresExactlyOnce
  <2>1. IInv => \A w \in Process, e \in Enrollment : late[w][e] <= 1
    BY DEF IInv, LateIsOver
  <2>2. IInv => FireOncePerArrival
    BY DEF IInv
  <2> QED  BY <2>1, <2>2 DEF FireOncePerArrival, FiresExactlyOnce
<1> QED
  BY <1>1, <1>2, <1>3, Inductive, PTL DEF Spec

-----------------------------------------------------------------------------
(***************************************************************************)
(* The promise of an enrollment.                                            *)
(***************************************************************************)
(* A step that moves no enrollment, notes nothing and fires nothing.           *)
LEMMA SameRowsSamePromise ==
  ASSUME UNCHANGED <<cap, fired>>,
         \A e \in Enrollment :
            /\ StageOf(status'[e]) = StageOf(status[e])
            /\ status'[e] = "active" <=> status[e] = "active"
            /\ status[e] = "active" => at'[e] = at[e]
  PROVE  UNCHANGED Promise!vars
<1>1. PromiseStage' = PromiseStage
  BY DEF PromiseStage
<1>2. PromiseAt' = PromiseAt
  BY DEF PromiseAt
<1> QED
  BY <1>1, <1>2 DEF Promise!vars

(* Requests on steps and on the sequence, short of its deletion, requests that   *)
(* prepare or give up an enrollment, and a tick's statements before its commit.  *)
LEMMA QuietSteps ==
  ASSUME IInv,
         \/ SetEnabled \/ LockSequence \/ CountEnrolled \/ DeleteSequenceFails
         \/ \E s \in Step : EditStep(s)
         \/ \E e \in Enrollment : BeginEnroll(e) \/ EnrollFails(e) \/ DueTimePasses(e)
         \/ \E w \in Process, e \in Enrollment :
               ReadNextStep(w, e) \/ FireStep(w, e) \/ AdvanceRow(w, e)
         \/ UNCHANGED vars
  PROVE  UNCHANGED Promise!vars
<1> USE DEF IInv
<1>1. CASE UNCHANGED <<cap, fired, status, at>>
  BY <1>1, SameRowsSamePromise
<1>2. ASSUME SetEnabled \/ LockSequence \/ CountEnrolled \/ DeleteSequenceFails \/ UNCHANGED vars
      PROVE UNCHANGED <<cap, fired, status, at>>
  BY <1>2 DEF SetEnabled, LockSequence, CountEnrolled, DeleteSequenceFails, vars, rows, tick,
     history
<1>3. ASSUME NEW w \in Process, NEW e \in Enrollment,
             ReadNextStep(w, e) \/ FireStep(w, e) \/ AdvanceRow(w, e)
      PROVE UNCHANGED <<cap, fired, status, at>>
  BY <1>3 DEF ReadNextStep, FireStep, AdvanceRow, rows, history
<1>4. ASSUME NEW e \in Enrollment, DueTimePasses(e) PROVE UNCHANGED <<cap, fired, status, at>>
  BY <1>4 DEF DueTimePasses, tick, history
<1>5. ASSUME NEW s \in Step, EditStep(s) PROVE UNCHANGED Promise!vars
  <2>1. UNCHANGED <<cap, fired, status>>
    BY <1>5 DEF EditStep, CreateStep, UpdateStep, LockStep, CountOnStep, DeleteStep,
       DeleteStepFails, rows, tick, history
  <2>2. ASSUME NEW e \in Enrollment, status[e] = "active" PROVE at'[e] = at[e]
    <3>1. CASE DeleteStep(s)
      BY <2>2, <3>1 DEF DeleteStep, CountsHold, ActiveOn, TypeOK
    <3>2. CASE ~DeleteStep(s)
      BY <1>5, <3>2 DEF EditStep, CreateStep, UpdateStep, LockStep, CountOnStep,
         DeleteStepFails, rows
    <3> QED  BY <3>1, <3>2
  <2> QED  BY <2>1, <2>2, SameRowsSamePromise
<1>6. ASSUME NEW e \in Enrollment, BeginEnroll(e) \/ EnrollFails(e) PROVE UNCHANGED Promise!vars
  <2>1. /\ UNCHANGED <<cap, fired>>
        /\ status[e] \in {"none", "enrolling"} /\ status'[e] \in {"none", "enrolling"}
        /\ \A f \in Enrollment \ {e} : status'[f] = status[f] /\ at'[f] = at[f]
    BY <1>6 DEF BeginEnroll, EnrollFails, tick, history, TypeOK
  <2>2. \A f \in Enrollment : StageOf(status'[f]) = StageOf(status[f])
    BY <2>1 DEF StageOf
  <2> QED  BY <2>1, <2>2, SameRowsSamePromise
<1> QED
  BY <1>1, <1>2, <1>3, <1>4, <1>5, <1>6

(* The INSERT of an enrollment enrolls the contact, who is not active in it yet.  *)
LEMMA InsertIsEnroll ==
  ASSUME IInv, NEW e \in Enrollment, EnrollContact(e)
  PROVE  \E s \in Step : Promise!Enroll(e, s)
<1> USE DEF IInv, TypeOK
<1>1. /\ status[e] = "enrolling" /\ at[e] \in Step
      /\ status' = [status EXCEPT ![e] = "active"]
      /\ UNCHANGED <<at, cap, fired>>
      /\ \A f \in Enrollment : ContactOf[f] = ContactOf[e] => status[f] # "active"
  BY DEF EnrollContact, MayInsert, Live, tick
<1>2. PromiseStage[e] = "out"
  BY <1>1 DEF PromiseStage, StageOf
<1>3. \A f \in Enrollment : ContactOf[f] = ContactOf[e] => PromiseStage[f] # "on"
  BY <1>1 DEF PromiseStage, StageOf
<1>4. PromiseStage' = [PromiseStage EXCEPT ![e] = "on"]
  BY <1>1 DEF PromiseStage, StageOf
<1>5. PromiseAt' = [PromiseAt EXCEPT ![e] = at[e]]
  BY <1>1 DEF PromiseAt
<1> QED
  BY <1>1, <1>2, <1>3, <1>4, <1>5 DEF Promise!Enroll

(* Unenrolling takes out a row that is on, wherever the ticks are with it.       *)
LEMMA UnenrollIsLeave ==
  ASSUME IInv, NEW e \in Enrollment, UnenrollContact(e)
  PROVE  Promise!Leave(e)
<1> USE DEF IInv, TypeOK
<1>1. /\ status[e] = "active"
      /\ status' = [status EXCEPT ![e] = "unenrolled"]
      /\ UNCHANGED <<at, cap, fired>>
  BY DEF UnenrollContact, tick, history
<1>2. /\ PromiseStage[e] = "on"
      /\ PromiseStage' = [PromiseStage EXCEPT ![e] = "left"]
  BY <1>1 DEF PromiseStage, StageOf
<1>3. PromiseAt' = [PromiseAt EXCEPT ![e] = NoStep]
  BY <1>1 DEF PromiseAt
<1> QED
  BY <1>1, <1>2, <1>3 DEF Promise!Leave

(* A tick that reads the due rows takes note of where they stand.               *)
LEMMA ReadIsNote ==
  ASSUME IInv, NEW w \in Process, AdvanceDueEnrollments(w)
  PROVE  \E batch \in SUBSET Enrollment : Promise!Note(w, batch)
<1> DEFINE batch == {e \in Enrollment : DueRow(e)}
<1>1. /\ \A e \in Enrollment : ~Holds(w, e)
      /\ cap' = [cap EXCEPT ![w] = [e \in Enrollment |-> IF e \in batch THEN at[e] ELSE NoStep]]
      /\ UNCHANGED <<status, at, fired>>
  BY DEF AdvanceDueEnrollments, rows
<1>2. \A e \in batch : status[e] = "active"
  BY DEF DueRow
<1> HIDE DEF batch
<1>3. batch \in SUBSET Enrollment
  BY DEF batch
<1>4. \A e \in Enrollment : cap[w][e] = NoStep
  BY <1>1 DEF IInv, TypeOK, WorkHasStep
<1>5. \A e \in batch : PromiseStage[e] = "on" /\ PromiseAt[e] = at[e]
  BY <1>2, <1>3 DEF PromiseStage, StageOf, PromiseAt
<1>6. cap' = [cap EXCEPT ![w] =
                [e \in Enrollment |-> IF e \in batch THEN PromiseAt[e] ELSE NoStep]]
  <2>1. [e \in Enrollment |-> IF e \in batch THEN at[e] ELSE NoStep]
          = [e \in Enrollment |-> IF e \in batch THEN PromiseAt[e] ELSE NoStep]
    BY <1>5
  <2> QED  BY <1>1, <2>1
<1>7. UNCHANGED <<PromiseStage, PromiseAt>>
  BY <1>1 DEF PromiseStage, PromiseAt
<1> QED
  BY <1>1, <1>3, <1>4, <1>5, <1>6, <1>7 DEF Promise!Note

(* The commit of a step fires it, and moves the row in the same instant.        *)
LEMMA CommitIsFire ==
  ASSUME IInv, NEW w \in Process, NEW e \in Enrollment, CommitStep(w, e)
  PROVE  Promise!Finish(w, e) \/ \E s \in Step : Promise!GoOn(w, e, s)
<1> USE DEF IInv, TypeOK
<1>1. /\ work[w][e] = "advancing" /\ MoveOn(w, e)
      /\ fired' = [fired EXCEPT ![e][cap[w][e]] = @ + 1]
      /\ cap' = [cap EXCEPT ![w][e] = NoStep]
  BY DEF CommitStep, DropWork
<1>2. cap[w][e] \in Step /\ status[e] \in {"active", "completed", "unenrolled"}
  BY <1>1 DEF WorkHasStep, Holds, KeysHold, GoneIsGone
<1>3. PromiseStage[e] \in {"on", "left", "finished"}
  BY <1>2 DEF PromiseStage, StageOf
<1>4. Promise!FireNoted(w, e)
  BY <1>1, <1>2, <1>3 DEF Promise!FireNoted
<1>5. CASE next[w][e] = NoStep
  <2>1. /\ status' = [status EXCEPT ![e] = "completed"]
        /\ at' = [at EXCEPT ![e] = NoStep]
    BY <1>1, <1>5 DEF MoveOn
  <2>2. PromiseStage' = [PromiseStage EXCEPT ![e] = "finished"]
    BY <2>1 DEF PromiseStage, StageOf
  <2>3. PromiseAt' = [PromiseAt EXCEPT ![e] = NoStep]
    BY <2>1 DEF PromiseAt
  <2> QED  BY <1>4, <2>2, <2>3 DEF Promise!Finish
<1>6. CASE next[w][e] # NoStep
  <2>1. /\ status' = status /\ next[w][e] \in Step
        /\ at' = [at EXCEPT ![e] = next[w][e]]
    BY <1>1, <1>6 DEF MoveOn
  <2>2. PromiseStage' = PromiseStage
    BY <2>1 DEF PromiseStage
  <2>3. PromiseStage[e] = "on" <=> status[e] = "active"
    BY DEF PromiseStage, StageOf
  <2>4. PromiseAt' = IF PromiseStage[e] = "on" THEN [PromiseAt EXCEPT ![e] = next[w][e]]
                     ELSE PromiseAt
    BY <2>1, <2>3 DEF PromiseAt
  <2>5. Promise!GoOn(w, e, next[w][e])
    BY <1>4, <2>2, <2>4 DEF Promise!GoOn
  <2> QED  BY <2>1, <2>5
<1> QED
  BY <1>5, <1>6

(* The sequence goes when nobody is active in it, and every row with it.         *)
LEMMA DeletionIsDeleteAll ==
  ASSUME IInv, DeleteSequence
  PROVE  Promise!DeleteAll
<1> USE DEF IInv, TypeOK
<1>1. \A e \in Enrollment : status[e] # "active"
  BY DEF DeleteSequence, CountsHold
<1>2. /\ UNCHANGED <<cap, fired>>
      /\ status' = [e \in Enrollment |->
                      IF status[e] \in {"active", "completed", "unenrolled"} THEN "deleted" ELSE status[e]]
  BY DEF DeleteSequence, Ended, tick, history
<1>3. \A e \in Enrollment : PromiseStage[e] # "on"
  BY <1>1 DEF PromiseStage, StageOf
<1>4. PromiseStage' = [e \in Enrollment |-> IF PromiseStage[e] = "out" THEN "out" ELSE "gone"]
  BY <1>1, <1>2 DEF PromiseStage, StageOf
<1>5. PromiseAt' = PromiseAt
  BY <1>1, <1>2 DEF PromiseAt
<1> QED
  BY <1>2, <1>3, <1>4, <1>5 DEF Promise!DeleteAll

(* Every step of requests and ticks is a step of the promise, or changes          *)
(* nothing it speaks of.                                                     *)
LEMMA StepKeepsPromise == IInv /\ [Next]_vars => [Promise!Next]_(Promise!vars)
<1> SUFFICES ASSUME IInv, [Next]_vars PROVE Promise!Next \/ UNCHANGED Promise!vars
  OBVIOUS
<1>1. ASSUME NEW e \in Enrollment, EnrollContact(e) PROVE Promise!Next
  BY <1>1, InsertIsEnroll DEF Promise!Next
<1>2. ASSUME NEW e \in Enrollment, UnenrollContact(e) PROVE Promise!Next
  BY <1>2, UnenrollIsLeave DEF Promise!Next
<1>3. ASSUME NEW w \in Process, AdvanceDueEnrollments(w) PROVE Promise!Next
  BY <1>3, ReadIsNote DEF Promise!Next
<1>4. ASSUME NEW w \in Process, NEW e \in Enrollment, CommitStep(w, e) PROVE Promise!Next
  BY <1>4, CommitIsFire DEF Promise!Next
<1>5. ASSUME NEW w \in Process, NEW e \in Enrollment, StepIsGone(w, e) \/ StepFails(w, e)
      PROVE Promise!Next
  <2>1. UNCHANGED <<status, at, fired>> /\ cap' = [cap EXCEPT ![w][e] = NoStep]
    BY <1>5 DEF StepIsGone, StepFails, DropWork, rows, history
  <2>2. cap' = [cap EXCEPT ![w] = [f \in Enrollment |-> IF f \in {e} THEN NoStep ELSE cap[w][f]]]
    BY <2>1 DEF IInv, TypeOK
  <2>3. UNCHANGED <<PromiseStage, PromiseAt>>
    BY <2>1 DEF PromiseStage, PromiseAt
  <2>4. Promise!GiveUp(w, {e})
    BY <2>1, <2>2, <2>3 DEF Promise!GiveUp
  <2> QED  BY <2>4 DEF Promise!Next
<1>6. ASSUME NEW w \in Process, Die(w) PROVE Promise!Next
  <2>1. UNCHANGED <<status, at, fired>> /\ cap' = [cap EXCEPT ![w] = [e \in Enrollment |-> NoStep]]
    BY <1>6 DEF Die, rows, history
  <2>2. [e \in Enrollment |-> IF e \in Enrollment THEN NoStep ELSE cap[w][e]]
          = [e \in Enrollment |-> NoStep]
    OBVIOUS
  <2>3. UNCHANGED <<PromiseStage, PromiseAt>>
    BY <2>1 DEF PromiseStage, PromiseAt
  <2>4. Promise!GiveUp(w, Enrollment)
    BY <2>1, <2>2, <2>3 DEF Promise!GiveUp
  <2> QED  BY <2>4 DEF Promise!Next
<1>7. CASE DeleteSequence
  BY <1>7, DeletionIsDeleteAll DEF Promise!Next
<1> QED
  BY <1>1, <1>2, <1>3, <1>4, <1>5, <1>6, <1>7, QuietSteps
     DEF Next, EditSequence, RowRequest, ProcessEnrollmentStep

(* Requests, deletions and the ticks of any number of processes, in any           *)
(* interleaving and with any failures, implement the promise of an enrollment.   *)
THEOREM PromiseKept == Spec => KeepsPromise
<1>1. Init => Promise!Init
  BY DEF Init, Promise!Init, PromiseStage, StageOf, PromiseAt
<1>2. IInv /\ [Next]_vars => [Promise!Next]_(Promise!vars)
  BY StepKeepsPromise
<1> QED
  BY <1>1, <1>2, Inductive, PTL DEF Spec, Promise!Spec, KeepsPromise
=============================================================================
