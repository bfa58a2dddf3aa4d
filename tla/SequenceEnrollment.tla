------------------------- MODULE SequenceEnrollment -------------------------
(***************************************************************************)
(* A sales sequence, its steps and its enrollments: sequenceService.ts.     *)
(*                                                                         *)
(* Server processes run the advancement tick beside the requests that       *)
(* enroll, unenroll and edit the sequence.  skipWhileRunning keeps the      *)
(* ticks of one process apart, and nothing those of two.  A tick reads the  *)
(* due enrollments once; each is then worked through on its own, in any     *)
(* order and side by side, by a transaction whose foreign keys take KEY     *)
(* SHARE locks on the steps it names.  A request is one transaction and one *)
(* action, except the two deletions, which lock, count and delete in three  *)
(* statements.                                                             *)
(***************************************************************************)
EXTENDS Integers

CONSTANTS
    Process,     \* server processes whose ticks may overlap
    Step,        \* ids of steps
    NoStep,      \* null
    Enrollment,  \* ids of enrollment rows
    Contact,
    ContactOf,   \* ContactOf[e]: the contact the row is for
    MaxOrder,    \* bound: sort orders
    MaxEdits     \* bound: moves of a step and switches of the sequence

ASSUME SequenceConstants ==
    /\ NoStep \notin Step
    /\ ContactOf \in [Enrollment -> Contact]
    /\ MaxOrder \in Nat
    /\ MaxEdits \in Nat

VARIABLES
    \* sales_sequences: enabled or not, deleted, and the deletion in progress
    seq,
    seqLock,
    \* sales_sequence_steps: sort_order (0 for a row that is not there), the
    \* ids used up, and the deletion in progress on each row
    order,
    retired,
    stepLock,
    \* sequence_enrollments: "enrolling" is a request between its reads and its
    \* INSERT, with the first step it read in at[e]
    status,
    at,          \* current_step_id
    due,         \* next_action_at has passed
    \* the tick of each process: how far it is with a row, the step and sort
    \* order it read for it, and the step it means to put it on
    work,
    cap,
    capOrder,
    next,
    \* what happened: activities created, in all and by process, and arrivals,
    \* by row and step; steps a process fired after the row stopped being
    \* active; rows two processes ever held at once; and edits made
    fired,
    firedBy,
    visits,
    late,
    overlapped,
    edits

sequence == <<seq, seqLock>>
steps == <<order, retired, stepLock>>
rows == <<status, at, due>>
tick == <<work, cap, capOrder, next>>
history == <<fired, firedBy, visits, late, overlapped>>
vars == <<sequence, steps, rows, tick, history, edits>>

Deletion == {"free", "locked", "counted"}

TypeOK ==
    /\ seq \in {"on", "off", "deleted"}
    /\ seqLock \in Deletion
    /\ order \in [Step -> 0..MaxOrder]
    /\ retired \subseteq Step
    /\ stepLock \in [Step -> Deletion]
    /\ status \in [Enrollment -> {"none", "enrolling", "active", "completed", "unenrolled", "deleted"}]
    /\ at \in [Enrollment -> Step \cup {NoStep}]
    /\ due \in [Enrollment -> BOOLEAN]
    /\ work \in [Process -> [Enrollment -> {"idle", "queued", "read", "firing", "advancing"}]]
    /\ cap \in [Process -> [Enrollment -> Step \cup {NoStep}]]
    /\ capOrder \in [Process -> [Enrollment -> 0..MaxOrder]]
    /\ next \in [Process -> [Enrollment -> Step \cup {NoStep}]]
    /\ fired \in [Enrollment -> [Step -> Nat]]
    /\ firedBy \in [Process -> [Enrollment -> [Step -> Nat]]]
    /\ visits \in [Enrollment -> [Step -> Nat]]
    /\ late \in [Process -> [Enrollment -> Nat]]
    /\ overlapped \subseteq Enrollment
    /\ edits \in Nat

Init ==
    /\ seq = "on"
    /\ seqLock = "free"
    /\ order = [s \in Step |-> 0]
    /\ retired = {}
    /\ stepLock = [s \in Step |-> "free"]
    /\ status = [e \in Enrollment |-> "none"]
    /\ at = [e \in Enrollment |-> NoStep]
    /\ due = [e \in Enrollment |-> FALSE]
    /\ work = [w \in Process |-> [e \in Enrollment |-> "idle"]]
    /\ cap = [w \in Process |-> [e \in Enrollment |-> NoStep]]
    /\ capOrder = [w \in Process |-> [e \in Enrollment |-> 0]]
    /\ next = [w \in Process |-> [e \in Enrollment |-> NoStep]]
    /\ fired = [e \in Enrollment |-> [s \in Step |-> 0]]
    /\ firedBy = [w \in Process |-> [e \in Enrollment |-> [s \in Step |-> 0]]]
    /\ visits = [e \in Enrollment |-> [s \in Step |-> 0]]
    /\ late = [w \in Process |-> [e \in Enrollment |-> 0]]
    /\ overlapped = {}
    /\ edits = 0

-----------------------------------------------------------------------------
(***************************************************************************)
(* Helpers.                                                                *)
(***************************************************************************)
Live == {s \in Step : order[s] > 0}

(* The step with the least sort order above o, as ORDER BY ... LIMIT 1 picks it. *)
IsNextAfter(s, o) ==
    /\ s \in Live
    /\ order[s] > o
    /\ \A t \in Live : order[t] > o => order[s] <= order[t]
NoneAfter(o) == \A s \in Live : order[s] <= o

(* A KEY SHARE lock a tick's transaction holds on a step: the log row names   *)
(* the step that fires, the enrollment row the one it moves to.              *)
KeyShared(s) ==
    \E w \in Process, e \in Enrollment :
        \/ work[w][e] \in {"firing", "advancing"} /\ cap[w][e] = s
        \/ work[w][e] = "advancing" /\ next[w][e] = s

(* Mutant of Referable: deleteStep reads the row without FOR UPDATE.           *)
ReferableUnlocked(s) == s \in Live

(* A foreign key check on s waits for a deleter's FOR UPDATE lock.             *)
Referable(s) == s \in Live /\ stepLock[s] = "free"

ActiveOn(s) == {e \in Enrollment : status[e] = "active" /\ at[e] = s}
Ended == {"completed", "unenrolled"}

(* A tick has the row on its list, or is at work on it.                       *)
Holds(w, e) == work[w][e] # "idle"

(* The row lock of the transaction that has written the enrollment.            *)
RowLocked(e) == \E w \in Process : work[w][e] = "advancing"

DropWork(w, e) ==
    /\ work' = [work EXCEPT ![w][e] = "idle"]
    /\ cap' = [cap EXCEPT ![w][e] = NoStep]
    /\ capOrder' = [capOrder EXCEPT ![w][e] = 0]
    /\ next' = [next EXCEPT ![w][e] = NoStep]

Arrive(e, s) == visits' = [visits EXCEPT ![e][s] = @ + 1]

-----------------------------------------------------------------------------
(***************************************************************************)
(* Requests on the sequence and its steps.                                 *)
(***************************************************************************)
(* updateSequence: the enabled switch.                                        *)
SetEnabled ==
    /\ seq # "deleted" /\ seqLock = "free"
    /\ edits < MaxEdits
    /\ seq' = IF seq = "on" THEN "off" ELSE "on"
    /\ edits' = edits + 1
    /\ UNCHANGED <<seqLock, steps, rows, tick, history>>

(* createStep: the unique index on (sequence, sort_order) refuses a taken order. *)
CreateStep(s, o) ==
    /\ seq # "deleted" /\ seqLock = "free"
    /\ order[s] = 0 /\ s \notin retired
    /\ \A t \in Step : order[t] # o
    /\ order' = [order EXCEPT ![s] = o]
    /\ retired' = retired \cup {s}
    /\ UNCHANGED <<sequence, stepLock, rows, tick, history, edits>>

(* updateStep with a new sort order.  The column is in a unique index, so the *)
(* UPDATE waits for KEY SHARE locks.                                         *)
UpdateStep(s, o) ==
    /\ Referable(s) /\ ~KeyShared(s)
    /\ edits < MaxEdits
    /\ \A t \in Step : order[t] # o
    /\ order' = [order EXCEPT ![s] = o]
    /\ edits' = edits + 1
    /\ UNCHANGED <<sequence, retired, stepLock, rows, tick, history>>

(* deleteStep: lock the row ...                                              *)
LockStep(s) ==
    /\ Referable(s) /\ ~KeyShared(s)
    /\ stepLock' = [stepLock EXCEPT ![s] = "locked"]
    /\ UNCHANGED <<sequence, order, retired, rows, tick, history, edits>>

(* ... count the active enrollments on it, and give up if there is one ...     *)
CountOnStep(s) ==
    /\ stepLock[s] = "locked"
    /\ stepLock' = [stepLock EXCEPT ![s] = IF ActiveOn(s) = {} THEN "counted" ELSE "free"]
    /\ UNCHANGED <<sequence, order, retired, rows, tick, history, edits>>

(* ... and delete it; rows that point at it are set to null by their key.      *)
DeleteStep(s) ==
    /\ stepLock[s] = "counted"
    /\ order' = [order EXCEPT ![s] = 0]
    /\ stepLock' = [stepLock EXCEPT ![s] = "free"]
    /\ at' = [e \in Enrollment |->
                IF at[e] = s /\ status[e] # "enrolling" THEN NoStep ELSE at[e]]
    /\ UNCHANGED <<sequence, retired, status, due, tick, history, edits>>

(* An error on any of its statements, or the death of the process that serves  *)
(* it, undoes the deletion.                                                  *)
DeleteStepFails(s) ==
    /\ stepLock[s] # "free"
    /\ stepLock' = [stepLock EXCEPT ![s] = "free"]
    /\ UNCHANGED <<sequence, order, retired, rows, tick, history, edits>>

(* deleteSequence: the same three statements, on the sequence's row.           *)
LockSequence ==
    /\ seq # "deleted" /\ seqLock = "free"
    /\ seqLock' = "locked"
    /\ UNCHANGED <<seq, steps, rows, tick, history, edits>>

CountEnrolled ==
    /\ seqLock = "locked"
    /\ seqLock' = IF \E e \in Enrollment : status[e] = "active" THEN "free" ELSE "counted"
    /\ UNCHANGED <<seq, steps, rows, tick, history, edits>>

(* Steps and enrollments go by cascade; the cascade waits for locks on them.   *)
DeleteSequence ==
    /\ seqLock = "counted"
    /\ \A s \in Live : stepLock[s] = "free" /\ ~KeyShared(s)
    /\ seq' = "deleted"
    /\ seqLock' = "free"
    /\ order' = [s \in Step |-> 0]
    /\ status' = [e \in Enrollment |->
                    IF status[e] \in {"active"} \cup Ended THEN "deleted" ELSE status[e]]
    /\ at' = [e \in Enrollment |-> IF status[e] = "enrolling" THEN at[e] ELSE NoStep]
    /\ due' = [e \in Enrollment |-> FALSE]
    /\ UNCHANGED <<retired, stepLock, tick, history, edits>>

DeleteSequenceFails ==
    /\ seqLock # "free"
    /\ seqLock' = "free"
    /\ UNCHANGED <<seq, steps, rows, tick, history, edits>>

-----------------------------------------------------------------------------
(***************************************************************************)
(* Enrolling and unenrolling.                                              *)
(***************************************************************************)
(* enrollContact reads the sequence and its steps before its transaction.      *)
BeginEnroll(e) ==
    /\ status[e] = "none"
    /\ seq = "on"
    /\ \E s \in Step :
         /\ IsNextAfter(s, 0)
         /\ at' = [at EXCEPT ![e] = s]
    /\ status' = [status EXCEPT ![e] = "enrolling"]
    /\ UNCHANGED <<sequence, steps, due, tick, history, edits>>

(* A row may be inserted: its foreign keys hold, and so does the unique index  *)
(* on active enrollments.                                                    *)
MayInsert(e) ==
    /\ seq # "deleted"
    /\ at[e] \in Live
    /\ \A f \in Enrollment : ContactOf[f] = ContactOf[e] => status[f] # "active"

(* The delay of the first step may be zero.                                   *)
EnrollContact(e) ==
    /\ status[e] = "enrolling"
    /\ MayInsert(e) /\ seqLock = "free" /\ Referable(at[e])
    /\ status' = [status EXCEPT ![e] = "active"]
    /\ \E now \in BOOLEAN : due' = [due EXCEPT ![e] = now]
    /\ Arrive(e, at[e])
    /\ UNCHANGED <<sequence, steps, at, tick, fired, firedBy, late, overlapped, edits>>

(* Any error rolls back; always so if the row may not be inserted.              *)
EnrollFails(e) ==
    /\ status[e] = "enrolling"
    /\ status' = [status EXCEPT ![e] = "none"]
    /\ at' = [at EXCEPT ![e] = NoStep]
    /\ UNCHANGED <<sequence, steps, due, tick, history, edits>>

(* Mutant of UnenrollContact: a status the CHECK constraint does not know.      *)
UnenrollToPaused(e) ==
    /\ status[e] = "active"
    /\ ~RowLocked(e)
    /\ status' = [status EXCEPT ![e] = "paused"]
    /\ due' = [due EXCEPT ![e] = FALSE]
    /\ UNCHANGED <<sequence, steps, at, tick, history, edits>>

(* Mutant of UnenrollContact: the UPDATE goes by the id alone.                   *)
UnenrollAnyRow(e) ==
    /\ status[e] \in {"active", "completed"}
    /\ ~RowLocked(e)
    /\ status' = [status EXCEPT ![e] = "unenrolled"]
    /\ due' = [due EXCEPT ![e] = FALSE]
    /\ UNCHANGED <<sequence, steps, at, tick, history, edits>>

(* unenrollContact.  The UPDATE waits for the row lock of a tick's transaction *)
(* and tests the status again.                                              *)
UnenrollContact(e) ==
    /\ status[e] = "active"
    /\ ~RowLocked(e)
    /\ status' = [status EXCEPT ![e] = "unenrolled"]
    /\ due' = [due EXCEPT ![e] = FALSE]
    /\ UNCHANGED <<sequence, steps, at, tick, history, edits>>

DueTimePasses(e) ==
    /\ status[e] = "active" /\ ~due[e]
    /\ due' = [due EXCEPT ![e] = TRUE]
    /\ UNCHANGED <<sequence, steps, status, at, tick, history, edits>>

-----------------------------------------------------------------------------
(***************************************************************************)
(* The tick.                                                               *)
(***************************************************************************)
(* Mutant of DueRow: next_action_at alone decides.                            *)
DueRowAnyStatus(e) ==
    seq = "on" /\ status[e] \in {"active", "unenrolled"} /\ due[e] /\ at[e] \in Live

(* The WHERE clause of advanceDueEnrollments, with its join on the step.      *)
DueRow(e) == seq = "on" /\ status[e] = "active" /\ due[e] /\ at[e] \in Live

(* advanceDueEnrollments starts when the last tick of the process is over,      *)
(* whatever the ticks of other processes are at.                             *)
AdvanceDueEnrollments(w) ==
    LET batch == {e \in Enrollment : DueRow(e)} IN
    /\ \A e \in Enrollment : ~Holds(w, e)
    /\ batch # {}
    /\ work' = [work EXCEPT ![w] = [e \in Enrollment |-> IF e \in batch THEN "queued" ELSE "idle"]]
    /\ cap' = [cap EXCEPT ![w] = [e \in Enrollment |-> IF e \in batch THEN at[e] ELSE NoStep]]
    /\ capOrder' = [capOrder EXCEPT ![w] =
                      [e \in Enrollment |-> IF e \in batch THEN order[at[e]] ELSE 0]]
    /\ overlapped' = overlapped \cup {e \in batch : \E v \in Process : Holds(v, e)}
    /\ UNCHANGED <<sequence, steps, rows, next, fired, firedBy, visits, late, edits>>

(* processEnrollmentStep reads the next step before its transaction ...        *)
ReadNextStep(w, e) ==
    /\ work[w][e] = "queued"
    /\ \E n \in Step \cup {NoStep} :
         /\ IF n = NoStep THEN NoneAfter(capOrder[w][e]) ELSE IsNextAfter(n, capOrder[w][e])
         /\ next' = [next EXCEPT ![w][e] = n]
    /\ work' = [work EXCEPT ![w][e] = "read"]
    /\ UNCHANGED <<sequence, steps, rows, cap, capOrder, history, edits>>

(* ... inserts the activity and the log row ...                              *)
FireStep(w, e) ==
    /\ work[w][e] = "read"
    /\ Referable(cap[w][e])
    /\ work' = [work EXCEPT ![w][e] = "firing"]
    /\ UNCHANGED <<sequence, steps, rows, cap, capOrder, next, history, edits>>

(* ... writes the enrollment row, by its id alone, when no other transaction     *)
(* has it locked ...                                                        *)
AdvanceRow(w, e) ==
    /\ work[w][e] = "firing"
    /\ ~RowLocked(e)
    /\ next[w][e] = NoStep \/ Referable(next[w][e])
    /\ work' = [work EXCEPT ![w][e] = "advancing"]
    /\ UNCHANGED <<sequence, steps, rows, cap, capOrder, next, history, edits>>

(* The row goes on to the next step, or is completed.                          *)
MoveOn(w, e) ==
    /\ at' = [at EXCEPT ![e] = next[w][e]]
    /\ IF next[w][e] = NoStep
       THEN /\ status' = [status EXCEPT ![e] = "completed"]
            /\ due' = [due EXCEPT ![e] = FALSE]
            /\ visits' = visits
       ELSE /\ status' = status
            /\ \E now \in BOOLEAN : due' = [due EXCEPT ![e] = now]
            /\ Arrive(e, next[w][e])

(* ... and commits.                                                          *)
CommitStep(w, e) ==
    /\ work[w][e] = "advancing"
    /\ fired' = [fired EXCEPT ![e][cap[w][e]] = @ + 1]
    /\ firedBy' = [firedBy EXCEPT ![w][e][cap[w][e]] = @ + 1]
    /\ late' = [late EXCEPT ![w][e] = IF status[e] = "active" THEN @ ELSE @ + 1]
    /\ MoveOn(w, e)
    /\ DropWork(w, e)
    /\ UNCHANGED <<sequence, steps, overlapped, edits>>

(* Mutant of StepIsGone: a missing next step is not caught.                   *)
StepIsGoneUnhandled(w, e) ==
    /\ work[w][e] = "read" /\ cap[w][e] \notin Live
    /\ DropWork(w, e)
    /\ UNCHANGED <<sequence, steps, rows, history, edits>>

(* A foreign key finds its step gone: the transaction is rolled back, and the  *)
(* row is tried again by a later tick.                                       *)
StepIsGone(w, e) ==
    /\ \/ work[w][e] = "read" /\ cap[w][e] \notin Live
       \/ work[w][e] = "firing" /\ next[w][e] \notin Live \cup {NoStep}
    /\ DropWork(w, e)
    /\ UNCHANGED <<sequence, steps, rows, history, edits>>

(* Mutant of StepFails: the activity is inserted outside the transaction.      *)
StepFailsAfterActivity(w, e) ==
    /\ Holds(w, e)
    /\ IF work[w][e] \in {"firing", "advancing"}
       THEN /\ fired' = [fired EXCEPT ![e][cap[w][e]] = @ + 1]
            /\ firedBy' = [firedBy EXCEPT ![w][e][cap[w][e]] = @ + 1]
       ELSE UNCHANGED <<fired, firedBy>>
    /\ DropWork(w, e)
    /\ UNCHANGED <<sequence, steps, rows, visits, late, overlapped, edits>>

(* Mutant of StepFails: the enrollment is written outside the transaction.      *)
StepFailsAfterAdvance(w, e) ==
    /\ Holds(w, e)
    /\ IF work[w][e] = "advancing" THEN MoveOn(w, e) ELSE UNCHANGED <<rows, visits>>
    /\ DropWork(w, e)
    /\ UNCHANGED <<sequence, steps, fired, firedBy, late, overlapped, edits>>

(* A database error on any statement.                                        *)
StepFails(w, e) ==
    /\ Holds(w, e)
    /\ DropWork(w, e)
    /\ UNCHANGED <<sequence, steps, rows, history, edits>>

(* A server process dies: its open transactions are rolled back.  What else it   *)
(* was serving fails on its own.                                             *)
Die(w) ==
    /\ work' = [work EXCEPT ![w] = [e \in Enrollment |-> "idle"]]
    /\ cap' = [cap EXCEPT ![w] = [e \in Enrollment |-> NoStep]]
    /\ capOrder' = [capOrder EXCEPT ![w] = [e \in Enrollment |-> 0]]
    /\ next' = [next EXCEPT ![w] = [e \in Enrollment |-> NoStep]]
    /\ UNCHANGED <<sequence, steps, rows, history, edits>>

-----------------------------------------------------------------------------
EditStep(s) ==
    \/ \E o \in 1..MaxOrder : CreateStep(s, o) \/ UpdateStep(s, o)
    \/ LockStep(s) \/ CountOnStep(s) \/ DeleteStep(s) \/ DeleteStepFails(s)

EditSequence ==
    SetEnabled \/ LockSequence \/ CountEnrolled \/ DeleteSequence \/ DeleteSequenceFails

RowRequest(e) ==
    BeginEnroll(e) \/ EnrollContact(e) \/ EnrollFails(e) \/ UnenrollContact(e)

ProcessEnrollmentStep(w, e) ==
    \/ ReadNextStep(w, e) \/ FireStep(w, e) \/ AdvanceRow(w, e) \/ CommitStep(w, e)
    \/ StepIsGone(w, e)

Next ==
    \/ \E s \in Step : EditStep(s)
    \/ EditSequence
    \/ \E e \in Enrollment : RowRequest(e) \/ DueTimePasses(e)
    \/ \E w \in Process :
         \/ AdvanceDueEnrollments(w) \/ Die(w)
         \/ \E e \in Enrollment : ProcessEnrollmentStep(w, e) \/ StepFails(w, e)

Spec == Init /\ [][Next]_vars

(* Cron fires every fifteen minutes in some process, a statement is answered in *)
(* the end, and a deletion that has its lock goes on to its end.  The          *)
(* statements of one row wait for locks others take again and again: strong    *)
(* fairness, as a lock queue gives.  Nobody is obliged to edit, enroll or       *)
(* unenroll.                                                                *)
Fairness ==
    /\ \A w \in Process, e \in Enrollment : SF_vars(ProcessEnrollmentStep(w, e))
    /\ \A e \in Enrollment : WF_vars(DueTimePasses(e))
    /\ \A s \in Step : WF_vars(CountOnStep(s) \/ DeleteStep(s))
    /\ WF_vars(CountEnrolled \/ DeleteSequence)
    /\ WF_vars(\E w \in Process : AdvanceDueEnrollments(w))

(* Errors in ticks and deaths of processes stop in the end.                    *)
Fault ==
    \E w \in Process :
        Die(w) \/ \E e \in Enrollment : StepFails(w, e) /\ ~StepIsGone(w, e)
FaultsStop == <>[][~Fault]_vars

FairSpec == Spec /\ Fairness /\ FaultsStop

-----------------------------------------------------------------------------
(***************************************************************************)
(* Properties.                                                             *)
(***************************************************************************)
(* An active enrollment stands on a step that exists: neither deletion may     *)
(* slip between a request or a tick and the row it writes, for an enrollment   *)
(* without a step is never due again and never ends (the TOCTOU guards of      *)
(* deleteStep and deleteSequence).                                           *)
NeverStranded ==
    \A e \in Enrollment : status[e] = "active" => at[e] \in Live /\ seq # "deleted"

(* No process fires a step of an enrollment more often than the row was put on  *)
(* it: no crash, error, late tick, reordering, nor a tick of another process    *)
(* that moves the row meanwhile, has it create an activity twice.  Two          *)
(* processes may both create one, as the operations guide warns.              *)
StepsFireOnce ==
    \A w \in Process, e \in Enrollment, s \in Step : firedBy[w][e][s] <= visits[e][s]

(* While no two processes ever worked on an enrollment at once, every step it   *)
(* has left has created exactly one activity for each arrival at it, and the     *)
(* step it stands on none since it arrived: none is fired twice or skipped.     *)
FireOncePerArrival ==
    \A e \in Enrollment \ overlapped : status[e] \in {"active", "completed"} =>
        \A s \in Step : visits[e][s] = fired[e][s] + (IF at[e] = s THEN 1 ELSE 0)

(* What a process had read before someone unenrolled the contact may still       *)
(* fire there, but only that one step: the row, though it has a due time again,  *)
(* is not picked up by any later tick.                                       *)
OneLateStepEach == \A w \in Process, e \in Enrollment : late[w][e] <= 1

(* In a sequence that stays enabled, every enrollment ends, also when the ticks  *)
(* of two processes set it back.                                             *)
EnrollmentsEnd ==
    \A e \in Enrollment : (status[e] = "active") ~> (status[e] # "active" \/ seq # "on")

(***************************************************************************)
(* The rows and the ticks implement the promise of an enrollment.            *)
(***************************************************************************)
StageOf(st) ==
    CASE st \in {"none", "enrolling"} -> "out"
      [] st = "active"               -> "on"
      [] st = "unenrolled"           -> "left"
      [] st = "completed"            -> "finished"
      [] st = "deleted"              -> "gone"

PromiseStage == [e \in Enrollment |-> StageOf(status[e])]
PromiseAt == [e \in Enrollment |-> IF status[e] = "active" THEN at[e] ELSE NoStep]

Promise == INSTANCE EnrollmentPromise WITH
               stage <- PromiseStage, at <- PromiseAt, noted <- cap

(* Every behaviour of requests and ticks is one the promise allows.            *)
KeepsPromise == Promise!Spec
=============================================================================
