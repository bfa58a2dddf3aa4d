--------------------------- MODULE FeatureRollout ---------------------------
(***************************************************************************)
(* Staged rollout of feature flags: featureFlagService.ts.                  *)
(*                                                                         *)
(* A flag holds the percentage of users it is on for and a plan of stages.   *)
(* The scheduler of every server process applies due stages each minute;     *)
(* administrators edit the same columns.  Both lock the row, an edit by      *)
(* waiting for it and the scheduler by skipping a row that is held.          *)
(* A tick may outlast the minute, so ticks of one process overlap as those   *)
(* of two do: a Tick is one run of advanceRolloutStages at a time.           *)
(***************************************************************************)
EXTENDS Integers

CONSTANTS
    Flag,
    Tick,      \* runs of the scheduler that may overlap
    Request,   \* requests of administrators that may overlap
    Nobody,    \* no holder of a row
    Percent,   \* percentages in use
    Null,      \* rollout_percentage NULL: the flag is not rolled out by share
    MaxTime,   \* bound: the clock stops here
    MaxEdits   \* bound: edits begun

Worker == Tick \cup Request
Stage == [at : 1..MaxTime, pct : Percent]

ASSUME RolloutConstants ==
    /\ Tick \cap Request = {}
    /\ Nobody \notin Worker
    /\ Null \notin Percent
    /\ MaxTime \in Nat /\ MaxEdits \in Nat

(* rolloutStagesSchema: a stage is scheduled strictly after the one before.   *)
Plan == {plan \in SUBSET Stage : \A s, t \in plan : s.at = t.at => s = t}

VARIABLES
    clock,
    row,     \* row[f]: rollout_percentage and rollout_stages of the flag
    lock,    \* who holds the row of the flag, FOR UPDATE
    audit,   \* the newest audit entry of the flag's rollout_percentage
    pc,      \* pc[w]: "idle", "looping" (a tick, between flags), "holding"
    todo,    \* todo[t]: candidates the tick has not come to
    now,     \* now[t]: the time the tick took for its own
    on,      \* on[w]: the flag whose row it holds
    seen,    \* seen[w]: the row it read under the lock
    edits    \* edits begun

vars == <<clock, row, lock, audit, pc, todo, now, on, seen, edits>>

Row == [pct : Percent \cup {Null}, stages : Plan]

TypeOK ==
    /\ clock \in 0..MaxTime
    /\ row \in [Flag -> Row]
    /\ lock \in [Flag -> Worker \cup {Nobody}]
    /\ audit \in [Flag -> [old : Percent \cup {Null}, new : Percent \cup {Null}]]
    /\ pc \in [Worker -> {"idle", "looping", "holding"}]
    /\ todo \in [Tick -> SUBSET Flag]
    /\ now \in [Tick -> 0..MaxTime]
    /\ on \in [Worker -> Flag]
    /\ seen \in [Worker -> Row]
    /\ edits \in 0..MaxEdits

(* A migration inserts a flag without a rollout.                             *)
NoRollout == [pct |-> Null, stages |-> {}]

Init ==
    /\ clock = 0
    /\ row = [f \in Flag |-> NoRollout]
    /\ lock = [f \in Flag |-> Nobody]
    /\ audit = [f \in Flag |-> [old |-> Null, new |-> Null]]
    /\ pc = [w \in Worker |-> "idle"]
    /\ todo = [t \in Tick |-> {}]
    /\ now = [t \in Tick |-> 0]
    /\ on \in [Worker -> Flag]
    /\ seen = [w \in Worker |-> NoRollout]
    /\ edits = 0

TimePasses ==
    /\ clock < MaxTime
    /\ clock' = clock + 1
    /\ UNCHANGED <<row, lock, audit, pc, todo, now, on, seen, edits>>

-----------------------------------------------------------------------------
(***************************************************************************)
(* The row lock.                                                           *)
(***************************************************************************)
(* Mutant of TakeRow: read without FOR UPDATE.                                *)
ReadRow(w, f) ==
    /\ lock' = lock
    /\ on' = [on EXCEPT ![w] = f]
    /\ seen' = [seen EXCEPT ![w] = row[f]]
    /\ pc' = [pc EXCEPT ![w] = "holding"]

(* SELECT ... FOR UPDATE: the row is read once the lock is held.               *)
TakeRow(w, f) ==
    /\ lock[f] = Nobody
    /\ lock' = [lock EXCEPT ![f] = w]
    /\ on' = [on EXCEPT ![w] = f]
    /\ seen' = [seen EXCEPT ![w] = row[f]]
    /\ pc' = [pc EXCEPT ![w] = "holding"]

(* COMMIT or ROLLBACK, and on to what comes next; what was read is forgotten.    *)
Release(w, next) ==
    /\ lock' = [lock EXCEPT ![on[w]] = Nobody]
    /\ seen' = [seen EXCEPT ![w] = NoRollout]
    /\ pc' = [pc EXCEPT ![w] = next]

(* An entry for a change of percentage, and for nothing else.                 *)
AuditChange(f, old, new) ==
    audit' = IF old = new THEN audit ELSE [audit EXCEPT ![f] = [old |-> old, new |-> new]]

-----------------------------------------------------------------------------
(***************************************************************************)
(* advanceRolloutStages.                                                   *)
(***************************************************************************)
(* The candidates are read without a lock, and the time is taken once;        *)
(* with no candidate the run is over at once.                                *)
ScanCandidates(t) ==
    /\ pc[t] = "idle"
    /\ todo' = [todo EXCEPT ![t] = {f \in Flag : row[f].stages # {}}]
    /\ now' = [now EXCEPT ![t] = clock]
    /\ pc' = [pc EXCEPT ![t] = "looping"]
    /\ UNCHANGED <<clock, row, lock, audit, on, seen, edits>>

LockCandidate(t, f) ==
    /\ pc[t] = "looping"
    /\ f \in todo[t]
    /\ TakeRow(t, f)
    /\ todo' = [todo EXCEPT ![t] = @ \ {f}]
    /\ UNCHANGED <<clock, row, audit, now, edits>>

(* SKIP LOCKED: the holder will do what there is to do.                       *)
SkipCandidate(t, f) ==
    /\ pc[t] = "looping"
    /\ f \in todo[t]
    /\ lock[f] # Nobody
    /\ todo' = [todo EXCEPT ![t] = @ \ {f}]
    /\ UNCHANGED <<clock, row, lock, audit, pc, now, on, seen, edits>>

DueStages(t) == {s \in seen[t].stages : s.at <= now[t]}

(* Mutant of LastDue: the first due stage wins, and takes the others along.    *)
FirstDue(t, s) == s \in DueStages(t) /\ \A u \in DueStages(t) : s.at <= u.at

(* The most recently due stage wins.                                         *)
LastDue(t, s) == s \in DueStages(t) /\ \A u \in DueStages(t) : u.at <= s.at

RemainingStages(t) == {s \in seen[t].stages : s.at > now[t]}

NothingDue(t) ==
    /\ pc[t] = "holding"
    /\ DueStages(t) = {}
    /\ Release(t, "looping")
    /\ UNCHANGED <<clock, row, audit, todo, now, on, edits>>

AdvanceStage(t) ==
    /\ pc[t] = "holding"
    /\ \E s \in seen[t].stages :
         /\ LastDue(t, s) /\ s.pct # seen[t].pct
         /\ row' = [row EXCEPT ![on[t]] = [pct |-> s.pct, stages |-> RemainingStages(t)]]
         /\ AuditChange(on[t], seen[t].pct, s.pct)
    /\ Release(t, "looping")
    /\ UNCHANGED <<clock, todo, now, on, edits>>

(* Mutant of ConsumeStage: nothing to change, so the row is left alone.        *)
LeaveStage(t) ==
    /\ pc[t] = "holding"
    /\ \E s \in seen[t].stages : LastDue(t, s) /\ s.pct = seen[t].pct
    /\ Release(t, "looping")
    /\ UNCHANGED <<clock, row, audit, todo, now, on, edits>>

(* The percentage is there already: only the plan is written.  The column of   *)
(* the percentage is not touched.                                           *)
ConsumeStage(t) ==
    /\ pc[t] = "holding"
    /\ \E s \in seen[t].stages : LastDue(t, s) /\ s.pct = seen[t].pct
    /\ row' = [row EXCEPT ![on[t]].stages = RemainingStages(t)]
    /\ Release(t, "looping")
    /\ UNCHANGED <<clock, audit, todo, now, on, edits>>

(* An error is logged and the loop goes on with the next flag.                 *)
AdvanceFails(t) ==
    /\ pc[t] = "holding"
    /\ Release(t, "looping")
    /\ UNCHANGED <<clock, row, audit, todo, now, on, edits>>

TickEnds(t) ==
    /\ pc[t] = "looping"
    /\ todo[t] = {}
    /\ pc' = [pc EXCEPT ![t] = "idle"]
    /\ UNCHANGED <<clock, row, lock, audit, todo, now, on, seen, edits>>

(* No connection for the next flag: the exception leaves the loop, and the      *)
(* flags after it wait for the next tick.                                     *)
ConnectFails(t) ==
    /\ pc[t] = "looping"
    /\ todo[t] # {}
    /\ pc' = [pc EXCEPT ![t] = "idle"]
    /\ UNCHANGED <<clock, row, lock, audit, todo, now, on, seen, edits>>

(* The process dies holding the row: the database rolls back.                  *)
TickDies(t) ==
    /\ pc[t] = "holding"
    /\ Release(t, "idle")
    /\ UNCHANGED <<clock, row, audit, todo, now, on, edits>>

-----------------------------------------------------------------------------
(***************************************************************************)
(* updateFeatureFlag, and the other writers of the row, setAiEnabled and      *)
(* deleteFlagGroup: they change neither column, as an edit that leaves both   *)
(* does.                                                                    *)
(***************************************************************************)
BeginEdit(r, f) ==
    /\ pc[r] = "idle"
    /\ edits < MaxEdits
    /\ edits' = edits + 1
    /\ TakeRow(r, f)
    /\ UNCHANGED <<clock, row, audit, todo, now>>

(* Mutant of CommitEdit: two stages of a plan may have one time.               *)
CommitUnordered(r) ==
    /\ pc[r] = "holding"
    /\ \E pct \in Percent \cup {Null}, stages \in SUBSET Stage :
         /\ row' = [row EXCEPT ![on[r]] = [pct |-> pct, stages |-> stages]]
         /\ AuditChange(on[r], seen[r].pct, pct)
    /\ Release(r, "idle")
    /\ UNCHANGED <<clock, todo, now, on, edits>>

(* A field the request leaves out is written back as it was read: one of the    *)
(* values here.                                                             *)
CommitEdit(r) ==
    /\ pc[r] = "holding"
    /\ \E pct \in Percent \cup {Null}, stages \in Plan :
         /\ row' = [row EXCEPT ![on[r]] = [pct |-> pct, stages |-> stages]]
         /\ AuditChange(on[r], seen[r].pct, pct)
    /\ Release(r, "idle")
    /\ UNCHANGED <<clock, todo, now, on, edits>>

EditFails(r) ==
    /\ pc[r] = "holding"
    /\ Release(r, "idle")
    /\ UNCHANGED <<clock, row, audit, todo, now, on, edits>>

-----------------------------------------------------------------------------
Loop(t) ==
    \/ ScanCandidates(t)
    \/ \E f \in Flag : LockCandidate(t, f) \/ SkipCandidate(t, f)
    \/ NothingDue(t) \/ AdvanceStage(t) \/ ConsumeStage(t)
    \/ TickEnds(t)

AdvanceRolloutStages(t) == Loop(t) \/ AdvanceFails(t) \/ ConnectFails(t) \/ TickDies(t)

UpdateFeatureFlag(r) ==
    \/ \E f \in Flag : BeginEdit(r, f)
    \/ CommitEdit(r)
    \/ EditFails(r)

Next ==
    \/ TimePasses
    \/ \E t \in Tick : AdvanceRolloutStages(t)
    \/ \E r \in Request : UpdateFeatureFlag(r)

Spec == Init /\ [][Next]_vars

(* The interval keeps firing and no tick hangs; a transaction of an            *)
(* administrator ends; and the database does not fail every time a tick has    *)
(* come to a flag.                                                          *)
Fairness ==
    /\ \A t \in Tick : WF_vars(Loop(t))
    /\ \A r \in Request : WF_vars(CommitEdit(r) \/ EditFails(r))
    /\ \A f \in Flag :
         /\ SF_vars(\E t \in Tick : LockCandidate(t, f))
         /\ SF_vars(\E t \in Tick : on[t] = f /\ (AdvanceStage(t) \/ ConsumeStage(t)))

FairSpec == Spec /\ Fairness

-----------------------------------------------------------------------------
(***************************************************************************)
(* Properties.                                                             *)
(***************************************************************************)
(* The audit log tells the whole story of a percentage: every change of it,     *)
(* the scheduler's or an administrator's, is entered with the value it          *)
(* replaced, and nothing is entered that did not happen.                      *)
ChangesAreAudited ==
    [][\A f \in Flag :
         audit'[f] = IF row'[f].pct = row[f].pct THEN audit[f]
                     ELSE [old |-> row[f].pct, new |-> row'[f].pct]]_vars

(* A tick only ever carries out the plan as it stands: what it writes is a      *)
(* stage that is due and still planned, and with it go the stages before it     *)
(* and no other.  A tick that is late, or runs beside another or beside an       *)
(* edit, neither turns a rollout back nor undoes the edit.                     *)
PlanIsCarriedOut ==
    [][\A t \in Tick, f \in Flag :
         pc[t] = "holding" /\ pc'[t] # "holding" /\ on[t] = f /\ row'[f] # row[f] =>
            \E s \in row[f].stages :
               /\ s.at <= clock
               /\ row'[f] = [pct |-> s.pct, stages |-> {u \in row[f].stages : u.at > s.at}]]_vars

(* A stage that has come due does not stay in the plan, whatever fails and       *)
(* whichever ticks find the row held.                                         *)
DueStagesAdvance ==
    \A f \in Flag :
        (\E s \in row[f].stages : s.at <= clock) ~> (\A s \in row[f].stages : s.at > clock)
=============================================================================
