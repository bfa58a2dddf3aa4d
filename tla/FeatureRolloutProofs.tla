----------------------- MODULE FeatureRolloutProofs -----------------------
(***************************************************************************)
(* Proofs about FeatureRollout, for any number of flags, ticks, requests,     *)
(* stages and edits.                                                        *)
(***************************************************************************)
EXTENDS FeatureRollout, TLAPS

-----------------------------------------------------------------------------
(***************************************************************************)
(* The inductive invariant.                                                *)
(***************************************************************************)
(* What a worker read under the lock is what the row still says.               *)
LockProtectsRow ==
    \A w \in Worker : pc[w] = "holding" => lock[on[w]] = w /\ seen[w] = row[on[w]]

(* The time a tick works by has come.                                         *)
TickTimeHasCome == \A t \in Tick : now[t] <= clock

IInv == TypeOK /\ LockProtectsRow /\ TickTimeHasCome

-----------------------------------------------------------------------------
(* What is left of a plan is a plan.                                          *)
LEMMA SubPlan ==
    ASSUME NEW plan \in Plan, NEW rest \in SUBSET plan
    PROVE  rest \in Plan
BY DEF Plan

(* No rollout is a row.                                                       *)
LEMMA EmptyRow == NoRollout \in Row
BY DEF NoRollout, Row, Plan, Stage

(* Every step keeps the type of every variable.                              *)
LEMMA TypeStep == TypeOK /\ [Next]_vars => TypeOK'
<1> USE RolloutConstants, EmptyRow
<1> SUFFICES ASSUME TypeOK, [Next]_vars PROVE TypeOK'
  OBVIOUS
<1>1. ASSUME TimePasses PROVE TypeOK'
  BY <1>1 DEF TypeOK, Row, NoRollout, Worker, TimePasses
<1>2. ASSUME NEW t \in Tick, ScanCandidates(t) PROVE TypeOK'
  BY <1>2 DEF TypeOK, Row, NoRollout, Worker, ScanCandidates
<1>3. ASSUME NEW t \in Tick, NEW f \in Flag, LockCandidate(t, f) PROVE TypeOK'
  BY <1>3 DEF TypeOK, Row, NoRollout, Worker, LockCandidate, TakeRow
<1>4. ASSUME NEW t \in Tick, NEW f \in Flag, SkipCandidate(t, f) PROVE TypeOK'
  BY <1>4 DEF TypeOK, Row, NoRollout, Worker, SkipCandidate
<1>5. ASSUME NEW t \in Tick, NothingDue(t) PROVE TypeOK'
  BY <1>5 DEF TypeOK, Row, NoRollout, Worker, NothingDue, Release
<1>6. ASSUME NEW t \in Tick, AdvanceStage(t) PROVE TypeOK'
  <2>1. RemainingStages(t) \in Plan
    BY SubPlan DEF TypeOK, Row, RemainingStages, Worker
  <2>2. \A s \in seen[t].stages : s.pct \in Percent
    BY DEF TypeOK, Row, Plan, Stage, Worker
  <2> QED
    BY <1>6, <2>1, <2>2 DEF TypeOK, Row, NoRollout, Worker, AdvanceStage, Release, AuditChange
<1>7. ASSUME NEW t \in Tick, ConsumeStage(t) PROVE TypeOK'
  <2>1. RemainingStages(t) \in Plan
    BY SubPlan DEF TypeOK, Row, RemainingStages, Worker
  <2>2. \A s \in seen[t].stages : s.pct \in Percent
    BY DEF TypeOK, Row, Plan, Stage, Worker
  <2> QED
    BY <1>7, <2>1, <2>2 DEF TypeOK, Row, NoRollout, Worker, ConsumeStage, Release
<1>8. ASSUME NEW t \in Tick, TickEnds(t) PROVE TypeOK'
  BY <1>8 DEF TypeOK, Row, NoRollout, Worker, TickEnds
<1>9. ASSUME NEW t \in Tick, AdvanceFails(t) PROVE TypeOK'
  BY <1>9 DEF TypeOK, Row, NoRollout, Worker, AdvanceFails, Release
<1>10. ASSUME NEW t \in Tick, ConnectFails(t) PROVE TypeOK'
  BY <1>10 DEF TypeOK, Row, NoRollout, Worker, ConnectFails
<1>11. ASSUME NEW t \in Tick, TickDies(t) PROVE TypeOK'
  BY <1>11 DEF TypeOK, Row, NoRollout, Worker, TickDies, Release
<1>12. ASSUME NEW r \in Request, NEW f \in Flag, BeginEdit(r, f) PROVE TypeOK'
  BY <1>12 DEF TypeOK, Row, NoRollout, Worker, BeginEdit, TakeRow
<1>13. ASSUME NEW r \in Request, CommitEdit(r) PROVE TypeOK'
  BY <1>13 DEF TypeOK, Row, NoRollout, Worker, CommitEdit, Release, AuditChange
<1>14. ASSUME NEW r \in Request, EditFails(r) PROVE TypeOK'
  BY <1>14 DEF TypeOK, Row, NoRollout, Worker, EditFails, Release
<1>15. CASE UNCHANGED vars
  BY <1>15 DEF TypeOK, Row, NoRollout, Worker, vars
<1> QED
  BY <1>1, <1>2, <1>3, <1>4, <1>5, <1>6, <1>7, <1>8, <1>9, <1>10, <1>11, <1>12,
     <1>13, <1>14, <1>15 DEF Next, AdvanceRolloutStages, Loop, UpdateFeatureFlag

(* Nobody writes a row another holds.                                        *)
LEMMA LockStep == TypeOK /\ LockProtectsRow /\ [Next]_vars => LockProtectsRow'
<1> USE RolloutConstants
<1> SUFFICES ASSUME TypeOK /\ LockProtectsRow, [Next]_vars PROVE LockProtectsRow'
  OBVIOUS
<1>1. ASSUME TimePasses PROVE LockProtectsRow'
  BY <1>1 DEF TypeOK, LockProtectsRow, Worker, TimePasses
<1>2. ASSUME NEW t \in Tick, ScanCandidates(t) PROVE LockProtectsRow'
  BY <1>2 DEF TypeOK, LockProtectsRow, Worker, ScanCandidates
<1>3. ASSUME NEW t \in Tick, NEW f \in Flag, LockCandidate(t, f) PROVE LockProtectsRow'
  BY <1>3 DEF TypeOK, LockProtectsRow, Worker, LockCandidate, TakeRow
<1>4. ASSUME NEW t \in Tick, NEW f \in Flag, SkipCandidate(t, f) PROVE LockProtectsRow'
  BY <1>4 DEF TypeOK, LockProtectsRow, Worker, SkipCandidate
<1>5. ASSUME NEW t \in Tick, NothingDue(t) PROVE LockProtectsRow'
  BY <1>5 DEF TypeOK, LockProtectsRow, Worker, NothingDue, Release
<1>6. ASSUME NEW t \in Tick, AdvanceStage(t) PROVE LockProtectsRow'
  BY <1>6 DEF TypeOK, LockProtectsRow, Worker, AdvanceStage, Release, AuditChange,
     LastDue, DueStages
<1>7. ASSUME NEW t \in Tick, ConsumeStage(t) PROVE LockProtectsRow'
  BY <1>7 DEF TypeOK, LockProtectsRow, Worker, ConsumeStage, Release, LastDue,
     DueStages
<1>8. ASSUME NEW t \in Tick, TickEnds(t) PROVE LockProtectsRow'
  BY <1>8 DEF TypeOK, LockProtectsRow, Worker, TickEnds
<1>9. ASSUME NEW t \in Tick, AdvanceFails(t) PROVE LockProtectsRow'
  BY <1>9 DEF TypeOK, LockProtectsRow, Worker, AdvanceFails, Release
<1>10. ASSUME NEW t \in Tick, ConnectFails(t) PROVE LockProtectsRow'
  BY <1>10 DEF TypeOK, LockProtectsRow, Worker, ConnectFails
<1>11. ASSUME NEW t \in Tick, TickDies(t) PROVE LockProtectsRow'
  BY <1>11 DEF TypeOK, LockProtectsRow, Worker, TickDies, Release
<1>12. ASSUME NEW r \in Request, NEW f \in Flag, BeginEdit(r, f) PROVE LockProtectsRow'
  BY <1>12 DEF TypeOK, LockProtectsRow, Worker, BeginEdit, TakeRow
<1>13. ASSUME NEW r \in Request, CommitEdit(r) PROVE LockProtectsRow'
  BY <1>13 DEF TypeOK, LockProtectsRow, Worker, CommitEdit, Release, AuditChange
<1>14. ASSUME NEW r \in Request, EditFails(r) PROVE LockProtectsRow'
  BY <1>14 DEF TypeOK, LockProtectsRow, Worker, EditFails, Release
<1>15. CASE UNCHANGED vars
  BY <1>15 DEF TypeOK, LockProtectsRow, Worker, vars
<1> QED
  BY <1>1, <1>2, <1>3, <1>4, <1>5, <1>6, <1>7, <1>8, <1>9, <1>10, <1>11, <1>12,
     <1>13, <1>14, <1>15 DEF Next, AdvanceRolloutStages, Loop, UpdateFeatureFlag

(* A tick takes the time it is.                                              *)
LEMMA TimeStep == TypeOK /\ TickTimeHasCome /\ [Next]_vars => TickTimeHasCome'
<1> USE RolloutConstants
<1> SUFFICES ASSUME TypeOK /\ TickTimeHasCome, [Next]_vars PROVE TickTimeHasCome'
  OBVIOUS
<1>1. ASSUME TimePasses PROVE TickTimeHasCome'
  BY <1>1 DEF TypeOK, TickTimeHasCome, Worker, TimePasses
<1>2. ASSUME NEW t \in Tick, ScanCandidates(t) PROVE TickTimeHasCome'
  BY <1>2 DEF TypeOK, TickTimeHasCome, Worker, ScanCandidates
<1>3. ASSUME NEW t \in Tick, NEW f \in Flag, LockCandidate(t, f) PROVE TickTimeHasCome'
  BY <1>3 DEF TypeOK, TickTimeHasCome, Worker, LockCandidate, TakeRow
<1>4. ASSUME NEW t \in Tick, NEW f \in Flag, SkipCandidate(t, f) PROVE TickTimeHasCome'
  BY <1>4 DEF TypeOK, TickTimeHasCome, Worker, SkipCandidate
<1>5. ASSUME NEW t \in Tick, NothingDue(t) PROVE TickTimeHasCome'
  BY <1>5 DEF TypeOK, TickTimeHasCome, Worker, NothingDue, Release
<1>6. ASSUME NEW t \in Tick, AdvanceStage(t) PROVE TickTimeHasCome'
  BY <1>6 DEF TypeOK, TickTimeHasCome, Worker, AdvanceStage, Release, AuditChange,
     LastDue, DueStages
<1>7. ASSUME NEW t \in Tick, ConsumeStage(t) PROVE TickTimeHasCome'
  BY <1>7 DEF TypeOK, TickTimeHasCome, Worker, ConsumeStage, Release, LastDue,
     DueStages
<1>8. ASSUME NEW t \in Tick, TickEnds(t) PROVE TickTimeHasCome'
  BY <1>8 DEF TypeOK, TickTimeHasCome, Worker, TickEnds
<1>9. ASSUME NEW t \in Tick, AdvanceFails(t) PROVE TickTimeHasCome'
  BY <1>9 DEF TypeOK, TickTimeHasCome, Worker, AdvanceFails, Release
<1>10. ASSUME NEW t \in Tick, ConnectFails(t) PROVE TickTimeHasCome'
  BY <1>10 DEF TypeOK, TickTimeHasCome, Worker, ConnectFails
<1>11. ASSUME NEW t \in Tick, TickDies(t) PROVE TickTimeHasCome'
  BY <1>11 DEF TypeOK, TickTimeHasCome, Worker, TickDies, Release
<1>12. ASSUME NEW r \in Request, NEW f \in Flag, BeginEdit(r, f) PROVE TickTimeHasCome'
  BY <1>12 DEF TypeOK, TickTimeHasCome, Worker, BeginEdit, TakeRow
<1>13. ASSUME NEW r \in Request, CommitEdit(r) PROVE TickTimeHasCome'
  BY <1>13 DEF TypeOK, TickTimeHasCome, Worker, CommitEdit, Release, AuditChange
<1>14. ASSUME NEW r \in Request, EditFails(r) PROVE TickTimeHasCome'
  BY <1>14 DEF TypeOK, TickTimeHasCome, Worker, EditFails, Release
<1>15. CASE UNCHANGED vars
  BY <1>15 DEF TypeOK, TickTimeHasCome, Worker, vars
<1> QED
  BY <1>1, <1>2, <1>3, <1>4, <1>5, <1>6, <1>7, <1>8, <1>9, <1>10, <1>11, <1>12,
     <1>13, <1>14, <1>15 DEF Next, AdvanceRolloutStages, Loop, UpdateFeatureFlag

(* The two action properties, of one step.                                     *)
Audited ==
    \A f \in Flag :
        audit'[f] = IF row'[f].pct = row[f].pct THEN audit[f]
                    ELSE [old |-> row[f].pct, new |-> row'[f].pct]

CarriedOut ==
    \A t \in Tick, f \in Flag :
        pc[t] = "holding" /\ pc'[t] # "holding" /\ on[t] = f /\ row'[f] # row[f] =>
           \E s \in row[f].stages :
              /\ s.at <= clock
              /\ row'[f] = [pct |-> s.pct, stages |-> {u \in row[f].stages : u.at > s.at}]

(* A writer audits the change of the row it holds.                            *)
LEMMA AuditStep == IInv /\ [Next]_vars => [Audited]_vars
<1> USE RolloutConstants
<1> SUFFICES ASSUME IInv, Next PROVE Audited
  BY DEF vars
<1>1. ASSUME TimePasses PROVE Audited
  BY <1>1 DEF IInv, LockProtectsRow, TypeOK, Row, Worker, Audited, TimePasses
<1>2. ASSUME NEW t \in Tick, ScanCandidates(t) PROVE Audited
  BY <1>2 DEF IInv, LockProtectsRow, TypeOK, Row, Worker, Audited, ScanCandidates
<1>3. ASSUME NEW t \in Tick, NEW f \in Flag, LockCandidate(t, f) PROVE Audited
  BY <1>3 DEF IInv, LockProtectsRow, TypeOK, Row, Worker, Audited, LockCandidate,
     TakeRow
<1>4. ASSUME NEW t \in Tick, NEW f \in Flag, SkipCandidate(t, f) PROVE Audited
  BY <1>4 DEF IInv, LockProtectsRow, TypeOK, Row, Worker, Audited, SkipCandidate
<1>5. ASSUME NEW t \in Tick, NothingDue(t) PROVE Audited
  BY <1>5 DEF IInv, LockProtectsRow, TypeOK, Row, Worker, Audited, NothingDue,
     Release
<1>6. ASSUME NEW t \in Tick, AdvanceStage(t) PROVE Audited
  BY <1>6 DEF IInv, LockProtectsRow, TypeOK, Row, Worker, Audited, AdvanceStage,
     Release, AuditChange, LastDue, DueStages
<1>7. ASSUME NEW t \in Tick, ConsumeStage(t) PROVE Audited
  BY <1>7 DEF IInv, LockProtectsRow, TypeOK, Row, Worker, Audited, ConsumeStage,
     Release, LastDue, DueStages
<1>8. ASSUME NEW t \in Tick, TickEnds(t) PROVE Audited
  BY <1>8 DEF IInv, LockProtectsRow, TypeOK, Row, Worker, Audited, TickEnds
<1>9. ASSUME NEW t \in Tick, AdvanceFails(t) PROVE Audited
  BY <1>9 DEF IInv, LockProtectsRow, TypeOK, Row, Worker, Audited, AdvanceFails,
     Release
<1>10. ASSUME NEW t \in Tick, ConnectFails(t) PROVE Audited
  BY <1>10 DEF IInv, LockProtectsRow, TypeOK, Row, Worker, Audited, ConnectFails
<1>11. ASSUME NEW t \in Tick, TickDies(t) PROVE Audited
  BY <1>11 DEF IInv, LockProtectsRow, TypeOK, Row, Worker, Audited, TickDies,
     Release
<1>12. ASSUME NEW r \in Request, NEW f \in Flag, BeginEdit(r, f) PROVE Audited
  BY <1>12 DEF IInv, LockProtectsRow, TypeOK, Row, Worker, Audited, BeginEdit,
     TakeRow
<1>13. ASSUME NEW r \in Request, CommitEdit(r) PROVE Audited
  BY <1>13 DEF IInv, LockProtectsRow, TypeOK, Row, Worker, Audited, CommitEdit,
     Release, AuditChange
<1>14. ASSUME NEW r \in Request, EditFails(r) PROVE Audited
  BY <1>14 DEF IInv, LockProtectsRow, TypeOK, Row, Worker, Audited, EditFails,
     Release
<1> QED
  BY <1>1, <1>2, <1>3, <1>4, <1>5, <1>6, <1>7, <1>8, <1>9, <1>10, <1>11, <1>12,
     <1>13, <1>14 DEF Next, AdvanceRolloutStages, Loop, UpdateFeatureFlag

(* Dropping what is due drops what is not after the last due stage.             *)
LEMMA LastDueCuts ==
    ASSUME TypeOK, NEW t \in Tick, NEW s \in seen[t].stages, LastDue(t, s)
    PROVE  /\ s.at <= now[t]
           /\ RemainingStages(t) = {u \in seen[t].stages : u.at > s.at}
<1>1. \A u \in seen[t].stages : u.at \in Nat
  BY RolloutConstants DEF TypeOK, Row, Plan, Stage, Worker
<1>2. now[t] \in Nat
  BY RolloutConstants DEF TypeOK
<1>3. s.at <= now[t] /\ \A u \in seen[t].stages : u.at <= now[t] => u.at <= s.at
  BY DEF LastDue, DueStages
<1> QED
  BY <1>1, <1>2, <1>3 DEF RemainingStages

(* The row a tick holds is the plan it works from.                            *)
LEMMA CarryStep == IInv /\ [Next]_vars => [CarriedOut]_vars
<1> USE RolloutConstants
<1> SUFFICES ASSUME IInv, Next PROVE CarriedOut
  BY DEF vars
<1>1. ASSUME TimePasses PROVE CarriedOut
  BY <1>1 DEF IInv, LockProtectsRow, TypeOK, Row, Worker, CarriedOut, TimePasses
<1>2. ASSUME NEW t \in Tick, ScanCandidates(t) PROVE CarriedOut
  BY <1>2 DEF IInv, LockProtectsRow, TypeOK, Row, Worker, CarriedOut, ScanCandidates
<1>3. ASSUME NEW t \in Tick, NEW f \in Flag, LockCandidate(t, f) PROVE CarriedOut
  BY <1>3 DEF IInv, LockProtectsRow, TypeOK, Row, Worker, CarriedOut, LockCandidate,
     TakeRow
<1>4. ASSUME NEW t \in Tick, NEW f \in Flag, SkipCandidate(t, f) PROVE CarriedOut
  BY <1>4 DEF IInv, LockProtectsRow, TypeOK, Row, Worker, CarriedOut, SkipCandidate
<1>5. ASSUME NEW t \in Tick, NothingDue(t) PROVE CarriedOut
  BY <1>5 DEF IInv, LockProtectsRow, TypeOK, Row, Worker, CarriedOut, NothingDue,
     Release
<1>6. ASSUME NEW t \in Tick, AdvanceStage(t) PROVE CarriedOut
  <2>0. pc[t] = "holding"
    BY <1>6 DEF AdvanceStage
  <2>1. PICK s \in seen[t].stages :
          LastDue(t, s) /\ row' = [row EXCEPT ![on[t]] = [pct |-> s.pct, stages |-> RemainingStages(t)]]
    BY <1>6 DEF AdvanceStage
  <2>2. seen[t] = row[on[t]] /\ lock[on[t]] = t
    BY <2>0 DEF IInv, LockProtectsRow, Worker
  <2>3. s.at <= clock /\ RemainingStages(t) = {u \in row[on[t]].stages : u.at > s.at}
    <3>1. s.at <= now[t] /\ now[t] <= clock
      BY <2>1, LastDueCuts DEF IInv, TickTimeHasCome
    <3>2. s.at \in Int /\ now[t] \in Int /\ clock \in Int
      BY DEF IInv, TypeOK, Row, Plan, Stage, Worker
    <3> QED  BY <2>1, <2>2, <3>1, <3>2, LastDueCuts DEF IInv
  <2>4. \A u \in Tick : pc[u] = "holding" /\ pc'[u] # "holding" => u = t
    BY <1>6 DEF AdvanceStage, Release, IInv, TypeOK, Worker
  <2>5. row'[on[t]] = [pct |-> s.pct, stages |-> {u \in row[on[t]].stages : u.at > s.at}]
    BY <2>1, <2>3 DEF IInv, TypeOK, Worker
  <2> QED
    BY <2>1, <2>2, <2>3, <2>4, <2>5 DEF CarriedOut
<1>7. ASSUME NEW t \in Tick, ConsumeStage(t) PROVE CarriedOut
  <2>0. pc[t] = "holding"
    BY <1>7 DEF ConsumeStage
  <2>1. PICK s \in seen[t].stages :
          LastDue(t, s) /\ row' = [row EXCEPT ![on[t]] = [pct |-> s.pct, stages |-> RemainingStages(t)]]
    <3>1. PICK s \in seen[t].stages : LastDue(t, s) /\ s.pct = seen[t].pct
      BY <1>7 DEF ConsumeStage
    <3>2. row' = [row EXCEPT ![on[t]].stages = RemainingStages(t)] /\ seen[t] = row[on[t]]
      BY <1>7, <2>0 DEF ConsumeStage, IInv, LockProtectsRow, Worker
    <3>3. row[on[t]] \in Row /\ row \in [Flag -> Row] /\ on[t] \in Flag
      BY DEF IInv, TypeOK, Worker
    <3>4. [row[on[t]] EXCEPT !.stages = RemainingStages(t)] = [pct |-> s.pct, stages |-> RemainingStages(t)]
      BY <3>1, <3>2, <3>3 DEF Row
    <3> QED  BY <3>1, <3>2, <3>3, <3>4
  <2>2. seen[t] = row[on[t]] /\ lock[on[t]] = t
    BY <2>0 DEF IInv, LockProtectsRow, Worker
  <2>3. s.at <= clock /\ RemainingStages(t) = {u \in row[on[t]].stages : u.at > s.at}
    <3>1. s.at <= now[t] /\ now[t] <= clock
      BY <2>1, LastDueCuts DEF IInv, TickTimeHasCome
    <3>2. s.at \in Int /\ now[t] \in Int /\ clock \in Int
      BY DEF IInv, TypeOK, Row, Plan, Stage, Worker
    <3> QED  BY <2>1, <2>2, <3>1, <3>2, LastDueCuts DEF IInv
  <2>4. \A u \in Tick : pc[u] = "holding" /\ pc'[u] # "holding" => u = t
    BY <1>7 DEF ConsumeStage, Release, IInv, TypeOK, Worker
  <2>5. row'[on[t]] = [pct |-> s.pct, stages |-> {u \in row[on[t]].stages : u.at > s.at}]
    BY <2>1, <2>3 DEF IInv, TypeOK, Worker
  <2> QED
    BY <2>1, <2>2, <2>3, <2>4, <2>5 DEF CarriedOut
<1>8. ASSUME NEW t \in Tick, TickEnds(t) PROVE CarriedOut
  BY <1>8 DEF IInv, LockProtectsRow, TypeOK, Row, Worker, CarriedOut, TickEnds
<1>9. ASSUME NEW t \in Tick, AdvanceFails(t) PROVE CarriedOut
  BY <1>9 DEF IInv, LockProtectsRow, TypeOK, Row, Worker, CarriedOut, AdvanceFails,
     Release
<1>10. ASSUME NEW t \in Tick, ConnectFails(t) PROVE CarriedOut
  BY <1>10 DEF IInv, LockProtectsRow, TypeOK, Row, Worker, CarriedOut, ConnectFails
<1>11. ASSUME NEW t \in Tick, TickDies(t) PROVE CarriedOut
  BY <1>11 DEF IInv, LockProtectsRow, TypeOK, Row, Worker, CarriedOut, TickDies,
     Release
<1>12. ASSUME NEW r \in Request, NEW f \in Flag, BeginEdit(r, f) PROVE CarriedOut
  BY <1>12 DEF IInv, LockProtectsRow, TypeOK, Row, Worker, CarriedOut, BeginEdit,
     TakeRow
<1>13. ASSUME NEW r \in Request, CommitEdit(r) PROVE CarriedOut
  <2>1. \A t \in Tick : pc[t] = "holding" => pc'[t] = "holding"
    BY <1>13 DEF CommitEdit, Release, IInv, TypeOK, Worker
  <2> QED
    BY <2>1 DEF CarriedOut
<1>14. ASSUME NEW r \in Request, EditFails(r) PROVE CarriedOut
  BY <1>14 DEF IInv, LockProtectsRow, TypeOK, Row, Worker, CarriedOut, EditFails,
     Release
<1> QED
  BY <1>1, <1>2, <1>3, <1>4, <1>5, <1>6, <1>7, <1>8, <1>9, <1>10, <1>11, <1>12,
     <1>13, <1>14 DEF Next, AdvanceRolloutStages, Loop, UpdateFeatureFlag

-----------------------------------------------------------------------------
(***************************************************************************)
(* The theorems.                                                           *)
(***************************************************************************)
LEMMA InitIInv == Init => IInv
BY RolloutConstants DEF Init, IInv, TypeOK, LockProtectsRow, TickTimeHasCome, Row, Plan,
   NoRollout, Worker

LEMMA StepIInv == IInv /\ [Next]_vars => IInv'
BY TypeStep, LockStep, TimeStep DEF IInv

LEMMA Inductive == Spec => []IInv
BY InitIInv, StepIInv, PTL DEF Spec

(* Every reachable state has its type.                                        *)
THEOREM TypeCorrect == Spec => []TypeOK
<1>1. IInv => TypeOK
  BY DEF IInv
<1> QED  BY <1>1, Inductive, PTL

(* The audit log tells the whole story of a percentage: each change with the    *)
(* value it replaced, and no entry without a change.                          *)
THEOREM TrailIsComplete == Spec => ChangesAreAudited
<1>1. IInv /\ [Next]_vars => [Audited]_vars
  BY AuditStep
<1>2. Spec => [][Audited]_vars
  BY <1>1, Inductive, PTL DEF Spec
<1> QED
  BY <1>2 DEF ChangesAreAudited, Audited

(* A tick only ever carries out a due stage of the plan as it stands, and        *)
(* drops no stage but those before it.                                        *)
THEOREM TicksFollowThePlan == Spec => PlanIsCarriedOut
<1>1. IInv /\ [Next]_vars => [CarriedOut]_vars
  BY CarryStep
<1>2. Spec => [][CarriedOut]_vars
  BY <1>1, Inductive, PTL DEF Spec
<1> QED
  BY <1>2 DEF PlanIsCarriedOut, CarriedOut
=============================================================================
