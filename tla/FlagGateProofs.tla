--------------------------- MODULE FlagGateProofs ---------------------------
(***************************************************************************)
(* Proofs about FlagGate, for any number of requests and questions, and any   *)
(* time to live.                                                            *)
(***************************************************************************)
EXTENDS FlagGate, TLAPS

-----------------------------------------------------------------------------
(***************************************************************************)
(* The inductive invariant.                                                *)
(***************************************************************************)
(* What a request read under its locks still holds: the flag's group while it   *)
(* has the flag's row, and the group with the flags in it while it has the      *)
(* group's.                                                                 *)
LocksProtect ==
    \A r \in Request :
        /\ at[r] \in {"joining", "leaving"} => flagLock = r /\ seen[r] = member
        /\ at[r] \in {"deleting", "unassigning"} => groupLock = r /\ group # "none"
        /\ at[r] = "unassigning" => seen[r] = member /\ (member => flagLock = r)

(* Nothing is dated later than now, and nothing read expires later than the     *)
(* time to live from now.                                                   *)
TimesInStep ==
    /\ staleAt <= clock
    /\ cache.expires <= clock + Ttl
    /\ \A a \in Asker : asked[a] <= clock /\ has[a].expires <= clock + Ttl

(* Rows from before the gate closed expire within the time to live of that, or   *)
(* of the last answer that brought such rows.                                  *)
OldRowsExpire ==
    /\ Shut => cache.member \/ cache.expires <= staleAt + Ttl
    /\ \A a \in Asker : step[a] = "loading" /\ Shut =>
          has[a].member \/ has[a].expires <= staleAt + Ttl

(* Only a question asked before then works from such rows.  While the answer is   *)
(* on its way nothing is claimed: it will be late itself.                       *)
OldRowsAskedFor ==
    \A a \in Asker : step[a] \in {"loading", "gate"} /\ Shut =>
        has[a].member \/ asked[a] < staleAt + Ttl

IInv ==
    /\ TypeOK
    /\ LocksProtect
    /\ TimesInStep
    /\ OldRowsExpire
    /\ OldRowsAskedFor
    /\ ShutMeansNo

-----------------------------------------------------------------------------

(* An empty cache is a cache.                                                 *)
LEMMA EmptyCache == NoCache \in CachedRow
BY GateConstants DEF NoCache, CachedRow, Time

(* Every step keeps the type of every variable.                              *)
LEMMA TypeStep == TypeOK /\ [Next]_vars => TypeOK'
<1> USE GateConstants
<1> SUFFICES ASSUME TypeOK, [Next]_vars PROVE TypeOK'
  OBVIOUS
<1>1. ASSUME TimePasses PROVE TypeOK'
  BY <1>1 DEF TypeOK, CachedRow, NoCache, Time, TimePasses, admin, asking
<1>2. ASSUME CreateFlagGroup PROVE TypeOK'
  BY <1>2, EmptyCache DEF TypeOK, CreateFlagGroup, Begin,
     InvalidateCache, NoteShut, admin, asking
<1>3. ASSUME UpdateFlagGroup PROVE TypeOK'
  BY <1>3, EmptyCache DEF TypeOK, UpdateFlagGroup, Begin,
     InvalidateCache, NoteShut, admin, asking
<1>4. ASSUME NEW r \in Request, BeginUpdate(r) PROVE TypeOK'
  BY <1>4 DEF TypeOK, CachedRow, NoCache, Time, BeginUpdate, Begin, admin, asking
<1>5. ASSUME NEW r \in Request, CommitJoin(r) PROVE TypeOK'
  BY <1>5, EmptyCache DEF TypeOK, CommitJoin, AuditGroupKey, Done,
     InvalidateCache, NoteShut, admin, asking
<1>6. ASSUME NEW r \in Request, CommitLeave(r) PROVE TypeOK'
  <2>1. audit' \in [old : BOOLEAN, new : BOOLEAN]
    BY <1>6 DEF TypeOK, CommitLeave, AuditGroupKey
  <2>2. member' \in BOOLEAN /\ seen' \in [Request -> BOOLEAN]
    BY <1>6 DEF TypeOK, CommitLeave, Done
  <2>3. cache' \in CachedRow /\ staleAt' \in 0..MaxTime
    BY <1>6, EmptyCache DEF TypeOK, CommitLeave, InvalidateCache, NoteShut
  <2> QED
    BY <1>6, <2>1, <2>2, <2>3 DEF TypeOK, CommitLeave, Done, admin, asking
<1>7. ASSUME NEW r \in Request, UpdateFails(r) PROVE TypeOK'
  BY <1>7 DEF TypeOK, CachedRow, NoCache, Time, UpdateFails, Done, admin, asking
<1>8. ASSUME NEW r \in Request, BeginDelete(r) PROVE TypeOK'
  BY <1>8 DEF TypeOK, CachedRow, NoCache, Time, BeginDelete, Begin, admin, asking
<1>9. ASSUME NEW r \in Request, ReadMembers(r) PROVE TypeOK'
  BY <1>9 DEF TypeOK, CachedRow, NoCache, Time, ReadMembers, admin, asking
<1>10. ASSUME NEW r \in Request, CommitDelete(r) PROVE TypeOK'
  <2>1. audit' \in [old : BOOLEAN, new : BOOLEAN]
    BY <1>10 DEF TypeOK, CommitDelete, AuditGroupKey
  <2>2. member' \in BOOLEAN /\ seen' \in [Request -> BOOLEAN]
    BY <1>10 DEF TypeOK, CommitDelete, Done
  <2>3. cache' \in CachedRow /\ staleAt' \in 0..MaxTime
    BY <1>10, EmptyCache DEF TypeOK, CommitDelete, InvalidateCache, NoteShut
  <2> QED
    BY <1>10, <2>1, <2>2, <2>3 DEF TypeOK, CommitDelete, Done, admin, asking
<1>11. ASSUME NEW r \in Request, DeleteFails(r) PROVE TypeOK'
  BY <1>11 DEF TypeOK, CachedRow, NoCache, Time, DeleteFails, Done, admin, asking
<1>12. ASSUME NEW a \in Asker, AskCached(a) PROVE TypeOK'
  BY <1>12 DEF TypeOK, CachedRow, NoCache, Time, AskCached, Goto, admin, asking
<1>13. ASSUME NEW a \in Asker, LoadRows(a) PROVE TypeOK'
  BY <1>13 DEF TypeOK, CachedRow, NoCache, Time, LoadRows, Goto, admin, asking
<1>14. ASSUME NEW a \in Asker, RowsArrive(a) PROVE TypeOK'
  BY <1>14 DEF TypeOK, CachedRow, NoCache, Time, RowsArrive, NoteStale, Shut, Goto,
     admin, asking
<1>15. ASSUME NEW a \in Asker, StoreRows(a) PROVE TypeOK'
  BY <1>15 DEF TypeOK, CachedRow, NoCache, Time, StoreRows, Goto, admin, asking
<1>16. ASSUME NEW a \in Asker, RefuseAtGate(a) PROVE TypeOK'
  BY <1>16 DEF TypeOK, CachedRow, NoCache, Time, RefuseAtGate, Goto, GateHolds,
     admin, asking
<1>17. ASSUME NEW a \in Asker, PassGate(a) PROVE TypeOK'
  BY <1>17 DEF TypeOK, CachedRow, NoCache, Time, PassGate, Goto, GateHolds, admin,
     asking
<1>18. ASSUME NEW a \in Asker, Answered(a) PROVE TypeOK'
  BY <1>18 DEF TypeOK, CachedRow, NoCache, Time, Answered, Goto, admin, asking
<1>19. CASE UNCHANGED vars
  BY <1>19 DEF TypeOK, CachedRow, NoCache, Time, vars, admin, asking
<1> QED
  BY <1>1, <1>2, <1>3, <1>4, <1>5, <1>6, <1>7, <1>8, <1>9, <1>10, <1>11, <1>12,
     <1>13, <1>14, <1>15, <1>16, <1>17, <1>18, <1>19 DEF Next, UpdateFeatureFlag,
     DeleteFlagGroup, IsFlagEnabledForUser

(* No request changes what another has locked.                                *)
LEMMA LocksStep == TypeOK /\ LocksProtect /\ [Next]_vars => LocksProtect'
<1> USE GateConstants
<1> SUFFICES ASSUME TypeOK /\ LocksProtect, [Next]_vars PROVE LocksProtect'
  OBVIOUS
<1>1. ASSUME TimePasses PROVE LocksProtect'
  BY <1>1 DEF TypeOK, LocksProtect, TimePasses, admin, asking
<1>2. ASSUME CreateFlagGroup PROVE LocksProtect'
  BY <1>2 DEF TypeOK, LocksProtect, CreateFlagGroup, Begin, InvalidateCache,
     NoteShut, Shut, admin, asking
<1>3. ASSUME UpdateFlagGroup PROVE LocksProtect'
  BY <1>3 DEF TypeOK, LocksProtect, UpdateFlagGroup, Begin, InvalidateCache,
     NoteShut, Shut, admin, asking
<1>4. ASSUME NEW r \in Request, BeginUpdate(r) PROVE LocksProtect'
  BY <1>4 DEF TypeOK, LocksProtect, BeginUpdate, Begin, admin, asking
<1>5. ASSUME NEW r \in Request, CommitJoin(r) PROVE LocksProtect'
  BY <1>5 DEF TypeOK, LocksProtect, CommitJoin, AuditGroupKey, Done,
     InvalidateCache, NoteShut, Shut, admin, asking
<1>6. ASSUME NEW r \in Request, CommitLeave(r) PROVE LocksProtect'
  BY <1>6 DEF TypeOK, LocksProtect, CommitLeave, AuditGroupKey, Done,
     InvalidateCache, NoteShut, Shut, admin, asking
<1>7. ASSUME NEW r \in Request, UpdateFails(r) PROVE LocksProtect'
  BY <1>7 DEF TypeOK, LocksProtect, UpdateFails, Done, admin, asking
<1>8. ASSUME NEW r \in Request, BeginDelete(r) PROVE LocksProtect'
  BY <1>8 DEF TypeOK, LocksProtect, BeginDelete, Begin, admin, asking
<1>9. ASSUME NEW r \in Request, ReadMembers(r) PROVE LocksProtect'
  BY <1>9 DEF TypeOK, LocksProtect, ReadMembers, admin, asking
<1>10. ASSUME NEW r \in Request, CommitDelete(r) PROVE LocksProtect'
  BY <1>10 DEF TypeOK, LocksProtect, CommitDelete, AuditGroupKey, Done,
     InvalidateCache, NoteShut, Shut, admin, asking
<1>11. ASSUME NEW r \in Request, DeleteFails(r) PROVE LocksProtect'
  BY <1>11 DEF TypeOK, LocksProtect, DeleteFails, Done, admin, asking
<1>12. ASSUME NEW a \in Asker, AskCached(a) PROVE LocksProtect'
  BY <1>12 DEF TypeOK, LocksProtect, AskCached, Goto, admin, asking
<1>13. ASSUME NEW a \in Asker, LoadRows(a) PROVE LocksProtect'
  BY <1>13 DEF TypeOK, LocksProtect, LoadRows, Goto, admin, asking
<1>14. ASSUME NEW a \in Asker, RowsArrive(a) PROVE LocksProtect'
  BY <1>14 DEF TypeOK, LocksProtect, RowsArrive, NoteStale, Goto, admin, asking
<1>15. ASSUME NEW a \in Asker, StoreRows(a) PROVE LocksProtect'
  BY <1>15 DEF TypeOK, LocksProtect, StoreRows, Goto, admin, asking
<1>16. ASSUME NEW a \in Asker, RefuseAtGate(a) PROVE LocksProtect'
  BY <1>16 DEF TypeOK, LocksProtect, RefuseAtGate, Goto, GateHolds, admin, asking
<1>17. ASSUME NEW a \in Asker, PassGate(a) PROVE LocksProtect'
  BY <1>17 DEF TypeOK, LocksProtect, PassGate, Goto, GateHolds, admin, asking
<1>18. ASSUME NEW a \in Asker, Answered(a) PROVE LocksProtect'
  BY <1>18 DEF TypeOK, LocksProtect, Answered, Goto, admin, asking
<1>19. CASE UNCHANGED vars
  BY <1>19 DEF TypeOK, LocksProtect, vars, admin, asking
<1> QED
  BY <1>1, <1>2, <1>3, <1>4, <1>5, <1>6, <1>7, <1>8, <1>9, <1>10, <1>11, <1>12,
     <1>13, <1>14, <1>15, <1>16, <1>17, <1>18, <1>19 DEF Next, UpdateFeatureFlag,
     DeleteFlagGroup, IsFlagEnabledForUser

(* Time only goes on.                                                        *)
LEMMA TimesStep == TypeOK /\ TimesInStep /\ [Next]_vars => TimesInStep'
<1> USE GateConstants
<1> SUFFICES ASSUME TypeOK /\ TimesInStep, [Next]_vars PROVE TimesInStep'
  OBVIOUS
<1>1. ASSUME TimePasses PROVE TimesInStep'
  BY <1>1 DEF TypeOK, CachedRow, NoCache, Time, TimesInStep, TimePasses, admin,
     asking
<1>2. ASSUME CreateFlagGroup PROVE TimesInStep'
  BY <1>2 DEF TypeOK, CachedRow, NoCache, Time, TimesInStep, CreateFlagGroup, Begin,
     InvalidateCache, NoteShut, Shut, admin, asking
<1>3. ASSUME UpdateFlagGroup PROVE TimesInStep'
  BY <1>3 DEF TypeOK, CachedRow, NoCache, Time, TimesInStep, UpdateFlagGroup, Begin,
     InvalidateCache, NoteShut, Shut, admin, asking
<1>4. ASSUME NEW r \in Request, BeginUpdate(r) PROVE TimesInStep'
  BY <1>4 DEF TypeOK, CachedRow, NoCache, Time, TimesInStep, BeginUpdate, Begin,
     admin, asking
<1>5. ASSUME NEW r \in Request, CommitJoin(r) PROVE TimesInStep'
  BY <1>5 DEF TypeOK, CachedRow, NoCache, Time, TimesInStep, CommitJoin,
     AuditGroupKey, Done, InvalidateCache, NoteShut, Shut, admin, asking
<1>6. ASSUME NEW r \in Request, CommitLeave(r) PROVE TimesInStep'
  BY <1>6 DEF TypeOK, CachedRow, NoCache, Time, TimesInStep, CommitLeave,
     AuditGroupKey, Done, InvalidateCache, NoteShut, Shut, admin, asking
<1>7. ASSUME NEW r \in Request, UpdateFails(r) PROVE TimesInStep'
  BY <1>7 DEF TypeOK, CachedRow, NoCache, Time, TimesInStep, UpdateFails, Done,
     admin, asking
<1>8. ASSUME NEW r \in Request, BeginDelete(r) PROVE TimesInStep'
  BY <1>8 DEF TypeOK, CachedRow, NoCache, Time, TimesInStep, BeginDelete, Begin,
     admin, asking
<1>9. ASSUME NEW r \in Request, ReadMembers(r) PROVE TimesInStep'
  BY <1>9 DEF TypeOK, CachedRow, NoCache, Time, TimesInStep, ReadMembers, admin,
     asking
<1>10. ASSUME NEW r \in Request, CommitDelete(r) PROVE TimesInStep'
  BY <1>10 DEF TypeOK, CachedRow, NoCache, Time, TimesInStep, CommitDelete,
     AuditGroupKey, Done, InvalidateCache, NoteShut, Shut, admin, asking
<1>11. ASSUME NEW r \in Request, DeleteFails(r) PROVE TimesInStep'
  BY <1>11 DEF TypeOK, CachedRow, NoCache, Time, TimesInStep, DeleteFails, Done,
     admin, asking
<1>12. ASSUME NEW a \in Asker, AskCached(a) PROVE TimesInStep'
  BY <1>12 DEF TypeOK, CachedRow, NoCache, Time, TimesInStep, AskCached, Goto,
     admin, asking
<1>13. ASSUME NEW a \in Asker, LoadRows(a) PROVE TimesInStep'
  BY <1>13 DEF TypeOK, CachedRow, NoCache, Time, TimesInStep, LoadRows, Goto, admin,
     asking
<1>14. ASSUME NEW a \in Asker, RowsArrive(a) PROVE TimesInStep'
  BY <1>14 DEF TypeOK, CachedRow, NoCache, Time, TimesInStep, RowsArrive, NoteStale,
     Shut, Goto, admin, asking
<1>15. ASSUME NEW a \in Asker, StoreRows(a) PROVE TimesInStep'
  BY <1>15 DEF TypeOK, CachedRow, NoCache, Time, TimesInStep, StoreRows, Goto,
     admin, asking
<1>16. ASSUME NEW a \in Asker, RefuseAtGate(a) PROVE TimesInStep'
  BY <1>16 DEF TypeOK, CachedRow, NoCache, Time, TimesInStep, RefuseAtGate, Goto,
     GateHolds, admin, asking
<1>17. ASSUME NEW a \in Asker, PassGate(a) PROVE TimesInStep'
  BY <1>17 DEF TypeOK, CachedRow, NoCache, Time, TimesInStep, PassGate, Goto,
     GateHolds, admin, asking
<1>18. ASSUME NEW a \in Asker, Answered(a) PROVE TimesInStep'
  BY <1>18 DEF TypeOK, CachedRow, NoCache, Time, TimesInStep, Answered, Goto, admin,
     asking
<1>19. CASE UNCHANGED vars
  BY <1>19 DEF TypeOK, CachedRow, NoCache, Time, TimesInStep, vars, admin, asking
<1> QED
  BY <1>1, <1>2, <1>3, <1>4, <1>5, <1>6, <1>7, <1>8, <1>9, <1>10, <1>11, <1>12,
     <1>13, <1>14, <1>15, <1>16, <1>17, <1>18, <1>19 DEF Next, UpdateFeatureFlag,
     DeleteFlagGroup, IsFlagEnabledForUser

(* A row without the group that outlives the closing was read before it.        *)
LEMMA ExpiryStep == TypeOK /\ TimesInStep /\ OldRowsExpire /\ [Next]_vars => OldRowsExpire'
<1> USE GateConstants
<1> SUFFICES ASSUME TypeOK /\ TimesInStep /\ OldRowsExpire, [Next]_vars PROVE OldRowsExpire'
  OBVIOUS
<1>1. ASSUME TimePasses PROVE OldRowsExpire'
  BY <1>1 DEF TypeOK, CachedRow, NoCache, Time, TimesInStep, OldRowsExpire, Shut,
     TimePasses, admin, asking
<1>2. ASSUME CreateFlagGroup PROVE OldRowsExpire'
  BY <1>2 DEF TypeOK, CachedRow, NoCache, Time, TimesInStep, OldRowsExpire, Shut,
     CreateFlagGroup, Begin, InvalidateCache, NoteShut, admin, asking
<1>3. ASSUME UpdateFlagGroup PROVE OldRowsExpire'
  BY <1>3 DEF TypeOK, CachedRow, NoCache, Time, TimesInStep, OldRowsExpire, Shut,
     UpdateFlagGroup, Begin, InvalidateCache, NoteShut, admin, asking
<1>4. ASSUME NEW r \in Request, BeginUpdate(r) PROVE OldRowsExpire'
  BY <1>4 DEF TypeOK, CachedRow, NoCache, Time, TimesInStep, OldRowsExpire, Shut,
     BeginUpdate, Begin, admin, asking
<1>5. ASSUME NEW r \in Request, CommitJoin(r) PROVE OldRowsExpire'
  BY <1>5 DEF TypeOK, CachedRow, NoCache, Time, TimesInStep, OldRowsExpire, Shut,
     CommitJoin, AuditGroupKey, Done, InvalidateCache, NoteShut, admin, asking
<1>6. ASSUME NEW r \in Request, CommitLeave(r) PROVE OldRowsExpire'
  BY <1>6 DEF TypeOK, CachedRow, NoCache, Time, TimesInStep, OldRowsExpire, Shut,
     CommitLeave, AuditGroupKey, Done, InvalidateCache, NoteShut, admin, asking
<1>7. ASSUME NEW r \in Request, UpdateFails(r) PROVE OldRowsExpire'
  BY <1>7 DEF TypeOK, CachedRow, NoCache, Time, TimesInStep, OldRowsExpire, Shut,
     UpdateFails, Done, admin, asking
<1>8. ASSUME NEW r \in Request, BeginDelete(r) PROVE OldRowsExpire'
  BY <1>8 DEF TypeOK, CachedRow, NoCache, Time, TimesInStep, OldRowsExpire, Shut,
     BeginDelete, Begin, admin, asking
<1>9. ASSUME NEW r \in Request, ReadMembers(r) PROVE OldRowsExpire'
  BY <1>9 DEF TypeOK, CachedRow, NoCache, Time, TimesInStep, OldRowsExpire, Shut,
     ReadMembers, admin, asking
<1>10. ASSUME NEW r \in Request, CommitDelete(r) PROVE OldRowsExpire'
  BY <1>10 DEF TypeOK, CachedRow, NoCache, Time, TimesInStep, OldRowsExpire, Shut,
     CommitDelete, AuditGroupKey, Done, InvalidateCache, NoteShut, admin, asking
<1>11. ASSUME NEW r \in Request, DeleteFails(r) PROVE OldRowsExpire'
  BY <1>11 DEF TypeOK, CachedRow, NoCache, Time, TimesInStep, OldRowsExpire, Shut,
     DeleteFails, Done, admin, asking
<1>12. ASSUME NEW a \in Asker, AskCached(a) PROVE OldRowsExpire'
  BY <1>12 DEF TypeOK, CachedRow, NoCache, Time, TimesInStep, OldRowsExpire, Shut,
     AskCached, Goto, admin, asking
<1>13. ASSUME NEW a \in Asker, LoadRows(a) PROVE OldRowsExpire'
  BY <1>13 DEF TypeOK, CachedRow, NoCache, Time, TimesInStep, OldRowsExpire, Shut,
     LoadRows, Goto, admin, asking
<1>14. ASSUME NEW a \in Asker, RowsArrive(a) PROVE OldRowsExpire'
  BY <1>14 DEF TypeOK, CachedRow, NoCache, Time, TimesInStep, OldRowsExpire, Shut,
     RowsArrive, NoteStale, Goto, admin, asking
<1>15. ASSUME NEW a \in Asker, StoreRows(a) PROVE OldRowsExpire'
  BY <1>15 DEF TypeOK, CachedRow, NoCache, Time, TimesInStep, OldRowsExpire, Shut,
     StoreRows, Goto, admin, asking
<1>16. ASSUME NEW a \in Asker, RefuseAtGate(a) PROVE OldRowsExpire'
  BY <1>16 DEF TypeOK, CachedRow, NoCache, Time, TimesInStep, OldRowsExpire, Shut,
     RefuseAtGate, Goto, GateHolds, admin, asking
<1>17. ASSUME NEW a \in Asker, PassGate(a) PROVE OldRowsExpire'
  BY <1>17 DEF TypeOK, CachedRow, NoCache, Time, TimesInStep, OldRowsExpire, Shut,
     PassGate, Goto, GateHolds, admin, asking
<1>18. ASSUME NEW a \in Asker, Answered(a) PROVE OldRowsExpire'
  BY <1>18 DEF TypeOK, CachedRow, NoCache, Time, TimesInStep, OldRowsExpire, Shut,
     Answered, Goto, admin, asking
<1>19. CASE UNCHANGED vars
  BY <1>19 DEF TypeOK, CachedRow, NoCache, Time, TimesInStep, OldRowsExpire, Shut,
     vars, admin, asking
<1> QED
  BY <1>1, <1>2, <1>3, <1>4, <1>5, <1>6, <1>7, <1>8, <1>9, <1>10, <1>11, <1>12,
     <1>13, <1>14, <1>15, <1>16, <1>17, <1>18, <1>19 DEF Next, UpdateFeatureFlag,
     DeleteFlagGroup, IsFlagEnabledForUser

(* A cache that is valid holds no row from a time to live ago.                  *)
LEMMA AskedStep == TypeOK /\ TimesInStep /\ OldRowsExpire /\ OldRowsAskedFor /\ [Next]_vars => OldRowsAskedFor'
<1> USE GateConstants
<1> SUFFICES ASSUME TypeOK /\ TimesInStep /\ OldRowsExpire /\ OldRowsAskedFor, [Next]_vars PROVE OldRowsAskedFor'
  OBVIOUS
<1>1. ASSUME TimePasses PROVE OldRowsAskedFor'
  BY <1>1 DEF TypeOK, CachedRow, NoCache, Time, TimesInStep, OldRowsExpire,
     OldRowsAskedFor, Shut, TimePasses, admin, asking
<1>2. ASSUME CreateFlagGroup PROVE OldRowsAskedFor'
  BY <1>2 DEF TypeOK, CachedRow, NoCache, Time, TimesInStep, OldRowsExpire,
     OldRowsAskedFor, Shut, CreateFlagGroup, Begin, InvalidateCache, NoteShut,
     admin, asking
<1>3. ASSUME UpdateFlagGroup PROVE OldRowsAskedFor'
  BY <1>3 DEF TypeOK, CachedRow, NoCache, Time, TimesInStep, OldRowsExpire,
     OldRowsAskedFor, Shut, UpdateFlagGroup, Begin, InvalidateCache, NoteShut,
     admin, asking
<1>4. ASSUME NEW r \in Request, BeginUpdate(r) PROVE OldRowsAskedFor'
  BY <1>4 DEF TypeOK, CachedRow, NoCache, Time, TimesInStep, OldRowsExpire,
     OldRowsAskedFor, Shut, BeginUpdate, Begin, admin, asking
<1>5. ASSUME NEW r \in Request, CommitJoin(r) PROVE OldRowsAskedFor'
  BY <1>5 DEF TypeOK, CachedRow, NoCache, Time, TimesInStep, OldRowsExpire,
     OldRowsAskedFor, Shut, CommitJoin, AuditGroupKey, Done, InvalidateCache,
     NoteShut, admin, asking
<1>6. ASSUME NEW r \in Request, CommitLeave(r) PROVE OldRowsAskedFor'
  BY <1>6 DEF TypeOK, CachedRow, NoCache, Time, TimesInStep, OldRowsExpire,
     OldRowsAskedFor, Shut, CommitLeave, AuditGroupKey, Done, InvalidateCache,
     NoteShut, admin, asking
<1>7. ASSUME NEW r \in Request, UpdateFails(r) PROVE OldRowsAskedFor'
  BY <1>7 DEF TypeOK, CachedRow, NoCache, Time, TimesInStep, OldRowsExpire,
     OldRowsAskedFor, Shut, UpdateFails, Done, admin, asking
<1>8. ASSUME NEW r \in Request, BeginDelete(r) PROVE OldRowsAskedFor'
  BY <1>8 DEF TypeOK, CachedRow, NoCache, Time, TimesInStep, OldRowsExpire,
     OldRowsAskedFor, Shut, BeginDelete, Begin, admin, asking
<1>9. ASSUME NEW r \in Request, ReadMembers(r) PROVE OldRowsAskedFor'
  BY <1>9 DEF TypeOK, CachedRow, NoCache, Time, TimesInStep, OldRowsExpire,
     OldRowsAskedFor, Shut, ReadMembers, admin, asking
<1>10. ASSUME NEW r \in Request, CommitDelete(r) PROVE OldRowsAskedFor'
  BY <1>10 DEF TypeOK, CachedRow, NoCache, Time, TimesInStep, OldRowsExpire,
     OldRowsAskedFor, Shut, CommitDelete, AuditGroupKey, Done, InvalidateCache,
     NoteShut, admin, asking
<1>11. ASSUME NEW r \in Request, DeleteFails(r) PROVE OldRowsAskedFor'
  BY <1>11 DEF TypeOK, CachedRow, NoCache, Time, TimesInStep, OldRowsExpire,
     OldRowsAskedFor, Shut, DeleteFails, Done, admin, asking
<1>12. ASSUME NEW a \in Asker, AskCached(a) PROVE OldRowsAskedFor'
  BY <1>12 DEF TypeOK, CachedRow, NoCache, Time, TimesInStep, OldRowsExpire,
     OldRowsAskedFor, Shut, AskCached, Goto, admin, asking
<1>13. ASSUME NEW a \in Asker, LoadRows(a) PROVE OldRowsAskedFor'
  BY <1>13 DEF TypeOK, CachedRow, NoCache, Time, TimesInStep, OldRowsExpire,
     OldRowsAskedFor, Shut, LoadRows, Goto, admin, asking
<1>14. ASSUME NEW a \in Asker, RowsArrive(a) PROVE OldRowsAskedFor'
  BY <1>14 DEF TypeOK, CachedRow, NoCache, Time, TimesInStep, OldRowsExpire,
     OldRowsAskedFor, Shut, RowsArrive, NoteStale, Goto, admin, asking
<1>15. ASSUME NEW a \in Asker, StoreRows(a) PROVE OldRowsAskedFor'
  BY <1>15 DEF TypeOK, CachedRow, NoCache, Time, TimesInStep, OldRowsExpire,
     OldRowsAskedFor, Shut, StoreRows, Goto, admin, asking
<1>16. ASSUME NEW a \in Asker, RefuseAtGate(a) PROVE OldRowsAskedFor'
  BY <1>16 DEF TypeOK, CachedRow, NoCache, Time, TimesInStep, OldRowsExpire,
     OldRowsAskedFor, Shut, RefuseAtGate, Goto, GateHolds, admin, asking
<1>17. ASSUME NEW a \in Asker, PassGate(a) PROVE OldRowsAskedFor'
  BY <1>17 DEF TypeOK, CachedRow, NoCache, Time, TimesInStep, OldRowsExpire,
     OldRowsAskedFor, Shut, PassGate, Goto, GateHolds, admin, asking
<1>18. ASSUME NEW a \in Asker, Answered(a) PROVE OldRowsAskedFor'
  BY <1>18 DEF TypeOK, CachedRow, NoCache, Time, TimesInStep, OldRowsExpire,
     OldRowsAskedFor, Shut, Answered, Goto, admin, asking
<1>19. CASE UNCHANGED vars
  BY <1>19 DEF TypeOK, CachedRow, NoCache, Time, TimesInStep, OldRowsExpire,
     OldRowsAskedFor, Shut, vars, admin, asking
<1> QED
  BY <1>1, <1>2, <1>3, <1>4, <1>5, <1>6, <1>7, <1>8, <1>9, <1>10, <1>11, <1>12,
     <1>13, <1>14, <1>15, <1>16, <1>17, <1>18, <1>19 DEF Next, UpdateFeatureFlag,
     DeleteFlagGroup, IsFlagEnabledForUser

(* The gate lets only such a question pass.                                    *)
LEMMA ShutStep == TypeOK /\ TimesInStep /\ OldRowsAskedFor /\ ShutMeansNo /\ [Next]_vars => ShutMeansNo'
<1> USE GateConstants
<1> SUFFICES ASSUME TypeOK /\ TimesInStep /\ OldRowsAskedFor /\ ShutMeansNo, [Next]_vars PROVE ShutMeansNo'
  OBVIOUS
<1>1. ASSUME TimePasses PROVE ShutMeansNo'
  BY <1>1 DEF TypeOK, CachedRow, NoCache, Time, TimesInStep, OldRowsAskedFor,
     ShutMeansNo, Shut, TimePasses, admin, asking
<1>2. ASSUME CreateFlagGroup PROVE ShutMeansNo'
  BY <1>2 DEF TypeOK, CachedRow, NoCache, Time, TimesInStep, OldRowsAskedFor,
     ShutMeansNo, Shut, CreateFlagGroup, Begin, InvalidateCache, NoteShut, admin,
     asking
<1>3. ASSUME UpdateFlagGroup PROVE ShutMeansNo'
  BY <1>3 DEF TypeOK, CachedRow, NoCache, Time, TimesInStep, OldRowsAskedFor,
     ShutMeansNo, Shut, UpdateFlagGroup, Begin, InvalidateCache, NoteShut, admin,
     asking
<1>4. ASSUME NEW r \in Request, BeginUpdate(r) PROVE ShutMeansNo'
  BY <1>4 DEF TypeOK, CachedRow, NoCache, Time, TimesInStep, OldRowsAskedFor,
     ShutMeansNo, Shut, BeginUpdate, Begin, admin, asking
<1>5. ASSUME NEW r \in Request, CommitJoin(r) PROVE ShutMeansNo'
  BY <1>5 DEF TypeOK, CachedRow, NoCache, Time, TimesInStep, OldRowsAskedFor,
     ShutMeansNo, Shut, CommitJoin, AuditGroupKey, Done, InvalidateCache, NoteShut,
     admin, asking
<1>6. ASSUME NEW r \in Request, CommitLeave(r) PROVE ShutMeansNo'
  BY <1>6 DEF TypeOK, CachedRow, NoCache, Time, TimesInStep, OldRowsAskedFor,
     ShutMeansNo, Shut, CommitLeave, AuditGroupKey, Done, InvalidateCache, NoteShut,
     admin, asking
<1>7. ASSUME NEW r \in Request, UpdateFails(r) PROVE ShutMeansNo'
  BY <1>7 DEF TypeOK, CachedRow, NoCache, Time, TimesInStep, OldRowsAskedFor,
     ShutMeansNo, Shut, UpdateFails, Done, admin, asking
<1>8. ASSUME NEW r \in Request, BeginDelete(r) PROVE ShutMeansNo'
  BY <1>8 DEF TypeOK, CachedRow, NoCache, Time, TimesInStep, OldRowsAskedFor,
     ShutMeansNo, Shut, BeginDelete, Begin, admin, asking
<1>9. ASSUME NEW r \in Request, ReadMembers(r) PROVE ShutMeansNo'
  BY <1>9 DEF TypeOK, CachedRow, NoCache, Time, TimesInStep, OldRowsAskedFor,
     ShutMeansNo, Shut, ReadMembers, admin, asking
<1>10. ASSUME NEW r \in Request, CommitDelete(r) PROVE ShutMeansNo'
  BY <1>10 DEF TypeOK, CachedRow, NoCache, Time, TimesInStep, OldRowsAskedFor,
     ShutMeansNo, Shut, CommitDelete, AuditGroupKey, Done, InvalidateCache,
     NoteShut, admin, asking
<1>11. ASSUME NEW r \in Request, DeleteFails(r) PROVE ShutMeansNo'
  BY <1>11 DEF TypeOK, CachedRow, NoCache, Time, TimesInStep, OldRowsAskedFor,
     ShutMeansNo, Shut, DeleteFails, Done, admin, asking
<1>12. ASSUME NEW a \in Asker, AskCached(a) PROVE ShutMeansNo'
  BY <1>12 DEF TypeOK, CachedRow, NoCache, Time, TimesInStep, OldRowsAskedFor,
     ShutMeansNo, Shut, AskCached, Goto, admin, asking
<1>13. ASSUME NEW a \in Asker, LoadRows(a) PROVE ShutMeansNo'
  BY <1>13 DEF TypeOK, CachedRow, NoCache, Time, TimesInStep, OldRowsAskedFor,
     ShutMeansNo, Shut, LoadRows, Goto, admin, asking
<1>14. ASSUME NEW a \in Asker, RowsArrive(a) PROVE ShutMeansNo'
  BY <1>14 DEF TypeOK, CachedRow, NoCache, Time, TimesInStep, OldRowsAskedFor,
     ShutMeansNo, Shut, RowsArrive, NoteStale, Goto, admin, asking
<1>15. ASSUME NEW a \in Asker, StoreRows(a) PROVE ShutMeansNo'
  BY <1>15 DEF TypeOK, CachedRow, NoCache, Time, TimesInStep, OldRowsAskedFor,
     ShutMeansNo, Shut, StoreRows, Goto, admin, asking
<1>16. ASSUME NEW a \in Asker, RefuseAtGate(a) PROVE ShutMeansNo'
  BY <1>16 DEF TypeOK, CachedRow, NoCache, Time, TimesInStep, OldRowsAskedFor,
     ShutMeansNo, Shut, RefuseAtGate, Goto, GateHolds, admin, asking
<1>17. ASSUME NEW a \in Asker, PassGate(a) PROVE ShutMeansNo'
  BY <1>17 DEF TypeOK, CachedRow, NoCache, Time, TimesInStep, OldRowsAskedFor,
     ShutMeansNo, Shut, PassGate, Goto, GateHolds, admin, asking
<1>18. ASSUME NEW a \in Asker, Answered(a) PROVE ShutMeansNo'
  BY <1>18 DEF TypeOK, CachedRow, NoCache, Time, TimesInStep, OldRowsAskedFor,
     ShutMeansNo, Shut, Answered, Goto, admin, asking
<1>19. CASE UNCHANGED vars
  BY <1>19 DEF TypeOK, CachedRow, NoCache, Time, TimesInStep, OldRowsAskedFor,
     ShutMeansNo, Shut, vars, admin, asking
<1> QED
  BY <1>1, <1>2, <1>3, <1>4, <1>5, <1>6, <1>7, <1>8, <1>9, <1>10, <1>11, <1>12,
     <1>13, <1>14, <1>15, <1>16, <1>17, <1>18, <1>19 DEF Next, UpdateFeatureFlag,
     DeleteFlagGroup, IsFlagEnabledForUser

(* The action property, of one step.                                           *)
Audited == audit' = IF member' = member THEN audit ELSE [old |-> member, new |-> member']

(* Who changes the flag's group has read it under a lock that still holds.      *)
LEMMA AuditStep == TypeOK /\ LocksProtect /\ [Next]_vars => [Audited]_vars
<1> USE GateConstants
<1> SUFFICES ASSUME TypeOK /\ LocksProtect, Next PROVE Audited
  BY DEF vars
<1>1. ASSUME TimePasses PROVE Audited
  BY <1>1 DEF TypeOK, LocksProtect, Audited, TimePasses, admin
<1>2. ASSUME CreateFlagGroup PROVE Audited
  BY <1>2 DEF TypeOK, LocksProtect, Audited, CreateFlagGroup, Begin,
     InvalidateCache, NoteShut, Shut, admin
<1>3. ASSUME UpdateFlagGroup PROVE Audited
  BY <1>3 DEF TypeOK, LocksProtect, Audited, UpdateFlagGroup, Begin,
     InvalidateCache, NoteShut, Shut, admin
<1>4. ASSUME NEW r \in Request, BeginUpdate(r) PROVE Audited
  BY <1>4 DEF TypeOK, LocksProtect, Audited, BeginUpdate, Begin, admin
<1>5. ASSUME NEW r \in Request, CommitJoin(r) PROVE Audited
  BY <1>5 DEF TypeOK, LocksProtect, Audited, CommitJoin, AuditGroupKey, Done,
     InvalidateCache, NoteShut, Shut, admin
<1>6. ASSUME NEW r \in Request, CommitLeave(r) PROVE Audited
  BY <1>6 DEF TypeOK, LocksProtect, Audited, CommitLeave, AuditGroupKey, Done,
     InvalidateCache, NoteShut, Shut, admin
<1>7. ASSUME NEW r \in Request, UpdateFails(r) PROVE Audited
  BY <1>7 DEF TypeOK, LocksProtect, Audited, UpdateFails, Done, admin
<1>8. ASSUME NEW r \in Request, BeginDelete(r) PROVE Audited
  BY <1>8 DEF TypeOK, LocksProtect, Audited, BeginDelete, Begin, admin
<1>9. ASSUME NEW r \in Request, ReadMembers(r) PROVE Audited
  BY <1>9 DEF TypeOK, LocksProtect, Audited, ReadMembers, admin
<1>10. ASSUME NEW r \in Request, CommitDelete(r) PROVE Audited
  BY <1>10 DEF TypeOK, LocksProtect, Audited, CommitDelete, AuditGroupKey, Done,
     InvalidateCache, NoteShut, Shut, admin
<1>11. ASSUME NEW r \in Request, DeleteFails(r) PROVE Audited
  BY <1>11 DEF TypeOK, LocksProtect, Audited, DeleteFails, Done, admin
<1>12. ASSUME NEW a \in Asker, AskCached(a) PROVE Audited
  BY <1>12 DEF TypeOK, LocksProtect, Audited, AskCached, Goto, admin
<1>13. ASSUME NEW a \in Asker, LoadRows(a) PROVE Audited
  BY <1>13 DEF TypeOK, LocksProtect, Audited, LoadRows, Goto, admin
<1>14. ASSUME NEW a \in Asker, RowsArrive(a) PROVE Audited
  BY <1>14 DEF TypeOK, LocksProtect, Audited, RowsArrive, NoteStale, Goto, admin
<1>15. ASSUME NEW a \in Asker, StoreRows(a) PROVE Audited
  BY <1>15 DEF TypeOK, LocksProtect, Audited, StoreRows, Goto, admin
<1>16. ASSUME NEW a \in Asker, RefuseAtGate(a) PROVE Audited
  BY <1>16 DEF TypeOK, LocksProtect, Audited, RefuseAtGate, Goto, GateHolds, admin
<1>17. ASSUME NEW a \in Asker, PassGate(a) PROVE Audited
  BY <1>17 DEF TypeOK, LocksProtect, Audited, PassGate, Goto, GateHolds, admin
<1>18. ASSUME NEW a \in Asker, Answered(a) PROVE Audited
  BY <1>18 DEF TypeOK, LocksProtect, Audited, Answered, Goto, admin
<1> QED
  BY <1>1, <1>2, <1>3, <1>4, <1>5, <1>6, <1>7, <1>8, <1>9, <1>10, <1>11, <1>12,
     <1>13, <1>14, <1>15, <1>16, <1>17, <1>18 DEF Next, UpdateFeatureFlag, DeleteFlagGroup,
     IsFlagEnabledForUser

-----------------------------------------------------------------------------
(***************************************************************************)
(* The theorems.                                                           *)
(***************************************************************************)
LEMMA InitIInv == Init => IInv
<1> SUFFICES ASSUME Init PROVE IInv
  OBVIOUS
<1> USE GateConstants
<1>1. TypeOK
  <2>1. audit \in [old : BOOLEAN, new : BOOLEAN] /\ member \in BOOLEAN
    BY DEF Init
  <2>2. seen \in [Request -> BOOLEAN] /\ cache \in CachedRow /\ has \in [Asker -> CachedRow]
    BY EmptyCache DEF Init
  <2> QED  BY <2>1, <2>2 DEF Init, TypeOK
<1>2. LocksProtect /\ OldRowsExpire /\ OldRowsAskedFor /\ ShutMeansNo
  BY DEF Init, LocksProtect, OldRowsExpire, OldRowsAskedFor, ShutMeansNo, Shut
<1>3. TimesInStep
  BY DEF Init, TimesInStep, NoCache
<1> QED  BY <1>1, <1>2, <1>3 DEF IInv

LEMMA StepIInv == IInv /\ [Next]_vars => IInv'
BY TypeStep, LocksStep, TimesStep, ExpiryStep, AskedStep, ShutStep DEF IInv

LEMMA Inductive == Spec => []IInv
BY InitIInv, StepIInv, PTL DEF Spec

(* Every reachable state has its type.                                        *)
THEOREM TypeCorrect == Spec => []TypeOK
<1>1. IInv => TypeOK
  BY DEF IInv
<1> QED  BY <1>1, Inductive, PTL

(* A closed gate refuses every question asked a time to live after it closed and  *)
(* after the last answer to a read that was in flight then.                     *)
THEOREM GateShutsWithinTtl == Spec => []ShutMeansNo
<1>1. IInv => ShutMeansNo
  BY DEF IInv
<1> QED  BY <1>1, Inductive, PTL

(* No flag enters or leaves a group without an entry that says from where.       *)
THEOREM TrailOfGroups == Spec => MembershipIsAudited
<1>1. IInv /\ [Next]_vars => [Audited]_vars
  BY AuditStep DEF IInv
<1>2. Spec => [][Audited]_vars
  BY <1>1, Inductive, PTL DEF Spec
<1> QED
  BY <1>2 DEF MembershipIsAudited, Audited
=============================================================================
