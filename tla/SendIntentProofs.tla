-------------------------- MODULE SendIntentProofs --------------------------
(***************************************************************************)
(* Proofs about SendIntent for every set of requests, keys, users and      *)
(* mailboxes.  The invariants are layered: each layer is inductive given   *)
(* the ones before it.                                                     *)
(***************************************************************************)
EXTENDS SendIntent, TLAPS, FiniteSetTheorems

-----------------------------------------------------------------------------
(* The state is always of its type.                                        *)
THEOREM TypeCorrect == Spec => []TypeOK
<1>1. Init => TypeOK
  BY SendIntentConstants DEF Init, TypeOK, BeforeClaim
<1>2. TypeOK /\ [Next]_vars => TypeOK'
  <2> SUFFICES ASSUME TypeOK, [Next]_vars PROVE TypeOK'
    OBVIOUS
  <2> USE SendIntentConstants DEF TypeOK, rowVars, auditVars, Goto
  <2>1. ASSUME NEW r \in Request, ReplaySend(r) \/ RefuseEarly(r) \/ Compose(r) PROVE TypeOK'
    BY <2>1 DEF ReplaySend, RefuseEarly, Compose, AnswerFromIntent, RepeatAnswer, Claimable,
                BeforeClaim, Finished, Status
  <2>2. ASSUME NEW r \in Request, BeginClaim(r) \/ ClaimRolledBack(r) \/ ClaimTaken(r) PROVE TypeOK'
    <3>1. CASE BeginClaim(r)
      BY <3>1 DEF BeginClaim, BeforeClaim
    <3>2. CASE ClaimRolledBack(r)
      BY <3>2 DEF ClaimRolledBack, Finished
    <3>3. CASE ClaimTaken(r)
      BY <3>3 DEF ClaimTaken, BeforeClaim
    <3> QED BY <2>2, <3>1, <3>2, <3>3
  <2>3. ASSUME NEW r \in Request, AnswerTaken(r) PROVE TypeOK'
    BY <2>3 DEF AnswerTaken, AnswerFromIntent, RepeatAnswer, BeforeClaim, Finished, Status
  <2>4. ASSUME NEW r \in Request, CommitClaim(r) PROVE TypeOK'
    BY <2>4 DEF CommitClaim, Status, Working, Unsubmitted
  <2>5. ASSUME NEW r \in Request, RecordPreparedMessageId(r) PROVE TypeOK'
    <3>1. CASE StillPending(r)
      BY <2>5, <3>1 DEF RecordPreparedMessageId, Working, Unsubmitted
    <3>2. CASE ~StillPending(r)
      BY <2>5, <3>2 DEF RecordPreparedMessageId, Working, Unsubmitted
    <3> QED BY <3>1, <3>2
  <2>6. ASSUME NEW r \in Request, NeverSubmitted(r) \/ Submit(r) PROVE TypeOK'
    BY <2>6 DEF NeverSubmitted, Submit, Working, Answered
  <2>7. ASSUME NEW r \in Request, ProviderAnswers(r) PROVE TypeOK'
    BY <2>7 DEF ProviderAnswers, Working, Answered
  <2>8. ASSUME NEW r \in Request, MarkIntentNotSent(r) PROVE TypeOK'
    <3>1. status' \in [Key -> Status \cup {"absent"}] /\ hourOld' \in [Key -> BOOLEAN]
      <4>1. CASE StillPending(r)
        <5>1. status' = [status EXCEPT ![KeyOf[r]] = "not_sent"]
          BY <2>8, <4>1 DEF MarkIntentNotSent
        <5>2. hourOld' = [hourOld EXCEPT ![KeyOf[r]] = FALSE]
          BY <2>8, <4>1 DEF MarkIntentNotSent
        <5> QED BY <5>1, <5>2 DEF Status
      <4>2. CASE ~StillPending(r)
        BY <2>8, <4>2 DEF MarkIntentNotSent
      <4> QED BY <4>1, <4>2
    <3>2. ledger' \subseteq Request /\ pc' \in [Request -> BeforeClaim \cup Working \cup Finished]
      BY <2>8 DEF MarkIntentNotSent, Finished
    <3> QED BY <2>8, <3>1, <3>2 DEF MarkIntentNotSent
  <2>9. ASSUME NEW r \in Request, MarkIntentUnconfirmed(r) PROVE TypeOK'
    BY <2>9 DEF MarkIntentUnconfirmed, Unconfirm, Finished, Status
  <2>10. ASSUME NEW r \in Request, SettleFails(r) \/ MarkSentFails(r) PROVE TypeOK'
    BY <2>10 DEF SettleFails, MarkSentFails, Finished, Working, Answered
  <2>11. ASSUME NEW r \in Request, MarkIntentSent(r) PROVE TypeOK'
    <3>1. /\ status' \in [Key -> Status \cup {"absent"}]
          /\ hourOld' \in [Key -> BOOLEAN] /\ idKnown' \in [Key -> BOOLEAN]
      <4>1. CASE StillPending(r)
        <5>1. status' = [status EXCEPT ![KeyOf[r]] = "sent"]
          BY <2>11, <4>1 DEF MarkIntentSent
        <5>2. hourOld' = [hourOld EXCEPT ![KeyOf[r]] = FALSE]
          BY <2>11, <4>1 DEF MarkIntentSent
        <5>3. idKnown' = [idKnown EXCEPT ![KeyOf[r]] = TRUE]
          BY <2>11, <4>1 DEF MarkIntentSent
        <5> QED BY <5>1, <5>2, <5>3 DEF Status
      <4>2. CASE ~StillPending(r)
        BY <2>11, <4>2 DEF MarkIntentSent
      <4> QED BY <4>1, <4>2
    <3>2. pc' \in [Request -> BeforeClaim \cup Working \cup Finished]
      BY <2>11 DEF MarkIntentSent, Working, Answered
    <3> QED BY <2>11, <3>1, <3>2 DEF MarkIntentSent
  <2>12. ASSUME NEW r \in Request, LockIntent(r) PROVE TypeOK'
    BY <2>12 DEF LockIntent, Working, Recording, Finished
  <2>13. ASSUME NEW r \in Request, RecordSent(r) PROVE TypeOK'
    BY <2>13 DEF RecordSent, FileSentMessages, Unlock, Finished, Status
  <2>14. ASSUME NEW r \in Request, RecordSentFails(r) \/ Die(r) PROVE TypeOK'
    BY <2>14 DEF RecordSentFails, Die, Unlock, Finished
  <2>15. ASSUME NEW r \in Request, ProviderDecides(r) \/ LedgerHourPasses(r) PROVE TypeOK'
    BY <2>15 DEF ProviderDecides, LedgerHourPasses
  <2>16. CASE SyncStep
    <3>1. ASSUME NEW a \in Account, NEW copies \in SUBSET CopiesIn(a),
                 LockReconcilableIntents(a, copies)
          PROVE TypeOK'
      BY <3>1 DEF LockReconcilableIntents
    <3>2. ASSUME NEW keys \in SUBSET LockedBySync, FileReconciledIntents(keys) PROVE TypeOK'
      BY <3>2 DEF FileReconciledIntents, FileSentMessages, Unlock, Status
    <3> QED BY <2>16, <3>1, <3>2 DEF SyncStep
  <2>17. ASSUME NEW k \in Key, HourPasses(k) \/ MonthPasses(k) PROVE TypeOK'
    <3>1. CASE HourPasses(k)
      BY <3>1 DEF HourPasses
    <3>2. CASE MonthPasses(k)
      BY <3>2 DEF MonthPasses
    <3> QED BY <2>17, <3>1, <3>2
  <2>18. CASE SweepUnsettledIntents \/ PurgeSweeps
    <3>1. CASE SweepUnsettledIntents
      BY <3>1 DEF SweepUnsettledIntents, Unconfirm, Status
    <3>2. CASE PurgeSweeps
      BY <3>2 DEF PurgeSweeps, Unconfirm, Status
    <3> QED BY <2>18, <3>1, <3>2
  <2>19. CASE PurgeDeletes
    BY <2>19 DEF PurgeDeletes, DeleteRows
  <2>20. ASSUME NEW a \in Account, DisconnectMailbox(a) PROVE TypeOK'
    BY <2>20 DEF DisconnectMailbox, DeleteRows
  <2>21. CASE UNCHANGED vars
    BY <2>21 DEF vars
  <2> QED
    BY <2>1, <2>2, <2>3, <2>4, <2>5, <2>6, <2>7, <2>8, <2>9, <2>10, <2>11, <2>12, <2>13,
       <2>14, <2>15, <2>16, <2>17, <2>18, <2>19, <2>20, <2>21 DEF Next, RequestStep
<1> QED
  BY <1>1, <1>2, PTL DEF Spec

-----------------------------------------------------------------------------
(***************************************************************************)
(* What a request's program counter says of its message.                   *)
(***************************************************************************)
NothingSent == {"none", "refused"}

WireInv == \A r \in Request :
    /\ pc[r] \in BeforeClaim \cup Unsubmitted => wire[r] = "none"
    /\ pc[r] \in {"refused", "send_failed", "limited", "record_gone", "refused_early"}
           => wire[r] \in NothingSent
    /\ pc[r] \in {"sent", "marked", "ok", "sent_not_recorded"} \cup Recording
           => wire[r] = "accepted"

RepeatAnswers == {"key_reused", "in_progress", "unconfirmed", "send_failed", "already_sent",
                  "replayed"}

(* A repeat is always answered with one of answerFromIntent's answers.        *)
LEMMA RepeatIsAnswered ==
  ASSUME TypeOK, NEW r \in Request, status[KeyOf[r]] # "absent"
  PROVE  AnswerFromIntent(r) \in RepeatAnswers
<1>1. status[KeyOf[r]] \in Status
  BY SendIntentConstants DEF TypeOK
<1> QED
  BY <1>1 DEF AnswerFromIntent, RepeatAnswer, RepeatAnswers, Status

(* A message is with the provider only after its request submitted it, and   *)
(* a request that was told of a refusal or an acceptance was told the truth.  *)
THEOREM WireInvariant == Spec => []WireInv
<1>1. Init => WireInv
  BY DEF Init, WireInv, BeforeClaim, Unsubmitted, Recording, NothingSent
<1>2. TypeOK /\ WireInv /\ [Next]_vars => WireInv'
  <2> SUFFICES ASSUME TypeOK, WireInv, [Next]_vars PROVE WireInv'
    OBVIOUS
  <2> USE DEF WireInv, TypeOK, Goto, BeforeClaim, Unsubmitted, Recording, NothingSent
  <2>1. ASSUME NEW r \in Request, ReplaySend(r) \/ RefuseEarly(r) \/ Compose(r) PROVE WireInv'
    <3>1. CASE ReplaySend(r)
      <4>1. AnswerFromIntent(r) \in RepeatAnswers
        BY <3>1, RepeatIsAnswered DEF ReplaySend, Claimable
      <4> QED BY <3>1, <4>1 DEF ReplaySend, RepeatAnswers
    <3>2. CASE RefuseEarly(r)
      BY <3>2 DEF RefuseEarly
    <3>3. CASE Compose(r)
      BY <3>3 DEF Compose
    <3> QED BY <2>1, <3>1, <3>2, <3>3
  <2>2. ASSUME NEW r \in Request, BeginClaim(r) \/ ClaimRolledBack(r) \/ ClaimTaken(r) PROVE WireInv'
    <3>1. CASE BeginClaim(r)
      BY <3>1 DEF BeginClaim, ClaimTurn
    <3>2. CASE ClaimRolledBack(r)
      BY <3>2 DEF ClaimRolledBack, ClaimTurn
    <3>3. CASE ClaimTaken(r)
      BY <3>3 DEF ClaimTaken, ClaimTurn
    <3> QED BY <2>2, <3>1, <3>2, <3>3
  <2>3. ASSUME NEW r \in Request, AnswerTaken(r) PROVE WireInv'
    <3>1. status[KeyOf[r]] # "absent" => AnswerFromIntent(r) \in RepeatAnswers
      BY RepeatIsAnswered
    <3> QED BY <2>3, <3>1 DEF AnswerTaken, RepeatAnswers
  <2>4. ASSUME NEW r \in Request, CommitClaim(r) PROVE WireInv'
    BY <2>4 DEF CommitClaim
  <2>5. ASSUME NEW r \in Request, RecordPreparedMessageId(r) PROVE WireInv'
    BY <2>5 DEF RecordPreparedMessageId
  <2>6. ASSUME NEW r \in Request, NeverSubmitted(r) PROVE WireInv'
    BY <2>6 DEF NeverSubmitted
  <2>7. ASSUME NEW r \in Request, Submit(r) PROVE WireInv'
    BY <2>7 DEF Submit
  <2>8. ASSUME NEW r \in Request, ProviderAnswers(r) PROVE WireInv'
    BY <2>8 DEF ProviderAnswers
  <2>9. ASSUME NEW r \in Request, MarkIntentNotSent(r) PROVE WireInv'
    BY <2>9 DEF MarkIntentNotSent
  <2>10. ASSUME NEW r \in Request, MarkIntentUnconfirmed(r) PROVE WireInv'
    BY <2>10 DEF MarkIntentUnconfirmed
  <2>11. ASSUME NEW r \in Request, SettleFails(r) \/ MarkSentFails(r) PROVE WireInv'
    BY <2>11 DEF SettleFails, MarkSentFails
  <2>12. ASSUME NEW r \in Request, MarkIntentSent(r) PROVE WireInv'
    BY <2>12 DEF MarkIntentSent
  <2>13. ASSUME NEW r \in Request, LockIntent(r) PROVE WireInv'
    BY <2>13 DEF LockIntent
  <2>14. ASSUME NEW r \in Request, RecordSent(r) \/ RecordSentFails(r) \/ Die(r) PROVE WireInv'
    BY <2>14 DEF RecordSent, RecordSentFails, Die
  <2>15. ASSUME NEW r \in Request, ProviderDecides(r) PROVE WireInv'
    BY <2>15 DEF ProviderDecides
  <2>16. CASE UNCHANGED <<pc, wire>>
    BY <2>16
  <2>17. ASSUME NEW r \in Request, LedgerHourPasses(r) PROVE UNCHANGED <<pc, wire>>
    BY <2>17 DEF LedgerHourPasses
  <2>18. CASE SyncStep
    BY <2>16, <2>18 DEF SyncStep, LockReconcilableIntents, FileReconciledIntents
  <2>19. ASSUME NEW k \in Key, HourPasses(k) \/ MonthPasses(k) PROVE UNCHANGED <<pc, wire>>
    BY <2>19 DEF HourPasses, MonthPasses
  <2>20. CASE SweepUnsettledIntents \/ PurgeSweeps \/ PurgeDeletes
    BY <2>16, <2>20 DEF SweepUnsettledIntents, PurgeSweeps, PurgeDeletes
  <2>21. ASSUME NEW a \in Account, DisconnectMailbox(a) PROVE UNCHANGED <<pc, wire>>
    BY <2>21 DEF DisconnectMailbox
  <2>22. CASE UNCHANGED vars
    BY <2>16, <2>22 DEF vars
  <2> QED
    BY <2>1, <2>2, <2>3, <2>4, <2>5, <2>6, <2>7, <2>8, <2>9, <2>10, <2>11, <2>12, <2>13, <2>14,
       <2>15, <2>16, <2>17, <2>18, <2>19, <2>20, <2>21, <2>22 DEF Next, RequestStep
<1> QED
  BY <1>1, <1>2, TypeCorrect, PTL DEF Spec

-----------------------------------------------------------------------------
(***************************************************************************)
(* What a row says of the requests that claimed it.  AtMostOneMail is not  *)
(* inductive: a reclaim would break it were the refused request not known  *)
(* to be over, with nothing sent.                                          *)
(***************************************************************************)
Gone(r) == pc[r] \in Finished /\ wire[r] \in NothingSent

RowNamesClaimant(k) ==
    /\ status[k] = "absent" <=> claimant[k] = NoRequest
    /\ status[k] # "absent" => claimant[k] \in attempts /\ KeyOf[claimant[k]] = k
    /\ status[k] = "not_sent" => Gone(claimant[k])

OthersGone(r) ==
    /\ pc[r] \notin BeforeClaim
    /\ status[KeyOf[r]] # "absent"
    /\ claimant[KeyOf[r]] = r \/ Gone(r)

HoldsRow(r) ==
    /\ pc[r] = "claiming" => locked[KeyOf[r]] = r /\ Claimable(r)
    /\ pc[r] \in Recording => locked[KeyOf[r]] = r /\ r \in attempts

SyncHolds(k) == locked[k] = SyncPage => status[k] \in Reconcilable

RowInv ==
    /\ \A k \in Key : RowNamesClaimant(k) /\ SyncHolds(k)
    /\ \A r \in attempts : OthersGone(r)
    /\ \A r \in Request : HoldsRow(r)

(* A request that is over stays over.                                        *)
LEMMA GoneStays ==
  ASSUME TypeOK, WireInv, [Next]_vars, NEW r \in Request, Gone(r)
  PROVE  Gone(r)'
<1> USE DEF Gone, TypeOK, Goto, Finished, NothingSent, BeforeClaim, Unsubmitted, Recording
<1>1. ASSUME NEW s \in Request, RequestStep(s) \/ Die(s) PROVE Gone(r)'
  <2>1. pc[s] \notin Finished /\ s # r
    BY <1>1 DEF RequestStep, Die, ReplaySend, RefuseEarly, Compose, BeginClaim, ClaimRolledBack,
      ClaimTaken, ClaimTurn, AnswerTaken, CommitClaim, RecordPreparedMessageId, NeverSubmitted,
      Submit, ProviderAnswers, MarkIntentNotSent, MarkIntentUnconfirmed, SettleFails,
      MarkIntentSent, MarkSentFails, LockIntent, RecordSent, RecordSentFails
  <2>2. pc'[r] = pc[r] /\ wire'[r] = wire[r]
    BY <1>1, <2>1 DEF RequestStep, Die, ReplaySend, RefuseEarly, Compose, BeginClaim,
      ClaimRolledBack, ClaimTaken, AnswerTaken, CommitClaim, RecordPreparedMessageId,
      NeverSubmitted, Submit, ProviderAnswers, MarkIntentNotSent, MarkIntentUnconfirmed,
      SettleFails, MarkIntentSent, MarkSentFails, LockIntent, RecordSent, RecordSentFails
  <2> QED BY <2>2
<1>2. ASSUME NEW s \in Request, ProviderDecides(s) PROVE Gone(r)'
  BY <1>2 DEF ProviderDecides
<1>3. CASE UNCHANGED <<pc, wire>>
  BY <1>3
<1>4. ASSUME NEW s \in Request, LedgerHourPasses(s) PROVE UNCHANGED <<pc, wire>>
  BY <1>4 DEF LedgerHourPasses
<1>5. CASE SyncStep
  BY <1>3, <1>5 DEF SyncStep, LockReconcilableIntents, FileReconciledIntents
<1>6. ASSUME NEW k \in Key, HourPasses(k) \/ MonthPasses(k) PROVE UNCHANGED <<pc, wire>>
  BY <1>6 DEF HourPasses, MonthPasses
<1>7. CASE SweepUnsettledIntents \/ PurgeSweeps \/ PurgeDeletes
  BY <1>3, <1>7 DEF SweepUnsettledIntents, PurgeSweeps, PurgeDeletes
<1>8. ASSUME NEW a \in Account, DisconnectMailbox(a) PROVE UNCHANGED <<pc, wire>>
  BY <1>8 DEF DisconnectMailbox
<1>9. CASE UNCHANGED vars
  BY <1>3, <1>9 DEF vars
<1> QED
  BY <1>1, <1>2, <1>3, <1>4, <1>5, <1>6, <1>7, <1>8, <1>9 DEF Next

(* A row's claimant is the only request that can still mail, and it keeps     *)
(* the row it holds.                                                        *)
THEOREM RowInvariant == Spec => []RowInv
<1>1. Init => RowInv
  BY SendIntentConstants DEF Init, RowInv, RowNamesClaimant, OthersGone, HoldsRow, SyncHolds,
     Recording
<1>2. TypeOK /\ WireInv /\ RowInv /\ [Next]_vars => RowInv'
  <2> SUFFICES ASSUME TypeOK, WireInv, RowInv, [Next]_vars PROVE RowInv'
    OBVIOUS
  <2>0. \A r \in Request : Gone(r) => Gone(r)'
    BY GoneStays
  <2> USE SendIntentConstants DEF TypeOK, Goto, BeforeClaim, Recording, RowInv,
      RowNamesClaimant, OthersGone, HoldsRow, SyncHolds, Reconcilable, Claimable, SameBody, rowVars
  <2>1. ASSUME NEW r \in Request, ReplaySend(r) PROVE RowInv'
    <3>1. AnswerFromIntent(r) \in RepeatAnswers
      BY <2>1, RepeatIsAnswered DEF ReplaySend
    <3> QED BY <2>0, <2>1, <3>1 DEF ReplaySend, RepeatAnswers
  <2>2. ASSUME NEW r \in Request, RefuseEarly(r) \/ Compose(r) PROVE RowInv'
    BY <2>0, <2>2 DEF RefuseEarly, Compose
  <2>3. ASSUME NEW r \in Request, BeginClaim(r) PROVE RowInv'
    BY <2>0, <2>3 DEF BeginClaim, ClaimTurn
  <2>4. ASSUME NEW r \in Request, ClaimRolledBack(r) \/ ClaimTaken(r) PROVE RowInv'
    BY <2>0, <2>4 DEF ClaimRolledBack, ClaimTaken, ClaimTurn
  <2>5. ASSUME NEW r \in Request, AnswerTaken(r) PROVE RowInv'
    <3>1. status[KeyOf[r]] # "absent" => AnswerFromIntent(r) \in RepeatAnswers
      BY RepeatIsAnswered
    <3> QED BY <2>0, <2>5, <3>1 DEF AnswerTaken, RepeatAnswers
  <2>6. ASSUME NEW r \in Request, CommitClaim(r) PROVE RowInv'
    BY <2>0, <2>6 DEF CommitClaim
  <2>7. ASSUME NEW r \in Request, RecordPreparedMessageId(r) PROVE RowInv'
    BY <2>0, <2>7 DEF RecordPreparedMessageId
  <2>8. ASSUME NEW r \in Request, NeverSubmitted(r) \/ Submit(r) PROVE RowInv'
    BY <2>0, <2>8 DEF NeverSubmitted, Submit, Unsubmitted
  <2>9. ASSUME NEW r \in Request, ProviderAnswers(r) PROVE RowInv'
    BY <2>0, <2>9 DEF ProviderAnswers
  <2>10. ASSUME NEW r \in Request, MarkIntentNotSent(r) PROVE RowInv'
    <3>1. CASE StillPending(r)
      BY <2>0, <2>10, <3>1 DEF MarkIntentNotSent, StillPending, RowExists, Gone, Finished,
                               WireInv, RowFree
    <3>2. CASE ~StillPending(r)
      BY <2>0, <2>10, <3>2 DEF MarkIntentNotSent
    <3> QED BY <3>1, <3>2
  <2>11. ASSUME NEW r \in Request, MarkIntentUnconfirmed(r) PROVE RowInv'
    BY <2>0, <2>11 DEF MarkIntentUnconfirmed, Unconfirm, StillPending, RowExists, RowFree
  <2>12. ASSUME NEW r \in Request, SettleFails(r) \/ MarkSentFails(r) PROVE RowInv'
    BY <2>0, <2>12 DEF SettleFails, MarkSentFails
  <2>13. ASSUME NEW r \in Request, MarkIntentSent(r) PROVE RowInv'
    BY <2>0, <2>13 DEF MarkIntentSent, StillPending, RowExists, RowFree
  <2>14. ASSUME NEW r \in Request, LockIntent(r) PROVE RowInv'
    BY <2>0, <2>14 DEF LockIntent, RowExists, RowFree
  <2>15. ASSUME NEW r \in Request, RecordSent(r) PROVE RowInv'
    BY <2>0, <2>15 DEF RecordSent, FileSentMessages, Unlock
  <2>16. ASSUME NEW r \in Request, RecordSentFails(r) \/ Die(r) PROVE RowInv'
    BY <2>0, <2>16 DEF RecordSentFails, Die, Unlock
  <2>17. ASSUME NEW r \in Request, ProviderDecides(r) \/ LedgerHourPasses(r) PROVE RowInv'
    BY <2>0, <2>17 DEF ProviderDecides, LedgerHourPasses
  <2>18. CASE SyncStep
    <3>1. ASSUME NEW a \in Account, NEW copies \in SUBSET CopiesIn(a),
                 LockReconcilableIntents(a, copies)
          PROVE RowInv'
      BY <2>0, <3>1 DEF LockReconcilableIntents, MatchedBy
    <3>2. ASSUME NEW keys \in SUBSET LockedBySync, FileReconciledIntents(keys) PROVE RowInv'
      BY <2>0, <3>2 DEF FileReconciledIntents, FileSentMessages, Unlock, LockedBySync
    <3> QED BY <2>18, <3>1, <3>2 DEF SyncStep
  <2>19. ASSUME NEW k \in Key, HourPasses(k) \/ MonthPasses(k) PROVE RowInv'
    BY <2>0, <2>19 DEF HourPasses, MonthPasses
  <2>20. CASE SweepUnsettledIntents \/ PurgeSweeps
    BY <2>0, <2>20 DEF SweepUnsettledIntents, PurgeSweeps, Unconfirm, UnsettledTooLong, RowsFree,
                       Unsettled
  <2>21. CASE PurgeDeletes
    BY <2>0, <2>21 DEF PurgeDeletes, DeleteRows, RowsFree
  <2>22. ASSUME NEW a \in Account, DisconnectMailbox(a) PROVE RowInv'
    BY <2>0, <2>22 DEF DisconnectMailbox, DeleteRows, RowsFree
  <2>23. CASE UNCHANGED vars
    BY <2>0, <2>23 DEF vars
  <2> HIDE DEF TypeOK, Goto, BeforeClaim, Recording, RowInv, RowNamesClaimant, OthersGone, HoldsRow,
      SyncHolds, Reconcilable, Claimable, SameBody, rowVars
  <2> QED
    BY <2>1, <2>2, <2>3, <2>4, <2>5, <2>6, <2>7, <2>8, <2>9, <2>10, <2>11, <2>12, <2>13, <2>14,
       <2>15, <2>16, <2>17, <2>18, <2>19, <2>20, <2>21, <2>22, <2>23 DEF Next, RequestStep
<1> QED
  BY <1>1, <1>2, TypeCorrect, WireInvariant, PTL DEF Spec

(* However requests, retries, crashes and the sweep interleave, at most one   *)
(* message under a row ever reaches the provider (emailSendIntentService's    *)
(* conditional insert and update).                                          *)
THEOREM NoDoubleMail == Spec => []AtMostOneMail
<1>1. TypeOK /\ RowInv => AtMostOneMail
  BY DEF RowInv, OthersGone, Gone, NothingSent, AtMostOneMail, MayStillMail, TypeOK
<1> QED
  BY <1>1, TypeCorrect, RowInvariant, PTL

(* A refusal that the client may retry, told or recorded, sent nothing.       *)
THEOREM RefusalIsSafe == Spec => []RefusalSentNothing
<1>1. TypeOK /\ WireInv /\ RowInv => RefusalSentNothing
  BY SendIntentConstants DEF WireInv, RowInv, RowNamesClaimant, Gone, NothingSent, RefusalSentNothing, MayStillMail, TypeOK
<1> QED
  BY <1>1, TypeCorrect, WireInvariant, RowInvariant, PTL

-----------------------------------------------------------------------------
(***************************************************************************)
(* Filing.  Whoever holds a row's lock read its status under that lock, so *)
(* what it is about to file is not filed yet.                              *)
(***************************************************************************)
FiledAtMostOnce(r) ==
    /\ filings[r] \in {0, 1}
    /\ filings[r] = 1 => wire[r] = "accepted" /\ (r \in attempts => status[KeyOf[r]] = "filed")
    /\ pc[r] = "filing" => status[KeyOf[r]] # "filed"

RowEvidence(k) ==
    status[k] \in {"sent", "filed"} \/ locked[k] = SyncPage => wire[claimant[k]] = "accepted"

ToldOfMail(r) ==
    /\ reported[r] = "confirmed" => wire[r] = "accepted"
    /\ pc[r] \in {"already_sent", "replayed"}
          => \E s \in Request : wire[s] = "accepted" /\ KeyOf[s] = KeyOf[r]

FilingInv ==
    /\ \A r \in Request : FiledAtMostOnce(r) /\ ToldOfMail(r)
    /\ \A k \in Key : RowEvidence(k)

(* What the provider took it does not give back.                             *)
LEMMA AcceptedStays ==
  ASSUME TypeOK, WireInv, [Next]_vars, NEW r \in Request, wire[r] = "accepted"
  PROVE  wire'[r] = "accepted"
<1> USE DEF TypeOK, WireInv, Unsubmitted, BeforeClaim
<1>1. ASSUME NEW s \in Request, RequestStep(s) \/ Die(s) PROVE wire'[r] = "accepted"
  BY <1>1 DEF RequestStep, Die, ReplaySend, RefuseEarly, Compose, BeginClaim, ClaimRolledBack,
    ClaimTaken, AnswerTaken, CommitClaim, RecordPreparedMessageId, NeverSubmitted, Submit,
    ProviderAnswers, MarkIntentNotSent, MarkIntentUnconfirmed, SettleFails, MarkIntentSent,
    MarkSentFails, LockIntent, RecordSent, RecordSentFails
<1>2. ASSUME NEW s \in Request, ProviderDecides(s) PROVE wire'[r] = "accepted"
  BY <1>2 DEF ProviderDecides
<1>3. CASE UNCHANGED wire
  BY <1>3
<1>4. ASSUME NEW s \in Request, LedgerHourPasses(s) PROVE UNCHANGED wire
  BY <1>4 DEF LedgerHourPasses
<1>5. CASE SyncStep
  BY <1>3, <1>5 DEF SyncStep, LockReconcilableIntents, FileReconciledIntents
<1>6. ASSUME NEW k \in Key, HourPasses(k) \/ MonthPasses(k) PROVE UNCHANGED wire
  BY <1>6 DEF HourPasses, MonthPasses
<1>7. CASE SweepUnsettledIntents \/ PurgeSweeps \/ PurgeDeletes
  BY <1>3, <1>7 DEF SweepUnsettledIntents, PurgeSweeps, PurgeDeletes
<1>8. ASSUME NEW a \in Account, DisconnectMailbox(a) PROVE UNCHANGED wire
  BY <1>8 DEF DisconnectMailbox
<1>9. CASE UNCHANGED vars
  BY <1>3, <1>9 DEF vars
<1> QED
  BY <1>1, <1>2, <1>3, <1>4, <1>5, <1>6, <1>7, <1>8, <1>9 DEF Next

(* The request and the sync page never file one message twice, and no row,    *)
(* audit entry or answer claims a message that the provider did not take.     *)
THEOREM FilingInvariant == Spec => []FilingInv
<1>1. Init => FilingInv
  BY SendIntentConstants DEF Init, FilingInv, FiledAtMostOnce, RowEvidence, ToldOfMail
<1>2. TypeOK /\ TypeOK' /\ WireInv /\ RowInv /\ FilingInv /\ [Next]_vars => FilingInv'
  <2> SUFFICES ASSUME TypeOK, TypeOK', WireInv, RowInv, FilingInv, [Next]_vars PROVE FilingInv'
    OBVIOUS
  <2>0. \A r \in Request : wire[r] = "accepted" => wire'[r] = "accepted"
    BY AcceptedStays
  <2> USE SendIntentConstants DEF TypeOK, Goto, FilingInv, FiledAtMostOnce, RowEvidence,
      ToldOfMail, RowInv, RowNamesClaimant, rowVars, auditVars
  <2>1. ASSUME NEW r \in Request, ReplaySend(r) PROVE FilingInv'
    <3>1. AnswerFromIntent(r) \in RepeatAnswers
      BY <2>1, RepeatIsAnswered DEF ReplaySend, Claimable
    <3>2. AnswerFromIntent(r) \in {"already_sent", "replayed"} => status[KeyOf[r]] \in {"sent", "filed"}
      BY <2>1, RepeatIsAnswered DEF ReplaySend, Claimable, AnswerFromIntent, RepeatAnswer, Status
    <3>3. AnswerFromIntent(r) \in {"already_sent", "replayed"}
             => \E s \in Request : wire[s] = "accepted" /\ KeyOf[s] = KeyOf[r]
      BY <3>2
    <3> QED BY <2>1, <3>1, <3>3 DEF ReplaySend, RepeatAnswers
  <2>2. ASSUME NEW r \in Request, RefuseEarly(r) \/ Compose(r) PROVE FilingInv'
    BY <2>2 DEF RefuseEarly, Compose
  <2>3. ASSUME NEW r \in Request, BeginClaim(r) PROVE FilingInv'
    BY <2>3 DEF BeginClaim, ClaimTurn
  <2>4. ASSUME NEW r \in Request, ClaimRolledBack(r) \/ ClaimTaken(r) PROVE FilingInv'
    BY <2>4 DEF ClaimRolledBack, ClaimTaken
  <2>5. ASSUME NEW r \in Request, AnswerTaken(r) PROVE FilingInv'
    <3>1. status[KeyOf[r]] # "absent" => AnswerFromIntent(r) \in RepeatAnswers
      BY RepeatIsAnswered
    <3>2. status[KeyOf[r]] # "absent" /\ AnswerFromIntent(r) \in {"already_sent", "replayed"}
            => status[KeyOf[r]] \in {"sent", "filed"}
      BY DEF AnswerFromIntent, RepeatAnswer, Status
    <3>3. status[KeyOf[r]] # "absent" /\ AnswerFromIntent(r) \in {"already_sent", "replayed"}
             => \E s \in Request : wire[s] = "accepted" /\ KeyOf[s] = KeyOf[r]
      BY <3>2
    <3> QED BY <2>5, <3>1, <3>3 DEF AnswerTaken, RepeatAnswers
  <2>6. ASSUME NEW r \in Request, CommitClaim(r) PROVE FilingInv'
    BY <2>6 DEF CommitClaim, WireInv, BeforeClaim, HoldsRow, OthersGone, Claimable, Recording
  <2>7. ASSUME NEW r \in Request, RecordPreparedMessageId(r) PROVE FilingInv'
    BY <2>7 DEF RecordPreparedMessageId
  <2>8. ASSUME NEW r \in Request, NeverSubmitted(r) PROVE FilingInv'
    BY <2>8 DEF NeverSubmitted
  <2>9. ASSUME NEW r \in Request, Submit(r) PROVE FilingInv'
    BY <2>0, <2>9 DEF Submit
  <2>10. ASSUME NEW r \in Request, ProviderAnswers(r) PROVE FilingInv'
    BY <2>10 DEF ProviderAnswers
  <2>11. ASSUME NEW r \in Request, MarkIntentNotSent(r) PROVE FilingInv'
    BY <2>11 DEF MarkIntentNotSent, StillPending, RowExists
  <2>12. ASSUME NEW r \in Request, MarkIntentUnconfirmed(r) PROVE FilingInv'
    BY <2>12 DEF MarkIntentUnconfirmed, Unconfirm, StillPending, RowExists
  <2>13. ASSUME NEW r \in Request, SettleFails(r) \/ MarkSentFails(r) PROVE FilingInv'
    BY <2>13 DEF SettleFails, MarkSentFails
  <2>14. ASSUME NEW r \in Request, MarkIntentSent(r) PROVE FilingInv'
    <3>1. pc[r] = "sent" /\ wire[r] = "accepted" /\ pc' = [pc EXCEPT ![r] = "marked"]
      BY <2>14 DEF MarkIntentSent, WireInv
    <3>2. UNCHANGED <<wire, claimant, attempts, locked, filings, reported>>
      BY <2>14 DEF MarkIntentSent
    <3>3. r \in attempts => claimant[KeyOf[r]] = r
      BY <3>1 DEF OthersGone, Gone, Finished
    <3>4. \A k \in Key :
             \/ status'[k] = status[k]
             \/ k = KeyOf[r] /\ status[k] = "pending" /\ status'[k] = "sent" /\ r \in attempts
      <4> HIDE DEF FilingInv, FiledAtMostOnce, RowEvidence, ToldOfMail, RowInv, RowNamesClaimant
      <4>1. CASE StillPending(r)
        BY <2>14, <4>1 DEF MarkIntentSent, StillPending, RowExists
      <4>2. CASE ~StillPending(r)
        BY <2>14, <4>2 DEF MarkIntentSent
      <4> QED BY <4>1, <4>2
    <3>5. \A s \in Request : FiledAtMostOnce(s)'
      BY <3>1, <3>2, <3>4
    <3>6. \A s \in Request : ToldOfMail(s)'
      BY <3>1, <3>2
    <3>7. \A k \in Key : RowEvidence(k)'
      BY <3>1, <3>2, <3>3, <3>4
    <3> QED BY <3>5, <3>6, <3>7
  <2>15. ASSUME NEW r \in Request, LockIntent(r) PROVE FilingInv'
    BY <2>15 DEF LockIntent
  <2>16. ASSUME NEW r \in Request, RecordSent(r) PROVE FilingInv'
    <3> DEFINE k0 == KeyOf[r]
    <3>1. pc[r] \in Recording /\ wire[r] = "accepted" /\ locked[k0] = r /\ r \in attempts
      BY <2>16 DEF RecordSent, WireInv, HoldsRow
    <3>2. claimant[k0] = r
      BY <3>1 DEF OthersGone, Gone, Recording, Finished
    <3>3. pc' = [pc EXCEPT ![r] = "ok"] /\ UNCHANGED <<wire, claimant, attempts, reported>>
      BY <2>16 DEF RecordSent
    <3>4. CASE pc[r] = "storing"
      <4>1. status' = status /\ filings' = filings
        BY <2>16, <3>4 DEF RecordSent, FileSentMessages
      <4>2. \A k \in Key : locked'[k] = SyncPage => locked[k] = SyncPage
        BY <2>16 DEF RecordSent, Unlock
      <4> QED BY <3>3, <4>1, <4>2
    <3>5. CASE pc[r] = "filing"
      <4>1. /\ status' = [status EXCEPT ![k0] = "filed"]
            /\ filings' = [filings EXCEPT ![r] = filings[r] + 1]
        <5> HIDE DEF FilingInv, FiledAtMostOnce, RowEvidence, ToldOfMail, RowInv, RowNamesClaimant
        <5>1. FileSentMessages({k0})
          BY <2>16, <3>5 DEF RecordSent
        <5>2. status' = [status EXCEPT ![k0] = "filed"]
          BY <5>1 DEF FileSentMessages
        <5>3. \A s \in Request : KeyOf[s] = k0 /\ claimant[KeyOf[s]] = s <=> s = r
          BY <3>2
        <5>4. filings' = [s \in Request |-> filings[s] + IF s = r THEN 1 ELSE 0]
          BY <5>1, <5>3 DEF FileSentMessages
        <5>5. \A s \in Request : filings[s] \in Nat /\ filings'[s] = (IF s = r THEN filings[s] + 1 ELSE filings[s])
          BY <5>4
        <5>6. filings' = [filings EXCEPT ![r] = filings[r] + 1]
          <6>1. filings' \in [Request -> Nat] /\ filings \in [Request -> Nat]
            BY TypeOK'
          <6> QED BY <5>5, <6>1
        <5> QED BY <5>2, <5>6
      <4>2. \A k \in Key : locked'[k] = SyncPage => locked[k] = SyncPage
        BY <2>16 DEF RecordSent, Unlock
      <4>3. filings[r] = 0
        BY <3>1, <3>5
      <4>4. \A s \in Request : pc[s] = "filing" /\ KeyOf[s] = k0 => s = r
        BY <3>1, <3>5 DEF HoldsRow, Recording
      <4>5. \A s \in Request : FiledAtMostOnce(s)'
        BY <3>1, <3>3, <4>1, <4>3, <4>4
      <4>6. \A s \in Request : ToldOfMail(s)'
        BY <3>3
      <4>7. \A k \in Key : RowEvidence(k)'
        BY <3>1, <3>2, <3>3, <4>1, <4>2
      <4> QED BY <4>5, <4>6, <4>7
    <3> QED BY <3>1, <3>4, <3>5 DEF Recording
  <2>17. ASSUME NEW r \in Request, RecordSentFails(r) \/ Die(r) PROVE FilingInv'
    BY <2>17 DEF RecordSentFails, Die, Unlock
  <2>18. ASSUME NEW r \in Request, ProviderDecides(r) \/ LedgerHourPasses(r) PROVE FilingInv'
    <3>1. UNCHANGED <<pc, status, claimant, attempts, locked, filings, reported>>
      BY <2>18 DEF ProviderDecides, LedgerHourPasses
    <3>2. \A s \in Request : FiledAtMostOnce(s)'
      BY <2>0, <3>1
    <3>3. \A s \in Request : ToldOfMail(s)'
      BY <2>0, <3>1
    <3>4. \A k \in Key : RowEvidence(k)'
      <4> SUFFICES ASSUME NEW k \in Key, status[k] \in {"sent", "filed"} \/ locked[k] = SyncPage
                   PROVE wire'[claimant[k]] = "accepted"
        BY <3>1
      <4>1. wire[claimant[k]] = "accepted" /\ claimant[k] \in Request
        BY DEF SyncHolds, Reconcilable
      <4> QED BY <2>0, <4>1
    <3> QED BY <3>2, <3>3, <3>4
  <2>19. CASE SyncStep
    <3>1. ASSUME NEW a \in Account, NEW copies \in SUBSET CopiesIn(a),
                 LockReconcilableIntents(a, copies)
          PROVE FilingInv'
      BY <3>1 DEF LockReconcilableIntents, MatchedBy, CopiesIn
    <3>2. ASSUME NEW keys \in SUBSET LockedBySync, FileReconciledIntents(keys) PROVE FilingInv'
      BY <3>2 DEF FileReconciledIntents, FileSentMessages, Unlock, LockedBySync, SyncHolds,
                  Reconcilable, HoldsRow, Recording, OthersGone
    <3> QED BY <2>19, <3>1, <3>2 DEF SyncStep
  <2>20. ASSUME NEW k \in Key, HourPasses(k) \/ MonthPasses(k) PROVE FilingInv'
    BY <2>20 DEF HourPasses, MonthPasses
  <2>21. CASE SweepUnsettledIntents \/ PurgeSweeps
    BY <2>21 DEF SweepUnsettledIntents, PurgeSweeps, Unconfirm, UnsettledTooLong, RowsFree,
                 Unsettled
  <2>22. CASE PurgeDeletes
    BY <2>22 DEF PurgeDeletes, DeleteRows, RowsFree
  <2>23. ASSUME NEW a \in Account, DisconnectMailbox(a) PROVE FilingInv'
    BY <2>23 DEF DisconnectMailbox, DeleteRows, RowsFree
  <2>24. CASE UNCHANGED vars
    BY <2>24 DEF vars
  <2> HIDE DEF TypeOK, Goto, FilingInv, FiledAtMostOnce, RowEvidence, ToldOfMail, RowInv,
      RowNamesClaimant, rowVars, auditVars
  <2> QED
    BY <2>1, <2>2, <2>3, <2>4, <2>5, <2>6, <2>7, <2>8, <2>9, <2>10, <2>11, <2>12, <2>13, <2>14,
       <2>15, <2>16, <2>17, <2>18, <2>19, <2>20, <2>21, <2>22, <2>23, <2>24
       DEF Next, RequestStep
<1> QED
  BY <1>1, <1>2, TypeCorrect, WireInvariant, RowInvariant, PTL DEF Spec

(* Exactly-once filing across the request and the sync engine.               *)
THEOREM NoDoubleFiling == Spec => []FiledOnce
<1>1. FilingInv => FiledOnce
  BY DEF FilingInv, FiledAtMostOnce, FiledOnce, Mailed
<1> QED
  BY <1>1, FilingInvariant, PTL

(* What a repeat is told, what a row records and what the audit log says the  *)
(* provider confirmed is true.                                              *)
THEOREM EvidenceTrue == Spec => []EvidenceIsTrue
<1>1. TypeOK /\ WireInv /\ RowInv /\ FilingInv => EvidenceIsTrue
  <2> SUFFICES ASSUME TypeOK, WireInv, RowInv, FilingInv PROVE EvidenceIsTrue
    OBVIOUS
  <2>1. \A r \in Request : pc[r] \in {"already_sent", "replayed", "ok", "sent_not_recorded"}
            => \E s \in Mailed : KeyOf[s] = KeyOf[r]
    BY DEF WireInv, FilingInv, ToldOfMail, Mailed
  <2>2. \A k \in Key : status[k] \in {"sent", "filed"} => claimant[k] \in Mailed
    BY DEF TypeOK, FilingInv, RowEvidence, RowInv, RowNamesClaimant, Mailed
  <2>3. \A r \in Request : reported[r] = "confirmed" => r \in Mailed
    BY DEF FilingInv, ToldOfMail, Mailed
  <2> QED BY <2>1, <2>2, <2>3 DEF EvidenceIsTrue
<1> QED
  BY <1>1, TypeCorrect, WireInvariant, RowInvariant, FilingInvariant, PTL

-----------------------------------------------------------------------------
(***************************************************************************)
(* The retention purge.  What is a month old is also past the sweep's hour *)
(* and belongs to no running request, so the sweep that opens the purge    *)
(* has settled it.                                                         *)
(***************************************************************************)
PurgeInv ==
    /\ \A k \in Key : monthOld[k] /\ status[k] \in Unsettled => hourOld[k]
    /\ \A r \in attempts : monthOld[KeyOf[r]] => pc[r] \in Finished
    /\ purge = "swept" => \A k \in Key : ~(hourOld[k] /\ status[k] \in Unsettled)

(* Between the purge's two statements no row it may delete is unsettled.      *)
THEOREM PurgeInvariant == Spec => []PurgeInv
<1>1. Init => PurgeInv
  BY DEF Init, PurgeInv, Unsettled
<1>2. TypeOK /\ WireInv /\ RowInv /\ PurgeInv /\ [Next]_vars => PurgeInv'
  <2> SUFFICES ASSUME TypeOK, WireInv, RowInv, PurgeInv, [Next]_vars PROVE PurgeInv'
    OBVIOUS
  <2>0. \A r \in attempts : pc[r] \notin BeforeClaim
    BY DEF RowInv, OthersGone
  <2> USE SendIntentConstants DEF TypeOK, Goto, PurgeInv, Unsettled, BeforeClaim, Unsubmitted,
      Recording, Finished, rowVars, auditVars, StillPending, RowExists
  <2>f. ASSUME NEW r \in Request, NEW p, pc[r] \notin Finished, Goto(r, p),
               UNCHANGED <<status, hourOld, monthOld, attempts, purge>>
        PROVE  PurgeInv'
    <3>1. r \in attempts => ~monthOld[KeyOf[r]]
      BY <2>f
    <3>2. \A s \in Request : s # r => pc'[s] = pc[s]
      BY <2>f
    <3> HIDE DEF Finished, Goto
    <3> QED BY <2>f, <3>1, <3>2
  <2>1. ASSUME NEW r \in Request, ReplaySend(r) \/ RefuseEarly(r) \/ Compose(r) PROVE PurgeInv'
    BY <2>0, <2>1 DEF ReplaySend, RefuseEarly, Compose
  <2>2. ASSUME NEW r \in Request, BeginClaim(r) \/ ClaimRolledBack(r) \/ ClaimTaken(r) PROVE PurgeInv'
    BY <2>0, <2>2 DEF BeginClaim, ClaimRolledBack, ClaimTaken, ClaimTurn
  <2>3. ASSUME NEW r \in Request, AnswerTaken(r) PROVE PurgeInv'
    BY <2>0, <2>3 DEF AnswerTaken
  <2>4. ASSUME NEW r \in Request, CommitClaim(r) PROVE PurgeInv'
    BY <2>0, <2>4 DEF CommitClaim
  <2>5. ASSUME NEW r \in Request, RecordPreparedMessageId(r) PROVE PurgeInv'
    <3>1. UNCHANGED <<status, monthOld, attempts, purge>> /\ pc' = [pc EXCEPT ![r] = "prepared"]
      BY <2>5 DEF RecordPreparedMessageId
    <3>2. r \in attempts => ~monthOld[KeyOf[r]]
      BY <2>5 DEF RecordPreparedMessageId
    <3>3. \A s \in attempts : monthOld[KeyOf[s]] => pc'[s] \in Finished
      BY <3>1, <3>2
    <3>4. \A k \in Key : hourOld'[k] => hourOld[k]
      BY <2>5 DEF RecordPreparedMessageId
    <3>5. \A k \in Key : monthOld[k] => hourOld'[k] = hourOld[k]
      BY <2>5, <3>2 DEF RecordPreparedMessageId
    <3> QED BY <3>1, <3>3, <3>4, <3>5
  <2>6. ASSUME NEW r \in Request, NeverSubmitted(r) \/ Submit(r) PROVE PurgeInv'
    BY <2>6 DEF NeverSubmitted, Submit
  <2>7. ASSUME NEW r \in Request, ProviderAnswers(r) PROVE PurgeInv'
    BY <2>7 DEF ProviderAnswers
  <2>8. ASSUME NEW r \in Request, MarkIntentNotSent(r) PROVE PurgeInv'
    <3>1. pc' = [pc EXCEPT ![r] = "send_failed"] /\ UNCHANGED <<monthOld, attempts, purge>>
      BY <2>8 DEF MarkIntentNotSent
    <3>2. \A k \in Key : \/ status'[k] = "not_sent"
                         \/ status'[k] = status[k] /\ hourOld'[k] = hourOld[k]
      BY <2>8 DEF MarkIntentNotSent
    <3> QED BY <3>1, <3>2
  <2>9. ASSUME NEW r \in Request, MarkIntentUnconfirmed(r) PROVE PurgeInv'
    BY <2>9 DEF MarkIntentUnconfirmed, Unconfirm
  <2>10. ASSUME NEW r \in Request, SettleFails(r) \/ MarkSentFails(r) PROVE PurgeInv'
    <3>1. CASE SettleFails(r)
      <4>1. pc[r] \notin Finished /\ \E p \in Finished : Goto(r, p)
        BY <3>1 DEF SettleFails
      <4> QED BY <2>f, <3>1, <4>1 DEF SettleFails
    <3>2. CASE MarkSentFails(r)
      <4>1. pc[r] \notin Finished /\ Goto(r, "marked")
        BY <3>2 DEF MarkSentFails
      <4> QED BY <2>f, <3>2, <4>1 DEF MarkSentFails
    <3> QED BY <2>10, <3>1, <3>2
  <2>11. ASSUME NEW r \in Request, MarkIntentSent(r) PROVE PurgeInv'
    BY <2>11 DEF MarkIntentSent
  <2>12. ASSUME NEW r \in Request, LockIntent(r) PROVE PurgeInv'
    BY <2>12 DEF LockIntent
  <2>13. ASSUME NEW r \in Request, RecordSent(r) PROVE PurgeInv'
    BY <2>13 DEF RecordSent, FileSentMessages
  <2>14. ASSUME NEW r \in Request, RecordSentFails(r) \/ Die(r) PROVE PurgeInv'
    <3>1. CASE RecordSentFails(r)
      <4>1. pc[r] \notin Finished /\ Goto(r, "sent_not_recorded")
        BY <3>1 DEF RecordSentFails
      <4> QED BY <2>f, <3>1, <4>1 DEF RecordSentFails
    <3>2. CASE Die(r)
      <4>1. pc[r] \notin Finished /\ Goto(r, "died")
        BY <3>2 DEF Die
      <4> QED BY <2>f, <3>2, <4>1 DEF Die
    <3> QED BY <2>14, <3>1, <3>2
  <2>15. ASSUME NEW r \in Request, ProviderDecides(r) \/ LedgerHourPasses(r) PROVE PurgeInv'
    BY <2>15 DEF ProviderDecides, LedgerHourPasses
  <2>16. CASE SyncStep
    <3>1. ASSUME NEW a \in Account, NEW copies \in SUBSET CopiesIn(a),
                 LockReconcilableIntents(a, copies)
          PROVE PurgeInv'
      BY <3>1 DEF LockReconcilableIntents
    <3>2. ASSUME NEW keys \in SUBSET LockedBySync, FileReconciledIntents(keys) PROVE PurgeInv'
      BY <3>2 DEF FileReconciledIntents, FileSentMessages
    <3> QED BY <2>16, <3>1, <3>2 DEF SyncStep
  <2>17. ASSUME NEW k \in Key, HourPasses(k) PROVE PurgeInv'
    BY <2>17 DEF HourPasses
  <2>18. ASSUME NEW k \in Key, MonthPasses(k) PROVE PurgeInv'
    BY <2>18 DEF MonthPasses
  <2>19. CASE SweepUnsettledIntents \/ PurgeSweeps
    <3>1. CASE SweepUnsettledIntents
      BY <3>1 DEF SweepUnsettledIntents, Unconfirm, UnsettledTooLong
    <3>2. CASE PurgeSweeps
      BY <3>2 DEF PurgeSweeps, Unconfirm, UnsettledTooLong
    <3> QED BY <2>19, <3>1, <3>2
  <2>20. CASE PurgeDeletes
    BY <2>20 DEF PurgeDeletes, DeleteRows
  <2>21. ASSUME NEW a \in Account, DisconnectMailbox(a) PROVE PurgeInv'
    BY <2>21 DEF DisconnectMailbox, DeleteRows
  <2>22. CASE UNCHANGED vars
    BY <2>22 DEF vars
  <2> HIDE DEF TypeOK, Goto, PurgeInv, Unsettled, BeforeClaim, Unsubmitted, Recording, Finished,
      rowVars, auditVars, StillPending, RowExists
  <2> QED
    BY <2>1, <2>2, <2>3, <2>4, <2>5, <2>6, <2>7, <2>8, <2>9, <2>10, <2>11, <2>12, <2>13, <2>14,
       <2>15, <2>16, <2>17, <2>18, <2>19, <2>20, <2>21, <2>22 DEF Next, RequestStep
<1> QED
  BY <1>1, <1>2, TypeCorrect, WireInvariant, RowInvariant, PTL DEF Spec

(* A row that goes unsettled goes with its mailbox.                           *)
LEMMA UnsettledGoWithMailbox ==
  ASSUME TypeOK, PurgeInv, [Next]_vars, NEW k \in Key,
         status'[k] = "absent", status[k] \in Unsettled
  PROVE  \E a \in Account \cap Disconnectable :
             AcctOf[claimant[k]] = a /\ a \in connected /\ connected' = connected \ {a}
<1> USE SendIntentConstants DEF TypeOK, Unsettled, rowVars, auditVars
<1>1. CASE \E r \in Request : RequestStep(r) \/ Die(r) \/ ProviderDecides(r) \/ LedgerHourPasses(r)
  BY <1>1 DEF RequestStep, Die, ReplaySend, RefuseEarly, Compose, BeginClaim, ClaimRolledBack,
    ClaimTaken, AnswerTaken, CommitClaim, RecordPreparedMessageId, NeverSubmitted, Submit,
    ProviderAnswers, MarkIntentNotSent, MarkIntentUnconfirmed, Unconfirm, SettleFails,
    MarkIntentSent, MarkSentFails, LockIntent, RecordSent, RecordSentFails,
    FileSentMessages, ProviderDecides, LedgerHourPasses
<1>2. CASE SyncStep \/ SweepUnsettledIntents \/ PurgeSweeps
  BY <1>2 DEF SyncStep, LockReconcilableIntents, FileReconciledIntents, FileSentMessages,
    SweepUnsettledIntents, PurgeSweeps, Unconfirm
<1>3. CASE \E j \in Key : HourPasses(j) \/ MonthPasses(j)
  BY <1>3 DEF HourPasses, MonthPasses
<1>4. CASE PurgeDeletes
  BY <1>4 DEF PurgeDeletes, DeleteRows, PastRetention, PurgeInv
<1>5. CASE \E a \in Account : DisconnectMailbox(a)
  BY <1>5 DEF DisconnectMailbox, DeleteRows
<1>6. CASE UNCHANGED vars
  BY <1>6 DEF vars
<1> QED BY <1>1, <1>2, <1>3, <1>4, <1>5, <1>6 DEF Next

(* While mailboxes stay connected, no intent is deleted before the audit log  *)
(* knows of its send (purgeEmailSendIntents sweeps first).                   *)
THEOREM PurgeIsAudited ==
  ASSUME Disconnectable = {}
  PROVE  Spec => NoIntentDeletedUnaudited
<1>1. TypeOK /\ PurgeInv /\ [Next]_vars
        => [\A k \in Key : status'[k] = "absent" => status[k] \notin Unsettled]_vars
  BY UnsettledGoWithMailbox
<1> QED
  BY <1>1, TypeCorrect, PurgeInvariant, PTL DEF Spec, NoIntentDeletedUnaudited

(* Whatever is disconnected, and when: an intent is deleted before the audit   *)
(* log knows of its send only by the disconnect of its own mailbox, the        *)
(* cascade of deleteConnectedAccount; never by the purge or another path.     *)
THEOREM OnlyDisconnectLosesIntents ==
  Spec => [][\A k \in Key : status'[k] = "absent" /\ status[k] \in Unsettled
               => connected' = connected \ {AcctOf[claimant[k]]} /\ connected' # connected]_vars
<1>1. TypeOK /\ PurgeInv /\ [Next]_vars
        => [\A k \in Key : status'[k] = "absent" /\ status[k] \in Unsettled
              => connected' = connected \ {AcctOf[claimant[k]]} /\ connected' # connected]_vars
  BY UnsettledGoWithMailbox
<1> QED
  BY <1>1, TypeCorrect, PurgeInvariant, PTL DEF Spec

-----------------------------------------------------------------------------
(***************************************************************************)
(* Uncounting.  The one step that moves a row and shrinks the ledger is a   *)
(* refusal, and by RowInv every other request that claimed the row is over   *)
(* with nothing sent.                                                      *)
(***************************************************************************)
(* A refusal that settles its row uncounts only messages that never go.       *)
LEMMA RefusalUncountsNothingSent ==
  ASSUME TypeOK, WireInv, RowInv, NEW r \in Request, MarkIntentNotSent(r)
  PROVE  (ledger \ ledger') \cap MayStillMail = {}
<1>1. pc[r] = "refused" /\ wire[r] \in NothingSent
  BY DEF MarkIntentNotSent, WireInv
<1>2. ASSUME NEW s \in ledger \ ledger' PROVE wire[s] \in NothingSent
  <2>1. s \in Request /\ s \in attempts /\ KeyOf[s] = KeyOf[r] /\ RowExists(r)
    BY <1>2 DEF MarkIntentNotSent, TypeOK, StillPending
  <2>2. claimant[KeyOf[r]] = r
    BY <1>1, <2>1 DEF RowInv, OthersGone, Gone, Finished, RowExists
  <2>3. s = r \/ Gone(s)
    BY <2>1, <2>2 DEF RowInv, OthersGone
  <2> QED BY <1>1, <2>3 DEF Gone
<1> QED BY <1>2 DEF MayStillMail, NothingSent

(* No step that changes a row takes a message that may have gone out of the    *)
(* ceiling's count (markIntentNotSent, settleRefusedIntent).                  *)
THEOREM UncountsOnlyRefusals == Spec => OnlyRefusalsUncounted
<1>1. TypeOK /\ WireInv /\ RowInv /\ [Next]_vars
        => [status' # status => (ledger \ ledger') \cap MayStillMail = {}]_vars
  <2> SUFFICES ASSUME TypeOK, WireInv, RowInv, [Next]_vars, status' # status
               PROVE  (ledger \ ledger') \cap MayStillMail = {}
    OBVIOUS
  <2> USE DEF rowVars, auditVars
  <2>1. ASSUME NEW r \in Request, MarkIntentNotSent(r)
        PROVE  (ledger \ ledger') \cap MayStillMail = {}
    BY <2>1, RefusalUncountsNothingSent
  <2>2. ASSUME NEW r \in Request, RequestStep(r) \/ Die(r) \/ ProviderDecides(r) \/ LedgerHourPasses(r)
        PROVE  (ledger \ ledger') \cap MayStillMail = {}
    BY <2>1, <2>2 DEF RequestStep, Die, ReplaySend, RefuseEarly, Compose, BeginClaim,
      ClaimRolledBack, ClaimTaken, AnswerTaken, CommitClaim, RecordPreparedMessageId,
      NeverSubmitted, Submit, ProviderAnswers, MarkIntentUnconfirmed, SettleFails,
      MarkIntentSent, MarkSentFails, LockIntent, RecordSent, RecordSentFails,
      ProviderDecides, LedgerHourPasses
  <2>3. CASE SyncStep \/ SweepUnsettledIntents \/ PurgeSweeps \/ PurgeDeletes
    BY <2>3 DEF SyncStep, LockReconcilableIntents, FileReconciledIntents,
      SweepUnsettledIntents, PurgeSweeps, PurgeDeletes
  <2>4. CASE \E k \in Key : HourPasses(k) \/ MonthPasses(k)
    BY <2>4 DEF HourPasses, MonthPasses
  <2>5. CASE \E a \in Account : DisconnectMailbox(a)
    BY <2>5 DEF DisconnectMailbox
  <2>6. CASE UNCHANGED vars
    BY <2>6 DEF vars
  <2> QED BY <2>2, <2>3, <2>4, <2>5, <2>6 DEF Next
<1> QED
  BY <1>1, TypeCorrect, WireInvariant, RowInvariant, PTL DEF Spec, OnlyRefusalsUncounted

-----------------------------------------------------------------------------
(***************************************************************************)
(* The hourly ceiling.  A claim that has counted keeps its user's lock     *)
(* until it commits, so what it counted can only have shrunk.              *)
(***************************************************************************)
CeilingInv == EnforceLimit =>
    /\ \A u \in User : Cardinality(CountedSends(u)) <= MaxPerHour
    /\ \A r \in Request : pc[r] = "claiming"
           => Cardinality(CountedSends(RequestUser(r))) + 1 <= MaxPerHour
    /\ \A r, s \in Request :
           pc[r] = "claiming" /\ pc[s] = "claiming" /\ RequestUser(r) = RequestUser(s) => r = s

(* A user's counted sends are finitely many.                                  *)
LEMMA CountIsNat ==
  ASSUME TypeOK, NEW u
  PROVE  IsFiniteSet(CountedSends(u)) /\ Cardinality(CountedSends(u)) \in Nat
<1>1. CountedSends(u) \subseteq Request /\ IsFiniteSet(Request)
  BY SendIntentConstants DEF TypeOK, CountedSends
<1>2. IsFiniteSet(CountedSends(u))
  BY <1>1, FS_Subset
<1> QED
  BY <1>2, FS_CardinalityType

(* Entries that leave the ledger, and claims that end, leave room.            *)
LEMMA ShrinkingKeepsCeiling ==
  ASSUME TypeOK, TypeOK', CeilingInv, ledger' \subseteq ledger,
         \A r \in Request : pc'[r] = "claiming" => pc[r] = "claiming"
  PROVE  CeilingInv'
<1>1. ASSUME NEW u PROVE Cardinality(CountedSends(u))' <= Cardinality(CountedSends(u))
  <2>1. CountedSends(u)' \in SUBSET CountedSends(u)
    BY DEF CountedSends, RequestUser
  <2> QED BY <2>1, CountIsNat, FS_Subset
<1>2. \A u : Cardinality(CountedSends(u)) \in Nat /\ Cardinality(CountedSends(u))' \in Nat
  <2>1. ASSUME NEW u PROVE Cardinality(CountedSends(u))' \in Nat
    <3>1. IsFiniteSet(CountedSends(u)) /\ CountedSends(u)' \in SUBSET CountedSends(u)
      BY CountIsNat DEF CountedSends, RequestUser
    <3>2. IsFiniteSet(CountedSends(u)')
      BY <3>1, FS_Subset
    <3> QED BY <3>2, FS_CardinalityType
  <2> QED BY <2>1, CountIsNat
<1>3. MaxPerHour \in Nat
  BY SendIntentConstants
<1>4. ASSUME EnforceLimit, NEW u \in User PROVE Cardinality(CountedSends(u))' <= MaxPerHour
  BY <1>1, <1>2, <1>3, <1>4 DEF CeilingInv
<1>5. ASSUME EnforceLimit, NEW r \in Request, pc'[r] = "claiming"
      PROVE Cardinality(CountedSends(RequestUser(r)))' + 1 <= MaxPerHour
  <2> DEFINE u == UserOf[KeyOf[r]]
  <2>1. pc[r] = "claiming"
    BY <1>5
  <2>2. Cardinality(CountedSends(u)) + 1 <= MaxPerHour
    BY <1>5, <2>1 DEF CeilingInv, RequestUser
  <2>3. Cardinality(CountedSends(u))' + 1 <= MaxPerHour
    BY <1>1, <1>2, <1>3, <2>2
  <2> QED BY <2>3 DEF RequestUser
<1> QED
  BY <1>4, <1>5 DEF CeilingInv, RequestUser

(* Only a claim grows the ledger or takes the user's lock.                    *)
LEMMA OnlyClaimsCount ==
  ASSUME TypeOK, TypeOK', [Next]_vars,
         ~ \E r \in Request : BeginClaim(r) \/ CommitClaim(r)
  PROVE  /\ ledger' \subseteq ledger
         /\ \A r \in Request : pc'[r] = "claiming" => pc[r] = "claiming"
<1> USE DEF TypeOK, Goto, rowVars, auditVars
<1>1. ASSUME NEW s \in Request, ReplaySend(s) \/ AnswerTaken(s)
      PROVE UNCHANGED ledger /\ \A r \in Request : pc'[r] = "claiming" => pc[r] = "claiming"
  <2>1. status[KeyOf[s]] # "absent" => AnswerFromIntent(s) \in RepeatAnswers
    BY RepeatIsAnswered
  <2> QED BY <1>1, <2>1 DEF ReplaySend, AnswerTaken, Claimable, RepeatAnswers
<1>2. ASSUME NEW s \in Request,
             RefuseEarly(s) \/ Compose(s) \/ ClaimRolledBack(s) \/ ClaimTaken(s)
               \/ RecordPreparedMessageId(s) \/ NeverSubmitted(s) \/ Submit(s)
               \/ ProviderAnswers(s) \/ MarkIntentNotSent(s) \/ MarkIntentUnconfirmed(s)
               \/ SettleFails(s) \/ MarkIntentSent(s) \/ MarkSentFails(s) \/ LockIntent(s)
               \/ RecordSent(s) \/ RecordSentFails(s) \/ Die(s) \/ ProviderDecides(s)
               \/ LedgerHourPasses(s)
      PROVE ledger' \subseteq ledger /\ \A r \in Request : pc'[r] = "claiming" => pc[r] = "claiming"
  BY <1>2 DEF RefuseEarly, Compose, ClaimRolledBack, ClaimTaken, RecordPreparedMessageId,
    NeverSubmitted, Submit, ProviderAnswers, MarkIntentNotSent, MarkIntentUnconfirmed, SettleFails,
    MarkIntentSent, MarkSentFails, LockIntent, RecordSent, RecordSentFails, Die, ProviderDecides,
    LedgerHourPasses
<1>3. CASE UNCHANGED <<pc, ledger>>
  BY <1>3
<1>4. CASE SyncStep
  BY <1>3, <1>4 DEF SyncStep, LockReconcilableIntents, FileReconciledIntents
<1>5. ASSUME NEW k \in Key, HourPasses(k) \/ MonthPasses(k) PROVE UNCHANGED <<pc, ledger>>
  BY <1>5 DEF HourPasses, MonthPasses
<1>6. CASE SweepUnsettledIntents \/ PurgeSweeps \/ PurgeDeletes
  BY <1>3, <1>6 DEF SweepUnsettledIntents, PurgeSweeps, PurgeDeletes
<1>7. ASSUME NEW a \in Account, DisconnectMailbox(a) PROVE UNCHANGED <<pc, ledger>>
  BY <1>7 DEF DisconnectMailbox
<1>8. CASE UNCHANGED vars
  BY <1>3, <1>8 DEF vars
<1> QED
  BY <1>1, <1>2, <1>3, <1>4, <1>5, <1>6, <1>7, <1>8 DEF Next, RequestStep

(* No interleaving of claims counts more than the ceiling in one hour         *)
(* (claimSendIntent's lock makes the claim and the count one step).          *)
THEOREM CeilingInvariant == Spec => []CeilingInv
<1>1. Init => CeilingInv
  <2> SUFFICES ASSUME Init PROVE CeilingInv
    OBVIOUS
  <2>1. \A u : CountedSends(u) = {}
    BY DEF Init, CountedSends
  <2>2. \A r \in Request : pc[r] # "claiming"
    BY DEF Init
  <2> QED BY <2>1, <2>2, FS_EmptySet, SendIntentConstants DEF CeilingInv
<1>2. TypeOK /\ TypeOK' /\ CeilingInv /\ [Next]_vars => CeilingInv'
  <2> SUFFICES ASSUME TypeOK, TypeOK', CeilingInv, [Next]_vars PROVE CeilingInv'
    OBVIOUS
  <2>1. ASSUME NEW r \in Request, BeginClaim(r) PROVE CeilingInv'
    <3>1. /\ pc' = [pc EXCEPT ![r] = "claiming"] /\ ledger' = ledger
          /\ UserLockFree(r) /\ ~OverLimit(r)
      BY <2>1 DEF BeginClaim, ClaimTurn, Goto
    <3>2. ASSUME NEW u PROVE CountedSends(u)' = CountedSends(u)
      BY <3>1 DEF CountedSends
    <3>3. EnforceLimit => Cardinality(CountedSends(RequestUser(r))) + 1 <= MaxPerHour
      <4>1. Cardinality(CountedSends(RequestUser(r))) \in Nat /\ MaxPerHour \in Nat
        BY CountIsNat, SendIntentConstants
      <4> QED BY <3>1, <4>1 DEF OverLimit
    <3>4. ASSUME EnforceLimit, NEW s \in Request, pc'[s] = "claiming"
          PROVE Cardinality(CountedSends(RequestUser(s)))' + 1 <= MaxPerHour
      <4>1. Cardinality(CountedSends(RequestUser(s))) + 1 <= MaxPerHour
        BY <3>1, <3>3, <3>4 DEF CeilingInv, TypeOK
      <4> QED BY <3>2, <4>1 DEF RequestUser
    <3>5. ASSUME EnforceLimit, NEW s \in Request, NEW t \in Request,
                 pc'[s] = "claiming", pc'[t] = "claiming", RequestUser(s) = RequestUser(t)
          PROVE s = t
      BY <3>1, <3>5 DEF CeilingInv, TypeOK, UserLockFree
    <3> QED BY <3>2, <3>4, <3>5 DEF CeilingInv, RequestUser
  <2>2. ASSUME NEW r \in Request, CommitClaim(r) PROVE CeilingInv'
    <3> DEFINE mine == RequestUser(r)
    <3>1. /\ pc[r] = "claiming" /\ pc' = [pc EXCEPT ![r] = "claimed"]
          /\ ledger' = ledger \cup {r}
      BY <2>2 DEF CommitClaim, Goto
    <3>2. \A s \in Request : pc'[s] = "claiming" => pc[s] = "claiming" /\ s # r
      BY <3>1 DEF TypeOK
    <3>3. ASSUME NEW u, u # mine PROVE CountedSends(u)' = CountedSends(u)
      BY <3>1, <3>3 DEF CountedSends, RequestUser
    <3>4. CountedSends(mine)' = CountedSends(mine) \cup {r}
      BY <3>1 DEF CountedSends, RequestUser
    <3>5. EnforceLimit => Cardinality(CountedSends(mine))' <= MaxPerHour
      <4>1. Cardinality(CountedSends(mine))' <= Cardinality(CountedSends(mine)) + 1
        <5> DEFINE counted == CountedSends(mine)
        <5>1. IsFiniteSet(counted)
          BY CountIsNat
        <5>2. Cardinality(counted \cup {r})
                = IF r \in counted THEN Cardinality(counted) ELSE Cardinality(counted) + 1
          BY <5>1, FS_AddElement
        <5>3. Cardinality(counted) \in Nat
          BY CountIsNat
        <5> HIDE DEF counted
        <5>4. Cardinality(counted \cup {r}) <= Cardinality(counted) + 1
          BY <5>2, <5>3
        <5> QED BY <3>4, <5>4 DEF counted
      <4>2. EnforceLimit => Cardinality(CountedSends(mine)) + 1 <= MaxPerHour
        BY <3>1 DEF CeilingInv
      <4>3. Cardinality(CountedSends(mine))' \in Nat /\ Cardinality(CountedSends(mine)) \in Nat
        <5>1. IsFiniteSet(CountedSends(mine))
          BY CountIsNat
        <5>2. IsFiniteSet(CountedSends(mine) \cup {r})
          BY <5>1, FS_AddElement
        <5> QED BY <3>4, <5>1, <5>2, FS_CardinalityType
      <4>4. MaxPerHour \in Nat
        BY SendIntentConstants
      <4> QED BY <4>1, <4>2, <4>3, <4>4
    <3>6. ASSUME EnforceLimit, NEW u \in User PROVE Cardinality(CountedSends(u))' <= MaxPerHour
      <4>1. CASE u = mine
        BY <3>5, <3>6, <4>1
      <4>2. CASE u # mine
        BY <3>3, <3>6, <4>2 DEF CeilingInv
      <4> QED BY <4>1, <4>2
    <3>7. ASSUME EnforceLimit, NEW s \in Request, pc'[s] = "claiming"
          PROVE Cardinality(CountedSends(RequestUser(s)))' + 1 <= MaxPerHour
      <4>1. pc[s] = "claiming" /\ RequestUser(s) # mine
        BY <3>1, <3>2, <3>7 DEF CeilingInv
      <4>2. Cardinality(CountedSends(RequestUser(s))) + 1 <= MaxPerHour
        BY <3>7, <4>1 DEF CeilingInv
      <4> QED BY <3>3, <4>1, <4>2 DEF RequestUser
    <3> QED BY <3>2, <3>6, <3>7 DEF CeilingInv, RequestUser
  <2>3. CASE ~ \E r \in Request : BeginClaim(r) \/ CommitClaim(r)
    BY <2>3, OnlyClaimsCount, ShrinkingKeepsCeiling
  <2> QED BY <2>1, <2>2, <2>3
<1> QED
  BY <1>1, <1>2, TypeCorrect, PTL DEF Spec

(* The ceiling as the runs check it.                                         *)
THEOREM NeverOverCeiling == Spec => []CeilingHolds
<1>1. CeilingInv => CeilingHolds
  BY DEF CeilingInv, CeilingHolds
<1> QED
  BY <1>1, CeilingInvariant, PTL
=============================================================================
