------------------------ MODULE SendRefinementProofs ------------------------
(***************************************************************************)
(* The send protocol implements the promise of its keys: each step of      *)
(* SendIntent is a step of SendPromise, or changes nothing the promise     *)
(* speaks of.                                                              *)
(***************************************************************************)
EXTENDS SendIntentProofs

FiledMessages == {r \in Request : filings[r] > 0}

Invariants == TypeOK /\ WireInv /\ RowInv /\ FilingInv

(* What a step leaves alone when it moves no row, message or filing.          *)
LEMMA SameRowsSamePromise ==
  ASSUME UNCHANGED <<status, attempts, wire, filings>>
  PROVE  UNCHANGED Promise!vars
  BY DEF Promise!vars, CountOf, Mailed

(* A row that is not settled belongs to one claimant, and only it can mail.   *)
LEMMA OnlyClaimantMails ==
  ASSUME Invariants, NEW r \in attempts, wire[r] \notin NothingSent
  PROVE  /\ claimant[KeyOf[r]] = r /\ status[KeyOf[r]] \in Reconcilable \cup {"filed"}
         /\ \A s \in attempts : KeyOf[s] = KeyOf[r] /\ wire[s] \notin NothingSent => s = r
<1>1. claimant[KeyOf[r]] = r /\ ~Gone(r) /\ status[KeyOf[r]] # "absent"
  BY DEF Invariants, RowInv, OthersGone, Gone
<1>2. KeyOf[r] \in Key /\ status[KeyOf[r]] \in Status
  BY <1>1, SendIntentConstants DEF Invariants, TypeOK
<1>3. status[KeyOf[r]] # "not_sent"
  BY <1>1, <1>2 DEF Invariants, RowInv, RowNamesClaimant
<1>4. \A s \in attempts : KeyOf[s] = KeyOf[r] /\ wire[s] \notin NothingSent => s = r
  BY <1>1 DEF Invariants, RowInv, OthersGone, Gone
<1> QED
  BY <1>1, <1>2, <1>3, <1>4 DEF Status, Reconcilable

-----------------------------------------------------------------------------
(* A claim is a try: the row was free, or refused with nothing sent.          *)
LEMMA ClaimIsTry ==
  ASSUME Invariants, NEW r \in Request, CommitClaim(r)
  PROVE  Promise!Try(KeyOf[r])
<1> DEFINE k == KeyOf[r]
<1>1. /\ pc[r] = "claiming" /\ status' = [status EXCEPT ![k] = "pending"]
      /\ attempts' = attempts \cup {r} /\ wire' = wire /\ filings' = filings
  BY DEF CommitClaim, auditVars
<1>2. wire[r] = "none" /\ filings[r] = 0
  BY <1>1 DEF Invariants, WireInv, BeforeClaim, FilingInv, FiledAtMostOnce
<1>3. k \in Key /\ status \in [Key -> Status \cup {"absent"}]
  BY SendIntentConstants DEF Invariants, TypeOK
<1>4. status[k] \in {"absent", "not_sent"}
  BY <1>1, <1>3 DEF Invariants, RowInv, HoldsRow, Claimable
<1>5. \A j \in Key : CountOf(Mailed, j)' = CountOf(Mailed, j)
  BY <1>1, <1>2 DEF CountOf, Mailed
<1>6. \A j \in Key : CountOf(FiledMessages, j)' = CountOf(FiledMessages, j)
  BY <1>1, <1>2 DEF CountOf, FiledMessages
<1>7. [j \in Key |-> StageOf[status'[j]]]
         = [[j \in Key |-> StageOf[status[j]]] EXCEPT ![k] = "trying"]
  BY <1>1, <1>3 DEF StageOf
<1>8. StageOf[status[k]] \in {"unused", "refused"}
  BY <1>4 DEF StageOf
<1> QED
  BY <1>3, <1>5, <1>6, <1>7, <1>8 DEF Promise!Try, Promise!Move, FiledMessages

(* The provider takes the message of a row whose outcome is open.             *)
LEMMA AcceptanceIsMail ==
  ASSUME Invariants, NEW r \in Request, ProviderDecides(r)
  PROVE  Promise!Mail(KeyOf[r]) \/ UNCHANGED Promise!vars
<1> DEFINE k == KeyOf[r]
<1>1. /\ wire[r] = "inflight" /\ UNCHANGED <<status, attempts, filings>>
      /\ wire' = [wire EXCEPT ![r] = "accepted"] \/ wire' = [wire EXCEPT ![r] = "refused"]
  BY DEF ProviderDecides, rowVars, auditVars
<1>2. k \in Key /\ wire \in [Request -> {"none", "inflight", "accepted", "refused"}]
  BY SendIntentConstants DEF Invariants, TypeOK
<1>3. CASE r \notin attempts \/ wire' = [wire EXCEPT ![r] = "refused"]
  <2>1. Mailed' \cap attempts = Mailed \cap attempts
    BY <1>1, <1>2, <1>3 DEF Mailed
  <2>2. \A j \in Key : CountOf(Mailed, j)' = CountOf(Mailed, j)
    BY <1>1, <2>1 DEF CountOf
  <2>3. \A j \in Key : CountOf(FiledMessages, j)' = CountOf(FiledMessages, j)
    BY <1>1 DEF CountOf, FiledMessages
  <2> QED BY <1>1, <2>2, <2>3 DEF Promise!vars, FiledMessages
<1>4. CASE r \in attempts /\ wire' = [wire EXCEPT ![r] = "accepted"]
  <2>1. claimant[k] = r /\ status[k] \in Reconcilable \cup {"filed"}
        /\ \A s \in attempts : KeyOf[s] = k /\ wire[s] \notin NothingSent => s = r
    BY <1>1, <1>4, OnlyClaimantMails DEF NothingSent
  <2>2. status[k] \in {"pending", "unconfirmed"}
    BY <1>1, <1>2, <2>1 DEF Invariants, FilingInv, RowEvidence, Reconcilable
  <2>3. CountOf(Mailed, k) = 0
    BY <1>1, <2>1 DEF CountOf, Mailed, NothingSent
  <2>4. Mailed' = Mailed \cup {r}
    BY <1>2, <1>4 DEF Mailed
  <2>5. CountOf(Mailed, k)' = 1
    BY <1>1, <1>4, <2>4 DEF CountOf
  <2>6. \A j \in Key : j # k => CountOf(Mailed, j)' = CountOf(Mailed, j)
    BY <1>1, <2>4 DEF CountOf
  <2>7. [j \in Key |-> CountOf(Mailed, j)'] = [[j \in Key |-> CountOf(Mailed, j)] EXCEPT ![k] = 1]
    BY <1>2, <2>5, <2>6
  <2>8. \A j \in Key : CountOf(FiledMessages, j)' = CountOf(FiledMessages, j)
    BY <1>1 DEF CountOf, FiledMessages
  <2>9. StageOf[status[k]] \in {"trying", "doubtful"}
    BY <2>2 DEF StageOf
  <2> QED BY <1>1, <1>2, <2>3, <2>7, <2>8, <2>9 DEF Promise!Mail, FiledMessages
<1> QED
  BY <1>1, <1>3, <1>4

(* A row becomes not_sent only when nothing was or will be mailed under it.   *)
LEMMA RefusalIsRefuse ==
  ASSUME Invariants, NEW r \in Request, MarkIntentNotSent(r)
  PROVE  Promise!Refuse(KeyOf[r]) \/ UNCHANGED Promise!vars
<1> DEFINE k == KeyOf[r]
<1>1. pc[r] = "refused" /\ UNCHANGED <<attempts, wire, filings>>
  BY DEF MarkIntentNotSent, auditVars
<1>2. CASE ~StillPending(r)
  BY <1>1, <1>2, SameRowsSamePromise DEF MarkIntentNotSent
<1>3. CASE StillPending(r)
  <2>1. r \in attempts /\ status[k] = "pending" /\ status' = [status EXCEPT ![k] = "not_sent"]
    BY <1>3 DEF MarkIntentNotSent, StillPending, RowExists
  <2>2. k \in Key /\ status \in [Key -> Status \cup {"absent"}]
    BY SendIntentConstants DEF Invariants, TypeOK
  <2>3. \A s \in attempts : KeyOf[s] = k => wire[s] \in NothingSent
    <3>1. claimant[k] = r
      BY <1>1, <2>1 DEF Invariants, RowInv, OthersGone, Gone, Finished
    <3>2. wire[r] \in NothingSent
      BY <1>1 DEF Invariants, WireInv
    <3>3. \A s \in attempts : s \in Request
      BY DEF Invariants, TypeOK
    <3> QED BY <3>1, <3>2, <3>3 DEF Invariants, RowInv, OthersGone, Gone
  <2>4. CountOf(Mailed, k) = 0
    BY <2>3 DEF CountOf, Mailed, NothingSent
  <2>5. \A j \in Key : /\ CountOf(Mailed, j)' = CountOf(Mailed, j)
                       /\ CountOf(FiledMessages, j)' = CountOf(FiledMessages, j)
    BY <1>1 DEF CountOf, Mailed, FiledMessages
  <2>6. [j \in Key |-> StageOf[status'[j]]]
           = [[j \in Key |-> StageOf[status[j]]] EXCEPT ![k] = "refused"]
    BY <2>1, <2>2 DEF StageOf
  <2>7. StageOf[status[k]] = "trying"
    BY <2>1 DEF StageOf
  <2>8. /\ [j \in Key |-> CountOf(Mailed, j)'] = [j \in Key |-> CountOf(Mailed, j)]
        /\ [j \in Key |-> CountOf(FiledMessages, j)'] = [j \in Key |-> CountOf(FiledMessages, j)]
    BY <2>5
  <2>9. Promise!Refuse(k)
    BY <2>2, <2>4, <2>6, <2>7, <2>8 DEF Promise!Refuse, Promise!Move, FiledMessages
  <2> QED BY <2>9
<1> QED
  BY <1>2, <1>3

(* Only unsettled rows become unconfirmed.                                   *)
LEMMA UnconfirmIsDoubt ==
  ASSUME Invariants, NEW keys \in SUBSET Key, Unconfirm(keys),
         \A k \in keys : status[k] \in Unsettled,
         UNCHANGED <<attempts, wire, filings>>
  PROVE  Promise!Doubt(keys)
<1>1. \A j \in Key : /\ CountOf(Mailed, j)' = CountOf(Mailed, j)
                     /\ CountOf(FiledMessages, j)' = CountOf(FiledMessages, j)
  BY DEF CountOf, Mailed, FiledMessages
<1>2. \A j \in Key : StageOf[status'[j]] = IF j \in keys THEN "doubtful" ELSE StageOf[status[j]]
  BY DEF Unconfirm, StageOf
<1>3. \A k \in keys : StageOf[status[k]] = "trying"
  BY DEF Unsettled, StageOf
<1> QED
  BY <1>1, <1>2, <1>3 DEF Promise!Doubt, FiledMessages

(* Rows are filed by whoever holds them, open and with their message mailed.  *)
LEMMA FilingIsFile ==
  ASSUME Invariants, NEW keys \in SUBSET Key, FileSentMessages(keys),
         \A k \in keys : /\ status[k] \in Reconcilable
                         /\ wire[claimant[k]] = "accepted",
         UNCHANGED <<attempts, claimant, wire>>
  PROVE  Promise!File(keys)
<1>1. \A k \in keys : claimant[k] \in attempts /\ KeyOf[claimant[k]] = k
  BY DEF Invariants, RowInv, RowNamesClaimant, Reconcilable
<1>2. attempts \subseteq Request /\ filings \in [Request -> Nat]
  BY DEF Invariants, TypeOK
<1>3. \A j \in Key : CountOf(Mailed, j)' = CountOf(Mailed, j)
  BY DEF CountOf, Mailed
<1>4. \A k \in keys : CountOf(Mailed, k) = 1
  BY <1>1, <1>2 DEF CountOf, Mailed
<1>5. \A k \in keys : CountOf(FiledMessages, k) = 0
  BY <1>2 DEF CountOf, FiledMessages, Invariants, FilingInv, FiledAtMostOnce, Reconcilable
<1>6. \A r \in Request : filings'[r] = filings[r] + (IF KeyOf[r] \in keys /\ claimant[KeyOf[r]] = r THEN 1 ELSE 0)
  BY DEF FileSentMessages
<1>7. \A k \in keys : CountOf(FiledMessages, k)' = 1
  <2>1. ASSUME NEW k \in keys PROVE filings'[claimant[k]] > 0
    BY <1>1, <1>2, <1>6
  <2> QED BY <1>1, <1>2, <2>1 DEF CountOf, FiledMessages
<1>8. \A j \in Key \ keys : CountOf(FiledMessages, j)' = CountOf(FiledMessages, j)
  <2>1. \A r \in Request : KeyOf[r] \notin keys => filings'[r] = filings[r]
    BY <1>2, <1>6
  <2> QED BY <2>1 DEF CountOf, FiledMessages
<1>9. \A j \in Key : StageOf[status'[j]] = IF j \in keys THEN "filed" ELSE StageOf[status[j]]
  BY DEF FileSentMessages, StageOf
<1>10. \A k \in keys : StageOf[status[k]] \in {"trying", "doubtful"}
  BY DEF Reconcilable, StageOf
<1> QED
  BY <1>3, <1>4, <1>5, <1>7, <1>8, <1>9, <1>10 DEF Promise!File, FiledMessages

(* A deleted row takes its key's history with it.                            *)
LEMMA DeletingIsForget ==
  ASSUME Invariants, NEW keys \in SUBSET Key, DeleteRows(keys), UNCHANGED <<wire, filings>>
  PROVE  Promise!Forget(keys)
<1>1. \A j \in Key : CountOf(Mailed, j)' = IF j \in keys THEN 0 ELSE CountOf(Mailed, j)
  BY DEF DeleteRows, CountOf, Mailed
<1>2. \A j \in Key : CountOf(FiledMessages, j)' = IF j \in keys THEN 0 ELSE CountOf(FiledMessages, j)
  BY DEF DeleteRows, CountOf, FiledMessages
<1>3. \A j \in Key : StageOf[status'[j]] = IF j \in keys THEN "unused" ELSE StageOf[status[j]]
  BY DEF DeleteRows, StageOf
<1> QED
  BY <1>1, <1>2, <1>3 DEF Promise!Forget, FiledMessages

-----------------------------------------------------------------------------
(* Every step keeps the promise.                                             *)
LEMMA StepKeepsPromise ==
  ASSUME Invariants, [Next]_vars
  PROVE  [Promise!Next]_(Promise!vars)
<1> USE DEF rowVars, auditVars
<1>1. ASSUME NEW r \in Request,
             ReplaySend(r) \/ RefuseEarly(r) \/ Compose(r) \/ BeginClaim(r) \/ ClaimRolledBack(r)
               \/ ClaimTaken(r) \/ AnswerTaken(r) \/ NeverSubmitted(r) \/ ProviderAnswers(r)
               \/ SettleFails(r) \/ MarkSentFails(r) \/ LockIntent(r) \/ RecordSentFails(r)
               \/ Die(r) \/ LedgerHourPasses(r) \/ RecordPreparedMessageId(r)
      PROVE UNCHANGED <<status, attempts, wire, filings>>
  BY <1>1 DEF ReplaySend, RefuseEarly, Compose, BeginClaim, ClaimRolledBack, ClaimTaken,
    AnswerTaken, NeverSubmitted, ProviderAnswers, SettleFails, MarkSentFails, LockIntent,
    RecordSentFails, Die, LedgerHourPasses, RecordPreparedMessageId
<1>2. ASSUME NEW r \in Request, CommitClaim(r) PROVE Promise!Next
  <2>1. Promise!Try(KeyOf[r]) /\ KeyOf[r] \in Key
    BY <1>2, ClaimIsTry, SendIntentConstants
  <2> QED BY <2>1 DEF Promise!Next
<1>3. ASSUME NEW r \in Request, ProviderDecides(r) PROVE Promise!Next \/ UNCHANGED Promise!vars
  <2>1. (Promise!Mail(KeyOf[r]) \/ UNCHANGED Promise!vars) /\ KeyOf[r] \in Key
    BY <1>3, AcceptanceIsMail, SendIntentConstants
  <2> QED BY <2>1 DEF Promise!Next
<1>4. ASSUME NEW r \in Request, MarkIntentNotSent(r)
      PROVE Promise!Next \/ UNCHANGED Promise!vars
  <2>1. (Promise!Refuse(KeyOf[r]) \/ UNCHANGED Promise!vars) /\ KeyOf[r] \in Key
    BY <1>4, RefusalIsRefuse, SendIntentConstants
  <2> QED BY <2>1 DEF Promise!Next
<1>5. ASSUME NEW r \in Request, Submit(r) PROVE UNCHANGED Promise!vars
  <2>1. /\ UNCHANGED <<status, attempts, filings>> /\ wire' = [wire EXCEPT ![r] = "inflight"]
        /\ wire[r] = "none" /\ wire \in [Request -> {"none", "inflight", "accepted", "refused"}]
    BY <1>5 DEF Submit, Invariants, WireInv, TypeOK
  <2>2. Mailed' = Mailed
    BY <2>1 DEF Mailed
  <2> QED BY <2>1, <2>2 DEF Promise!vars, CountOf
<1>6. ASSUME NEW r \in Request, MarkIntentSent(r) PROVE UNCHANGED Promise!vars
  <2>1. /\ UNCHANGED <<attempts, wire, filings>>
        /\ \A j \in Key : StageOf[status'[j]] = StageOf[status[j]]
    <3>1. CASE StillPending(r)
      <4>1. status[KeyOf[r]] = "pending" /\ status' = [status EXCEPT ![KeyOf[r]] = "sent"]
        BY <1>6, <3>1 DEF MarkIntentSent, StillPending
      <4> QED BY <1>6, <4>1 DEF MarkIntentSent, StageOf, Invariants, TypeOK
    <3>2. CASE ~StillPending(r)
      BY <1>6, <3>2 DEF MarkIntentSent
    <3> QED BY <3>1, <3>2
  <2> QED BY <2>1 DEF Promise!vars, CountOf, Mailed
<1>7. ASSUME NEW keys \in SUBSET Key, Promise!Doubt(keys) \/ Promise!File(keys) \/ Promise!Forget(keys)
      PROVE Promise!Next
  BY <1>7 DEF Promise!Next
<1>8. ASSUME NEW r \in Request, MarkIntentUnconfirmed(r) PROVE Promise!Next
  <2> DEFINE keys == IF StillPending(r) THEN {KeyOf[r]} ELSE {}
  <2>1. keys \in SUBSET Key /\ \A k \in keys : status[k] \in Unsettled
    BY SendIntentConstants DEF StillPending, Unsettled
  <2>2. Unconfirm(keys) /\ UNCHANGED <<attempts, wire, filings>>
    BY <1>8 DEF MarkIntentUnconfirmed
  <2> QED BY <1>7, <2>1, <2>2, UnconfirmIsDoubt
<1>9. CASE SweepUnsettledIntents \/ PurgeSweeps
  <2>1. UnsettledTooLong \in SUBSET Key /\ \A k \in UnsettledTooLong : status[k] \in Unsettled
    BY DEF UnsettledTooLong
  <2>2. Unconfirm(UnsettledTooLong) /\ UNCHANGED <<attempts, wire, filings>>
    BY <1>9 DEF SweepUnsettledIntents, PurgeSweeps
  <2> QED BY <1>7, <2>1, <2>2, UnconfirmIsDoubt
<1>10. ASSUME NEW r \in Request, RecordSent(r) PROVE Promise!Next
  <2> DEFINE keys == IF pc[r] = "filing" THEN {KeyOf[r]} ELSE {}
  <2>1. FileSentMessages(keys) /\ UNCHANGED <<attempts, claimant, wire>>
    BY <1>10 DEF RecordSent
  <2>2. keys \in SUBSET Key
    BY SendIntentConstants
  <2>3. ASSUME pc[r] = "filing"
        PROVE  status[KeyOf[r]] \in Reconcilable /\ wire[claimant[KeyOf[r]]] = "accepted"
    <3>1. r \in attempts /\ wire[r] = "accepted" /\ status[KeyOf[r]] # "filed"
      BY <2>3 DEF Invariants, RowInv, HoldsRow, Recording, WireInv, FilingInv, FiledAtMostOnce
    <3>2. claimant[KeyOf[r]] = r /\ status[KeyOf[r]] \in Reconcilable \cup {"filed"}
      BY <3>1, OnlyClaimantMails DEF NothingSent
    <3> QED BY <3>1, <3>2
  <2> QED BY <1>7, <2>1, <2>2, <2>3, FilingIsFile
<1>11. CASE SyncStep
  <2>1. ASSUME NEW a \in Account, NEW copies \in SUBSET CopiesIn(a),
               LockReconcilableIntents(a, copies)
        PROVE UNCHANGED Promise!vars
    BY <2>1, SameRowsSamePromise DEF LockReconcilableIntents
  <2>2. ASSUME NEW keys \in SUBSET LockedBySync, FileReconciledIntents(keys) PROVE Promise!Next
    <3>1. /\ keys \in SUBSET Key
          /\ \A k \in keys : status[k] \in Reconcilable /\ wire[claimant[k]] = "accepted"
      BY DEF LockedBySync, Invariants, RowInv, SyncHolds, FilingInv, RowEvidence
    <3>2. FileSentMessages(keys) /\ UNCHANGED <<attempts, claimant, wire>>
      BY <2>2 DEF FileReconciledIntents
    <3> QED BY <1>7, <3>1, <3>2, FilingIsFile
  <2> QED BY <1>11, <2>1, <2>2 DEF SyncStep
<1>12. ASSUME NEW k \in Key, HourPasses(k) \/ MonthPasses(k)
       PROVE UNCHANGED <<status, attempts, wire, filings>>
  BY <1>12 DEF HourPasses, MonthPasses
<1>13. CASE PurgeDeletes
  <2>1. PastRetention \in SUBSET Key /\ DeleteRows(PastRetention) /\ UNCHANGED <<wire, filings>>
    BY <1>13 DEF PurgeDeletes, PastRetention
  <2> QED BY <1>7, <2>1, DeletingIsForget
<1>14. ASSUME NEW a \in Account, DisconnectMailbox(a) PROVE Promise!Next
  <2> DEFINE gone == {k \in Key : status[k] # "absent" /\ AcctOf[claimant[k]] = a}
  <2>1. gone \in SUBSET Key /\ DeleteRows(gone) /\ UNCHANGED <<wire, filings>>
    BY <1>14 DEF DisconnectMailbox
  <2> QED BY <1>7, <2>1, DeletingIsForget
<1>15. CASE UNCHANGED vars
  BY <1>15, SameRowsSamePromise DEF vars
<1> QED
  BY <1>1, <1>2, <1>3, <1>4, <1>5, <1>6, <1>8, <1>9, <1>10, <1>11, <1>12, <1>13, <1>14, <1>15,
     SameRowsSamePromise DEF Next, RequestStep

(* The send protocol implements the promise of its keys.                     *)
THEOREM PromiseKept == Spec => KeepsPromise
<1>1. Init => Promise!Init
  BY DEF Init, Promise!Init, StageOf, CountOf
<1>2. Invariants /\ [Next]_vars => [Promise!Next]_(Promise!vars)
  BY StepKeepsPromise
<1> QED
  BY <1>1, <1>2, TypeCorrect, WireInvariant, RowInvariant, FilingInvariant, PTL
     DEF Spec, Promise!Spec, KeepsPromise, Invariants
=============================================================================
