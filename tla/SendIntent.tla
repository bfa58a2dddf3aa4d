----------------------------- MODULE SendIntent -----------------------------
(***************************************************************************)
(* Sending one message: emailSendService.ts and emailSendIntentService.ts.  *)
(*                                                                         *)
(* A send writes to a mail provider and to the database, and nothing makes *)
(* that pair atomic.  Before the provider is called, a row of              *)
(* email_send_intents is committed under the client's idempotency key; the *)
(* row then records what is known of the send, and either the request      *)
(* itself or a later sync of the Sent copy files the message from it.      *)
(*                                                                         *)
(* A request is one HTTP request; the document it builds carries a         *)
(* Message-ID of its own, so the request also names the message, its       *)
(* Message-ID, its provider id and its Sent copy.  Every await of a        *)
(* request is a value of pc: another actor may step there, and the process *)
(* may die there.  A row lock is explicit (locked), because the exactly-   *)
(* once filing rests on it.                                                *)
(***************************************************************************)
EXTENDS Integers, FiniteSets

CONSTANTS
    Request,        \* HTTP requests to send; also the messages they build
    Key,            \* idempotency keys, unique per user
    User,
    Account,        \* connected mailboxes
    KeyOf, UserOf, AcctOf,  \* of a request, of a key, of a request
    BodyOf,         \* the request body a requestHash stands for
    NoRequest,      \* no request: an unlocked row, an absent row's claimant
    SyncPage,       \* the sync engine's page transaction, as a lock holder
    Rewritten,      \* messages whose Message-ID the provider rewrites
    EnforceLimit,   \* FALSE where shouldSkipRateLimit
    MaxPerHour,     \* emailSendMaxPerHour()
    Disconnectable  \* mailboxes whose owner may disconnect them

(* A request names its mailbox in its body, so one body is one mailbox.     *)
ASSUME SendIntentConstants ==
    /\ KeyOf \in [Request -> Key]
    /\ UserOf \in [Key -> User]
    /\ AcctOf \in [Request -> Account]
    /\ DOMAIN BodyOf = Request
    /\ \A r, s \in Request : BodyOf[r] = BodyOf[s] => AcctOf[r] = AcctOf[s]
    /\ NoRequest \notin Request
    /\ SyncPage \notin Request \cup {NoRequest}
    /\ Rewritten \subseteq Request
    /\ EnforceLimit \in BOOLEAN
    /\ MaxPerHour \in Nat \ {0}
    /\ Disconnectable \subseteq Account
    /\ IsFiniteSet(Request)

VARIABLES
    pc,        \* where each request stands; its answer once it has one
    wire,      \* what the provider made of each message
    status,    \* email_send_intents.status, "absent" where no row
    claimant,  \* the request whose Message-ID the row carries
    idKnown,   \* provider_message_id is recorded
    hourOld,   \* updated_at is past INTENT_UNSETTLED_AFTER_MS
    monthOld,  \* created_at is past the retention window
    locked,    \* who holds the row (or the uncommitted insert of its key)
    attempts,  \* requests that claimed the row while it has existed
    ledger,    \* email_send_ledger entries still inside the hour
    filings,   \* times a message was filed: activity and email_sent entry
    reported,  \* email_send_unconfirmed entries, with provider_confirmed
    connected, \* connected_accounts rows
    purge      \* the retention job, between its two statements or not

rowVars == <<status, claimant, idKnown, hourOld, monthOld, attempts>>
auditVars == <<filings, reported>>
vars == <<pc, wire, rowVars, locked, ledger, auditVars, connected, purge>>

Status == {"pending", "not_sent", "sent", "unconfirmed", "filed"}
Reconcilable == {"pending", "sent", "unconfirmed"}
Unsettled == {"pending", "sent"}

(* Mutants of RepeatAnswer: a doubtful send is called sent; a filed one is    *)
(* answered with its status.                                                *)
RepeatAnswerOptimist == [pending     |-> "in_progress", unconfirmed |-> "already_sent",
                         not_sent    |-> "send_failed", sent        |-> "already_sent",
                         filed       |-> "replayed"]
RepeatAnswerStatus   == [RepeatAnswerOptimist EXCEPT !.filed = "filed"]

(* What answerFromIntent tells a repeat of a request, by the row's status.   *)
RepeatAnswer == [pending     |-> "in_progress", unconfirmed |-> "unconfirmed",
                 not_sent    |-> "send_failed", sent        |-> "already_sent",
                 filed       |-> "replayed"]

BeforeClaim == {"idle", "composing", "claiming", "taken"}
Unsubmitted == {"claimed", "prepared"}
Answered == {"sent", "unsure", "refused", "marked"}
Recording == {"filing", "storing"}
Working == Unsubmitted \cup {"submitting"} \cup Answered \cup Recording
Finished == {"key_reused", "in_progress", "unconfirmed", "send_failed", "already_sent",
             "replayed", "limited", "record_gone", "refused_early", "not_confirmed",
             "sent_not_recorded", "ok", "died"}

(***************************************************************************)
(* The one type invariant.                                                 *)
(***************************************************************************)
TypeOK ==
    /\ pc \in [Request -> BeforeClaim \cup Working \cup Finished]
    /\ wire \in [Request -> {"none", "inflight", "accepted", "refused"}]
    /\ status \in [Key -> Status \cup {"absent"}]
    /\ claimant \in [Key -> Request \cup {NoRequest}]
    /\ idKnown \in [Key -> BOOLEAN]
    /\ hourOld \in [Key -> BOOLEAN]
    /\ monthOld \in [Key -> BOOLEAN]
    /\ locked \in [Key -> Request \cup {NoRequest, SyncPage}]
    /\ attempts \subseteq Request
    /\ ledger \subseteq Request
    /\ filings \in [Request -> Nat]
    /\ reported \in [Request -> {"no", "unknown", "confirmed"}]
    /\ connected \subseteq Account
    /\ purge \in {"idle", "swept"}

Init ==
    /\ pc = [r \in Request |-> "idle"]
    /\ wire = [r \in Request |-> "none"]
    /\ status = [k \in Key |-> "absent"]
    /\ claimant = [k \in Key |-> NoRequest]
    /\ idKnown = [k \in Key |-> FALSE]
    /\ hourOld = [k \in Key |-> FALSE]
    /\ monthOld = [k \in Key |-> FALSE]
    /\ locked = [k \in Key |-> NoRequest]
    /\ attempts = {}
    /\ ledger = {}
    /\ filings = [r \in Request |-> 0]
    /\ reported = [r \in Request |-> "no"]
    /\ connected = Account
    /\ purge = "idle"

-----------------------------------------------------------------------------
(***************************************************************************)
(* Helpers: the row a request claimed, and what its statements match.      *)
(***************************************************************************)
Goto(r, p) == pc' = [pc EXCEPT ![r] = p]

(* The row a request claimed still exists; its UPDATEs are by that id.      *)
RowExists(r) == r \in attempts

(* WHERE id = $1 AND status = 'pending'.                                     *)
StillPending(r) == RowExists(r) /\ status[KeyOf[r]] = "pending"

(* A statement on the row waits for whoever holds it.                       *)
RowFree(r) == RowExists(r) => locked[KeyOf[r]] = NoRequest

SameBody(r) == BodyOf[claimant[KeyOf[r]]] = BodyOf[r]

(* Mutant of Claimable: the retry forgets to ask for 'not_sent'.             *)
ClaimableWhenUnsure(r) ==
    \/ status[KeyOf[r]] \in {"absent", "unconfirmed"}
    \/ status[KeyOf[r]] = "not_sent" /\ SameBody(r)

(* A new key, or a refused send retried under its own key and body.         *)
Claimable(r) ==
    \/ status[KeyOf[r]] = "absent"
    \/ status[KeyOf[r]] = "not_sent" /\ SameBody(r)

AnswerFromIntent(r) ==
    IF SameBody(r) THEN RepeatAnswer[status[KeyOf[r]]] ELSE "key_reused"

RequestUser(r) == UserOf[KeyOf[r]]

(* COUNTED_SENDS: the user's ledger entries of the last hour.               *)
CountedSends(u) == {r \in ledger : RequestUser(r) = u}

(* secondsUntilUnderLimit(headroom 1) is not null.                          *)
OverLimit(r) ==
    EnforceLimit /\ Cardinality(CountedSends(RequestUser(r))) + 1 > MaxPerHour

(* Mutant of UserLockFree: no advisory lock.                                 *)
UserLockAlwaysFree(r) == TRUE

(* The advisory lock that serializes one user's claims, held to the commit. *)
UserLockFree(r) ==
    EnforceLimit => \A s \in Request :
                        pc[s] = "claiming" => RequestUser(s) # RequestUser(r)

Unlock(r) == locked' = [k \in Key |-> IF locked[k] = r THEN NoRequest ELSE locked[k]]

-----------------------------------------------------------------------------
(***************************************************************************)
(* Before the claim.  replaySend answers a repeat from the row; anything   *)
(* else may be refused early (no mailbox, precheck of the ceiling, no      *)
(* driver, a token that cannot be refreshed) and nothing is recorded.      *)
(***************************************************************************)
ReplaySend(r) ==
    /\ pc[r] = "idle"
    /\ ~Claimable(r)
    /\ Goto(r, AnswerFromIntent(r))
    /\ UNCHANGED <<wire, rowVars, locked, ledger, auditVars, connected, purge>>

RefuseEarly(r) ==
    /\ pc[r] \in {"idle", "composing"}
    /\ pc[r] = "idle" => Claimable(r)
    /\ Goto(r, "refused_early")
    /\ UNCHANGED <<wire, rowVars, locked, ledger, auditVars, connected, purge>>

Compose(r) ==
    /\ pc[r] = "idle"
    /\ Claimable(r)
    /\ AcctOf[r] \in connected
    /\ ~OverLimit(r)            \* precheckSendLimit, advisory
    /\ Goto(r, "composing")
    /\ UNCHANGED <<wire, rowVars, locked, ledger, auditVars, connected, purge>>

(***************************************************************************)
(* claimSendIntent, one transaction in two steps: it takes the user's lock *)
(* and the key's row, counts what is committed, and then commits.          *)
(***************************************************************************)
ClaimTurn(r) ==
    /\ pc[r] = "composing"
    /\ AcctOf[r] \in connected  \* the row's foreign key
    /\ UserLockFree(r)
    /\ locked[KeyOf[r]] = NoRequest

BeginClaim(r) ==
    /\ ClaimTurn(r)
    /\ Claimable(r)
    /\ ~OverLimit(r)
    /\ locked' = [locked EXCEPT ![KeyOf[r]] = r]
    /\ Goto(r, "claiming")
    /\ UNCHANGED <<wire, rowVars, ledger, auditVars, connected, purge>>

(* Rolled back: the ceiling is reached, or the record sent from is gone.    *)
ClaimRolledBack(r) ==
    /\ ClaimTurn(r)
    /\ Claimable(r)
    /\ \/ OverLimit(r) /\ Goto(r, "limited")
       \/ Goto(r, "record_gone")
    /\ UNCHANGED <<wire, rowVars, locked, ledger, auditVars, connected, purge>>

ClaimTaken(r) ==
    /\ ClaimTurn(r)
    /\ ~Claimable(r)
    /\ Goto(r, "taken")
    /\ UNCHANGED <<wire, rowVars, locked, ledger, auditVars, connected, purge>>

(* findIntentByKey after the claim: the row may be gone, and then it throws.*)
AnswerTaken(r) ==
    /\ pc[r] = "taken"
    /\ Goto(r, IF status[KeyOf[r]] = "absent" THEN "died" ELSE AnswerFromIntent(r))
    /\ UNCHANGED <<wire, rowVars, locked, ledger, auditVars, connected, purge>>

CommitClaim(r) ==
    LET k == KeyOf[r] IN
    /\ pc[r] = "claiming"
    /\ status' = [status EXCEPT ![k] = "pending"]
    /\ claimant' = [claimant EXCEPT ![k] = r]
    /\ idKnown' = [idKnown EXCEPT ![k] = FALSE]
    /\ hourOld' = [hourOld EXCEPT ![k] = FALSE]
    /\ monthOld' = [monthOld EXCEPT ![k] = FALSE]
    /\ attempts' = attempts \cup {r}
    /\ ledger' = ledger \cup {r}
    /\ locked' = [locked EXCEPT ![k] = NoRequest]
    /\ Goto(r, "claimed")
    /\ UNCHANGED <<wire, auditVars, connected, purge>>

(***************************************************************************)
(* The provider call.  A driver that makes a draft first (Graph) records   *)
(* its id before submitting; one that does not submits at once.            *)
(***************************************************************************)
RecordPreparedMessageId(r) ==
    /\ pc[r] = "claimed"
    /\ RowFree(r)
    /\ IF StillPending(r)
       THEN /\ idKnown' = [idKnown EXCEPT ![KeyOf[r]] = TRUE]
            /\ hourOld' = [hourOld EXCEPT ![KeyOf[r]] = FALSE]
       ELSE UNCHANGED <<idKnown, hourOld>>
    /\ Goto(r, "prepared")
    /\ UNCHANGED <<wire, status, claimant, monthOld, attempts, locked, ledger, auditVars,
                   connected, purge>>

(* No draft, no recorded draft id, or no connection: nothing was submitted. *)
NeverSubmitted(r) ==
    /\ pc[r] \in Unsubmitted
    /\ Goto(r, "refused")
    /\ UNCHANGED <<wire, rowVars, locked, ledger, auditVars, connected, purge>>

Submit(r) ==
    /\ pc[r] \in Unsubmitted
    /\ wire' = [wire EXCEPT ![r] = "inflight"]
    /\ Goto(r, "submitting")
    /\ UNCHANGED <<rowVars, locked, ledger, auditVars, connected, purge>>

(* The provider decides on its own, even after the request timed out.       *)
ProviderDecides(r) ==
    /\ wire[r] = "inflight"
    /\ \E verdict \in {"accepted", "refused"} : wire' = [wire EXCEPT ![r] = verdict]
    /\ UNCHANGED <<pc, rowVars, locked, ledger, auditVars, connected, purge>>

(* Mutant of ProviderAnswers: a timeout is taken for a refusal.              *)
ProviderTimeoutRefuses(r) ==
    /\ pc[r] = "submitting"
    /\ \/ wire[r] = "accepted" /\ Goto(r, "sent")
       \/ Goto(r, "refused")
    /\ UNCHANGED <<wire, rowVars, locked, ledger, auditVars, connected, purge>>

(* A 2xx, a definite refusal, or neither: a timeout, a 5xx, a cut body.     *)
ProviderAnswers(r) ==
    /\ pc[r] = "submitting"
    /\ \/ wire[r] = "accepted" /\ Goto(r, "sent")
       \/ wire[r] = "refused" /\ Goto(r, "refused")
       \/ Goto(r, "unsure")
    /\ UNCHANGED <<wire, rowVars, locked, ledger, auditVars, connected, purge>>

(***************************************************************************)
(* Settling the row from the answer.  Each write may fail, and a failure   *)
(* is logged and passed over.                                              *)
(***************************************************************************)
MarkIntentNotSent(r) ==
    /\ pc[r] = "refused"
    /\ RowFree(r)
    /\ IF StillPending(r)
       THEN /\ status' = [status EXCEPT ![KeyOf[r]] = "not_sent"]
            /\ hourOld' = [hourOld EXCEPT ![KeyOf[r]] = FALSE]
            /\ ledger' = {s \in ledger : ~(s \in attempts /\ KeyOf[s] = KeyOf[r])}
       ELSE UNCHANGED <<status, hourOld, ledger>>
    /\ Goto(r, "send_failed")
    /\ UNCHANGED <<wire, claimant, idKnown, monthOld, attempts, locked, auditVars, connected,
                   purge>>

(* Mutant of Unconfirm: the audit entry is forgotten.                        *)
UnconfirmSilently(keys) ==
    /\ status' = [k \in Key |-> IF k \in keys THEN "unconfirmed" ELSE status[k]]
    /\ hourOld' = [k \in Key |-> hourOld[k] /\ k \notin keys]
    /\ reported' = reported

(* unconfirm: moves rows and writes one audit entry for each.               *)
Unconfirm(keys) ==
    /\ status' = [k \in Key |-> IF k \in keys THEN "unconfirmed" ELSE status[k]]
    /\ hourOld' = [k \in Key |-> hourOld[k] /\ k \notin keys]
    /\ reported' = [r \in Request |->
           IF KeyOf[r] \in keys /\ claimant[KeyOf[r]] = r
           THEN IF status[KeyOf[r]] = "sent" THEN "confirmed" ELSE "unknown"
           ELSE reported[r]]

MarkIntentUnconfirmed(r) ==
    /\ pc[r] = "unsure"
    /\ RowFree(r)
    /\ Unconfirm(IF StillPending(r) THEN {KeyOf[r]} ELSE {})
    /\ Goto(r, "not_confirmed")
    /\ UNCHANGED <<wire, claimant, idKnown, monthOld, attempts, locked, ledger, filings,
                   connected, purge>>

(* settleRefusedIntent: the row could not be written; the user's answer     *)
(* stays the provider's.                                                   *)
SettleFails(r) ==
    /\ \/ pc[r] = "refused" /\ Goto(r, "send_failed")
       \/ pc[r] = "unsure" /\ Goto(r, "not_confirmed")
    /\ UNCHANGED <<wire, rowVars, locked, ledger, auditVars, connected, purge>>

MarkIntentSent(r) ==
    /\ pc[r] = "sent"
    /\ RowFree(r)
    /\ IF StillPending(r)
       THEN /\ status' = [status EXCEPT ![KeyOf[r]] = "sent"]
            /\ idKnown' = [idKnown EXCEPT ![KeyOf[r]] = TRUE]
            /\ hourOld' = [hourOld EXCEPT ![KeyOf[r]] = FALSE]
       ELSE UNCHANGED <<status, idKnown, hourOld>>
    /\ Goto(r, "marked")
    /\ UNCHANGED <<wire, claimant, monthOld, attempts, locked, ledger, auditVars, connected,
                   purge>>

MarkSentFails(r) ==
    /\ pc[r] = "sent"
    /\ Goto(r, "marked")
    /\ UNCHANGED <<wire, rowVars, locked, ledger, auditVars, connected, purge>>

(***************************************************************************)
(* Filing: fileSentMessage, run by whoever holds the row's lock.  It       *)
(* trusts the status read when the lock was taken.                         *)
(***************************************************************************)
FileSentMessages(keys) ==
    /\ status' = [k \in Key |-> IF k \in keys THEN "filed" ELSE status[k]]
    /\ idKnown' = [k \in Key |-> idKnown[k] \/ k \in keys]
    /\ hourOld' = [k \in Key |-> hourOld[k] /\ k \notin keys]
    /\ filings' = [r \in Request |->
           filings[r] + IF KeyOf[r] \in keys /\ claimant[KeyOf[r]] = r THEN 1 ELSE 0]

(* Mutant of LockIntent: the status is not read again under the lock.        *)
LockIntentUnread(r) ==
    /\ pc[r] = "marked"
    /\ RowFree(r)
    /\ RowExists(r)
    /\ locked' = [locked EXCEPT ![KeyOf[r]] = r]
    /\ Goto(r, "filing")
    /\ UNCHANGED <<wire, rowVars, ledger, auditVars, connected, purge>>

(* recordSent: locks the row, reads its status, and files unless filed.     *)
LockIntent(r) ==
    /\ pc[r] = "marked"
    /\ RowFree(r)
    /\ IF RowExists(r)
       THEN /\ locked' = [locked EXCEPT ![KeyOf[r]] = r]
            /\ Goto(r, IF status[KeyOf[r]] = "filed" THEN "storing" ELSE "filing")
       ELSE UNCHANGED locked /\ Goto(r, "sent_not_recorded")
    /\ UNCHANGED <<wire, rowVars, ledger, auditVars, connected, purge>>

RecordSent(r) ==
    /\ pc[r] \in Recording
    /\ FileSentMessages(IF pc[r] = "filing" THEN {KeyOf[r]} ELSE {})
    /\ Unlock(r)
    /\ Goto(r, "ok")
    /\ UNCHANGED <<wire, claimant, monthOld, attempts, ledger, reported, connected, purge>>

RecordSentFails(r) ==
    /\ pc[r] \in {"marked"} \cup Recording
    /\ Unlock(r)
    /\ Goto(r, "sent_not_recorded")
    /\ UNCHANGED <<wire, rowVars, ledger, auditVars, connected, purge>>

(* The process dies, or a statement before the provider call throws.        *)
Die(r) ==
    /\ pc[r] \notin {"idle"} \cup Finished
    /\ Unlock(r)
    /\ Goto(r, "died")
    /\ UNCHANGED <<wire, rowVars, ledger, auditVars, connected, purge>>

(***************************************************************************)
(* The sync engine's commitPage, as far as sends go: it locks the rows its *)
(* page of Sent copies matches, then files them from those copies.         *)
(***************************************************************************)
LockedBySync == {k \in Key : locked[k] = SyncPage}

(* A copy is found by the recorded provider id, else by its Message-ID.     *)
MatchedBy(copies) ==
    {k \in Key : /\ status[k] \in Reconcilable
                 /\ claimant[k] \in copies
                 /\ idKnown[k] \/ claimant[k] \notin Rewritten}

LockReconcilableIntents(a, copies) ==
    /\ a \in connected
    /\ LockedBySync = {}
    /\ MatchedBy(copies) # {}
    /\ \A k \in MatchedBy(copies) : locked[k] = NoRequest
    /\ locked' = [k \in Key |-> IF k \in MatchedBy(copies) THEN SyncPage ELSE locked[k]]
    /\ UNCHANGED <<pc, wire, rowVars, ledger, auditVars, connected, purge>>

(* Each row under its own savepoint: one that cannot be filed is left.      *)
FileReconciledIntents(keys) ==
    /\ LockedBySync # {}
    /\ FileSentMessages(keys)
    /\ Unlock(SyncPage)
    /\ UNCHANGED <<pc, wire, claimant, monthOld, attempts, ledger, reported, connected, purge>>

(***************************************************************************)
(* Time, the sweep, the retention purge and disconnecting a mailbox.       *)
(***************************************************************************)
RowsFree(keys) == \A k \in keys : locked[k] = NoRequest

(* Mutants of UnsettledTooLong: the sweep's status list loses 'sent'; the      *)
(* sweep goes by age alone.                                                 *)
PendingTooLong == {k \in Key : status[k] = "pending" /\ hourOld[k]}
AnyRowTooLong  == {k \in Key : hourOld[k] \/ monthOld[k]}

UnsettledTooLong == {k \in Key : status[k] \in Unsettled /\ hourOld[k]}

HourPasses(k) ==
    /\ status[k] \in Unsettled
    /\ ~hourOld[k]
    /\ purge = "idle"       \* the purge's two statements are not an hour apart
    /\ hourOld' = [hourOld EXCEPT ![k] = TRUE]
    /\ UNCHANGED <<pc, wire, status, claimant, idKnown, monthOld, attempts, locked, ledger,
                   auditVars, connected, purge>>

(* Bound: no request is still running a month after it claimed.             *)
MonthPasses(k) ==
    /\ status[k] # "absent"
    /\ ~monthOld[k]
    /\ status[k] \in Unsettled => hourOld[k]
    /\ \A r \in attempts : KeyOf[r] = k => pc[r] \in Finished
    /\ monthOld' = [monthOld EXCEPT ![k] = TRUE]
    /\ UNCHANGED <<pc, wire, status, claimant, idKnown, hourOld, attempts, locked, ledger,
                   auditVars, connected, purge>>

LedgerHourPasses(r) ==
    /\ r \in ledger
    /\ ledger' = ledger \ {r}
    /\ UNCHANGED <<pc, wire, rowVars, locked, auditVars, connected, purge>>

SweepUnsettledIntents ==
    /\ UnsettledTooLong # {}
    /\ RowsFree(UnsettledTooLong)
    /\ Unconfirm(UnsettledTooLong)
    /\ UNCHANGED <<pc, wire, claimant, idKnown, monthOld, attempts, locked, ledger, filings,
                   connected, purge>>

DeleteRows(keys) ==
    /\ status' = [k \in Key |-> IF k \in keys THEN "absent" ELSE status[k]]
    /\ claimant' = [k \in Key |-> IF k \in keys THEN NoRequest ELSE claimant[k]]
    /\ idKnown' = [k \in Key |-> idKnown[k] /\ k \notin keys]
    /\ hourOld' = [k \in Key |-> hourOld[k] /\ k \notin keys]
    /\ monthOld' = [k \in Key |-> monthOld[k] /\ k \notin keys]
    /\ attempts' = {r \in attempts : KeyOf[r] \notin keys}

PastRetention == {k \in Key : monthOld[k]}

(* Mutant of PurgeSweeps: the purge relies on the scheduler's sweep.         *)
PurgeWithoutSweep ==
    /\ purge = "idle"
    /\ PastRetention # {}
    /\ purge' = "swept"
    /\ UNCHANGED <<pc, wire, rowVars, locked, ledger, auditVars, connected>>

(* purgeEmailSendIntents sweeps first; a purge of nothing is left out.      *)
PurgeSweeps ==
    /\ purge = "idle"
    /\ PastRetention # {}
    /\ RowsFree(UnsettledTooLong)
    /\ Unconfirm(UnsettledTooLong)
    /\ purge' = "swept"
    /\ UNCHANGED <<pc, wire, claimant, idKnown, monthOld, attempts, locked, ledger, filings,
                   connected>>

PurgeDeletes ==
    /\ purge = "swept"
    /\ RowsFree(PastRetention)
    /\ DeleteRows(PastRetention)
    /\ purge' = "idle"
    /\ UNCHANGED <<pc, wire, locked, ledger, auditVars, connected>>

(* deleteConnectedAccount: the rows go by ON DELETE CASCADE, the ledger not.*)
DisconnectMailbox(a) ==
    LET gone == {k \in Key : status[k] # "absent" /\ AcctOf[claimant[k]] = a} IN
    /\ a \in connected \cap Disconnectable
    /\ RowsFree(gone)
    /\ \A r \in Request : pc[r] = "claiming" => AcctOf[r] # a
    /\ connected' = connected \ {a}
    /\ DeleteRows(gone)
    /\ UNCHANGED <<pc, wire, locked, ledger, auditVars, purge>>

-----------------------------------------------------------------------------
RequestStep(r) ==
    \/ ReplaySend(r) \/ RefuseEarly(r) \/ Compose(r)
    \/ BeginClaim(r) \/ ClaimRolledBack(r) \/ ClaimTaken(r) \/ AnswerTaken(r) \/ CommitClaim(r)
    \/ RecordPreparedMessageId(r) \/ NeverSubmitted(r) \/ Submit(r) \/ ProviderAnswers(r)
    \/ MarkIntentNotSent(r) \/ MarkIntentUnconfirmed(r) \/ SettleFails(r)
    \/ MarkIntentSent(r) \/ MarkSentFails(r)
    \/ LockIntent(r) \/ RecordSent(r) \/ RecordSentFails(r)

CopiesIn(a) == {r \in Request : wire[r] = "accepted" /\ AcctOf[r] = a}

SyncStep ==
    \/ \E a \in Account : \E copies \in SUBSET CopiesIn(a) : LockReconcilableIntents(a, copies)
    \/ \E keys \in SUBSET LockedBySync : FileReconciledIntents(keys)

Next ==
    \/ \E r \in Request : RequestStep(r) \/ Die(r) \/ ProviderDecides(r) \/ LedgerHourPasses(r)
    \/ SyncStep
    \/ \E k \in Key : HourPasses(k) \/ MonthPasses(k)
    \/ SweepUnsettledIntents \/ PurgeSweeps \/ PurgeDeletes
    \/ \E a \in Account : DisconnectMailbox(a)

Spec == Init /\ [][Next]_vars

(***************************************************************************)
(* Fairness.  A request that is running takes its next step or dies; a     *)
(* page transaction ends; an hour passes; the scheduler sweeps on every    *)
(* tick.  The sweep waits in a row lock's queue, so holders that come and  *)
(* go cannot keep it out: strong fairness.                                 *)
(***************************************************************************)
Fairness ==
    /\ \A r \in Request : WF_vars(pc[r] # "idle" /\ (RequestStep(r) \/ Die(r)))
    /\ WF_vars(\E keys \in SUBSET LockedBySync : FileReconciledIntents(keys))
    /\ \A k \in Key : SF_vars(HourPasses(k))
    /\ SF_vars(SweepUnsettledIntents)
    /\ WF_vars(PurgeDeletes)

FairSpec == Spec /\ Fairness

-----------------------------------------------------------------------------
(***************************************************************************)
(* What is checked.                                                        *)
(***************************************************************************)
Mailed == {r \in Request : wire[r] = "accepted"}
MayStillMail == {r \in Request : wire[r] \in {"inflight", "accepted"}}

(* No double mail: of all the requests that claimed one row while it has     *)
(* existed - concurrent duplicates, retries after a refusal, retries after   *)
(* a crash - at most one handed the provider a message it may take.          *)
AtMostOneMail ==
    \A r, s \in attempts \cap MayStillMail : KeyOf[r] = KeyOf[s] => r = s

(* A failure the client may retry is a failure: when a request was told that *)
(* nothing was sent, or its row says so, its message is not with the         *)
(* provider and never will be (sendOutcome.ts: SEND_NOT_SENT is safe to      *)
(* send again).                                                             *)
RefusalSentNothing ==
    \A r \in Request :
        \/ pc[r] \in {"send_failed", "limited", "record_gone", "refused_early"}
        \/ r \in attempts /\ claimant[KeyOf[r]] = r /\ status[KeyOf[r]] = "not_sent"
        => r \notin MayStillMail

(* A message is filed - linked, given its activity and its email_sent entry  *)
(* - at most once, by the request or by the sync page, and only when the     *)
(* provider took it.                                                        *)
FiledOnce == \A r \in Request : filings[r] <= 1 /\ (filings[r] = 1 => r \in Mailed)

(* The evidence is true: a repeat told that its message was sent, a row that  *)
(* says so, and an audit entry with provider_confirmed, each have a message  *)
(* of that key at the provider.                                             *)
EvidenceIsTrue ==
    /\ \A r \in Request : pc[r] \in {"already_sent", "replayed", "ok", "sent_not_recorded"}
            => \E s \in Mailed : KeyOf[s] = KeyOf[r]
    /\ \A k \in Key : status[k] \in {"sent", "filed"} => claimant[k] \in Mailed
    /\ \A r \in Request : reported[r] = "confirmed" => r \in Mailed

(* However claims interleave, no user has more than the ceiling counted in    *)
(* one hour.                                                                *)
CeilingHolds == EnforceLimit => \A u \in User : Cardinality(CountedSends(u)) <= MaxPerHour

(* An entry leaves the ledger early only with a refusal that sent nothing:    *)
(* no step that changes a row uncounts a message that may have gone.         *)
OnlyRefusalsUncounted ==
    [][status' # status => (ledger \ ledger') \cap MayStillMail = {}]_vars

(* No intent is deleted without its audit entry (sweepUnsettledIntents): a    *)
(* row is settled before it goes.                                           *)
NoIntentDeletedUnaudited ==
    [][\A k \in Key : status'[k] = "absent" => status[k] \notin Unsettled]_vars

(* Every claimed send is settled in the end: refused, reported or filed,      *)
(* whatever died on the way.                                                *)
EverySendSettles ==
    \A k \in Key : status[k] \in Unsettled ~> status[k] \notin Unsettled

(* A message the provider took is in the audit log in the end, filed or       *)
(* reported, as long as its mailbox stays connected.                        *)
EveryMailAudited ==
    \A r \in Request :
        r \in Mailed ~> filings[r] > 0 \/ reported[r] # "no" \/ AcctOf[r] \notin connected

(***************************************************************************)
(* The row, the requests and the locks implement the promise of the key.    *)
(***************************************************************************)
CountOf(set, k) == IF \E r \in set \cap attempts : KeyOf[r] = k THEN 1 ELSE 0

StageOf == [absent |-> "unused", pending |-> "trying", sent |-> "trying",
            not_sent |-> "refused", unconfirmed |-> "doubtful", filed |-> "filed"]

Promise == INSTANCE SendPromise WITH
               stage  <- [k \in Key |-> StageOf[status[k]]],
               mailed <- [k \in Key |-> CountOf(Mailed, k)],
               filed  <- [k \in Key |-> CountOf({r \in Request : filings[r] > 0}, k)]

(* Every behaviour of the code's protocol is one the promise allows.          *)
KeepsPromise == Promise!Spec
=============================================================================
