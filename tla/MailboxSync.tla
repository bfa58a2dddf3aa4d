----------------------------- MODULE MailboxSync -----------------------------
(***************************************************************************)
(* Reading one mailbox: emailSyncService.ts, with the scheduling columns of *)
(* connectedAccountService.ts and the jobs of emailSyncJobService.ts.       *)
(*                                                                         *)
(* A worker is the sync tick of one server process: ticks of one process    *)
(* never overlap (skipWhileRunning), ticks of two processes are kept apart  *)
(* only by sync_next_attempt_at, which a claim pushes forward for the       *)
(* length of a lease and which a slow tick outlives.  Every await of a tick *)
(* is a value of pc.                                                       *)
(*                                                                         *)
(* The provider holds messages 1..delivered in the order it lists them.  A  *)
(* cursor is a position in that order under the numbering that issued it;   *)
(* the provider refuses a cursor of another numbering.  "stored" is what    *)
(* the engine has dealt with: ingested, or dropped by an exclusion list.    *)
(***************************************************************************)
EXTENDS Integers

CONSTANTS
    Worker,            \* processes that run the scheduler
    OAuth,             \* FALSE for a mailbox read with a password
    MaxMail,           \* bound: messages ever delivered
    MaxNumberings,     \* bound: numberings the mailbox goes through
    PageSize,          \* messages the provider returns at most in one page
    MaxPagesPerTick,   \* MAX_BACKFILL_PAGES_PER_TICK
    MaxSyncFailures    \* MAX_SYNC_FAILURES

ASSUME MailboxSyncConstants ==
    /\ OAuth \in BOOLEAN
    /\ MaxMail \in Nat
    /\ MaxNumberings \in Nat \ {0}
    /\ PageSize \in Nat \ {0}
    /\ MaxPagesPerTick \in Nat \ {0}
    /\ MaxSyncFailures \in Nat \ {0}

VARIABLES
    \* the provider
    delivered,    \* how many messages it holds
    numbering,    \* which numbering its cursors are issued under
    credential,   \* "valid" or "dying" (grant revoked) while the access token
                  \* lives, "stale" or "dead" once it has expired
    \* the row of connected_accounts
    cursor,       \* sync_cursor
    nextAttempt,  \* sync_next_attempt_at: null, in the future, or past
    failures,     \* sync_failure_count
    status,
    paused,       \* sync_paused_at is set
    stored,       \* messages the engine has dealt with
    \* the newest row of email_sync_jobs
    job,
    floor,        \* messages delivered when that job was opened
    \* the workers
    pc,
    held,         \* the cursor the tick goes on from
    page,         \* the page the provider answered with
    pagesLeft,    \* of MAX_BACKFILL_PAGES_PER_TICK
    handle,       \* the job of the tick: none, the newest, or an older one
    \* what was written down, and what was read after a pause
    suspensions,  \* connected_account_sync_suspended entries of this retirement
    revocations,  \* an entry for a dead credential in this retirement
    readsPaused   \* pages each worker asked for since the mailbox was paused

provider == <<delivered, numbering>>
schedule == <<nextAttempt, failures, status>>
audit == <<suspensions, revocations>>
jobs == <<job, floor, handle>>
tick == <<pc, held, page, pagesLeft, readsPaused>>
vars == <<provider, credential, cursor, schedule, paused, stored, jobs, tick, audit>>

(* No cursor: no numbering issued it, and reading from it starts at the top. *)
NoCursor == [numbering |-> 0, pos |-> 0]
Cursor == {NoCursor} \cup [numbering : 1..MaxNumberings, pos : 0..MaxMail]
Page == [next : Cursor, hasMore : BOOLEAN]

Reading == {"checking", "fetching", "committing"}
TypeOK ==
    /\ delivered \in 0..MaxMail
    /\ numbering \in 1..MaxNumberings
    /\ credential \in {"valid", "dying", "stale", "dead"}
    /\ cursor \in Cursor
    /\ nextAttempt \in {"null", "future", "past"}
    /\ failures \in Nat
    /\ status \in {"active", "error"}
    /\ paused \in BOOLEAN
    /\ stored \subseteq 1..MaxMail
    /\ job \in {"none", "open", "complete", "failed"}
    /\ floor \in 0..MaxMail
    /\ pc \in [Worker -> Reading \cup {"idle", "claimed", "routing", "opening", "noting",
                                           "completing", "failing", "recording"}]
    /\ held \in [Worker -> Cursor]
    /\ page \in [Worker -> Page]
    /\ pagesLeft \in [Worker -> 0..MaxPagesPerTick]
    /\ handle \in [Worker -> {"none", "newest", "older"}]
    /\ suspensions \in Nat
    /\ revocations \in BOOLEAN
    /\ readsPaused \in [Worker -> Nat]

NoPage == [next |-> NoCursor, hasMore |-> FALSE]

Init ==
    /\ delivered \in 0..MaxMail
    /\ numbering = 1
    /\ credential = "valid"
    /\ cursor = NoCursor
    /\ nextAttempt = "null"
    /\ failures = 0
    /\ status = "active"
    /\ paused = FALSE
    /\ stored = {}
    /\ job = "none"
    /\ floor = 0
    /\ pc = [w \in Worker |-> "idle"]
    /\ held = [w \in Worker |-> NoCursor]
    /\ page = [w \in Worker |-> NoPage]
    /\ pagesLeft = [w \in Worker |-> 0]
    /\ handle = [w \in Worker |-> "none"]
    /\ suspensions = 0
    /\ revocations = FALSE
    /\ readsPaused = [w \in Worker |-> 0]

-----------------------------------------------------------------------------
(***************************************************************************)
(* Helpers.                                                                *)
(***************************************************************************)
(* A tick's locals mean nothing once it is over.                             *)
EndTick(w) ==
    /\ pc' = [pc EXCEPT ![w] = "idle"]
    /\ held' = [held EXCEPT ![w] = NoCursor]
    /\ page' = [page EXCEPT ![w] = NoPage]
    /\ pagesLeft' = [pagesLeft EXCEPT ![w] = 0]
    /\ handle' = [handle EXCEPT ![w] = "none"]
    /\ readsPaused' = [readsPaused EXCEPT ![w] = 0]

Goto(w, p) ==
    /\ pc' = [pc EXCEPT ![w] = p]
    /\ UNCHANGED <<held, page, pagesLeft, handle, readsPaused>>

(* The mailbox stopped syncing until its owner acts.                        *)
Retired == failures >= MaxSyncFailures /\ nextAttempt = "null"

(* Mutant of Due: a failed mailbox is not claimed, the retry never taken.    *)
DueIfHealthy == /\ nextAttempt # "future"
                /\ failures < MaxSyncFailures
                /\ ~paused
                /\ status = "active"

(* The claim query's predicate.  Status excludes nothing it can be here.     *)
Due == /\ nextAttempt # "future"
       /\ failures < MaxSyncFailures
       /\ ~paused
       /\ status \in {"active", "error"}

(* Back in the schedule: the counter and the due time are cleared.           *)
Rearm ==
    /\ status' = "active"
    /\ failures' = 0
    /\ suspensions' = 0
    /\ revocations' = FALSE

(* Mutant of MarkAuthExpired: the mailbox keeps the due time it had.         *)
MarkAuthExpiredUnparked ==
    /\ status' = "error"
    /\ failures' = MaxSyncFailures
    /\ revocations' = TRUE
    /\ UNCHANGED <<nextAttempt, suspensions>>

(* markAuthExpired: the provider answered that the grant is gone.            *)
MarkAuthExpired ==
    /\ status' = "error"
    /\ failures' = MaxSyncFailures
    /\ nextAttempt' = "null"
    /\ revocations' = TRUE
    /\ UNCHANGED suspensions

(* Mutant of OwnsOpenJob: the updates go by the id of the job alone.         *)
OwnsJob(w) == handle[w] = "newest"

(* The tick's updates of its job match only while that job is unfinished.    *)
OwnsOpenJob(w) == handle[w] = "newest" /\ job = "open"

(* Mutant of NeedsBackfill: the cursor alone, which every page advances.     *)
NeedsBackfillByCursor(w) == held[w] = NoCursor

(* Backfill, rather than one incremental page.                              *)
NeedsBackfill(w) == held[w] = NoCursor \/ job = "open"

(* What fetchSince answers to a cursor: refused, or the next messages.       *)
PageFrom(c) ==
    IF c # NoCursor /\ c.numbering # numbering THEN NoPage
    ELSE LET top == IF c.pos + PageSize < delivered THEN c.pos + PageSize ELSE delivered
         IN [next |-> [numbering |-> numbering, pos |-> top], hasMore |-> top < delivered]

(* The messages a page stores when it moves the cursor from one position to  *)
(* another.  Mutants: the one before it as well, and all but the last.       *)
DealtOneMore(from, to) == from..to
DealtButLast(from, to) == from + 1..to - 1
Dealt(from, to) == from + 1..to

(* The cursor a page leaves; null once the provider refused the last one.    *)
CursorAfter(w) == page[w].next

-----------------------------------------------------------------------------
(***************************************************************************)
(* A tick.                                                                 *)
(***************************************************************************)
(* claimAccountsDueForSync: the claim is a write, good for one lease.        *)
Claim(w) ==
    /\ pc[w] = "idle"
    /\ Due
    /\ nextAttempt' = "future"
    /\ pc' = [pc EXCEPT ![w] = "claimed"]
    /\ held' = [held EXCEPT ![w] = cursor]
    /\ UNCHANGED <<provider, credential, cursor, failures, status, paused, stored, jobs, page,
                   pagesLeft, audit, readsPaused>>

(* The feature flag is off for the mailbox's owner; the lease stays taken.   *)
SkipByFlag(w) ==
    /\ pc[w] = "claimed"
    /\ EndTick(w)
    /\ UNCHANGED <<provider, credential, cursor, schedule, paused, stored, job, floor, audit>>

(* getAccountAuthForSync.  The row stays locked across the refresh, so the   *)
(* check, the provider's answer and the write are one step.                 *)
Authorize(w) ==
    /\ pc[w] = "claimed"
    /\ credential # "dead"
    /\ credential' = IF credential = "stale" THEN "valid" ELSE credential
    /\ status' = IF credential = "stale" THEN "active" ELSE status
    /\ Goto(w, "routing")
    /\ UNCHANGED <<provider, cursor, nextAttempt, failures, paused, stored, job, floor, audit>>

RefreshRefused(w) ==
    /\ pc[w] = "claimed"
    /\ credential = "dead"
    /\ MarkAuthExpired
    /\ Goto(w, "recording")
    /\ UNCHANGED <<provider, credential, cursor, paused, stored, job, floor>>

Route(w) ==
    /\ pc[w] = "routing"
    /\ IF NeedsBackfill(w)
       THEN Goto(w, "opening")
       ELSE /\ pc' = [pc EXCEPT ![w] = "checking"]
            /\ pagesLeft' = [pagesLeft EXCEPT ![w] = 1]
            /\ UNCHANGED <<held, page, handle, readsPaused>>
    /\ UNCHANGED <<provider, credential, cursor, schedule, paused, stored, job, floor, audit>>

(* createEmailSyncJob: adopt the unfinished job or open one.  A new job makes *)
(* an older one of the job any other tick still holds.                      *)
CreateEmailSyncJob(w) ==
    /\ pc[w] = "opening"
    /\ pc' = [pc EXCEPT ![w] = "checking"]
    /\ pagesLeft' = [pagesLeft EXCEPT ![w] = MaxPagesPerTick]
    /\ IF job = "open"
       THEN /\ handle' = [handle EXCEPT ![w] = "newest"]
            /\ UNCHANGED <<job, floor>>
       ELSE /\ job' = "open"
            /\ floor' = delivered
            /\ handle' = [v \in Worker |-> IF v = w THEN "newest"
                                           ELSE IF handle[v] = "newest" THEN "older"
                                           ELSE handle[v]]
    /\ UNCHANGED <<provider, credential, cursor, schedule, paused, stored, held, page, audit,
                   readsPaused>>

(* Mutant of CheckPaused: the pause is read before the first page only.      *)
CheckPausedOnce(w) ==
    /\ pc[w] = "checking"
    /\ IF paused /\ pagesLeft[w] = MaxPagesPerTick THEN EndTick(w) ELSE Goto(w, "fetching")
    /\ UNCHANGED <<provider, credential, cursor, schedule, paused, stored, job, floor, audit>>

(* Mutant of CheckPaused: a paused tick ends as if it had read everything.   *)
CheckPausedCompletes(w) ==
    /\ pc[w] = "checking"
    /\ IF paused /\ handle[w] = "none" THEN EndTick(w)
       ELSE Goto(w, IF paused THEN "completing" ELSE "fetching")
    /\ UNCHANGED <<provider, credential, cursor, schedule, paused, stored, job, floor, audit>>

(* isSyncPaused, before every fetch.  A paused tick ends; its job stays open. *)
CheckPaused(w) ==
    /\ pc[w] = "checking"
    /\ IF paused THEN EndTick(w) ELSE Goto(w, "fetching")
    /\ UNCHANGED <<provider, credential, cursor, schedule, paused, stored, job, floor, audit>>

FetchSince(w) ==
    /\ pc[w] = "fetching"
    /\ page' = [page EXCEPT ![w] = PageFrom(held[w])]
    /\ pc' = [pc EXCEPT ![w] = "committing"]
    /\ readsPaused' = IF paused THEN [readsPaused EXCEPT ![w] = @ + 1] ELSE readsPaused
    /\ UNCHANGED <<provider, credential, cursor, schedule, paused, stored, jobs, held, pagesLeft,
                   audit>>

(* commitPage: one transaction for the messages, the cursor and the renewed  *)
(* lease; the failure count is cleared, and the mailbox is healthy again.    *)
CommitPage(w) ==
    /\ pc[w] = "committing"
    /\ stored' = stored \cup Dealt(held[w].pos, page[w].next.pos)
    /\ cursor' = CursorAfter(w)
    /\ nextAttempt' = "future"
    /\ Rearm
    /\ IF handle[w] = "none"
       THEN EndTick(w)
       ELSE /\ pc' = [pc EXCEPT ![w] = "noting"]
            /\ held' = [held EXCEPT ![w] = CursorAfter(w)]
            /\ UNCHANGED <<page, pagesLeft, handle, readsPaused>>
    /\ UNCHANGED <<provider, credential, paused, job, floor>>

(* updateEmailSyncJobProgress, then the end of the loop's body: go on, stop   *)
(* at the budget or at an invalid cursor, or go and complete the job.        *)
UpdateProgress(w) ==
    /\ pc[w] = "noting"
    /\ IF page[w].hasMore /\ pagesLeft[w] > 1
       THEN /\ pc' = [pc EXCEPT ![w] = "checking"]
            /\ pagesLeft' = [pagesLeft EXCEPT ![w] = @ - 1]
            /\ UNCHANGED <<held, page, handle, readsPaused>>
       ELSE IF page[w].hasMore \/ page[w].next = NoCursor THEN EndTick(w)
       ELSE Goto(w, "completing")
    /\ UNCHANGED <<provider, credential, cursor, schedule, paused, stored, job, floor, audit>>

CompleteEmailSyncJob(w) ==
    /\ pc[w] = "completing"
    /\ job' = IF OwnsOpenJob(w) THEN "complete" ELSE job
    /\ EndTick(w)
    /\ UNCHANGED <<provider, credential, cursor, schedule, paused, stored, floor, audit>>

(* The provider, or a statement of the engine, throws: a refresh that met no  *)
(* verdict, a failed fetch, a page that rolls back.  A backfill fails its    *)
(* job before the failure is recorded; that write may throw as well.         *)
SyncThrows(w) ==
    /\ pc[w] \in Reading \cup {"claimed", "routing", "opening", "noting", "completing", "failing"}
    /\ Goto(w, IF handle[w] = "none" \/ pc[w] = "failing" THEN "recording" ELSE "failing")
    /\ UNCHANGED <<provider, credential, cursor, schedule, paused, stored, job, floor, audit>>

FailEmailSyncJob(w) ==
    /\ pc[w] = "failing"
    /\ job' = IF OwnsOpenJob(w) THEN "failed" ELSE job
    /\ Goto(w, "recording")
    /\ UNCHANGED <<provider, credential, cursor, schedule, paused, stored, floor, audit>>

(* One more failure, on the stored count: backed off, or retired and audited. *)
CountFailure ==
    /\ failures' = failures + 1
    /\ status' = "error"
    /\ IF failures + 1 >= MaxSyncFailures
       THEN nextAttempt' = "null" /\ suspensions' = suspensions + 1
       ELSE nextAttempt' = "future" /\ UNCHANGED suspensions
    /\ UNCHANGED revocations

(* Mutant of RecordFailure: whatever the row says, the failure counts.       *)
RecordFailureAgain == CountFailure

(* A mailbox the credential path retired is left as it is.                   *)
RecordFailure == IF Retired THEN UNCHANGED <<schedule, audit>> ELSE CountFailure

RecordSyncFailure(w) ==
    /\ pc[w] = "recording"
    /\ RecordFailure
    /\ EndTick(w)
    /\ UNCHANGED <<provider, credential, cursor, paused, stored, job, floor>>

(* The process dies, or a write of the failure itself fails.                 *)
Die(w) ==
    /\ pc[w] # "idle"
    /\ EndTick(w)
    /\ UNCHANGED <<provider, credential, cursor, schedule, paused, stored, job, floor, audit>>

-----------------------------------------------------------------------------
(***************************************************************************)
(* Time, the owner, the nightly retention job and the provider.            *)
(***************************************************************************)
(* A lease or a backoff runs out, whether or not its tick is over.           *)
DueTimePasses ==
    /\ nextAttempt = "future"
    /\ nextAttempt' = "past"
    /\ UNCHANGED <<provider, credential, cursor, failures, status, paused, stored, jobs, tick,
                   audit>>

(* failStaleEmailSyncJobs, once a day went by without progress on the job.   *)
FailStaleEmailSyncJobs ==
    /\ job = "open"
    /\ job' = "failed"
    /\ UNCHANGED <<provider, credential, cursor, schedule, paused, stored, floor, handle, tick,
                   audit>>

SetPaused ==
    /\ paused' = ~paused
    /\ readsPaused' = [w \in Worker |-> 0]
    /\ UNCHANGED <<provider, credential, cursor, schedule, stored, jobs, pc, held, page, pagesLeft,
                   audit>>

(* A refresh a person's request asks for: a send, or a connection test.      *)
PersonRefreshes ==
    /\ credential \in {"stale", "dead"}
    /\ IF credential = "stale"
       THEN /\ credential' = "valid"
            /\ status' = "active"
            /\ UNCHANGED <<failures, nextAttempt, audit>>
       ELSE MarkAuthExpired /\ UNCHANGED credential
    /\ UNCHANGED <<provider, cursor, paused, stored, jobs, tick>>

(* updateAccountStatus after a probe that worked; the access token was fresh. *)
ConnectionTestPasses ==
    /\ credential \in {"valid", "dying"}
    /\ Rearm
    /\ nextAttempt' = "null"
    /\ UNCHANGED <<provider, credential, cursor, paused, stored, jobs, tick>>

(* updateAccountStatus after a probe, or a send, that was refused.           *)
ConnectionRefused ==
    /\ status' = "error"
    /\ UNCHANGED <<provider, credential, cursor, nextAttempt, failures, paused, stored, jobs,
                   tick, audit>>

(* upsertOAuthAccount: the owner consents again.  The cursor is preserved.   *)
Reconnect ==
    /\ OAuth
    /\ credential' = "valid"
    /\ Rearm
    /\ nextAttempt' = "null"
    /\ UNCHANGED <<provider, cursor, paused, stored, jobs, tick>>

Deliver ==
    /\ delivered < MaxMail
    /\ delivered' = delivered + 1
    /\ UNCHANGED <<numbering, credential, cursor, schedule, paused, stored, jobs, tick, audit>>

(* The mailbox is renumbered, or its history ages out.                       *)
Renumber ==
    /\ numbering < MaxNumberings
    /\ numbering' = numbering + 1
    /\ UNCHANGED <<delivered, credential, cursor, schedule, paused, stored, jobs, tick, audit>>

TokenExpires ==
    /\ OAuth
    /\ credential \in {"valid", "dying"}
    /\ credential' = IF credential = "valid" THEN "stale" ELSE "dead"
    /\ UNCHANGED <<provider, cursor, schedule, paused, stored, jobs, tick, audit>>

GrantRevoked ==
    /\ OAuth
    /\ credential \in {"valid", "stale"}
    /\ credential' = IF credential = "valid" THEN "dying" ELSE "dead"
    /\ UNCHANGED <<provider, cursor, schedule, paused, stored, jobs, tick, audit>>

TickStep(w) ==
    \/ Claim(w) \/ SkipByFlag(w) \/ Authorize(w) \/ RefreshRefused(w)
    \/ Route(w) \/ CreateEmailSyncJob(w) \/ CheckPaused(w) \/ FetchSince(w) \/ CommitPage(w)
    \/ UpdateProgress(w) \/ CompleteEmailSyncJob(w) \/ SyncThrows(w) \/ FailEmailSyncJob(w)
    \/ RecordSyncFailure(w)

OwnerStep == SetPaused \/ PersonRefreshes \/ ConnectionTestPasses \/ ConnectionRefused \/ Reconnect
ProviderStep == Deliver \/ Renumber \/ TokenExpires \/ GrantRevoked

Next ==
    \/ \E w \in Worker : TickStep(w) \/ Die(w)
    \/ DueTimePasses
    \/ FailStaleEmailSyncJobs
    \/ OwnerStep
    \/ ProviderStep

Spec == Init /\ [][Next]_vars

(***************************************************************************)
(* Fairness: every process keeps ticking, a tick keeps stepping, and due     *)
(* times pass.  Crashes, failures and the owner's feature flag may strike    *)
(* any tick at any step, but not the same step of every tick for ever.       *)
(***************************************************************************)
Fairness ==
    /\ \A w \in Worker :
         /\ WF_vars(TickStep(w))
         /\ SF_vars(Authorize(w) \/ RefreshRefused(w))
         /\ SF_vars(Route(w))
         /\ SF_vars(CreateEmailSyncJob(w))
         /\ SF_vars(CheckPaused(w))
         /\ SF_vars(FetchSince(w))
         /\ SF_vars(CommitPage(w))
         /\ SF_vars(UpdateProgress(w))
         /\ SF_vars(CompleteEmailSyncJob(w))
    /\ WF_vars(DueTimePasses)

FairSpec == Spec /\ Fairness

-----------------------------------------------------------------------------
(***************************************************************************)
(* What must hold.                                                         *)
(***************************************************************************)
(* No cursor passes a message that was not dealt with: not the stored one,   *)
(* and not one a tick goes on from, however ticks overlap, die or meet a     *)
(* renumbered mailbox ("would skip that mail permanently", syncOneAccount).  *)
NoMailSkipped ==
    /\ 1..cursor.pos \subseteq stored
    /\ \A w \in Worker : 1..held[w].pos \subseteq stored

(* A job said to be complete has read everything the mailbox held when it    *)
(* was opened, also if a pause, a death or another tick came in between.     *)
CompletedJobReadItAll == job = "complete" => 1..floor \subseteq stored

(* A pause stops a running tick at the next page (isSyncPaused): each tick   *)
(* reads at most the one page whose check came before the pause.            *)
PauseStopsReading == \A w \in Worker : readsPaused[w] <= 1

(* The failure count never passes its ceiling; at the ceiling the mailbox is *)
(* parked, and its retirement was audited, as a suspension at most once.     *)
RetirementIsAudited ==
    /\ failures <= MaxSyncFailures
    /\ failures = MaxSyncFailures =>
         /\ nextAttempt = "null"
         /\ suspensions = 1 \/ revocations
    /\ suspensions <= 1

(* A retired mailbox gets no next attempt until its owner tests it or        *)
(* consents again (recordSyncFailure, markAuthExpired, migration 175).       *)
RetiredWaitsForOwner == [][Retired /\ ~Retired' => ConnectionTestPasses \/ Reconnect]_vars

(* While a mailbox is paused and no tick runs, its backfill job stays open   *)
(* ("Its job stays open, and resuming carries on from the cursor").          *)
PausedJobStaysOpen ==
    [][paused /\ job = "open" /\ (\A w \in Worker : pc[w] = "idle") => job' = "open"]_vars

(* Mail is read in the end, all of it, unless its owner pauses the mailbox   *)
(* or it retires: no crash, failure, lease or renumbering leaves any unread. *)
MailIsRead ==
    ~(1..delivered \subseteq stored) ~> (1..delivered \subseteq stored \/ paused \/ Retired)

(* An open job is finished in the end, on the same terms: a tick adopts a    *)
(* job that another left, whatever the cursor says.                         *)
JobsEnd == job = "open" ~> (job # "open" \/ paused \/ Retired)

(***************************************************************************)
(* The workers, their cursors and their jobs implement what reading a        *)
(* mailbox promises its owner.                                             *)
(***************************************************************************)
Promise == INSTANCE MailboxPromise WITH position <- cursor.pos

(* Every behaviour of ticks, owner and provider is one the promise allows.    *)
KeepsPromise == Promise!Spec
=============================================================================
