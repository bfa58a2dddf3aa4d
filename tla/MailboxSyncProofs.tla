-------------------------- MODULE MailboxSyncProofs --------------------------
(***************************************************************************)
(* Proofs about MailboxSync, for any number of workers and messages, any    *)
(* page size and budget, and any failure ceiling.                          *)
(***************************************************************************)
EXTENDS MailboxSync, TLAPS

(* The locals of the ticks have their types.                                *)
TickTypeOK ==
    /\ pc \in [Worker -> Reading \cup {"idle", "claimed", "routing", "opening", "noting",
                                       "completing", "failing", "recording"}]
    /\ held \in [Worker -> Cursor]
    /\ page \in [Worker -> Page]
    /\ pagesLeft \in [Worker -> 0..MaxPagesPerTick]
    /\ handle \in [Worker -> {"none", "newest", "older"}]
    /\ readsPaused \in [Worker -> Nat]

(* The end of a tick resets its locals within their types.                  *)
LEMMA EndTickTyped == ASSUME TypeOK, NEW w \in Worker, EndTick(w) PROVE TickTypeOK'
<1>1. NoCursor \in Cursor /\ NoPage \in Page
  BY DEF Cursor, Page, NoPage, NoCursor
<1>2. 0 \in 0..MaxPagesPerTick
  BY MailboxSyncConstants
<1> QED  BY <1>1, <1>2 DEF TypeOK, TickTypeOK, EndTick

(* So does going on to another step.                                       *)
LEMMA GotoTyped ==
  ASSUME TypeOK, NEW w \in Worker,
         NEW p \in Reading \cup {"noting", "completing", "failing", "recording", "routing",
                                "opening"},
         Goto(w, p)
  PROVE  TickTypeOK'
BY DEF TypeOK, TickTypeOK, Goto

(* Every step keeps the type of every variable.                             *)
LEMMA TypeStep == TypeOK /\ [Next]_vars => TypeOK'
<1> USE MailboxSyncConstants
<1> SUFFICES ASSUME TypeOK, [Next]_vars PROVE TypeOK'
  OBVIOUS
<1>1. ASSUME NEW w \in Worker, TickStep(w) PROVE TypeOK'
  <2>1. CASE Claim(w)
    BY <2>1 DEF TypeOK, Claim, Due, provider, jobs, audit, Reading
  <2>2. CASE SkipByFlag(w)
    BY <2>2, EndTickTyped DEF TypeOK, TickTypeOK, SkipByFlag, provider, schedule, audit
  <2>3. CASE Authorize(w)
    BY <2>3 DEF TypeOK, Authorize, Goto, provider, audit, Reading
  <2>4. CASE RefreshRefused(w)
    BY <2>4 DEF TypeOK, RefreshRefused, MarkAuthExpired, Goto, provider, Reading
  <2>5. CASE Route(w)
    BY <2>5 DEF TypeOK, Route, Goto, provider, schedule, audit, Reading
  <2>6. CASE CreateEmailSyncJob(w)
    BY <2>6 DEF TypeOK, CreateEmailSyncJob, provider, schedule, audit, Reading
  <2>7. CASE CheckPaused(w)
    <3>1. TickTypeOK'
      <4>1. CASE paused
        BY <2>7, <4>1, EndTickTyped DEF CheckPaused
      <4>2. CASE ~paused
        BY <2>7, <4>2, GotoTyped DEF CheckPaused, Reading
      <4> QED  BY <4>1, <4>2
    <3> QED  BY <2>7, <3>1 DEF TypeOK, TickTypeOK, CheckPaused, provider, schedule, audit
  <2>8. CASE FetchSince(w)
    <3>1. PageFrom(held[w]) \in Page
      BY DEF TypeOK, PageFrom, Page, NoPage, NoCursor, Cursor
    <3> QED  BY <2>8, <3>1 DEF TypeOK, FetchSince, provider, schedule, jobs, audit, Reading
  <2>9. CASE CommitPage(w)
    <3>1. CursorAfter(w) \in Cursor
      BY DEF TypeOK, CursorAfter, Page
    <3>2. Dealt(held[w].pos, page[w].next.pos) \subseteq 1..MaxMail
      BY DEF TypeOK, Dealt, Page, Cursor, NoCursor
    <3>3. TickTypeOK'
      <4>1. CASE handle[w] = "none"
        BY <2>9, <4>1, EndTickTyped DEF CommitPage
      <4>2. CASE handle[w] # "none"
        BY <2>9, <3>1, <4>2 DEF TypeOK, TickTypeOK, CommitPage
      <4> QED  BY <4>1, <4>2
    <3> QED  BY <2>9, <3>1, <3>2, <3>3 DEF TypeOK, TickTypeOK, CommitPage, Rearm, provider
  <2>10. CASE UpdateProgress(w)
    <3>1. TickTypeOK'
      <4>1. CASE page[w].hasMore /\ pagesLeft[w] > 1
        BY <2>10, <4>1 DEF TypeOK, TickTypeOK, UpdateProgress, Reading
      <4>2. CASE ~(page[w].hasMore /\ pagesLeft[w] > 1) /\ (page[w].hasMore \/ page[w].next = NoCursor)
        BY <2>10, <4>2, EndTickTyped DEF UpdateProgress
      <4>3. CASE ~page[w].hasMore /\ page[w].next # NoCursor
        BY <2>10, <4>3, GotoTyped DEF UpdateProgress
      <4> QED  BY <4>1, <4>2, <4>3 DEF TypeOK, Page
    <3> QED  BY <2>10, <3>1 DEF TypeOK, TickTypeOK, UpdateProgress, provider, schedule, audit
  <2>11. CASE CompleteEmailSyncJob(w)
    BY <2>11, EndTickTyped DEF TypeOK, TickTypeOK, CompleteEmailSyncJob, provider, schedule, audit
  <2>12. CASE SyncThrows(w)
    BY <2>12 DEF TypeOK, SyncThrows, Goto, provider, schedule, audit, Reading
  <2>13. CASE FailEmailSyncJob(w)
    BY <2>13 DEF TypeOK, FailEmailSyncJob, Goto, provider, schedule, audit, Reading
  <2>14. CASE RecordSyncFailure(w)
    BY <2>14, EndTickTyped DEF TypeOK, TickTypeOK, RecordSyncFailure, RecordFailure, CountFailure,
              provider, schedule, audit
  <2> QED  BY <1>1, <2>1, <2>2, <2>3, <2>4, <2>5, <2>6, <2>7, <2>8, <2>9, <2>10, <2>11, <2>12, <2>13, <2>14
            DEF TickStep
<1>2. ASSUME NEW w \in Worker, Die(w) PROVE TypeOK'
  BY <1>2, EndTickTyped DEF TypeOK, TickTypeOK, Die, provider, schedule, audit
<1>3. CASE DueTimePasses
  BY <1>3 DEF TypeOK, DueTimePasses, provider, jobs, tick, audit
<1>4. CASE FailStaleEmailSyncJobs
  BY <1>4 DEF TypeOK, FailStaleEmailSyncJobs, provider, schedule, tick, audit
<1>5. CASE OwnerStep
  <2>1. CASE SetPaused
    BY <2>1 DEF TypeOK, SetPaused, provider, schedule, jobs, audit
  <2>2. CASE PersonRefreshes
    BY <2>2 DEF TypeOK, PersonRefreshes, MarkAuthExpired, provider, jobs, tick, audit
  <2>3. CASE ConnectionTestPasses
    BY <2>3 DEF TypeOK, ConnectionTestPasses, Rearm, provider, jobs, tick
  <2>4. CASE ConnectionRefused
    BY <2>4 DEF TypeOK, ConnectionRefused, provider, jobs, tick, audit
  <2>5. CASE Reconnect
    BY <2>5 DEF TypeOK, Reconnect, Rearm, provider, jobs, tick
  <2> QED  BY <1>5, <2>1, <2>2, <2>3, <2>4, <2>5 DEF OwnerStep
<1>6. CASE ProviderStep
  <2>1. CASE Deliver
    BY <2>1 DEF TypeOK, Deliver, schedule, jobs, tick, audit
  <2>2. CASE Renumber
    BY <2>2 DEF TypeOK, Renumber, schedule, jobs, tick, audit
  <2>3. CASE TokenExpires
    BY <2>3 DEF TypeOK, TokenExpires, provider, schedule, jobs, tick, audit
  <2>4. CASE GrantRevoked
    BY <2>4 DEF TypeOK, GrantRevoked, provider, schedule, jobs, tick, audit
  <2> QED  BY <1>6, <2>1, <2>2, <2>3, <2>4 DEF ProviderStep
<1>7. CASE UNCHANGED vars
  BY <1>7 DEF TypeOK, vars, provider, schedule, jobs, tick, audit
<1> QED  BY <1>1, <1>2, <1>3, <1>4, <1>5, <1>6, <1>7 DEF Next

(* The type invariant of the mailbox, its job and its ticks.                 *)
THEOREM MailboxTypeCorrect == Spec => []TypeOK
<1>1. ASSUME Init PROVE TypeOK
  <2>1. NoCursor \in Cursor
    BY DEF Cursor
  <2>2. NoPage \in Page
    BY <2>1 DEF Page, NoPage
  <2>3. /\ 0 \in 0..MaxMail /\ 1 \in 1..MaxNumberings /\ 0 \in 0..MaxPagesPerTick
        /\ {} \subseteq 1..MaxMail
    BY MailboxSyncConstants
  <2>4. TickTypeOK
    BY <1>1, <2>1, <2>2, <2>3 DEF Init, TickTypeOK
  <2>5. /\ delivered \in 0..MaxMail /\ numbering \in 1..MaxNumberings /\ floor \in 0..MaxMail
        /\ stored \subseteq 1..MaxMail /\ cursor \in Cursor
        /\ failures \in Nat /\ suspensions \in Nat
    BY <1>1, <2>1, <2>3 DEF Init
  <2> QED  BY <1>1, <2>4, <2>5 DEF Init, TypeOK, TickTypeOK
<1> QED  BY <1>1, TypeStep, PTL DEF Spec

-----------------------------------------------------------------------------
(***************************************************************************)
(* No message is skipped.  The invariant is inductive as it stands: a tick   *)
(* commits the messages from the position it holds, so the next position is  *)
(* covered by what was stored up to there and by the page itself.           *)
(***************************************************************************)
LEMMA NoSkipStep == TypeOK /\ NoMailSkipped /\ [Next]_vars => NoMailSkipped'
<1> SUFFICES ASSUME TypeOK, NoMailSkipped, [Next]_vars PROVE NoMailSkipped'
  OBVIOUS
<1>1. ASSUME NEW w \in Worker, EndTick(w), UNCHANGED <<cursor, stored>> PROVE NoMailSkipped'
  <2>1. 1..NoCursor.pos = {}
    BY DEF NoCursor
  <2> QED  BY <1>1, <2>1 DEF NoMailSkipped, EndTick, TypeOK
<1>2. ASSUME UNCHANGED <<cursor, held, stored>> PROVE NoMailSkipped'
  BY <1>2 DEF NoMailSkipped
<1>3. ASSUME NEW w \in Worker, Claim(w) PROVE NoMailSkipped'
  BY <1>3 DEF NoMailSkipped, Claim, TypeOK
<1>4. ASSUME NEW w \in Worker, CommitPage(w) PROVE NoMailSkipped'
  <2>1. /\ cursor' = page[w].next
        /\ stored' = stored \cup Dealt(held[w].pos, page[w].next.pos)
    BY <1>4 DEF CommitPage, CursorAfter
  <2>2. held[w].pos \in Nat /\ page[w].next.pos \in Nat
    BY DEF TypeOK, Page, Cursor, NoCursor
  <2>3. 1..page[w].next.pos \subseteq stored'
    <3> SUFFICES ASSUME NEW m \in 1..page[w].next.pos PROVE m \in stored'
      OBVIOUS
    <3>1. CASE m <= held[w].pos
      BY <2>1, <2>2, <3>1 DEF NoMailSkipped
    <3>2. CASE m > held[w].pos
      BY <2>1, <2>2, <3>2 DEF Dealt
    <3> QED  BY <2>2, <3>1, <3>2
  <2>4. ASSUME NEW v \in Worker PROVE 1..held'[v].pos \subseteq stored'
    <3>1. CASE v # w \/ held'[v] = held[v]
      BY <1>4, <2>1, <3>1 DEF NoMailSkipped, CommitPage, EndTick, TypeOK
    <3>2. CASE v = w /\ handle[w] = "none"
      <4>1. held'[w] = NoCursor
        BY <1>4, <3>2 DEF CommitPage, EndTick, TypeOK
      <4> QED  BY <3>2, <4>1 DEF NoCursor
    <3>3. CASE v = w /\ handle[w] # "none"
      BY <1>4, <2>3, <3>3 DEF CommitPage, CursorAfter, TypeOK
    <3> QED  BY <3>1, <3>2, <3>3
  <2> QED  BY <2>1, <2>3, <2>4 DEF NoMailSkipped
<1>5. ASSUME NEW w \in Worker, TickStep(w) PROVE NoMailSkipped'
  <2>1. CASE SkipByFlag(w) \/ CompleteEmailSyncJob(w) \/ RecordSyncFailure(w)
    BY <1>1, <2>1 DEF SkipByFlag, CompleteEmailSyncJob, RecordSyncFailure
  <2>2. CASE \/ Authorize(w) \/ RefreshRefused(w) \/ Route(w) \/ CreateEmailSyncJob(w)
             \/ FetchSince(w) \/ SyncThrows(w) \/ FailEmailSyncJob(w)
    BY <1>2, <2>2 DEF Authorize, RefreshRefused, Route, CreateEmailSyncJob, FetchSince, SyncThrows,
                      FailEmailSyncJob, Goto
  <2>3. CASE CheckPaused(w)
    BY <1>1, <1>2, <2>3 DEF CheckPaused, Goto
  <2>4. CASE UpdateProgress(w)
    BY <1>1, <1>2, <2>4 DEF UpdateProgress, Goto
  <2> QED  BY <1>3, <1>4, <1>5, <2>1, <2>2, <2>3, <2>4 DEF TickStep
<1>6. ASSUME NEW w \in Worker, Die(w) PROVE NoMailSkipped'
  BY <1>1, <1>6 DEF Die
<1>7. CASE DueTimePasses \/ FailStaleEmailSyncJobs \/ OwnerStep \/ ProviderStep \/ UNCHANGED vars
  BY <1>2, <1>7 DEF DueTimePasses, FailStaleEmailSyncJobs, OwnerStep, SetPaused, PersonRefreshes,
                    ConnectionTestPasses, ConnectionRefused, Reconnect, ProviderStep, Deliver, Renumber,
                    TokenExpires, GrantRevoked, tick, vars
<1> QED  BY <1>5, <1>6, <1>7 DEF Next

(* No cursor ever passes a message that was not dealt with.                  *)
THEOREM NothingSkipped == Spec => []NoMailSkipped
<1>1. Init => NoMailSkipped
  BY DEF Init, NoMailSkipped, NoCursor
<1> QED  BY <1>1, NoSkipStep, MailboxTypeCorrect, PTL DEF Spec

-----------------------------------------------------------------------------
(***************************************************************************)
(* The failure ceiling.  Below it no suspension is on record, so the step    *)
(* that reaches it writes the one entry; at it the mailbox is parked, so no  *)
(* failure is counted past it.                                             *)
(***************************************************************************)
RetirementInv ==
    /\ RetirementIsAudited
    /\ failures < MaxSyncFailures => suspensions = 0

LEMMA RetirementStep == TypeOK /\ RetirementInv /\ [Next]_vars => RetirementInv'
<1> USE MailboxSyncConstants
<1> SUFFICES ASSUME TypeOK, RetirementInv, [Next]_vars PROVE RetirementInv'
  OBVIOUS
<1>1. ASSUME UNCHANGED <<failures, nextAttempt, audit>> PROVE RetirementInv'
  BY <1>1 DEF RetirementInv, RetirementIsAudited, audit
<1>2. ASSUME MarkAuthExpired PROVE RetirementInv'
  BY <1>2 DEF RetirementInv, RetirementIsAudited, MarkAuthExpired, TypeOK
<1>3. ASSUME Rearm PROVE RetirementInv'
  BY <1>3 DEF RetirementInv, RetirementIsAudited, Rearm
<1>4. ASSUME failures < MaxSyncFailures \/ nextAttempt # "null",
             UNCHANGED <<failures, audit>>
      PROVE  RetirementInv'
  BY <1>4 DEF RetirementInv, RetirementIsAudited, audit, TypeOK
<1>5. ASSUME RecordFailure PROVE RetirementInv'
  <2>1. CASE Retired
    BY <1>1, <1>5, <2>1 DEF RecordFailure, schedule
  <2>2. CASE ~Retired
    BY <1>5, <2>2 DEF RecordFailure, CountFailure, Retired, RetirementInv, RetirementIsAudited, TypeOK
  <2> QED  BY <2>1, <2>2
<1>6. ASSUME NEW w \in Worker, TickStep(w) PROVE RetirementInv'
  <2>1. CASE Claim(w)
    BY <1>4, <2>1 DEF Claim, Due
  <2>2. CASE RefreshRefused(w)
    BY <1>2, <2>2 DEF RefreshRefused
  <2>3. CASE CommitPage(w)
    BY <1>3, <2>3 DEF CommitPage
  <2>4. CASE RecordSyncFailure(w)
    BY <1>5, <2>4 DEF RecordSyncFailure
  <2>5. CASE \/ SkipByFlag(w) \/ Authorize(w) \/ Route(w) \/ CreateEmailSyncJob(w) \/ CheckPaused(w)
             \/ FetchSince(w) \/ UpdateProgress(w) \/ CompleteEmailSyncJob(w) \/ SyncThrows(w)
             \/ FailEmailSyncJob(w)
    BY <1>1, <2>5 DEF SkipByFlag, Authorize, Route, CreateEmailSyncJob, CheckPaused, FetchSince,
                      UpdateProgress, CompleteEmailSyncJob, SyncThrows, FailEmailSyncJob, schedule
  <2> QED  BY <1>6, <2>1, <2>2, <2>3, <2>4, <2>5 DEF TickStep
<1>7. ASSUME NEW w \in Worker, Die(w) PROVE RetirementInv'
  BY <1>1, <1>7 DEF Die, schedule
<1>8. CASE DueTimePasses
  BY <1>4, <1>8 DEF DueTimePasses
<1>9. CASE OwnerStep
  BY <1>1, <1>2, <1>3, <1>9 DEF OwnerStep, SetPaused, PersonRefreshes, ConnectionTestPasses,
                                ConnectionRefused, Reconnect, schedule
<1>10. CASE FailStaleEmailSyncJobs \/ ProviderStep \/ UNCHANGED vars
  BY <1>1, <1>10 DEF FailStaleEmailSyncJobs, ProviderStep, Deliver, Renumber, TokenExpires, GrantRevoked,
                     schedule, vars
<1> QED  BY <1>6, <1>7, <1>8, <1>9, <1>10 DEF Next

(* The count never passes its ceiling, and a retirement is audited once.     *)
THEOREM RetirementAudited == Spec => []RetirementIsAudited
<1>1. Init => RetirementInv
  BY MailboxSyncConstants DEF Init, RetirementInv, RetirementIsAudited
<1>2. RetirementInv => RetirementIsAudited
  BY DEF RetirementInv
<1> QED  BY <1>1, <1>2, RetirementStep, MailboxTypeCorrect, PTL DEF Spec

(* A step that puts a retired mailbox back into the schedule.                *)
Revives == Retired /\ ~Retired'

LEMMA ReviveStep ==
  TypeOK /\ [Next]_vars
    => [Revives => ConnectionTestPasses \/ Reconnect \/ \E w \in Worker : CommitPage(w)]_vars
<1> USE MailboxSyncConstants
<1> SUFFICES ASSUME TypeOK, Next, Retired,
                    ~(ConnectionTestPasses \/ Reconnect \/ \E w \in Worker : CommitPage(w))
             PROVE  Retired'
  BY DEF Revives, vars
<1>1. ASSUME UNCHANGED <<failures, nextAttempt>> PROVE Retired'
  BY <1>1 DEF Retired
<1>2. ASSUME MarkAuthExpired PROVE Retired'
  BY <1>2 DEF Retired, MarkAuthExpired
<1>3. ASSUME NEW w \in Worker, TickStep(w) PROVE Retired'
  <2>1. ~Claim(w)
    BY DEF Claim, Due, Retired, TypeOK
  <2>2. CASE RefreshRefused(w)
    BY <1>2, <2>2 DEF RefreshRefused
  <2>3. CASE RecordSyncFailure(w)
    BY <1>1, <2>3 DEF RecordSyncFailure, RecordFailure, schedule
  <2>4. CASE \/ SkipByFlag(w) \/ Authorize(w) \/ Route(w) \/ CreateEmailSyncJob(w) \/ CheckPaused(w)
             \/ FetchSince(w) \/ UpdateProgress(w) \/ CompleteEmailSyncJob(w) \/ SyncThrows(w)
             \/ FailEmailSyncJob(w)
    BY <1>1, <2>4 DEF SkipByFlag, Authorize, Route, CreateEmailSyncJob, CheckPaused, FetchSince,
                      UpdateProgress, CompleteEmailSyncJob, SyncThrows, FailEmailSyncJob, schedule
  <2> QED  BY <1>3, <2>1, <2>2, <2>3, <2>4 DEF TickStep
<1>4. ASSUME NEW w \in Worker, Die(w) PROVE Retired'
  BY <1>1, <1>4 DEF Die, schedule
<1>5. ~DueTimePasses
  BY DEF DueTimePasses, Retired
<1>6. CASE OwnerStep
  <2>1. CASE SetPaused \/ ConnectionRefused
    BY <1>1, <2>1 DEF SetPaused, ConnectionRefused, schedule
  <2>2. CASE PersonRefreshes
    BY <1>1, <1>2, <2>2 DEF PersonRefreshes
  <2> QED  BY <1>6, <2>1, <2>2 DEF OwnerStep
<1>7. CASE FailStaleEmailSyncJobs \/ ProviderStep
  BY <1>1, <1>7 DEF FailStaleEmailSyncJobs, ProviderStep, Deliver, Renumber, TokenExpires,
                    GrantRevoked, schedule
<1> QED  BY <1>3, <1>4, <1>5, <1>6, <1>7 DEF Next

(* A retired mailbox goes back into the schedule only by its owner's test or  *)
(* consent, or by a page; and no tick claims it while it is retired, so that    *)
(* the page is one of a tick that had claimed it before: the exception         *)
(* sync_retired exhibits is the only one.                                    *)
THEOREM RetiredUntilOwnerOrPage ==
  Spec => [][/\ Revives => ConnectionTestPasses \/ Reconnect \/ \E w \in Worker : CommitPage(w)
             /\ Retired => \A w \in Worker : ~Claim(w)]_vars
<1>1. TypeOK /\ [Next]_vars => [Retired => \A w \in Worker : ~Claim(w)]_vars
  BY MailboxSyncConstants DEF Claim, Due, Retired, TypeOK
<1> QED  BY <1>1, ReviveStep, MailboxTypeCorrect, PTL DEF Spec

-----------------------------------------------------------------------------
(***************************************************************************)
(* A pause.  A worker that asked for a page since the pause is past the      *)
(* fetch, and its way back to one leads through the check.                  *)
(***************************************************************************)
PauseInv ==
    \A w \in Worker : /\ readsPaused[w] \in {0, 1}
                      /\ readsPaused[w] # 0 => paused /\ pc[w] # "fetching"

LEMMA PauseStep == TypeOK /\ PauseInv /\ [Next]_vars => PauseInv'
<1> SUFFICES ASSUME TypeOK, PauseInv, [Next]_vars PROVE PauseInv'
  OBVIOUS
<1>1. ASSUME NEW w \in Worker, EndTick(w), UNCHANGED paused PROVE PauseInv'
  BY <1>1 DEF PauseInv, EndTick, TypeOK
<1>3. ASSUME UNCHANGED <<paused, readsPaused>>,
             \A v \in Worker : pc'[v] # pc[v] => pc'[v] # "fetching"
      PROVE  PauseInv'
  BY <1>3 DEF PauseInv
<1>4. ASSUME NEW w \in Worker, TickStep(w) PROVE PauseInv'
  <2>1. CASE SkipByFlag(w) \/ CompleteEmailSyncJob(w) \/ RecordSyncFailure(w)
    BY <1>1, <2>1 DEF SkipByFlag, CompleteEmailSyncJob, RecordSyncFailure
  <2>2. CASE Claim(w)
    BY <1>3, <2>2 DEF Claim, TypeOK
  <2>3. CASE Authorize(w) \/ RefreshRefused(w) \/ SyncThrows(w) \/ FailEmailSyncJob(w)
    <3>1. CASE Authorize(w)
      BY <1>3, <2>3, <3>1 DEF Authorize, Goto, TypeOK
    <3>2. CASE RefreshRefused(w) \/ FailEmailSyncJob(w)
      BY <1>3, <2>3, <3>2 DEF RefreshRefused, FailEmailSyncJob, Goto, TypeOK
    <3>3. CASE SyncThrows(w)
      BY <1>3, <2>3, <3>3 DEF SyncThrows, Goto, TypeOK
    <3> QED  BY <2>3, <3>1, <3>2, <3>3
  <2>4. CASE Route(w)
    BY <1>3, <2>4 DEF Route, Goto, TypeOK
  <2>5. CASE CreateEmailSyncJob(w)
    BY <1>3, <2>5 DEF CreateEmailSyncJob, TypeOK
  <2>6. CASE CheckPaused(w)
    <3>1. CASE paused
      BY <1>1, <2>6, <3>1 DEF CheckPaused
    <3>2. CASE ~paused
      BY <2>6, <3>2 DEF CheckPaused, Goto, PauseInv, TypeOK
    <3> QED  BY <3>1, <3>2
  <2>7. CASE FetchSince(w)
    BY <2>7 DEF FetchSince, PauseInv, TypeOK
  <2>8. CASE CommitPage(w)
    <3>1. CASE handle[w] = "none"
      BY <1>1, <2>8, <3>1 DEF CommitPage
    <3>2. CASE handle[w] # "none"
      BY <1>3, <2>8, <3>2 DEF CommitPage, TypeOK
    <3> QED  BY <3>1, <3>2
  <2>9. CASE UpdateProgress(w)
    <3>1. CASE page[w].hasMore /\ pagesLeft[w] > 1
      BY <1>3, <2>9, <3>1 DEF UpdateProgress, TypeOK
    <3>2. CASE ~(page[w].hasMore /\ pagesLeft[w] > 1) /\ (page[w].hasMore \/ page[w].next = NoCursor)
      BY <1>1, <2>9, <3>2 DEF UpdateProgress
    <3>3. CASE ~page[w].hasMore /\ page[w].next # NoCursor
      BY <1>3, <2>9, <3>3 DEF UpdateProgress, Goto, TypeOK
    <3> QED  BY <3>1, <3>2, <3>3
  <2> QED  BY <1>4, <2>1, <2>2, <2>3, <2>4, <2>5, <2>6, <2>7, <2>8, <2>9 DEF TickStep
<1>5. ASSUME NEW w \in Worker, Die(w) PROVE PauseInv'
  BY <1>1, <1>5 DEF Die
<1>6. CASE SetPaused
  BY <1>6 DEF SetPaused, PauseInv
<1>7. CASE \/ DueTimePasses \/ FailStaleEmailSyncJobs \/ PersonRefreshes \/ ConnectionTestPasses
           \/ ConnectionRefused \/ Reconnect \/ ProviderStep \/ UNCHANGED vars
  BY <1>3, <1>7 DEF DueTimePasses, FailStaleEmailSyncJobs, PersonRefreshes, ConnectionTestPasses,
                    ConnectionRefused, Reconnect, ProviderStep, Deliver, Renumber, TokenExpires,
                    GrantRevoked, tick, vars
<1> QED  BY <1>4, <1>5, <1>6, <1>7 DEF Next, OwnerStep

(* A running tick asks for at most one page after its mailbox was paused.    *)
THEOREM PauseStops == Spec => []PauseStopsReading
<1>1. Init => PauseInv
  BY DEF Init, PauseInv
<1>2. PauseInv => PauseStopsReading
  <2> SUFFICES ASSUME PauseInv, NEW w \in Worker PROVE readsPaused[w] <= 1
    BY DEF PauseStopsReading
  <2>1. readsPaused[w] = 0 \/ readsPaused[w] = 1
    BY DEF PauseInv
  <2> QED  BY <2>1
<1> QED  BY <1>1, <1>2, PauseStep, MailboxTypeCorrect, PTL DEF Spec

-----------------------------------------------------------------------------
(***************************************************************************)
(* A complete job.  A tick that may complete the open job fetched its last   *)
(* page while it held that job, so the page ends no earlier than the mail    *)
(* the mailbox held when the job was opened; and what the tick stored by     *)
(* then has no gap (NoMailSkipped).                                        *)
(***************************************************************************)
ReadsToTheEnd(w) ==
    /\ pc[w] \in {"committing", "noting"}
    /\ ~page[w].hasMore
    /\ page[w].next # NoCursor

JobInv ==
    /\ CompletedJobReadItAll
    /\ floor <= delivered
    /\ \A w \in Worker :
         /\ pc[w] = "noting" => held[w] = page[w].next
         /\ OwnsOpenJob(w) /\ ReadsToTheEnd(w) => floor <= page[w].next.pos
         /\ OwnsOpenJob(w) /\ pc[w] = "completing" => 1..floor \subseteq stored

(* A page with nothing left behind it ends where the mailbox did.            *)
LEMMA LastPage ==
  ASSUME NEW answer, NEW next, NEW top \in Nat, NEW end \in Nat,
         answer = [next |-> next, hasMore |-> top < end],
         ~answer.hasMore
  PROVE  end <= top
<1>1. answer.hasMore <=> top < end
  BY Zenon
<1> QED  BY <1>1

LEMMA JobStep == TypeOK /\ NoMailSkipped /\ JobInv /\ [Next]_vars => JobInv'
<1> SUFFICES ASSUME TypeOK, NoMailSkipped, JobInv, [Next]_vars PROVE JobInv'
  OBVIOUS
<1> USE DEF OwnsOpenJob, ReadsToTheEnd, CompletedJobReadItAll
<1>1. ASSUME NEW w \in Worker, EndTick(w), UNCHANGED <<job, floor, delivered>>, stored \subseteq stored'
      PROVE  JobInv'
  BY <1>1 DEF JobInv, EndTick, TypeOK
<1>2. ASSUME UNCHANGED <<job, floor, handle, delivered, stored, held, page>>,
             \A v \in Worker : pc'[v] = pc[v] \/ pc'[v] \notin {"committing", "noting", "completing"}
      PROVE  JobInv'
  BY <1>2 DEF JobInv
<1>3. ASSUME UNCHANGED <<tick, jobs, stored>>, delivered' >= delivered, delivered' \in Nat
      PROVE  JobInv'
  BY <1>3 DEF JobInv, tick, jobs, TypeOK
<1>4. ASSUME job = "open", job' = "failed", UNCHANGED <<floor, handle, delivered, stored, held, page>>,
             \A v \in Worker : pc'[v] = pc[v] \/ pc'[v] = "recording"
      PROVE  JobInv'
  BY <1>4 DEF JobInv
<1>5. ASSUME NEW w \in Worker, TickStep(w) PROVE JobInv'
  <2>1. CASE SkipByFlag(w) \/ RecordSyncFailure(w)
    BY <1>1, <2>1 DEF SkipByFlag, RecordSyncFailure, provider
  <2>2. CASE Claim(w)
    BY <2>2 DEF Claim, JobInv, TypeOK, provider, jobs
  <2>3. CASE Authorize(w) \/ RefreshRefused(w) \/ SyncThrows(w)
    <3>1. CASE Authorize(w) \/ RefreshRefused(w)
      BY <1>2, <3>1 DEF Authorize, RefreshRefused, Goto, TypeOK, provider
    <3>2. CASE SyncThrows(w)
      BY <1>2, <3>2 DEF SyncThrows, Goto, TypeOK, provider
    <3> QED  BY <2>3, <3>1, <3>2
  <2>4. CASE Route(w)
    BY <2>4 DEF Route, Goto, JobInv, TypeOK, provider
  <2>5. CASE CreateEmailSyncJob(w)
    <3>1. CASE job = "open"
      BY <2>5, <3>1 DEF CreateEmailSyncJob, JobInv, TypeOK, provider
    <3>2. CASE job # "open"
      BY <2>5, <3>2 DEF CreateEmailSyncJob, JobInv, TypeOK, provider
    <3> QED  BY <3>1, <3>2
  <2>6. CASE CheckPaused(w)
    <3>1. CASE paused
      BY <1>1, <2>6, <3>1 DEF CheckPaused, provider
    <3>2. CASE ~paused
      BY <1>2, <2>6, <3>2 DEF CheckPaused, Goto, TypeOK, provider
    <3> QED  BY <3>1, <3>2
  <2>7. CASE FetchSince(w)
    <3>1. \A v \in Worker : v # w => page'[v] = page[v] /\ pc'[v] = pc[v]
      BY <2>7 DEF FetchSince, TypeOK
    <3>2. page'[w] = PageFrom(held[w]) /\ pc'[w] = "committing"
      BY <2>7 DEF FetchSince, TypeOK
    <3>3. ~page'[w].hasMore /\ page'[w].next # NoCursor => delivered <= page'[w].next.pos
      <4>1. CASE held[w] # NoCursor /\ held[w].numbering # numbering
        BY <3>2, <4>1 DEF PageFrom, NoPage
      <4>2. CASE ~(held[w] # NoCursor /\ held[w].numbering # numbering)
        <5> DEFINE top == IF held[w].pos + PageSize < delivered THEN held[w].pos + PageSize ELSE delivered
        <5>1. page'[w] = [next |-> [numbering |-> numbering, pos |-> top], hasMore |-> top < delivered]
          BY <3>2, <4>2 DEF PageFrom
        <5>2. top \in Nat /\ delivered \in Nat
          <6>1. held[w].pos \in Nat
            <7>1. held[w] \in Cursor
              BY DEF TypeOK
            <7> QED  BY <7>1 DEF Cursor, NoCursor
          <6>2. delivered \in Nat /\ PageSize \in Nat
            BY MailboxSyncConstants DEF TypeOK
          <6> QED  BY <6>1, <6>2
        <5>3. PageFrom(held[w]).next.pos = top
          BY <5>1, <3>2
        <5>4. ASSUME ~page'[w].hasMore PROVE delivered <= top
          BY <5>1, <5>2, <5>4, LastPage
        <5> QED  BY <3>2, <5>3, <5>4
      <4> QED  BY <4>1, <4>2
    <3>4. floor <= delivered /\ floor \in Nat /\ delivered \in Nat /\ page'[w].next.pos \in Nat
      BY <2>7, TypeStep DEF JobInv, TypeOK, Page, Cursor, NoCursor
    <3> QED  BY <2>7, <3>1, <3>2, <3>3, <3>4 DEF FetchSince, JobInv, jobs, provider
  <2>8. CASE CommitPage(w)
    <3>1. stored \subseteq stored' /\ UNCHANGED <<job, floor, delivered>>
      BY <2>8 DEF CommitPage, provider
    <3>2. CASE handle[w] = "none"
      BY <1>1, <2>8, <3>1, <3>2 DEF CommitPage
    <3>3. CASE handle[w] # "none"
      BY <2>8, <3>1, <3>3 DEF CommitPage, CursorAfter, JobInv, TypeOK
    <3> QED  BY <3>2, <3>3
  <2>9. CASE UpdateProgress(w)
    <3>1. CASE page[w].hasMore /\ pagesLeft[w] > 1
      BY <2>9, <3>1 DEF UpdateProgress, JobInv, TypeOK, provider
    <3>2. CASE ~(page[w].hasMore /\ pagesLeft[w] > 1) /\ (page[w].hasMore \/ page[w].next = NoCursor)
      BY <1>1, <2>9, <3>2 DEF UpdateProgress, provider
    <3>3. CASE ~page[w].hasMore /\ page[w].next # NoCursor
      <4>1. Goto(w, "completing") /\ UNCHANGED <<job, floor, delivered, stored>>
        BY <2>9, <3>3 DEF UpdateProgress, provider
      <4>2. pc[w] = "noting" /\ held[w] = page[w].next /\ 1..held[w].pos \subseteq stored
        BY <2>9 DEF UpdateProgress, JobInv, NoMailSkipped
      <4>3. OwnsOpenJob(w) => 1..floor \subseteq stored
        <5>1. floor \in Nat /\ held[w].pos \in Nat
          BY DEF TypeOK, Cursor, NoCursor
        <5> QED  BY <3>3, <4>2, <5>1 DEF JobInv
      <4> QED  BY <4>1, <4>3 DEF JobInv, Goto, TypeOK
    <3> QED  BY <3>1, <3>2, <3>3 DEF TypeOK, Page
  <2>10. CASE CompleteEmailSyncJob(w)
    <3>1. CASE OwnsOpenJob(w)
      <4>1. 1..floor \subseteq stored
        BY <2>10, <3>1 DEF CompleteEmailSyncJob, JobInv
      <4> QED  BY <2>10, <3>1, <4>1 DEF CompleteEmailSyncJob, EndTick, JobInv, TypeOK, provider
    <3>2. CASE ~OwnsOpenJob(w)
      BY <1>1, <2>10, <3>2 DEF CompleteEmailSyncJob, provider
    <3> QED  BY <3>1, <3>2
  <2>11. CASE FailEmailSyncJob(w)
    <3>1. CASE OwnsOpenJob(w)
      BY <1>4, <2>11, <3>1 DEF FailEmailSyncJob, Goto, TypeOK, provider
    <3>2. CASE ~OwnsOpenJob(w)
      <4>1. Goto(w, "recording") /\ UNCHANGED <<job, floor, delivered, stored>>
        BY <2>11, <3>2 DEF FailEmailSyncJob, provider
      <4> QED  BY <1>2, <4>1 DEF Goto, TypeOK
    <3> QED  BY <3>1, <3>2
  <2> QED  BY <1>5, <2>1, <2>2, <2>3, <2>4, <2>5, <2>6, <2>7, <2>8, <2>9, <2>10, <2>11 DEF TickStep
<1>6. ASSUME NEW w \in Worker, Die(w) PROVE JobInv'
  BY <1>1, <1>6 DEF Die, provider
<1>7. CASE FailStaleEmailSyncJobs
  BY <1>4, <1>7 DEF FailStaleEmailSyncJobs, provider, tick
<1>8. CASE SetPaused
  BY <1>8 DEF SetPaused, JobInv, provider, jobs
<1>9. CASE Deliver
  BY <1>3, <1>9, MailboxSyncConstants DEF Deliver, TypeOK
<1>10. CASE \/ DueTimePasses \/ PersonRefreshes \/ ConnectionTestPasses \/ ConnectionRefused \/ Reconnect
            \/ Renumber \/ TokenExpires \/ GrantRevoked \/ UNCHANGED vars
  <2>1. UNCHANGED <<tick, jobs, stored, delivered>>
    BY <1>10 DEF DueTimePasses, PersonRefreshes, ConnectionTestPasses, ConnectionRefused, Reconnect,
                 Renumber, TokenExpires, GrantRevoked, provider, vars
  <2> QED  BY <1>3, <2>1 DEF TypeOK
<1> QED  BY <1>5, <1>6, <1>7, <1>8, <1>9, <1>10 DEF Next, OwnerStep, ProviderStep

(* A complete job has read everything that was there when it was opened.     *)
THEOREM CompleteMeansRead == Spec => []CompletedJobReadItAll
<1>1. Init => JobInv
  BY DEF Init, JobInv, OwnsOpenJob, CompletedJobReadItAll
<1>2. JobInv => CompletedJobReadItAll
  BY DEF JobInv
<1> QED  BY <1>1, <1>2, JobStep, NothingSkipped, MailboxTypeCorrect, PTL DEF Spec

-----------------------------------------------------------------------------
(***************************************************************************)
(* The promise of reading a mailbox.                                       *)
(***************************************************************************)
(* Nothing is stored, and no cursor points, past what the mailbox holds.     *)
NothingInvented ==
    /\ stored \subseteq 1..delivered
    /\ cursor.pos <= delivered
    /\ \A w \in Worker : held[w].pos <= delivered /\ page[w].next.pos <= delivered

(* What a page stores lies within any bound on where it ends.                *)
LEMMA DealtWithin ==
  ASSUME NEW from \in Nat, NEW to \in Nat, NEW end \in Nat, to <= end
  PROVE  Dealt(from, to) \subseteq 1..end
BY DEF Dealt

(* A page ends within the mailbox.                                          *)
LEMMA PageWithinMailbox ==
  ASSUME TypeOK, NEW c \in Cursor, c.pos <= delivered
  PROVE  PageFrom(c).next.pos <= delivered
<1>1. delivered \in Nat /\ c.pos \in Nat /\ PageSize \in Nat
  BY MailboxSyncConstants DEF TypeOK, Cursor, NoCursor
<1>2. CASE c # NoCursor /\ c.numbering # numbering
  BY <1>1, <1>2 DEF PageFrom, NoPage, NoCursor
<1>3. CASE ~(c # NoCursor /\ c.numbering # numbering)
  <2> DEFINE top == IF c.pos + PageSize < delivered THEN c.pos + PageSize ELSE delivered
  <2>1. PageFrom(c).next.pos = top
    BY <1>3 DEF PageFrom
  <2> QED  BY <1>1, <2>1
<1> QED  BY <1>2, <1>3

LEMMA InventedStep == TypeOK /\ NothingInvented /\ [Next]_vars => NothingInvented'
<1> SUFFICES ASSUME TypeOK, NothingInvented, [Next]_vars PROVE NothingInvented'
  OBVIOUS
<1>0. delivered \in Nat /\ NoCursor.pos = 0 /\ NoPage.next.pos = 0
  BY MailboxSyncConstants DEF TypeOK, NoCursor, NoPage
<1>1. ASSUME NEW w \in Worker, EndTick(w), UNCHANGED <<delivered, stored, cursor>>
      PROVE  NothingInvented'
  BY <1>0, <1>1 DEF NothingInvented, EndTick, TypeOK
<1>2. ASSUME UNCHANGED <<delivered, stored, cursor, held, page>> PROVE NothingInvented'
  BY <1>2 DEF NothingInvented
<1>3. ASSUME NEW w \in Worker, Claim(w) PROVE NothingInvented'
  BY <1>3 DEF NothingInvented, Claim, TypeOK, provider
<1>4. ASSUME NEW w \in Worker, FetchSince(w) PROVE NothingInvented'
  <2>1. PageFrom(held[w]).next.pos <= delivered
    BY PageWithinMailbox DEF TypeOK, NothingInvented
  <2> QED  BY <1>4, <2>1 DEF NothingInvented, FetchSince, TypeOK, provider
<1>5. ASSUME NEW w \in Worker, CommitPage(w) PROVE NothingInvented'
  <2>1. /\ cursor' = page[w].next /\ delivered' = delivered
        /\ stored' = stored \cup Dealt(held[w].pos, page[w].next.pos)
    BY <1>5 DEF CommitPage, CursorAfter, provider
  <2>2. held[w].pos \in Nat /\ page[w].next.pos \in Nat /\ page[w].next.pos <= delivered
    BY DEF TypeOK, Page, Cursor, NoCursor, NothingInvented
  <2>3. stored' \subseteq 1..delivered
    BY <1>0, <2>1, <2>2, DealtWithin DEF NothingInvented
  <2>4. ASSUME NEW v \in Worker
        PROVE  held'[v].pos <= delivered /\ page'[v].next.pos <= delivered
    <3>1. \/ held'[v] = held[v] \/ held'[v] = NoCursor \/ held'[v] = page[w].next
      BY <1>5 DEF CommitPage, CursorAfter, EndTick, TypeOK
    <3>2. page'[v] = page[v] \/ page'[v] = NoPage
      BY <1>5 DEF CommitPage, EndTick, TypeOK
    <3> QED  BY <1>0, <2>2, <3>1, <3>2 DEF NothingInvented
  <2> QED  BY <2>1, <2>2, <2>3, <2>4 DEF NothingInvented
<1>6. ASSUME NEW w \in Worker, TickStep(w) PROVE NothingInvented'
  <2>1. CASE SkipByFlag(w) \/ CompleteEmailSyncJob(w) \/ RecordSyncFailure(w)
    BY <1>1, <2>1 DEF SkipByFlag, CompleteEmailSyncJob, RecordSyncFailure, provider
  <2>2. CASE \/ Authorize(w) \/ RefreshRefused(w) \/ Route(w) \/ CreateEmailSyncJob(w)
             \/ SyncThrows(w) \/ FailEmailSyncJob(w)
    BY <1>2, <2>2 DEF Authorize, RefreshRefused, Route, CreateEmailSyncJob, SyncThrows,
                      FailEmailSyncJob, Goto, provider
  <2>3. CASE CheckPaused(w) \/ UpdateProgress(w)
    BY <1>1, <1>2, <2>3 DEF CheckPaused, UpdateProgress, Goto, provider
  <2> QED  BY <1>3, <1>4, <1>5, <1>6, <2>1, <2>2, <2>3 DEF TickStep
<1>7. ASSUME NEW w \in Worker, Die(w) PROVE NothingInvented'
  BY <1>1, <1>7 DEF Die, provider
<1>8. CASE Deliver
  <2>1. delivered' = delivered + 1 /\ UNCHANGED <<stored, cursor, held, page>>
    BY <1>8 DEF Deliver, tick
  <2>2. /\ cursor.pos \in Nat
        /\ \A w \in Worker : held[w].pos \in Nat /\ page[w].next.pos \in Nat
    BY DEF TypeOK, Page, Cursor, NoCursor
  <2> QED  BY <1>0, <2>1, <2>2 DEF NothingInvented
<1>9. CASE OwnerStep
  <2>1. UNCHANGED <<delivered, stored, cursor, held, page>>
    BY <1>9 DEF OwnerStep, SetPaused, PersonRefreshes, ConnectionTestPasses, ConnectionRefused,
                Reconnect, provider, tick
  <2> QED  BY <1>2, <2>1
<1>10. CASE \/ DueTimePasses \/ FailStaleEmailSyncJobs \/ Renumber \/ TokenExpires
            \/ GrantRevoked \/ UNCHANGED vars
  <2>1. UNCHANGED <<delivered, stored, cursor, held, page>>
    BY <1>10 DEF DueTimePasses, FailStaleEmailSyncJobs, Renumber, TokenExpires, GrantRevoked,
                 provider, tick, vars
  <2> QED  BY <1>2, <2>1
<1> QED  BY <1>6, <1>7, <1>8, <1>9, <1>10 DEF Next, ProviderStep

(* Every step of ticks, owner and provider is a step of the promise, or      *)
(* changes nothing it speaks of.                                           *)
LEMMA StepKeepsPromise ==
  TypeOK /\ NoMailSkipped /\ NoMailSkipped' /\ JobInv /\ NothingInvented /\ [Next]_vars
    => [Promise!Next]_(Promise!vars)
<1> SUFFICES ASSUME TypeOK, NoMailSkipped, NoMailSkipped', JobInv, NothingInvented, [Next]_vars
             PROVE  Promise!Next \/ UNCHANGED Promise!vars
  OBVIOUS
<1>1. ASSUME UNCHANGED <<delivered, stored, cursor, job, floor>> PROVE UNCHANGED Promise!vars
  BY <1>1 DEF Promise!vars
<1>2. ASSUME NEW w \in Worker, CommitPage(w) PROVE Promise!Next
  <2> DEFINE from == held[w].pos
             to == page[w].next.pos
  <2>1. /\ cursor'.pos = to /\ UNCHANGED <<delivered, job, floor>>
        /\ stored' = stored \cup (from + 1)..to
    BY <1>2 DEF CommitPage, CursorAfter, Dealt, provider
  <2>2. from \in 0..delivered /\ to \in 0..delivered
    <3>1. from \in Nat /\ to \in Nat /\ delivered \in Nat
      BY MailboxSyncConstants DEF TypeOK, Page, Cursor, NoCursor
    <3> QED  BY <3>1 DEF NothingInvented
  <2>3. 1..from \subseteq stored /\ 1..to \subseteq stored'
    BY <2>1 DEF NoMailSkipped
  <2>4. Promise!Read(from, to)
    BY <2>1, <2>2, <2>3 DEF Promise!Read
  <2> QED  BY <2>2, <2>4 DEF Promise!Next
<1>3. ASSUME NEW w \in Worker, CreateEmailSyncJob(w) PROVE Promise!Next \/ UNCHANGED Promise!vars
  <2>1. CASE job = "open"
    BY <1>1, <1>3, <2>1 DEF CreateEmailSyncJob, provider
  <2>2. CASE job # "open"
    BY <1>3, <2>2 DEF CreateEmailSyncJob, provider, Promise!OpenJob, Promise!Next
  <2> QED  BY <2>1, <2>2
<1>4. ASSUME NEW w \in Worker, CompleteEmailSyncJob(w)
      PROVE  Promise!Next \/ UNCHANGED Promise!vars
  <2>1. CASE OwnsOpenJob(w)
    <3>1. job = "open" /\ 1..floor \subseteq stored
      BY <1>4, <2>1 DEF CompleteEmailSyncJob, OwnsOpenJob, JobInv
    <3> QED  BY <1>4, <2>1, <3>1 DEF CompleteEmailSyncJob, provider, Promise!EndJob, Promise!Next
  <2>2. CASE ~OwnsOpenJob(w)
    BY <1>1, <1>4, <2>2 DEF CompleteEmailSyncJob, provider
  <2> QED  BY <2>1, <2>2
<1>5. ASSUME NEW w \in Worker, FailEmailSyncJob(w) PROVE Promise!Next \/ UNCHANGED Promise!vars
  <2>1. CASE OwnsOpenJob(w)
    BY <1>5, <2>1 DEF FailEmailSyncJob, OwnsOpenJob, provider, Promise!EndJob, Promise!Next
  <2>2. CASE ~OwnsOpenJob(w)
    BY <1>1, <1>5, <2>2 DEF FailEmailSyncJob, provider
  <2> QED  BY <2>1, <2>2
<1>6. CASE FailStaleEmailSyncJobs
  BY <1>6 DEF FailStaleEmailSyncJobs, provider, Promise!EndJob, Promise!Next
<1>7. CASE Deliver
  BY <1>7 DEF Deliver, jobs, Promise!Deliver, Promise!Next
<1>8. ASSUME NEW w \in Worker, TickStep(w) PROVE Promise!Next \/ UNCHANGED Promise!vars
  <2>1. CASE \/ Claim(w) \/ SkipByFlag(w) \/ Authorize(w) \/ RefreshRefused(w) \/ Route(w)
             \/ CheckPaused(w) \/ FetchSince(w) \/ UpdateProgress(w) \/ SyncThrows(w)
             \/ RecordSyncFailure(w)
    BY <1>1, <2>1 DEF Claim, SkipByFlag, Authorize, RefreshRefused, Route, CheckPaused, FetchSince,
                      UpdateProgress, SyncThrows, RecordSyncFailure, provider, jobs
  <2> QED  BY <1>2, <1>3, <1>4, <1>5, <1>8, <2>1 DEF TickStep
<1>9. CASE \/ \E w \in Worker : Die(w)
           \/ DueTimePasses \/ OwnerStep \/ Renumber \/ TokenExpires \/ GrantRevoked
           \/ UNCHANGED vars
  BY <1>1, <1>9 DEF Die, DueTimePasses, OwnerStep, SetPaused, PersonRefreshes,
                    ConnectionTestPasses, ConnectionRefused, Reconnect, Renumber, TokenExpires,
                    GrantRevoked, provider, jobs, vars
<1> QED  BY <1>6, <1>7, <1>8, <1>9 DEF Next, ProviderStep

(* Overlapping ticks, deaths, pauses and renumberings implement what reading  *)
(* a mailbox promises: pages in one instant, and jobs that end once.          *)
THEOREM PromiseKept == Spec => KeepsPromise
<1>1. Init => Promise!Init
  BY MailboxSyncConstants DEF Init, Promise!Init, NoCursor
<1>2. Init => NothingInvented
  BY MailboxSyncConstants DEF Init, NothingInvented, NoCursor, NoPage
<1>3. Init => JobInv
  BY DEF Init, JobInv, OwnsOpenJob, CompletedJobReadItAll
<1> QED
  BY <1>1, <1>2, <1>3, InventedStep, JobStep, StepKeepsPromise, NothingSkipped,
     MailboxTypeCorrect, PTL DEF Spec, Promise!Spec, KeepsPromise
=============================================================================
