--------------------------- MODULE WebhookDelivery ---------------------------
(***************************************************************************)
(* Outbound webhooks: webhookService.ts.                                    *)
(*                                                                         *)
(* An event is sent to every subscription active when it is dispatched.     *)
(* Each such pair is a chain of attempts that lives in the process alone:   *)
(* a timer between attempts, nothing stored but the log row of each         *)
(* attempt.  Chains run side by side, beside administrators who disable,     *)
(* re-enable and delete subscriptions.                                     *)
(***************************************************************************)
EXTENDS Integers

CONSTANTS
    Event,
    Subscription,
    MaxAttempts   \* MAX_ATTEMPTS

ASSUME WebhookConstants == MaxAttempts \in Nat \ {0}

VARIABLES
    status,    \* webhook_subscriptions.status; "none" is no row yet
    sent,      \* events dispatched
    chain,     \* chain[e][s]: where deliverWithRetry is
    attempt,   \* the attempt the chain is on
    log,       \* log[e][s][k]: the status_code of the row of attempt k
    answered,  \* the endpoint answered the current attempt with a 2xx in time
    unlogged   \* a row of this chain could not be written

vars == <<status, sent, chain, attempt, log, answered, unlogged>>

Attempt == 1..MaxAttempts
Running == {"ready", "accepted", "refused", "threw", "failing", "waiting"}

TypeOK ==
    /\ status \in [Subscription -> {"none", "active", "failed", "disabled", "deleted"}]
    /\ sent \subseteq Event
    /\ chain \in [Event -> [Subscription -> {"none", "delivered", "exhausted", "lost"} \cup Running]]
    /\ attempt \in [Event -> [Subscription -> Attempt]]
    /\ log \in [Event -> [Subscription -> [Attempt -> {"none", "2xx", "other", "null"}]]]
    /\ answered \in [Event -> [Subscription -> BOOLEAN]]
    /\ unlogged \in [Event -> [Subscription -> BOOLEAN]]

Init ==
    /\ status = [s \in Subscription |-> "none"]
    /\ sent = {}
    /\ chain = [e \in Event |-> [s \in Subscription |-> "none"]]
    /\ attempt = [e \in Event |-> [s \in Subscription |-> 1]]
    /\ log = [e \in Event |-> [s \in Subscription |-> [k \in Attempt |-> "none"]]]
    /\ answered = [e \in Event |-> [s \in Subscription |-> FALSE]]
    /\ unlogged = [e \in Event |-> [s \in Subscription |-> FALSE]]

-----------------------------------------------------------------------------
(***************************************************************************)
(* Administrators.                                                         *)
(***************************************************************************)
Exists(s) == status[s] \in {"active", "failed", "disabled"}

CreateWebhookSubscription(s) ==
    /\ status[s] = "none"
    /\ status' = [status EXCEPT ![s] = "active"]
    /\ UNCHANGED <<sent, chain, attempt, log, answered, unlogged>>

(* The schema lets an administrator set active and disabled, never failed.    *)
UpdateWebhookSubscription(s) ==
    /\ Exists(s)
    /\ \E to \in {"active", "disabled"} : status' = [status EXCEPT ![s] = to]
    /\ UNCHANGED <<sent, chain, attempt, log, answered, unlogged>>

(* The delivery log goes by cascade.                                         *)
DeleteWebhookSubscription(s) ==
    /\ Exists(s)
    /\ status' = [status EXCEPT ![s] = "deleted"]
    /\ log' = [e \in Event |-> [log[e] EXCEPT ![s] = [k \in Attempt |-> "none"]]]
    /\ UNCHANGED <<sent, chain, attempt, answered, unlogged>>

-----------------------------------------------------------------------------
(***************************************************************************)
(* Dispatch.                                                               *)
(***************************************************************************)
(* dispatchWebhookEvent: one chain for each subscription the query returns;   *)
(* none when the query fails.                                               *)
DispatchWebhookEvent(e) ==
    /\ e \notin sent
    /\ sent' = sent \cup {e}
    /\ \E read \in BOOLEAN :
         chain' = [chain EXCEPT ![e] = [s \in Subscription |->
                      IF read /\ status[s] = "active" THEN "ready" ELSE "none"]]
    /\ UNCHANGED <<status, attempt, log, answered, unlogged>>

-----------------------------------------------------------------------------
(***************************************************************************)
(* deliverWithRetry.                                                       *)
(***************************************************************************)
Goto(e, s, pc) == chain' = [chain EXCEPT ![e][s] = pc]

(* The endpoint answers with a 2xx in time.                                   *)
EndpointAccepts(e, s) ==
    /\ chain[e][s] = "ready"
    /\ answered' = [answered EXCEPT ![e][s] = TRUE]
    /\ Goto(e, s, "accepted")
    /\ UNCHANGED <<status, sent, attempt, log, unlogged>>

(* It answers with something else; or the URL check or the decryption throws    *)
(* before anything is sent, the request times out or the network fails.       *)
AttemptFails(e, s) ==
    /\ chain[e][s] = "ready"
    /\ \E pc \in {"refused", "threw"} : Goto(e, s, pc)
    /\ UNCHANGED <<status, sent, attempt, log, answered, unlogged>>

(* Mutant of AfterFailure: the retry is counted one short.                    *)
AfterFailureEarly(e, s) ==
    IF attempt[e][s] + 1 >= MaxAttempts THEN "failing" ELSE "waiting"

(* Where a failed attempt leads: to a timer, or to giving up.                  *)
AfterFailure(e, s) == IF attempt[e][s] + 1 > MaxAttempts THEN "failing" ELSE "waiting"

WriteRow(e, s, code) == log' = [log EXCEPT ![e][s][attempt[e][s]] = code]

(* The row of an attempt the endpoint accepted: the chain is done.             *)
LogDelivered(e, s) ==
    /\ chain[e][s] = "accepted"
    /\ Exists(s)
    /\ WriteRow(e, s, "2xx")
    /\ Goto(e, s, "delivered")
    /\ UNCHANGED <<status, sent, attempt, answered, unlogged>>

(* Mutant of LogRefused: any answer counts as a delivery.                      *)
LogRefusedAsDelivered(e, s) ==
    /\ chain[e][s] = "refused"
    /\ Exists(s)
    /\ WriteRow(e, s, "2xx")
    /\ Goto(e, s, "delivered")
    /\ UNCHANGED <<status, sent, attempt, answered, unlogged>>

(* The row of an attempt it refused.                                           *)
LogRefused(e, s) ==
    /\ chain[e][s] = "refused"
    /\ Exists(s)
    /\ WriteRow(e, s, "other")
    /\ Goto(e, s, AfterFailure(e, s))
    /\ UNCHANGED <<status, sent, attempt, answered, unlogged>>

(* The row cannot be written, always so once the subscription is deleted: the  *)
(* handler of the attempt's own failures takes over, answer or not.           *)
LogAnswerFails(e, s) ==
    /\ chain[e][s] \in {"accepted", "refused"}
    /\ Goto(e, s, "threw")
    /\ UNCHANGED <<status, sent, attempt, log, answered, unlogged>>

(* Mutant of LogThrow: an attempt without an answer leaves no row.             *)
LogThrowSilently(e, s) ==
    /\ chain[e][s] = "threw"
    /\ Goto(e, s, AfterFailure(e, s))
    /\ UNCHANGED <<status, sent, attempt, log, answered, unlogged>>

(* The row of an attempt that threw ...                                        *)
LogThrow(e, s) ==
    /\ chain[e][s] = "threw"
    /\ Exists(s)
    /\ WriteRow(e, s, "null")
    /\ Goto(e, s, AfterFailure(e, s))
    /\ UNCHANGED <<status, sent, attempt, answered, unlogged>>

(* ... which may fail as well, and is only reported.                           *)
LogThrowFails(e, s) ==
    /\ chain[e][s] = "threw"
    /\ unlogged' = [unlogged EXCEPT ![e][s] = TRUE]
    /\ Goto(e, s, AfterFailure(e, s))
    /\ UNCHANGED <<status, sent, attempt, log, answered>>

(* Mutant of RetryTimer: the last delay of the table is missing.               *)
RetryTimerShort(e, s) ==
    /\ chain[e][s] = "waiting"
    /\ attempt[e][s] + 1 < MaxAttempts
    /\ attempt' = [attempt EXCEPT ![e][s] = @ + 1]
    /\ answered' = [answered EXCEPT ![e][s] = FALSE]
    /\ Goto(e, s, "ready")
    /\ UNCHANGED <<status, sent, log, unlogged>>

(* Mutant of RetryTimer: the timer passes on the number of the attempt that    *)
(* failed.                                                                 *)
RetryTimerUncounted(e, s) ==
    /\ chain[e][s] = "waiting"
    /\ answered' = [answered EXCEPT ![e][s] = FALSE]
    /\ Goto(e, s, "ready")
    /\ UNCHANGED <<status, sent, attempt, log, unlogged>>

(* The timer of the next attempt, which asks nothing of the subscription.      *)
RetryTimer(e, s) ==
    /\ chain[e][s] = "waiting"
    /\ attempt' = [attempt EXCEPT ![e][s] = @ + 1]
    /\ answered' = [answered EXCEPT ![e][s] = FALSE]
    /\ Goto(e, s, "ready")
    /\ UNCHANGED <<status, sent, log, unlogged>>

(* Mutant of MarkFailed: a status the table does not know.                     *)
MarkExhausted(e, s) ==
    /\ chain[e][s] = "failing"
    /\ status' = [status EXCEPT ![s] = "exhausted"]
    /\ Goto(e, s, "exhausted")
    /\ UNCHANGED <<sent, attempt, log, answered, unlogged>>

(* The subscription is marked by its id, whatever its status; an error of      *)
(* this write is only logged.                                               *)
MarkFailed(e, s) ==
    /\ chain[e][s] = "failing"
    /\ \E wrote \in BOOLEAN :
         status' = IF wrote /\ Exists(s) THEN [status EXCEPT ![s] = "failed"] ELSE status
    /\ Goto(e, s, "exhausted")
    /\ UNCHANGED <<sent, attempt, log, answered, unlogged>>

(* A restart forgets every chain; nothing is picked up again.                  *)
Die ==
    /\ chain' = [e \in Event |-> [s \in Subscription |->
                   IF chain[e][s] \in Running THEN "lost" ELSE chain[e][s]]]
    /\ UNCHANGED <<status, sent, attempt, log, answered, unlogged>>

-----------------------------------------------------------------------------
Administer(s) ==
    \/ CreateWebhookSubscription(s)
    \/ UpdateWebhookSubscription(s)
    \/ DeleteWebhookSubscription(s)

DeliverWithRetry(e, s) ==
    \/ EndpointAccepts(e, s) \/ AttemptFails(e, s)
    \/ LogDelivered(e, s) \/ LogRefused(e, s) \/ LogAnswerFails(e, s)
    \/ LogThrow(e, s) \/ LogThrowFails(e, s)
    \/ RetryTimer(e, s)
    \/ MarkFailed(e, s)

Next ==
    \/ \E s \in Subscription : Administer(s)
    \/ \E e \in Event : DispatchWebhookEvent(e)
    \/ \E e \in Event, s \in Subscription : DeliverWithRetry(e, s)
    \/ Die

Spec == Init /\ [][Next]_vars

(* Every await of a chain settles (a request is aborted after ten seconds) and *)
(* every timer fires.                                                       *)
Fairness == \A e \in Event, s \in Subscription : WF_vars(DeliverWithRetry(e, s))

FairSpec == Spec /\ Fairness

-----------------------------------------------------------------------------
(***************************************************************************)
(* Properties.                                                             *)
(***************************************************************************)
(* A row with a 2xx says so of an answer the endpoint really gave, and it is   *)
(* the last of its event: a receiver that sees a delivery on record is not     *)
(* sent the event again.                                                    *)
LoggedSuccessIsFinal ==
    \A e \in Event, s \in Subscription, k \in Attempt :
        log[e][s][k] = "2xx" =>
            answered[e][s] /\ k = attempt[e][s] /\ chain[e][s] = "delivered"

(* What a receiver reconciles from: an event whose retry a restart drops has    *)
(* a failure row for the attempt before it, and for every earlier attempt,      *)
(* unless the database refused the row.                                      *)
FailuresAreOnRecord ==
    \A e \in Event, s \in Subscription :
        chain[e][s] \in {"waiting", "failing", "exhausted"} /\ Exists(s) /\ ~unlogged[e][s] =>
            \A k \in 1..attempt[e][s] : log[e][s][k] \in {"other", "null"}

(* A subscription is marked failed only for an event that has had every          *)
(* attempt, none of them a delivery on record: never by a restart, and never     *)
(* by a chain that has retries left.                                          *)
OnlyExhaustionFails ==
    [][\A s \in Subscription : status[s] # "failed" /\ status'[s] = "failed" =>
         \E e \in sent :
            /\ chain[e][s] = "failing" /\ attempt[e][s] = MaxAttempts
            /\ \A k \in Attempt : log[e][s][k] # "2xx"]_vars

(* Every chain ends: delivered, exhausted or dropped by a restart.               *)
DeliveryEnds ==
    \A e \in Event, s \in Subscription :
        (chain[e][s] \in Running) ~> (chain[e][s] \in {"delivered", "exhausted", "lost"})

(***************************************************************************)
(* The chains implement what outbound webhooks promise a receiver.  An         *)
(* attempt counts as tried in vain as soon as it cannot succeed any more.      *)
(***************************************************************************)
PromiseStanding ==
    [s \in Subscription |->
        CASE status[s] = "active" -> "open"
          [] status[s] = "failed" -> "failed"
          [] OTHER -> "closed"]

PromiseStage ==
    [e \in Event |-> [s \in Subscription |->
        CASE chain[e][s] = "accepted" -> "taken"
          [] chain[e][s] \in Running \ {"accepted"} -> "trying"
          [] chain[e][s] = "exhausted" -> "givenUp"
          [] chain[e][s] = "lost" -> "dropped"
          [] OTHER -> chain[e][s]]]

TriedInVain ==
    [e \in Event |-> [s \in Subscription |->
        CASE chain[e][s] \in {"none", "lost"} -> 0
          [] chain[e][s] \in {"ready", "accepted", "delivered"} -> attempt[e][s] - 1
          [] OTHER -> attempt[e][s]]]

Promise == INSTANCE WebhookPromise WITH
    standing <- PromiseStanding, stage <- PromiseStage, tries <- TriedInVain

(* Every behaviour of chains, timers, log rows and restarts is one the promise   *)
(* allows: an event is given up only after every attempt, and what is delivered,  *)
(* given up or dropped stays so.                                             *)
KeepsPromise == Promise!Spec
=============================================================================
