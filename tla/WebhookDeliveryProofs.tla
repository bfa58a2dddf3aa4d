------------------------ MODULE WebhookDeliveryProofs ------------------------
(***************************************************************************)
(* Proofs about WebhookDelivery, for any number of events, subscriptions and *)
(* attempts.                                                               *)
(***************************************************************************)
EXTENDS WebhookDelivery, TLAPS

-----------------------------------------------------------------------------
(***************************************************************************)
(* The inductive invariant.                                                *)
(***************************************************************************)
(* A chain waits only if it has attempts left, and gives up only after all.   *)
AttemptsInStep ==
    \A e \in Event, s \in Subscription :
        /\ chain[e][s] = "waiting" => attempt[e][s] < MaxAttempts
        /\ chain[e][s] = "failing" => attempt[e][s] = MaxAttempts

(* A pair no dispatch has made is untouched, and a chain's subscription was    *)
(* there when it was made.                                                  *)
Untouched ==
    \A e \in Event, s \in Subscription :
        /\ chain[e][s] # "none" => e \in sent /\ status[s] # "none"
        /\ chain[e][s] = "none" =>
              attempt[e][s] = 1 /\ \A k \in Attempt : log[e][s][k] = "none"

(* An attempt under way has no row yet; those before it have theirs.          *)
RowsInStep ==
    \A e \in Event, s \in Subscription :
        /\ chain[e][s] = "accepted" => answered[e][s]
        /\ chain[e][s] \in {"ready", "accepted", "refused", "threw"}
              /\ Exists(s) /\ ~unlogged[e][s] =>
            \A k \in 1..(attempt[e][s] - 1) : log[e][s][k] \in {"other", "null"}

IInv ==
    /\ TypeOK
    /\ AttemptsInStep
    /\ Untouched
    /\ RowsInStep
    /\ LoggedSuccessIsFinal
    /\ FailuresAreOnRecord

-----------------------------------------------------------------------------

(* Every step keeps the type of every variable.                             *)
LEMMA TypeStep == TypeOK /\ AttemptsInStep /\ [Next]_vars => TypeOK'
<1> USE WebhookConstants
<1> SUFFICES ASSUME TypeOK /\ AttemptsInStep, [Next]_vars PROVE TypeOK'
  OBVIOUS
<1>1. ASSUME NEW s \in Subscription, CreateWebhookSubscription(s) PROVE TypeOK'
  BY <1>1 DEF TypeOK, AttemptsInStep, Attempt, Running, CreateWebhookSubscription
<1>2. ASSUME NEW s \in Subscription, UpdateWebhookSubscription(s) PROVE TypeOK'
  BY <1>2 DEF TypeOK, AttemptsInStep, Attempt, Running, UpdateWebhookSubscription,
     Exists
<1>3. ASSUME NEW s \in Subscription, DeleteWebhookSubscription(s) PROVE TypeOK'
  BY <1>3 DEF TypeOK, AttemptsInStep, Attempt, Running, DeleteWebhookSubscription,
     Exists
<1>4. ASSUME NEW e \in Event, DispatchWebhookEvent(e) PROVE TypeOK'
  BY <1>4 DEF TypeOK, AttemptsInStep, Attempt, Running, DispatchWebhookEvent
<1>5. ASSUME NEW e \in Event, NEW s \in Subscription, EndpointAccepts(e, s) PROVE TypeOK'
  BY <1>5 DEF TypeOK, AttemptsInStep, Attempt, Running, EndpointAccepts, Goto
<1>6. ASSUME NEW e \in Event, NEW s \in Subscription, AttemptFails(e, s) PROVE TypeOK'
  BY <1>6 DEF TypeOK, AttemptsInStep, Attempt, Running, AttemptFails, Goto
<1>7. ASSUME NEW e \in Event, NEW s \in Subscription, LogDelivered(e, s) PROVE TypeOK'
  BY <1>7 DEF TypeOK, AttemptsInStep, Attempt, Running, LogDelivered, Goto,
     WriteRow, Exists
<1>8. ASSUME NEW e \in Event, NEW s \in Subscription, LogRefused(e, s) PROVE TypeOK'
  BY <1>8 DEF TypeOK, AttemptsInStep, Attempt, Running, LogRefused, Goto, WriteRow,
     AfterFailure, Exists
<1>9. ASSUME NEW e \in Event, NEW s \in Subscription, LogAnswerFails(e, s) PROVE TypeOK'
  BY <1>9 DEF TypeOK, AttemptsInStep, Attempt, Running, LogAnswerFails, Goto
<1>10. ASSUME NEW e \in Event, NEW s \in Subscription, LogThrow(e, s) PROVE TypeOK'
  BY <1>10 DEF TypeOK, AttemptsInStep, Attempt, Running, LogThrow, Goto, WriteRow,
     AfterFailure, Exists
<1>11. ASSUME NEW e \in Event, NEW s \in Subscription, LogThrowFails(e, s) PROVE TypeOK'
  BY <1>11 DEF TypeOK, AttemptsInStep, Attempt, Running, LogThrowFails, Goto,
     AfterFailure
<1>12. ASSUME NEW e \in Event, NEW s \in Subscription, RetryTimer(e, s) PROVE TypeOK'
  BY <1>12 DEF TypeOK, AttemptsInStep, Attempt, Running, RetryTimer, Goto
<1>13. ASSUME NEW e \in Event, NEW s \in Subscription, MarkFailed(e, s) PROVE TypeOK'
  BY <1>13 DEF TypeOK, AttemptsInStep, Attempt, Running, MarkFailed, Goto, Exists
<1>14. ASSUME Die PROVE TypeOK'
  BY <1>14 DEF TypeOK, AttemptsInStep, Attempt, Running, Die
<1>15. CASE UNCHANGED vars
  BY <1>15 DEF TypeOK, AttemptsInStep, Attempt, Running, vars
<1> QED
  BY <1>1, <1>2, <1>3, <1>4, <1>5, <1>6, <1>7, <1>8, <1>9, <1>10, <1>11, <1>12,
     <1>13, <1>14, <1>15 DEF Next, Administer, DeliverWithRetry

(* Retries are counted right.                                              *)
LEMMA AttemptsStep == TypeOK /\ AttemptsInStep /\ [Next]_vars => AttemptsInStep'
<1> USE WebhookConstants
<1> SUFFICES ASSUME TypeOK /\ AttemptsInStep, [Next]_vars PROVE AttemptsInStep'
  OBVIOUS
<1>1. ASSUME NEW s \in Subscription, CreateWebhookSubscription(s) PROVE AttemptsInStep'
  BY <1>1 DEF TypeOK, AttemptsInStep, Attempt, Running, CreateWebhookSubscription
<1>2. ASSUME NEW s \in Subscription, UpdateWebhookSubscription(s) PROVE AttemptsInStep'
  BY <1>2 DEF TypeOK, AttemptsInStep, Attempt, Running, UpdateWebhookSubscription,
     Exists
<1>3. ASSUME NEW s \in Subscription, DeleteWebhookSubscription(s) PROVE AttemptsInStep'
  BY <1>3 DEF TypeOK, AttemptsInStep, Attempt, Running, DeleteWebhookSubscription,
     Exists
<1>4. ASSUME NEW e \in Event, DispatchWebhookEvent(e) PROVE AttemptsInStep'
  BY <1>4 DEF TypeOK, AttemptsInStep, Attempt, Running, DispatchWebhookEvent
<1>5. ASSUME NEW e \in Event, NEW s \in Subscription, EndpointAccepts(e, s) PROVE AttemptsInStep'
  BY <1>5 DEF TypeOK, AttemptsInStep, Attempt, Running, EndpointAccepts, Goto
<1>6. ASSUME NEW e \in Event, NEW s \in Subscription, AttemptFails(e, s) PROVE AttemptsInStep'
  BY <1>6 DEF TypeOK, AttemptsInStep, Attempt, Running, AttemptFails, Goto
<1>7. ASSUME NEW e \in Event, NEW s \in Subscription, LogDelivered(e, s) PROVE AttemptsInStep'
  BY <1>7 DEF TypeOK, AttemptsInStep, Attempt, Running, LogDelivered, Goto,
     WriteRow, Exists
<1>8. ASSUME NEW e \in Event, NEW s \in Subscription, LogRefused(e, s) PROVE AttemptsInStep'
  BY <1>8 DEF TypeOK, AttemptsInStep, Attempt, Running, LogRefused, Goto, WriteRow,
     AfterFailure, Exists
<1>9. ASSUME NEW e \in Event, NEW s \in Subscription, LogAnswerFails(e, s) PROVE AttemptsInStep'
  BY <1>9 DEF TypeOK, AttemptsInStep, Attempt, Running, LogAnswerFails, Goto
<1>10. ASSUME NEW e \in Event, NEW s \in Subscription, LogThrow(e, s) PROVE AttemptsInStep'
  BY <1>10 DEF TypeOK, AttemptsInStep, Attempt, Running, LogThrow, Goto, WriteRow,
     AfterFailure, Exists
<1>11. ASSUME NEW e \in Event, NEW s \in Subscription, LogThrowFails(e, s) PROVE AttemptsInStep'
  BY <1>11 DEF TypeOK, AttemptsInStep, Attempt, Running, LogThrowFails, Goto,
     AfterFailure
<1>12. ASSUME NEW e \in Event, NEW s \in Subscription, RetryTimer(e, s) PROVE AttemptsInStep'
  BY <1>12 DEF TypeOK, AttemptsInStep, Attempt, Running, RetryTimer, Goto
<1>13. ASSUME NEW e \in Event, NEW s \in Subscription, MarkFailed(e, s) PROVE AttemptsInStep'
  BY <1>13 DEF TypeOK, AttemptsInStep, Attempt, Running, MarkFailed, Goto, Exists
<1>14. ASSUME Die PROVE AttemptsInStep'
  BY <1>14 DEF TypeOK, AttemptsInStep, Attempt, Running, Die
<1>15. CASE UNCHANGED vars
  BY <1>15 DEF TypeOK, AttemptsInStep, Attempt, Running, vars
<1> QED
  BY <1>1, <1>2, <1>3, <1>4, <1>5, <1>6, <1>7, <1>8, <1>9, <1>10, <1>11, <1>12,
     <1>13, <1>14, <1>15 DEF Next, Administer, DeliverWithRetry

(* Only a dispatch starts a chain.                                         *)
LEMMA UntouchedStep == TypeOK /\ Untouched /\ [Next]_vars => Untouched'
<1> USE WebhookConstants
<1> SUFFICES ASSUME TypeOK /\ Untouched, [Next]_vars PROVE Untouched'
  OBVIOUS
<1>1. ASSUME NEW s \in Subscription, CreateWebhookSubscription(s) PROVE Untouched'
  BY <1>1 DEF TypeOK, Untouched, Attempt, Running, CreateWebhookSubscription
<1>2. ASSUME NEW s \in Subscription, UpdateWebhookSubscription(s) PROVE Untouched'
  BY <1>2 DEF TypeOK, Untouched, Attempt, Running, UpdateWebhookSubscription, Exists
<1>3. ASSUME NEW s \in Subscription, DeleteWebhookSubscription(s) PROVE Untouched'
  BY <1>3 DEF TypeOK, Untouched, Attempt, Running, DeleteWebhookSubscription, Exists
<1>4. ASSUME NEW e \in Event, DispatchWebhookEvent(e) PROVE Untouched'
  BY <1>4 DEF TypeOK, Untouched, Attempt, Running, DispatchWebhookEvent
<1>5. ASSUME NEW e \in Event, NEW s \in Subscription, EndpointAccepts(e, s) PROVE Untouched'
  BY <1>5 DEF TypeOK, Untouched, Attempt, Running, EndpointAccepts, Goto
<1>6. ASSUME NEW e \in Event, NEW s \in Subscription, AttemptFails(e, s) PROVE Untouched'
  BY <1>6 DEF TypeOK, Untouched, Attempt, Running, AttemptFails, Goto
<1>7. ASSUME NEW e \in Event, NEW s \in Subscription, LogDelivered(e, s) PROVE Untouched'
  BY <1>7 DEF TypeOK, Untouched, Attempt, Running, LogDelivered, Goto, WriteRow,
     Exists
<1>8. ASSUME NEW e \in Event, NEW s \in Subscription, LogRefused(e, s) PROVE Untouched'
  BY <1>8 DEF TypeOK, Untouched, Attempt, Running, LogRefused, Goto, WriteRow,
     AfterFailure, Exists
<1>9. ASSUME NEW e \in Event, NEW s \in Subscription, LogAnswerFails(e, s) PROVE Untouched'
  BY <1>9 DEF TypeOK, Untouched, Attempt, Running, LogAnswerFails, Goto
<1>10. ASSUME NEW e \in Event, NEW s \in Subscription, LogThrow(e, s) PROVE Untouched'
  BY <1>10 DEF TypeOK, Untouched, Attempt, Running, LogThrow, Goto, WriteRow,
     AfterFailure, Exists
<1>11. ASSUME NEW e \in Event, NEW s \in Subscription, LogThrowFails(e, s) PROVE Untouched'
  BY <1>11 DEF TypeOK, Untouched, Attempt, Running, LogThrowFails, Goto,
     AfterFailure
<1>12. ASSUME NEW e \in Event, NEW s \in Subscription, RetryTimer(e, s) PROVE Untouched'
  BY <1>12 DEF TypeOK, Untouched, Attempt, Running, RetryTimer, Goto
<1>13. ASSUME NEW e \in Event, NEW s \in Subscription, MarkFailed(e, s) PROVE Untouched'
  BY <1>13 DEF TypeOK, Untouched, Attempt, Running, MarkFailed, Goto, Exists
<1>14. ASSUME Die PROVE Untouched'
  BY <1>14 DEF TypeOK, Untouched, Attempt, Running, Die
<1>15. CASE UNCHANGED vars
  BY <1>15 DEF TypeOK, Untouched, Attempt, Running, vars
<1> QED
  BY <1>1, <1>2, <1>3, <1>4, <1>5, <1>6, <1>7, <1>8, <1>9, <1>10, <1>11, <1>12,
     <1>13, <1>14, <1>15 DEF Next, Administer, DeliverWithRetry

(* A 2xx row ends its chain.                                               *)
LEMMA SuccessStep == TypeOK /\ Untouched /\ LoggedSuccessIsFinal /\ RowsInStep /\ [Next]_vars => LoggedSuccessIsFinal'
<1> USE WebhookConstants
<1> SUFFICES ASSUME TypeOK /\ Untouched /\ LoggedSuccessIsFinal /\ RowsInStep, [Next]_vars PROVE LoggedSuccessIsFinal'
  OBVIOUS
<1>1. ASSUME NEW s \in Subscription, CreateWebhookSubscription(s) PROVE LoggedSuccessIsFinal'
  BY <1>1 DEF TypeOK, Untouched, LoggedSuccessIsFinal, RowsInStep, Attempt, Running,
     CreateWebhookSubscription
<1>2. ASSUME NEW s \in Subscription, UpdateWebhookSubscription(s) PROVE LoggedSuccessIsFinal'
  BY <1>2 DEF TypeOK, Untouched, LoggedSuccessIsFinal, RowsInStep, Attempt, Running,
     UpdateWebhookSubscription, Exists
<1>3. ASSUME NEW s \in Subscription, DeleteWebhookSubscription(s) PROVE LoggedSuccessIsFinal'
  BY <1>3 DEF TypeOK, Untouched, LoggedSuccessIsFinal, RowsInStep, Attempt, Running,
     DeleteWebhookSubscription, Exists
<1>4. ASSUME NEW e \in Event, DispatchWebhookEvent(e) PROVE LoggedSuccessIsFinal'
  BY <1>4 DEF TypeOK, Untouched, LoggedSuccessIsFinal, RowsInStep, Attempt, Running,
     DispatchWebhookEvent
<1>5. ASSUME NEW e \in Event, NEW s \in Subscription, EndpointAccepts(e, s) PROVE LoggedSuccessIsFinal'
  BY <1>5 DEF TypeOK, Untouched, LoggedSuccessIsFinal, RowsInStep, Attempt, Running,
     EndpointAccepts, Goto
<1>6. ASSUME NEW e \in Event, NEW s \in Subscription, AttemptFails(e, s) PROVE LoggedSuccessIsFinal'
  BY <1>6 DEF TypeOK, Untouched, LoggedSuccessIsFinal, RowsInStep, Attempt, Running,
     AttemptFails, Goto
<1>7. ASSUME NEW e \in Event, NEW s \in Subscription, LogDelivered(e, s) PROVE LoggedSuccessIsFinal'
  BY <1>7 DEF TypeOK, Untouched, LoggedSuccessIsFinal, RowsInStep, Attempt, Running,
     LogDelivered, Goto, WriteRow, Exists
<1>8. ASSUME NEW e \in Event, NEW s \in Subscription, LogRefused(e, s) PROVE LoggedSuccessIsFinal'
  BY <1>8 DEF TypeOK, Untouched, LoggedSuccessIsFinal, RowsInStep, Attempt, Running,
     LogRefused, Goto, WriteRow, AfterFailure, Exists
<1>9. ASSUME NEW e \in Event, NEW s \in Subscription, LogAnswerFails(e, s) PROVE LoggedSuccessIsFinal'
  BY <1>9 DEF TypeOK, Untouched, LoggedSuccessIsFinal, RowsInStep, Attempt, Running,
     LogAnswerFails, Goto
<1>10. ASSUME NEW e \in Event, NEW s \in Subscription, LogThrow(e, s) PROVE LoggedSuccessIsFinal'
  BY <1>10 DEF TypeOK, Untouched, LoggedSuccessIsFinal, RowsInStep, Attempt,
     Running, LogThrow, Goto, WriteRow, AfterFailure, Exists
<1>11. ASSUME NEW e \in Event, NEW s \in Subscription, LogThrowFails(e, s) PROVE LoggedSuccessIsFinal'
  BY <1>11 DEF TypeOK, Untouched, LoggedSuccessIsFinal, RowsInStep, Attempt,
     Running, LogThrowFails, Goto, AfterFailure
<1>12. ASSUME NEW e \in Event, NEW s \in Subscription, RetryTimer(e, s) PROVE LoggedSuccessIsFinal'
  BY <1>12 DEF TypeOK, Untouched, LoggedSuccessIsFinal, RowsInStep, Attempt,
     Running, RetryTimer, Goto
<1>13. ASSUME NEW e \in Event, NEW s \in Subscription, MarkFailed(e, s) PROVE LoggedSuccessIsFinal'
  BY <1>13 DEF TypeOK, Untouched, LoggedSuccessIsFinal, RowsInStep, Attempt,
     Running, MarkFailed, Goto, Exists
<1>14. ASSUME Die PROVE LoggedSuccessIsFinal'
  BY <1>14 DEF TypeOK, Untouched, LoggedSuccessIsFinal, RowsInStep, Attempt,
     Running, Die
<1>15. CASE UNCHANGED vars
  BY <1>15 DEF TypeOK, Untouched, LoggedSuccessIsFinal, RowsInStep, Attempt,
     Running, vars
<1> QED
  BY <1>1, <1>2, <1>3, <1>4, <1>5, <1>6, <1>7, <1>8, <1>9, <1>10, <1>11, <1>12,
     <1>13, <1>14, <1>15 DEF Next, Administer, DeliverWithRetry

(* Every attempt a chain has left behind has its row ...                    *)
LEMMA RowsStep == TypeOK /\ AttemptsInStep /\ Untouched /\ RowsInStep /\ FailuresAreOnRecord /\ [Next]_vars => RowsInStep'
<1> USE WebhookConstants
<1> SUFFICES ASSUME TypeOK /\ AttemptsInStep /\ Untouched /\ RowsInStep /\ FailuresAreOnRecord, [Next]_vars PROVE RowsInStep'
  OBVIOUS
<1>1. ASSUME NEW s \in Subscription, CreateWebhookSubscription(s) PROVE RowsInStep'
  BY <1>1 DEF TypeOK, AttemptsInStep, Untouched, RowsInStep, FailuresAreOnRecord,
     Exists, Attempt, Running, CreateWebhookSubscription
<1>2. ASSUME NEW s \in Subscription, UpdateWebhookSubscription(s) PROVE RowsInStep'
  BY <1>2 DEF TypeOK, AttemptsInStep, Untouched, RowsInStep, FailuresAreOnRecord,
     Exists, Attempt, Running, UpdateWebhookSubscription
<1>3. ASSUME NEW s \in Subscription, DeleteWebhookSubscription(s) PROVE RowsInStep'
  BY <1>3 DEF TypeOK, AttemptsInStep, Untouched, RowsInStep, FailuresAreOnRecord,
     Exists, Attempt, Running, DeleteWebhookSubscription
<1>4. ASSUME NEW e \in Event, DispatchWebhookEvent(e) PROVE RowsInStep'
  BY <1>4 DEF TypeOK, AttemptsInStep, Untouched, RowsInStep, FailuresAreOnRecord,
     Exists, Attempt, Running, DispatchWebhookEvent
<1>5. ASSUME NEW e \in Event, NEW s \in Subscription, EndpointAccepts(e, s) PROVE RowsInStep'
  BY <1>5 DEF TypeOK, AttemptsInStep, Untouched, RowsInStep, FailuresAreOnRecord,
     Exists, Attempt, Running, EndpointAccepts, Goto
<1>6. ASSUME NEW e \in Event, NEW s \in Subscription, AttemptFails(e, s) PROVE RowsInStep'
  BY <1>6 DEF TypeOK, AttemptsInStep, Untouched, RowsInStep, FailuresAreOnRecord,
     Exists, Attempt, Running, AttemptFails, Goto
<1>7. ASSUME NEW e \in Event, NEW s \in Subscription, LogDelivered(e, s) PROVE RowsInStep'
  BY <1>7 DEF TypeOK, AttemptsInStep, Untouched, RowsInStep, FailuresAreOnRecord,
     Exists, Attempt, Running, LogDelivered, Goto, WriteRow
<1>8. ASSUME NEW e \in Event, NEW s \in Subscription, LogRefused(e, s) PROVE RowsInStep'
  BY <1>8 DEF TypeOK, AttemptsInStep, Untouched, RowsInStep, FailuresAreOnRecord,
     Exists, Attempt, Running, LogRefused, Goto, WriteRow, AfterFailure
<1>9. ASSUME NEW e \in Event, NEW s \in Subscription, LogAnswerFails(e, s) PROVE RowsInStep'
  BY <1>9 DEF TypeOK, AttemptsInStep, Untouched, RowsInStep, FailuresAreOnRecord,
     Exists, Attempt, Running, LogAnswerFails, Goto
<1>10. ASSUME NEW e \in Event, NEW s \in Subscription, LogThrow(e, s) PROVE RowsInStep'
  BY <1>10 DEF TypeOK, AttemptsInStep, Untouched, RowsInStep, FailuresAreOnRecord,
     Exists, Attempt, Running, LogThrow, Goto, WriteRow, AfterFailure
<1>11. ASSUME NEW e \in Event, NEW s \in Subscription, LogThrowFails(e, s) PROVE RowsInStep'
  BY <1>11 DEF TypeOK, AttemptsInStep, Untouched, RowsInStep, FailuresAreOnRecord,
     Exists, Attempt, Running, LogThrowFails, Goto, AfterFailure
<1>12. ASSUME NEW e \in Event, NEW s \in Subscription, RetryTimer(e, s) PROVE RowsInStep'
  BY <1>12 DEF TypeOK, AttemptsInStep, Untouched, RowsInStep, FailuresAreOnRecord,
     Exists, Attempt, Running, RetryTimer, Goto
<1>13. ASSUME NEW e \in Event, NEW s \in Subscription, MarkFailed(e, s) PROVE RowsInStep'
  BY <1>13 DEF TypeOK, AttemptsInStep, Untouched, RowsInStep, FailuresAreOnRecord,
     Exists, Attempt, Running, MarkFailed, Goto
<1>14. ASSUME Die PROVE RowsInStep'
  BY <1>14 DEF TypeOK, AttemptsInStep, Untouched, RowsInStep, FailuresAreOnRecord,
     Exists, Attempt, Running, Die
<1>15. CASE UNCHANGED vars
  BY <1>15 DEF TypeOK, AttemptsInStep, Untouched, RowsInStep, FailuresAreOnRecord,
     Exists, Attempt, Running, vars
<1> QED
  BY <1>1, <1>2, <1>3, <1>4, <1>5, <1>6, <1>7, <1>8, <1>9, <1>10, <1>11, <1>12,
     <1>13, <1>14, <1>15 DEF Next, Administer, DeliverWithRetry

(* ... and so has the one it failed last.                                   *)
LEMMA RecordStep == TypeOK /\ AttemptsInStep /\ Untouched /\ RowsInStep /\ FailuresAreOnRecord /\ [Next]_vars => FailuresAreOnRecord'
<1> USE WebhookConstants
<1> SUFFICES ASSUME TypeOK /\ AttemptsInStep /\ Untouched /\ RowsInStep /\ FailuresAreOnRecord, [Next]_vars PROVE FailuresAreOnRecord'
  OBVIOUS
<1>1. ASSUME NEW s \in Subscription, CreateWebhookSubscription(s) PROVE FailuresAreOnRecord'
  BY <1>1 DEF TypeOK, AttemptsInStep, Untouched, RowsInStep, FailuresAreOnRecord,
     Exists, Attempt, Running, CreateWebhookSubscription
<1>2. ASSUME NEW s \in Subscription, UpdateWebhookSubscription(s) PROVE FailuresAreOnRecord'
  BY <1>2 DEF TypeOK, AttemptsInStep, Untouched, RowsInStep, FailuresAreOnRecord,
     Exists, Attempt, Running, UpdateWebhookSubscription
<1>3. ASSUME NEW s \in Subscription, DeleteWebhookSubscription(s) PROVE FailuresAreOnRecord'
  BY <1>3 DEF TypeOK, AttemptsInStep, Untouched, RowsInStep, FailuresAreOnRecord,
     Exists, Attempt, Running, DeleteWebhookSubscription
<1>4. ASSUME NEW e \in Event, DispatchWebhookEvent(e) PROVE FailuresAreOnRecord'
  BY <1>4 DEF TypeOK, AttemptsInStep, Untouched, RowsInStep, FailuresAreOnRecord,
     Exists, Attempt, Running, DispatchWebhookEvent
<1>5. ASSUME NEW e \in Event, NEW s \in Subscription, EndpointAccepts(e, s) PROVE FailuresAreOnRecord'
  BY <1>5 DEF TypeOK, AttemptsInStep, Untouched, RowsInStep, FailuresAreOnRecord,
     Exists, Attempt, Running, EndpointAccepts, Goto
<1>6. ASSUME NEW e \in Event, NEW s \in Subscription, AttemptFails(e, s) PROVE FailuresAreOnRecord'
  BY <1>6 DEF TypeOK, AttemptsInStep, Untouched, RowsInStep, FailuresAreOnRecord,
     Exists, Attempt, Running, AttemptFails, Goto
<1>7. ASSUME NEW e \in Event, NEW s \in Subscription, LogDelivered(e, s) PROVE FailuresAreOnRecord'
  BY <1>7 DEF TypeOK, AttemptsInStep, Untouched, RowsInStep, FailuresAreOnRecord,
     Exists, Attempt, Running, LogDelivered, Goto, WriteRow
<1>8. ASSUME NEW e \in Event, NEW s \in Subscription, LogRefused(e, s) PROVE FailuresAreOnRecord'
  BY <1>8 DEF TypeOK, AttemptsInStep, Untouched, RowsInStep, FailuresAreOnRecord,
     Exists, Attempt, Running, LogRefused, Goto, WriteRow, AfterFailure
<1>9. ASSUME NEW e \in Event, NEW s \in Subscription, LogAnswerFails(e, s) PROVE FailuresAreOnRecord'
  BY <1>9 DEF TypeOK, AttemptsInStep, Untouched, RowsInStep, FailuresAreOnRecord,
     Exists, Attempt, Running, LogAnswerFails, Goto
<1>10. ASSUME NEW e \in Event, NEW s \in Subscription, LogThrow(e, s) PROVE FailuresAreOnRecord'
  BY <1>10 DEF TypeOK, AttemptsInStep, Untouched, RowsInStep, FailuresAreOnRecord,
     Exists, Attempt, Running, LogThrow, Goto, WriteRow, AfterFailure
<1>11. ASSUME NEW e \in Event, NEW s \in Subscription, LogThrowFails(e, s) PROVE FailuresAreOnRecord'
  BY <1>11 DEF TypeOK, AttemptsInStep, Untouched, RowsInStep, FailuresAreOnRecord,
     Exists, Attempt, Running, LogThrowFails, Goto, AfterFailure
<1>12. ASSUME NEW e \in Event, NEW s \in Subscription, RetryTimer(e, s) PROVE FailuresAreOnRecord'
  BY <1>12 DEF TypeOK, AttemptsInStep, Untouched, RowsInStep, FailuresAreOnRecord,
     Exists, Attempt, Running, RetryTimer, Goto
<1>13. ASSUME NEW e \in Event, NEW s \in Subscription, MarkFailed(e, s) PROVE FailuresAreOnRecord'
  BY <1>13 DEF TypeOK, AttemptsInStep, Untouched, RowsInStep, FailuresAreOnRecord,
     Exists, Attempt, Running, MarkFailed, Goto
<1>14. ASSUME Die PROVE FailuresAreOnRecord'
  BY <1>14 DEF TypeOK, AttemptsInStep, Untouched, RowsInStep, FailuresAreOnRecord,
     Exists, Attempt, Running, Die
<1>15. CASE UNCHANGED vars
  BY <1>15 DEF TypeOK, AttemptsInStep, Untouched, RowsInStep, FailuresAreOnRecord,
     Exists, Attempt, Running, vars
<1> QED
  BY <1>1, <1>2, <1>3, <1>4, <1>5, <1>6, <1>7, <1>8, <1>9, <1>10, <1>11, <1>12,
     <1>13, <1>14, <1>15 DEF Next, Administer, DeliverWithRetry

-----------------------------------------------------------------------------
(***************************************************************************)
(* The theorems.                                                           *)
(***************************************************************************)
LEMMA InitIInv == Init => IInv
BY WebhookConstants DEF Init, IInv, TypeOK, AttemptsInStep, Untouched, RowsInStep,
   LoggedSuccessIsFinal, FailuresAreOnRecord, Attempt, Running, Exists

LEMMA StepIInv == IInv /\ [Next]_vars => IInv'
BY TypeStep, AttemptsStep, UntouchedStep, SuccessStep, RowsStep, RecordStep DEF IInv

LEMMA Inductive == Spec => []IInv
BY InitIInv, StepIInv, PTL DEF Spec

(* Every reachable state has its type.                                        *)
THEOREM TypeCorrect == Spec => []TypeOK
<1>1. IInv => TypeOK
  BY DEF IInv
<1> QED  BY <1>1, Inductive, PTL

(* A delivery on record was answered, and its event is not sent again.         *)
THEOREM SuccessIsFinal == Spec => []LoggedSuccessIsFinal
<1>1. IInv => LoggedSuccessIsFinal
  BY DEF IInv
<1> QED  BY <1>1, Inductive, PTL

(* A retry a restart drops leaves a row for every attempt that was made.       *)
THEOREM DroppedRetriesShow == Spec => []FailuresAreOnRecord
<1>1. IInv => FailuresAreOnRecord
  BY DEF IInv
<1> QED  BY <1>1, Inductive, PTL

(* Only a chain that used all its attempts marks its subscription failed.      *)
THEOREM FailedOnlyByExhaustion == Spec => OnlyExhaustionFails
<1> DEFINE P(s) == status[s] # "failed" /\ status'[s] = "failed" =>
         \E e \in sent :
            /\ chain[e][s] = "failing" /\ attempt[e][s] = MaxAttempts
            /\ \A k \in Attempt : log[e][s][k] # "2xx"
<1>1. IInv /\ [Next]_vars => [\A s \in Subscription : P(s)]_vars
  <2> SUFFICES ASSUME IInv, Next, NEW s \in Subscription,
                      status[s] # "failed", status'[s] = "failed"
               PROVE  \E e \in sent :
                        /\ chain[e][s] = "failing" /\ attempt[e][s] = MaxAttempts
                        /\ \A k \in Attempt : log[e][s][k] # "2xx"
    BY DEF vars
  <2>1. PICK e \in Event, t \in Subscription : MarkFailed(e, t)
    <3>1. \A t \in Subscription : ~Administer(t)
      BY DEF IInv, TypeOK, Administer, CreateWebhookSubscription, UpdateWebhookSubscription,
             DeleteWebhookSubscription, Exists
    <3>2. ~UNCHANGED status
      OBVIOUS
    <3> QED
      BY <3>1, <3>2 DEF Next, DispatchWebhookEvent, DeliverWithRetry, EndpointAccepts, AttemptFails,
             LogDelivered, LogRefused, LogAnswerFails, LogThrow, LogThrowFails, RetryTimer, Die
  <2>2. t = s
    BY <2>1 DEF MarkFailed, IInv, TypeOK
  <2>3. e \in sent /\ chain[e][s] = "failing" /\ attempt[e][s] = MaxAttempts
    BY <2>1, <2>2 DEF MarkFailed, IInv, AttemptsInStep, Untouched
  <2>4. \A k \in Attempt : log[e][s][k] # "2xx"
    BY <2>1, <2>3 DEF IInv, LoggedSuccessIsFinal
  <2> QED  BY <2>3, <2>4
<1> QED  BY <1>1, Inductive, PTL DEF Spec, OnlyExhaustionFails

-----------------------------------------------------------------------------
(***************************************************************************)
(* Refinement: the chains implement WebhookPromise.                           *)
(***************************************************************************)
(* A function of two arguments that changes at one place.                      *)
LEMMA OnePlaceChanges ==
  ASSUME NEW D, NEW R, NEW f, NEW g,
         f = [d \in D |-> [t \in R |-> f[d][t]]], g = [d \in D |-> [t \in R |-> g[d][t]]],
         NEW e \in D, NEW s \in R,
         \A d \in D, t \in R : d # e \/ t # s => g[d][t] = f[d][t]
  PROVE  g = [f EXCEPT ![e][s] = g[e][s]]
<1>1. \A d \in D : d # e => g[d] = f[d]
  OBVIOUS
<1>2. g[e] = [f[e] EXCEPT ![s] = g[e][s]]
  OBVIOUS
<1> QED  BY <1>1, <1>2

(* A step of one chain changes the promise at that event and subscription only. *)
LEMMA OneChainMoves ==
  ASSUME NEW e \in Event, NEW s \in Subscription,
         \A d \in Event, t \in Subscription : d # e \/ t # s =>
            chain'[d][t] = chain[d][t] /\ attempt'[d][t] = attempt[d][t]
  PROVE  /\ PromiseStage' = [PromiseStage EXCEPT ![e][s] = PromiseStage'[e][s]]
         /\ TriedInVain' = [TriedInVain EXCEPT ![e][s] = TriedInVain'[e][s]]
<1>1. /\ PromiseStage = [d \in Event |-> [t \in Subscription |-> PromiseStage[d][t]]]
      /\ PromiseStage' = [d \in Event |-> [t \in Subscription |-> PromiseStage'[d][t]]]
      /\ \A d \in Event, t \in Subscription : d # e \/ t # s =>
            PromiseStage'[d][t] = PromiseStage[d][t]
  BY DEF PromiseStage
<1>2. /\ TriedInVain = [d \in Event |-> [t \in Subscription |-> TriedInVain[d][t]]]
      /\ TriedInVain' = [d \in Event |-> [t \in Subscription |-> TriedInVain'[d][t]]]
      /\ \A d \in Event, t \in Subscription : d # e \/ t # s =>
            TriedInVain'[d][t] = TriedInVain[d][t]
  BY DEF TriedInVain
<1> QED  BY <1>1, <1>2, OnePlaceChanges

(* Every step of a chain leaves the others alone.                              *)
LEMMA OtherChainsStand ==
  ASSUME TypeOK, NEW e \in Event, NEW s \in Subscription, DeliverWithRetry(e, s)
  PROVE  /\ \A d \in Event, t \in Subscription : d # e \/ t # s =>
              chain'[d][t] = chain[d][t] /\ attempt'[d][t] = attempt[d][t]
         /\ UNCHANGED sent
         /\ ~MarkFailed(e, s) => UNCHANGED PromiseStanding
<1>1. CASE RetryTimer(e, s)
  BY <1>1 DEF TypeOK, RetryTimer, Goto, PromiseStanding
<1>2. CASE MarkFailed(e, s)
  BY <1>2 DEF TypeOK, MarkFailed, Goto
<1>3. CASE \/ EndpointAccepts(e, s) \/ AttemptFails(e, s) \/ LogDelivered(e, s)
           \/ LogRefused(e, s) \/ LogAnswerFails(e, s) \/ LogThrow(e, s) \/ LogThrowFails(e, s)
  BY <1>3 DEF TypeOK, EndpointAccepts, AttemptFails, LogDelivered, LogRefused, LogAnswerFails,
              LogThrow, LogThrowFails, Goto, PromiseStanding
<1> QED  BY <1>1, <1>2, <1>3 DEF DeliverWithRetry

(* A chain that moves on where the promise sees no difference.                 *)
LEMMA QuietChain ==
  ASSUME TypeOK, NEW e \in Event, NEW s \in Subscription, DeliverWithRetry(e, s), ~MarkFailed(e, s),
         PromiseStage'[e][s] = PromiseStage[e][s], TriedInVain'[e][s] = TriedInVain[e][s]
  PROVE  UNCHANGED Promise!vars
<1>1. UNCHANGED <<PromiseStage, TriedInVain>>
  BY OtherChainsStand DEF PromiseStage, TriedInVain
<1> QED  BY <1>1, OtherChainsStand DEF Promise!vars

(* A request is answered with a 2xx: the event is taken.                        *)
LEMMA AcceptanceIsTake ==
  ASSUME TypeOK, NEW e \in Event, NEW s \in Subscription, EndpointAccepts(e, s)
  PROVE  Promise!Take(e, s)
<1>1. DeliverWithRetry(e, s) /\ ~MarkFailed(e, s)
  BY DEF DeliverWithRetry, EndpointAccepts, MarkFailed
<1>2. chain[e][s] = "ready" /\ chain'[e][s] = "accepted" /\ UNCHANGED attempt
  BY DEF TypeOK, EndpointAccepts, Goto
<1>3. PromiseStage[e][s] = "trying" /\ PromiseStage'[e][s] = "taken"
  BY <1>2 DEF PromiseStage, Running
<1>4. TriedInVain[e][s] < MaxAttempts
  BY <1>2, WebhookConstants DEF TypeOK, TriedInVain, Attempt
<1>5. UNCHANGED TriedInVain
  BY <1>1, <1>2, OtherChainsStand DEF TriedInVain
<1> QED
  BY <1>1, <1>3, <1>4, <1>5, OtherChainsStand, OneChainMoves DEF Promise!Take, Promise!Move

(* Its row is written: the event is delivered.                                 *)
LEMMA RowOfSuccessIsDeliver ==
  ASSUME TypeOK, NEW e \in Event, NEW s \in Subscription, LogDelivered(e, s)
  PROVE  Promise!Deliver(e, s)
<1>1. DeliverWithRetry(e, s) /\ ~MarkFailed(e, s)
  BY DEF DeliverWithRetry, LogDelivered, MarkFailed
<1>2. chain[e][s] = "accepted" /\ chain'[e][s] = "delivered" /\ UNCHANGED attempt
  BY DEF TypeOK, LogDelivered, Goto
<1>3. PromiseStage[e][s] = "taken" /\ PromiseStage'[e][s] = "delivered"
  BY <1>2 DEF PromiseStage, Running
<1>4. UNCHANGED TriedInVain
  BY <1>1, <1>2, OtherChainsStand DEF TriedInVain
<1> QED
  BY <1>1, <1>3, <1>4, OtherChainsStand, OneChainMoves DEF Promise!Deliver, Promise!Move

(* An attempt fails, or its answer cannot be put on record: it was made in vain. *)
LEMMA FailureIsTryInVain ==
  ASSUME TypeOK, NEW e \in Event, NEW s \in Subscription,
         AttemptFails(e, s) \/ (LogAnswerFails(e, s) /\ chain[e][s] = "accepted")
  PROVE  Promise!TryInVain(e, s)
<1>1. DeliverWithRetry(e, s) /\ ~MarkFailed(e, s)
  BY DEF DeliverWithRetry, AttemptFails, LogAnswerFails, MarkFailed
<1>2. /\ chain[e][s] \in {"ready", "accepted"} /\ chain'[e][s] \in {"refused", "threw"}
      /\ UNCHANGED attempt
  BY DEF TypeOK, AttemptFails, LogAnswerFails, Goto
<1>3. PromiseStage[e][s] \in {"trying", "taken"} /\ PromiseStage'[e][s] = "trying"
  BY <1>2 DEF PromiseStage, Running
<1>4. TriedInVain[e][s] = attempt[e][s] - 1 /\ TriedInVain'[e][s] = attempt[e][s]
  BY <1>2 DEF TriedInVain
<1>5. TriedInVain[e][s] < MaxAttempts /\ TriedInVain'[e][s] = TriedInVain[e][s] + 1
  BY <1>4, WebhookConstants DEF TypeOK, Attempt
<1>6. Promise!Move(e, s, PromiseStage[e][s], "trying")
  BY <1>1, <1>3, OtherChainsStand, OneChainMoves DEF Promise!Move
<1>7. TriedInVain' = [TriedInVain EXCEPT ![e][s] = TriedInVain[e][s] + 1]
  <2>1. TriedInVain' = [TriedInVain EXCEPT ![e][s] = TriedInVain'[e][s]]
    BY <1>1, OtherChainsStand, OneChainMoves
  <2> QED  BY <1>5, <2>1, Zenon
<1>8. \E from \in {"trying", "taken"} : Promise!Move(e, s, from, "trying")
  BY <1>3, <1>6
<1> QED
  BY <1>1, <1>5, <1>7, <1>8, OtherChainsStand DEF Promise!TryInVain

(* Giving up comes after every attempt, and is all that marks a subscription.   *)
LEMMA MarkFailedIsGiveUp ==
  ASSUME TypeOK, AttemptsInStep, NEW e \in Event, NEW s \in Subscription, MarkFailed(e, s)
  PROVE  Promise!GiveUp(e, s)
<1>1. DeliverWithRetry(e, s)
  BY DEF DeliverWithRetry
<1>2. /\ chain[e][s] = "failing" /\ attempt[e][s] = MaxAttempts /\ UNCHANGED attempt
      /\ chain'[e][s] = "exhausted"
  BY DEF TypeOK, MarkFailed, Goto, AttemptsInStep
<1>3. PromiseStage[e][s] = "trying" /\ PromiseStage'[e][s] = "givenUp"
  BY <1>2 DEF PromiseStage, Running
<1>4. TriedInVain[e][s] = MaxAttempts
  BY <1>2 DEF TriedInVain
<1>5. UNCHANGED TriedInVain
  BY <1>1, <1>2, OtherChainsStand DEF TriedInVain
<1>6. \/ PromiseStanding' = PromiseStanding
      \/ PromiseStanding' = [PromiseStanding EXCEPT ![s] = "failed"]
  <2>1. UNCHANGED status \/ status' = [status EXCEPT ![s] = "failed"]
    BY DEF MarkFailed
  <2> QED  BY <2>1 DEF TypeOK, PromiseStanding
<1>7. \E to \in {PromiseStanding[s], "failed"} :
         PromiseStanding' = [PromiseStanding EXCEPT ![s] = to]
  BY <1>6 DEF PromiseStanding
<1>8. Promise!Move(e, s, "trying", "givenUp")
  BY <1>1, <1>3, OtherChainsStand, OneChainMoves DEF Promise!Move
<1> QED
  BY <1>1, <1>4, <1>5, <1>7, <1>8, OtherChainsStand DEF Promise!GiveUp

(* A dispatch reaches the subscriptions open at that moment, or none.           *)
LEMMA DispatchIsHappen ==
  ASSUME TypeOK, Untouched, NEW e \in Event, DispatchWebhookEvent(e)
  PROVE  Promise!Happen(e)
<1>1. /\ e \notin sent /\ sent' = sent \cup {e}
      /\ UNCHANGED <<status, attempt>>
      /\ \A s \in Subscription : chain[e][s] = "none" /\ attempt[e][s] = 1
  BY DEF TypeOK, Untouched, DispatchWebhookEvent
<1>2. PICK read \in BOOLEAN : chain' = [chain EXCEPT ![e] = [s \in Subscription |->
                      IF read /\ status[s] = "active" THEN "ready" ELSE "none"]]
  BY DEF DispatchWebhookEvent
<1> DEFINE to == IF read THEN {s \in Subscription : PromiseStanding[s] = "open"} ELSE {}
<1>3. \A s \in Subscription :
         chain'[e][s] = (IF s \in to THEN "ready" ELSE "none")
  BY <1>2 DEF TypeOK, PromiseStanding
<1>4. \A d \in Event, s \in Subscription : d # e => chain'[d][s] = chain[d][s]
  BY <1>2 DEF TypeOK
<1>5. UNCHANGED TriedInVain
  <2>1. \A s \in Subscription : TriedInVain[e][s] = 0 /\ TriedInVain'[e][s] = 0
    BY <1>1, <1>3 DEF TriedInVain
  <2>2. \A d \in Event, s \in Subscription : TriedInVain'[d][s] = TriedInVain[d][s]
    BY <1>1, <1>4, <2>1 DEF TriedInVain
  <2> QED  BY <2>2 DEF TriedInVain
<1>6. PromiseStage' = [PromiseStage EXCEPT ![e] = [s \in Subscription |->
                          IF s \in to THEN "trying" ELSE "none"]]
  <2> HIDE DEF to
  <2>1. \A s \in Subscription : PromiseStage'[e][s] = (IF s \in to THEN "trying" ELSE "none")
    BY <1>3 DEF PromiseStage, Running
  <2>2. \A d \in Event : d # e => PromiseStage'[d] = PromiseStage[d]
    BY <1>4 DEF PromiseStage
  <2>3. PromiseStage'[e] = [s \in Subscription |-> IF s \in to THEN "trying" ELSE "none"]
    BY <2>1 DEF PromiseStage
  <2> QED  BY <2>2, <2>3 DEF PromiseStage
<1>7. UNCHANGED PromiseStanding
  BY <1>1 DEF PromiseStanding
<1>8. to \in {{}, {s \in Subscription : PromiseStanding[s] = "open"}}
  OBVIOUS
<1> HIDE DEF to
<1> QED  BY <1>1, <1>5, <1>6, <1>7, <1>8 DEF Promise!Happen

(* A restart of the process is the promise's.                                 *)
LEMMA DieIsRestart ==
  ASSUME TypeOK, Die
  PROVE  Promise!Restart
<1>1. \A e \in Event, s \in Subscription :
         PromiseStage[e][s] \in {"trying", "taken"} <=> chain[e][s] \in Running
  BY DEF TypeOK, PromiseStage, Running
<1>2. PromiseStage' = [e \in Event |-> [s \in Subscription |->
          IF PromiseStage[e][s] \in {"trying", "taken"} THEN "dropped" ELSE PromiseStage[e][s]]]
  BY <1>1 DEF TypeOK, Die, PromiseStage, Running
<1>3. TriedInVain' = [e \in Event |-> [s \in Subscription |->
          IF PromiseStage[e][s] \in {"trying", "taken"} THEN 0 ELSE TriedInVain[e][s]]]
  BY <1>1 DEF TypeOK, Die, TriedInVain, Running
<1> QED  BY <1>2, <1>3 DEF Die, PromiseStanding, Promise!Restart

(* An administrator opens or closes.                                        *)
LEMMA AdministerIsAdminister ==
  ASSUME TypeOK, NEW s \in Subscription, Administer(s)
  PROVE  Promise!Administer(s)
<1>1. PICK to \in {"active", "disabled", "deleted"} : status' = [status EXCEPT ![s] = to]
  BY DEF Administer, CreateWebhookSubscription, UpdateWebhookSubscription,
         DeleteWebhookSubscription
<1>2. UNCHANGED <<sent, chain, attempt>>
  BY DEF Administer, CreateWebhookSubscription, UpdateWebhookSubscription,
         DeleteWebhookSubscription
<1>3. UNCHANGED <<PromiseStage, TriedInVain>>
  BY <1>2 DEF PromiseStage, TriedInVain
<1>4. PromiseStanding' = [PromiseStanding EXCEPT ![s] = IF to = "active" THEN "open" ELSE "closed"]
  BY <1>1 DEF TypeOK, PromiseStanding
<1> QED  BY <1>2, <1>3, <1>4 DEF Promise!Administer

(* Every step is one of the promise or changes nothing it sees.                 *)
LEMMA StepKeepsPromise ==
  TypeOK /\ AttemptsInStep /\ Untouched /\ [Next]_vars => [Promise!Next]_(Promise!vars)
<1> SUFFICES ASSUME TypeOK, AttemptsInStep, Untouched, [Next]_vars
             PROVE  Promise!Next \/ UNCHANGED Promise!vars
  OBVIOUS
<1>1. ASSUME NEW s \in Subscription, Administer(s) PROVE Promise!Next
  BY <1>1, AdministerIsAdminister DEF Promise!Next
<1>2. ASSUME NEW e \in Event, DispatchWebhookEvent(e) PROVE Promise!Next
  BY <1>2, DispatchIsHappen DEF Promise!Next
<1>3. CASE Die
  BY <1>3, DieIsRestart DEF Promise!Next
<1>4. ASSUME NEW e \in Event, NEW s \in Subscription, DeliverWithRetry(e, s)
      PROVE  Promise!Next \/ UNCHANGED Promise!vars
  <2>1. CASE EndpointAccepts(e, s)
    BY <2>1, AcceptanceIsTake DEF Promise!Next
  <2>2. CASE LogDelivered(e, s)
    BY <2>2, RowOfSuccessIsDeliver DEF Promise!Next
  <2>3. CASE AttemptFails(e, s) \/ (LogAnswerFails(e, s) /\ chain[e][s] = "accepted")
    BY <2>3, FailureIsTryInVain DEF Promise!Next
  <2>4. CASE MarkFailed(e, s)
    BY <2>4, MarkFailedIsGiveUp DEF Promise!Next
  <2>5. CASE LogAnswerFails(e, s) /\ chain[e][s] # "accepted"
    <3>1. /\ chain[e][s] = "refused" /\ chain'[e][s] = "threw" /\ UNCHANGED attempt
          /\ ~MarkFailed(e, s)
      BY <2>5 DEF TypeOK, LogAnswerFails, Goto, MarkFailed
    <3> QED  BY <1>4, <3>1, QuietChain DEF PromiseStage, TriedInVain, Running
  <2>6. CASE LogRefused(e, s) \/ LogThrow(e, s) \/ LogThrowFails(e, s)
    <3>1. /\ chain[e][s] \in {"refused", "threw"} /\ chain'[e][s] \in {"failing", "waiting"}
          /\ UNCHANGED attempt /\ ~MarkFailed(e, s)
      BY <2>6 DEF TypeOK, LogRefused, LogThrow, LogThrowFails, AfterFailure, Goto, MarkFailed
    <3> QED  BY <1>4, <3>1, QuietChain DEF PromiseStage, TriedInVain, Running
  <2>7. CASE RetryTimer(e, s)
    <3>1. /\ chain[e][s] = "waiting" /\ chain'[e][s] = "ready" /\ ~MarkFailed(e, s)
          /\ attempt[e][s] \in Nat /\ attempt'[e][s] = attempt[e][s] + 1
      BY <2>7, WebhookConstants DEF TypeOK, RetryTimer, Goto, MarkFailed, Attempt
    <3>2. PromiseStage'[e][s] = PromiseStage[e][s] /\ TriedInVain'[e][s] = TriedInVain[e][s]
      BY <3>1 DEF PromiseStage, TriedInVain, Running
    <3> QED  BY <1>4, <3>1, <3>2, QuietChain
  <2> QED
    BY <1>4, <2>1, <2>2, <2>3, <2>4, <2>5, <2>6, <2>7 DEF DeliverWithRetry
<1>5. CASE UNCHANGED vars
  BY <1>5 DEF vars, PromiseStanding, PromiseStage, TriedInVain, Promise!vars
<1> QED  BY <1>1, <1>2, <1>3, <1>4, <1>5 DEF Next

(* Chains, timers, log rows and restarts implement what outbound webhooks       *)
(* promise a receiver.                                                       *)
THEOREM PromiseKept == Spec => KeepsPromise
<1>1. Init => Promise!Init
  BY DEF Init, Promise!Init, PromiseStanding, PromiseStage, TriedInVain, Running
<1>2. IInv => TypeOK /\ AttemptsInStep /\ Untouched
  BY DEF IInv
<1> QED
  BY <1>1, <1>2, StepKeepsPromise, Inductive, PTL DEF Spec, Promise!Spec, KeepsPromise
=============================================================================
