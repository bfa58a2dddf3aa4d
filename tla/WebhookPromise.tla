--------------------------- MODULE WebhookPromise ---------------------------
(***************************************************************************)
(* What outbound webhooks promise the receiver of an event, with no timers,   *)
(* answers on their way, log rows or rows of the subscription: an event goes   *)
(* once to each subscription that was open at that moment; it is tried until   *)
(* an answer is on record, at most MaxAttempts times, and given up only after   *)
(* all of them; what a restart drops is not taken up again; and nothing but     *)
(* giving up an event marks a subscription failed.                            *)
(***************************************************************************)
EXTENDS Integers

CONSTANTS Event, Subscription, MaxAttempts

VARIABLES
    standing,   \* standing[s]: "open", "failed" or, for any other reason, "closed"
    sent,       \* events that happened
    stage,      \* stage[e][s]: how far the delivery of e to s is
    tries       \* tries[e][s]: attempts that came to nothing

vars == <<standing, sent, stage, tries>>

TypeOK ==
    /\ standing \in [Subscription -> {"open", "failed", "closed"}]
    /\ sent \subseteq Event
    /\ stage \in [Event -> [Subscription ->
           {"none", "trying", "taken", "delivered", "givenUp", "dropped"}]]
    /\ tries \in [Event -> [Subscription -> 0..MaxAttempts]]

Init ==
    /\ standing = [s \in Subscription |-> "closed"]
    /\ sent = {}
    /\ stage = [e \in Event |-> [s \in Subscription |-> "none"]]
    /\ tries = [e \in Event |-> [s \in Subscription |-> 0]]

Administer(s) ==
    /\ \E to \in {"open", "closed"} : standing' = [standing EXCEPT ![s] = to]
    /\ UNCHANGED <<sent, stage, tries>>

(* To every subscription that is open, or to none.                            *)
Happen(e) ==
    /\ e \notin sent
    /\ sent' = sent \cup {e}
    /\ \E to \in {{}, {s \in Subscription : standing[s] = "open"}} :
         stage' = [stage EXCEPT ![e] = [s \in Subscription |->
                      IF s \in to THEN "trying" ELSE "none"]]
    /\ UNCHANGED <<standing, tries>>

Move(e, s, from, to) ==
    /\ stage[e][s] = from
    /\ stage' = [stage EXCEPT ![e][s] = to]

(* The receiver takes the event ...                                          *)
Take(e, s) ==
    /\ tries[e][s] < MaxAttempts
    /\ Move(e, s, "trying", "taken")
    /\ UNCHANGED <<standing, sent, tries>>

(* ... and its answer is put on record.                                       *)
Deliver(e, s) ==
    /\ Move(e, s, "taken", "delivered")
    /\ UNCHANGED <<standing, sent, tries>>

(* An attempt comes to nothing: the receiver does not take the event, or its    *)
(* answer cannot be put on record.                                           *)
TryInVain(e, s) ==
    /\ tries[e][s] < MaxAttempts
    /\ \E from \in {"trying", "taken"} : Move(e, s, from, "trying")
    /\ tries' = [tries EXCEPT ![e][s] = @ + 1]
    /\ UNCHANGED <<standing, sent>>

GiveUp(e, s) ==
    /\ tries[e][s] = MaxAttempts
    /\ Move(e, s, "trying", "givenUp")
    /\ \E to \in {standing[s], "failed"} : standing' = [standing EXCEPT ![s] = to]
    /\ UNCHANGED <<sent, tries>>

(* A restart drops all that is under way, and forgets how far it was.            *)
Restart ==
    LET dropped(e, s) == stage[e][s] \in {"trying", "taken"} IN
    /\ stage' = [e \in Event |-> [s \in Subscription |->
                    IF dropped(e, s) THEN "dropped" ELSE stage[e][s]]]
    /\ tries' = [e \in Event |-> [s \in Subscription |->
                    IF dropped(e, s) THEN 0 ELSE tries[e][s]]]
    /\ UNCHANGED <<standing, sent>>

Next ==
    \/ \E s \in Subscription : Administer(s)
    \/ \E e \in Event : Happen(e)
    \/ \E e \in Event, s \in Subscription :
         Take(e, s) \/ Deliver(e, s) \/ TryInVain(e, s) \/ GiveUp(e, s)
    \/ Restart

Spec == Init /\ [][Next]_vars
=============================================================================
