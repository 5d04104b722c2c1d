------------------------------ MODULE Checkout ------------------------------
(***************************************************************************)
(* Checkout sessions of one account and their containment when the account *)
(* is deleted (src/lib/stripe-server.ts, the billing stage of              *)
(* src/lib/account-deletion.ts).                                           *)
(*                                                                         *)
(* Requests for a checkout share one claim, users/uid/billingCheckout.     *)
(* Its claimId is the idempotency key at Stripe, so a claim has at most    *)
(* one session and a session at most one subscription: all three are named *)
(* by the claim.  A claim nobody refers to any more, and that never had a  *)
(* session, stands for a new one.  Stripe, the customer who pays or        *)
(* cancels, and the signed events are the environment.  Statuses creating  *)
(* and replacing of the claim are treated alike by all code: one value.    *)
(***************************************************************************)
EXTENDS Naturals

CONSTANTS Requests, \* checkout requests that may be served at once
          Claims,   \* bound: ids of claims
          None,     \* not a claim
          MaxFaults \* bound: requests that die or fail, and claims taken over from a live one

ASSUME NoneAssumption == None \notin Claims
ASSUME BoundAssumption == MaxFaults \in Nat

VARIABLES lifecycle, \* accountLifecycles/uid .state, and accountDeletionInProgress
          account,   \* users/uid: [customer known, subscription, is it nonterminal]
          claim,     \* users/uid/billingCheckout/current: [status, id, session recorded, fresh]
          session,   \* claim -> status of its session at Stripe
          sub,       \* claim -> status of its subscription at Stripe
          shown,     \* claims whose session URL has reached the browser
          notice,    \* claims with a signed event that is not acknowledged yet
          request,   \* checkout request -> where it is and what it knows
          job,       \* billing part of the deletion job: [stage, customer, work]
          faults,    \* counter for MaxFaults
          overtaken  \* was a claim resumed while its request was still at work?

vars == <<lifecycle, account, claim, session, sub, shown, notice, request, job, faults, overtaken>>
stripe == <<session, sub, shown, notice>>

Failing == {"customer", "list", "previous", "allowed", "create", "opening", "contain"}
Holding == Failing \cup {"certify", "mark"}
JobStages == {"none", "checkout", "billing", "sessions", "subs", "cancel", "confirm", "contained"}

Claim == [status : {"none", "creating", "open", "failed", "completed", "canceled"},
          id : Claims \cup {None}, session : BOOLEAN, fresh : BOOLEAN]
Request == [pc : Holding \cup {"idle", "claim"}, id : Claims \cup {None}, prev : Claims \cup {None},
            mayExist : BOOLEAN, contained : BOOLEAN, customer : BOOLEAN]
Idle == [pc |-> "idle", id |-> None, prev |-> None, mayExist |-> FALSE, contained |-> FALSE, customer |-> FALSE]

TypeOK ==
  /\ lifecycle \in {"active", "deleting"}
  /\ account \in [customer : BOOLEAN, sub : Claims \cup {None}, live : BOOLEAN]
  /\ claim \in Claim
  /\ session \in [Claims -> {"none", "open", "expired", "complete"}]
  /\ sub \in [Claims -> {"none", "live", "canceled"}]
  /\ shown \subseteq Claims
  /\ notice \subseteq Claims
  /\ request \in [Requests -> Request]
  /\ \A r \in Requests : request[r].pc \in Holding => request[r].id \in Claims
  /\ claim.status # "none" => claim.id \in Claims
  /\ job \in [stage : JobStages, customer : BOOLEAN, work : SUBSET Claims]
  /\ faults \in 0 .. MaxFaults
  /\ overtaken \in BOOLEAN

Init ==
  /\ lifecycle = "active"
  /\ account \in [customer : BOOLEAN, sub : {None}, live : {FALSE}]
  /\ claim = [status |-> "none", id |-> None, session |-> FALSE, fresh |-> FALSE]
  /\ session = [c \in Claims |-> "none"]
  /\ sub = [c \in Claims |-> "none"]
  /\ shown = {}
  /\ notice = {}
  /\ request = [r \in Requests |-> Idle]
  /\ job = [stage |-> "none", customer |-> FALSE, work |-> {}]
  /\ faults = 0
  /\ overtaken = FALSE

\* The claim with another status.
Marked(status, fresh) == [status |-> status, id |-> claim.id, session |-> claim.session, fresh |-> fresh]

Holders(c) == {r \in Requests : request[r].pc \in Holding /\ request[r].id = c}
Unused(c) == /\ session[c] = "none" /\ claim.id # c
             /\ \A r \in Requests : c \notin {request[r].id, request[r].prev}
Live == {c \in Claims : sub[c] = "live"}
Open == {c \in Claims : session[c] = "open"}
Expired(s, C) == [c \in Claims |-> IF c \in C /\ s[c] = "open" THEN "expired" ELSE s[c]]
Canceled(s, C) == [c \in Claims |-> IF c \in C /\ s[c] = "live" THEN "canceled" ELSE s[c]]

-----------------------------------------------------------------------------
(* A checkout request *)

At(r, pc) == request[r].pc = pc

\* The request goes on, with what it knows of its session and of the customer.
Goes(r, pc, mayExist, contained, customer) ==
  request' = [request EXCEPT ![r] = [pc |-> pc, id |-> request[r].id, prev |-> request[r].prev, mayExist |-> mayExist,
                                     contained |-> contained, customer |-> customer]]
GoTo(r, pc) == Goes(r, pc, request[r].mayExist, request[r].contained, request[r].customer)
Leave(r) == request' = [request EXCEPT ![r] = Idle]

\* The request works on claim c from now on.
Works(r, c, prev, mayExist) ==
  request' = [request EXCEPT ![r] = [pc |-> "customer", id |-> c, prev |-> prev, mayExist |-> mayExist,
                                     contained |-> FALSE, customer |-> request[r].customer]]

\* Mutant: a claim that was resumed is certified as well.
RefusedCertain(r) == GoTo(r, "certify")

\* The catch block: an outcome that Stripe may know more of leaves the claim as it is.
Refused(r) == IF request[r].mayExist THEN Leave(r) ELSE GoTo(r, "certify")

\* The route lets in an account without a nonterminal subscription, and keeps what it read.
Enter(r) ==
  /\ At(r, "idle")
  /\ lifecycle = "active"
  /\ ~account.live
  /\ request' = [request EXCEPT ![r] = [pc |-> "claim", id |-> None, prev |-> None, mayExist |-> FALSE,
                                              contained |-> FALSE, customer |-> account.customer]]
  /\ UNCHANGED <<lifecycle, account, claim, stripe, job, faults, overtaken>>

\* claimCheckout finds the account closed, or a claim that is at work.
Turned(r) ==
  /\ At(r, "claim")
  /\ lifecycle = "deleting" \/ (claim.status = "creating" /\ claim.fresh)
  /\ Leave(r)
  /\ UNCHANGED <<lifecycle, account, claim, stripe, job, faults, overtaken>>

\* It finds an open session for the same offer, and answers with its URL.
Reuse(r) ==
  /\ At(r, "claim")
  /\ lifecycle = "active"
  /\ claim.status = "open" /\ claim.fresh
  /\ shown' = shown \cup {claim.id}
  /\ Leave(r)
  /\ UNCHANGED <<lifecycle, account, claim, session, sub, notice, job, faults, overtaken>>

\* It takes over a claim that is two minutes old, with its id; the previous session is forgotten.
Resume(r) ==
  /\ At(r, "claim")
  /\ lifecycle = "active"
  /\ claim.status = "creating" /\ ~claim.fresh
  /\ IF Holders(claim.id) = {}
       THEN UNCHANGED <<faults, overtaken>>
       ELSE faults < MaxFaults /\ faults' = faults + 1 /\ overtaken' = TRUE
  /\ claim' = [status |-> "creating", id |-> claim.id, session |-> FALSE, fresh |-> TRUE]
  /\ Works(r, claim.id, None, TRUE)
  /\ UNCHANGED <<lifecycle, account, stripe, job>>

\* It makes a new claim, which replaces an open session if there is one.
New(r, c) ==
  /\ At(r, "claim")
  /\ lifecycle = "active"
  /\ claim.status # "creating"
  /\ Unused(c)
  /\ claim' = [status |-> "creating", id |-> c, session |-> FALSE, fresh |-> TRUE]
  /\ Works(r, c, IF claim.status = "open" THEN claim.id ELSE None, FALSE)
  /\ UNCHANGED <<lifecycle, account, stripe, job, faults, overtaken>>

\* stableStripeCustomer: an account without a customer gets one, by a write of
\* the active account; a customer found there meanwhile needs no write.
Customer(r) ==
  /\ At(r, "customer")
  /\ IF lifecycle = "active" \/ account.customer
       THEN /\ account' = [customer |-> TRUE, sub |-> account.sub, live |-> account.live]
            /\ Goes(r, "list", request[r].mayExist, FALSE, TRUE)
       ELSE account' = account /\ Refused(r)
  /\ UNCHANGED <<lifecycle, claim, stripe, job, faults, overtaken>>

\* assertCustomerHasNoNonterminalSubscription
List(r) ==
  /\ At(r, "list")
  /\ IF Live = {} THEN GoTo(r, "previous") ELSE Refused(r)
  /\ UNCHANGED <<lifecycle, account, claim, stripe, job, faults, overtaken>>

\* Mutant: the earlier session stays open.
PreviousKept(r) ==
  /\ At(r, "previous")
  /\ GoTo(r, "allowed")
  /\ UNCHANGED <<lifecycle, account, claim, stripe, job, faults, overtaken>>

\* The session that is replaced is expired; one that is not open any more ends the request.
Previous(r) ==
  /\ At(r, "previous")
  /\ LET p == request[r].prev IN
       IF p = None \/ p \in Open
         THEN session' = Expired(session, {p}) /\ GoTo(r, "allowed")
         ELSE session' = session /\ Refused(r)
  /\ UNCHANGED <<lifecycle, account, claim, sub, shown, notice, job, faults, overtaken>>

\* assertAccountCheckoutAllowed; from here on the session may exist.
Allowed(r) ==
  /\ At(r, "allowed")
  /\ IF lifecycle = "active"
       THEN Goes(r, "create", TRUE, FALSE, request[r].customer)
       ELSE Refused(r)
  /\ UNCHANGED <<lifecycle, account, claim, stripe, job, faults, overtaken>>

\* checkout.sessions.create, the same session whenever the key is the same.
Created(c) == [session EXCEPT ![c] = IF @ = "none" THEN "open" ELSE @]

Create(r) ==
  /\ At(r, "create")
  /\ session' = Created(request[r].id)
  /\ GoTo(r, "opening")
  /\ UNCHANGED <<lifecycle, account, claim, sub, shown, notice, job, faults, overtaken>>

\* The claim becomes open and the URL is answered, if the claim is still this
\* one and the account still active; else the session must be contained.
Opening(r) ==
  /\ At(r, "opening")
  /\ IF lifecycle = "active" /\ claim.id = request[r].id
       THEN /\ claim' = [status |-> "open", id |-> request[r].id, session |-> TRUE, fresh |-> TRUE]
            /\ shown' = shown \cup {request[r].id}
            /\ Leave(r)
       ELSE GoTo(r, "contain") /\ UNCHANGED <<claim, shown>>
  /\ UNCHANGED <<lifecycle, account, session, sub, notice, job, faults, overtaken>>

\* Expired, or found expired, or its subscription canceled.
Contain(r) ==
  /\ At(r, "contain")
  /\ session' = Expired(session, {request[r].id})
  /\ sub' = Canceled(sub, {request[r].id})
  /\ Goes(r, "certify", TRUE, TRUE, request[r].customer)
  /\ UNCHANGED <<lifecycle, account, claim, shown, notice, job, faults, overtaken>>

\* recordContainedCheckoutClaim: during the deletion, the claim is closed with
\* what became of the session.  A customer that is not the job's is an error.
Certify(r) ==
  /\ At(r, "certify")
  /\ IF lifecycle = "active" \/ job.customer = request[r].customer THEN GoTo(r, "mark") ELSE Leave(r)
  /\ claim' = IF /\ lifecycle = "deleting" /\ job.customer = request[r].customer
                 /\ claim.id = request[r].id /\ claim.status = "creating"
                THEN [status |-> "canceled", id |-> claim.id, session |-> request[r].contained, fresh |-> claim.fresh]
                ELSE claim
  /\ UNCHANGED <<lifecycle, account, stripe, job, faults, overtaken>>

\* markCheckoutClaimFailed, whatever the status; refused once the account is closed.
Mark(r) ==
  /\ At(r, "mark")
  /\ claim' = IF lifecycle = "active" /\ claim.id = request[r].id THEN Marked("failed", claim.fresh) ELSE claim
  /\ Leave(r)
  /\ UNCHANGED <<lifecycle, account, stripe, job, faults, overtaken>>

\* Stripe or the store fails; what was asked of Stripe may have been done.
Fail(r) ==
  /\ request[r].pc \in Holding
  /\ faults < MaxFaults
  /\ faults' = faults + 1
  /\ IF request[r].pc \in Failing THEN Refused(r) ELSE Leave(r)
  /\ \/ UNCHANGED <<session, sub>>
     \/ At(r, "previous") /\ session' = Expired(session, {request[r].prev}) /\ sub' = sub
     \/ At(r, "create") /\ session' = Created(request[r].id) /\ sub' = sub
     \/ /\ At(r, "contain")
        /\ session' = Expired(session, {request[r].id})
        /\ sub' = Canceled(sub, {request[r].id})
  /\ UNCHANGED <<lifecycle, account, claim, shown, notice, job, overtaken>>

Die(r) ==
  /\ request[r].pc \in Holding
  /\ faults < MaxFaults
  /\ faults' = faults + 1
  /\ Leave(r)
  /\ UNCHANGED <<lifecycle, account, claim, stripe, job, overtaken>>

Step(r) ==
  \/ Turned(r) \/ Reuse(r) \/ Resume(r) \/ (\E c \in Claims : New(r, c))
  \/ Customer(r) \/ List(r) \/ Previous(r) \/ Allowed(r) \/ Create(r) \/ Opening(r)
  \/ Contain(r) \/ Certify(r) \/ Mark(r)

-----------------------------------------------------------------------------
(* The deletion of the account *)

\* beginAccountDeletion: the account is closed, the job keeps its customer.
Begin ==
  /\ lifecycle = "active"
  /\ lifecycle' = "deleting"
  /\ job' = [stage |-> "checkout", customer |-> account.customer, work |-> {}]
  /\ UNCHANGED <<account, claim, stripe, request, faults, overtaken>>

To(stage, work) == job' = [stage |-> stage, customer |-> job.customer, work |-> work]

\* Mutant: an open claim is waited for, too.
WaitsForOpen == claim.status \in {"creating", "open"}

\* checkoutClaimRequiresDeletionRetry
Waits == claim.status = "creating"

\* The deletion waits for a claim at work; without a customer there is nothing to contain.
CheckoutStage ==
  /\ job.stage = "checkout"
  /\ ~Waits
  /\ To(IF job.customer THEN "billing" ELSE "contained", {})
  /\ UNCHANGED <<lifecycle, account, claim, stripe, request, faults, overtaken>>

\* cancelStripeBillingForAccountDeletion lists the open sessions ...
ListSessions ==
  /\ job.stage = "billing"
  /\ To("sessions", Open)
  /\ UNCHANGED <<lifecycle, account, claim, stripe, request, faults, overtaken>>

\* Mutant: a session that cannot be expired yet is passed over.
ExpireNothing(c) ==
  /\ job.stage = "sessions" /\ c \in job.work
  /\ To("sessions", job.work \ {c})
  /\ UNCHANGED <<lifecycle, account, claim, stripe, request, faults, overtaken>>

\* ... expires each, unless it is complete or expired by then ...
ExpireSession(c) ==
  /\ job.stage = "sessions" /\ c \in job.work
  /\ session' = Expired(session, {c})
  /\ To("sessions", job.work \ {c})
  /\ UNCHANGED <<lifecycle, account, claim, sub, shown, notice, request, faults, overtaken>>

\* ... lists the subscriptions ...
ListSubs ==
  /\ job.stage = "sessions" /\ job.work = {}
  /\ To("cancel", {c \in Claims : sub[c] # "none"})
  /\ UNCHANGED <<lifecycle, account, claim, stripe, request, faults, overtaken>>

\* ... cancels each ...
CancelSub(c) ==
  /\ job.stage = "cancel" /\ c \in job.work
  /\ sub' = Canceled(sub, {c})
  /\ To("cancel", job.work \ {c})
  /\ UNCHANGED <<lifecycle, account, claim, session, shown, notice, request, faults, overtaken>>

\* ... and asks again for both, the subscriptions first.
ConfirmSubs ==
  /\ job.stage = "cancel" /\ job.work = {}
  /\ To(IF Live = {} THEN "confirm" ELSE "billing", {})
  /\ UNCHANGED <<lifecycle, account, claim, stripe, request, faults, overtaken>>

ConfirmSessions ==
  /\ job.stage = "confirm"
  /\ To(IF Open = {} THEN "contained" ELSE "billing", {})
  /\ UNCHANGED <<lifecycle, account, claim, stripe, request, faults, overtaken>>

\* The stage fails, its process dies: a later request begins the stage again.
JobFails ==
  /\ job.stage \in {"sessions", "cancel", "confirm"}
  /\ faults < MaxFaults
  /\ faults' = faults + 1
  /\ To("billing", {})
  /\ UNCHANGED <<lifecycle, account, claim, stripe, request, overtaken>>

JobStep ==
  \/ CheckoutStage \/ ListSessions \/ ListSubs \/ ConfirmSubs \/ ConfirmSessions
  \/ \E c \in Claims : ExpireSession(c) \/ CancelSub(c)

-----------------------------------------------------------------------------
(* Stripe, the customer, and the signed events *)

\* The customer pays a session whose URL the browser has.
Complete(c) ==
  /\ c \in shown \cap Open
  /\ session' = [session EXCEPT ![c] = "complete"]
  /\ sub' = [sub EXCEPT ![c] = "live"]
  /\ notice' = notice \cup {c}
  /\ UNCHANGED <<lifecycle, account, claim, shown, request, job, faults, overtaken>>

\* A session expires after half an hour, and the claim with it.
SessionExpires(c) ==
  /\ c \in Open
  /\ session' = Expired(session, {c})
  /\ claim' = IF claim.status = "open" /\ claim.id = c THEN Marked(claim.status, FALSE) ELSE claim
  /\ UNCHANGED <<lifecycle, account, sub, shown, notice, request, job, faults, overtaken>>

\* Two minutes since a claim was made.
ClaimAges ==
  /\ claim.status = "creating" /\ claim.fresh
  /\ claim' = Marked(claim.status, FALSE)
  /\ UNCHANGED <<lifecycle, account, stripe, request, job, faults, overtaken>>

\* The customer, or the end of the term, cancels a subscription.
Cancel(c) ==
  /\ c \in Live
  /\ sub' = Canceled(sub, {c})
  /\ notice' = notice \cup {c}
  /\ UNCHANGED <<lifecycle, account, claim, session, shown, request, job, faults, overtaken>>

\* An event of an active account: recordBillingConsent completes the claim ...
Consent(c) ==
  /\ c \in notice
  /\ lifecycle = "active"
  /\ claim.id = c /\ claim.session
  /\ claim' = Marked("completed", claim.fresh)
  /\ UNCHANGED <<lifecycle, account, stripe, request, job, faults, overtaken>>

\* ... and syncStripeSubscription applies what Stripe says, but does not replace
\* a nonterminal subscription by another.
Sync(c) ==
  /\ c \in notice
  /\ lifecycle = "active"
  /\ sub[c] = "live" /\ claim.id = c /\ claim.session => claim.status = "completed"
  /\ account.live => account.sub = c
  /\ account' = [customer |-> TRUE, sub |-> c, live |-> sub[c] = "live"]
  /\ notice' = notice \ {c}
  /\ UNCHANGED <<lifecycle, claim, session, sub, shown, request, job, faults, overtaken>>

\* An event of a closed account: containStripeSubscriptionForDeletedAccount.
ContainLate(c) ==
  /\ c \in notice
  /\ lifecycle = "deleting"
  /\ session' = Expired(session, Claims)
  /\ sub' = Canceled(sub, Claims)
  /\ notice' = notice \ {c}
  /\ UNCHANGED <<lifecycle, account, claim, shown, request, job, faults, overtaken>>

World ==
  \/ Begin \/ ClaimAges \/ JobFails
  \/ \E r \in Requests : Enter(r) \/ Fail(r) \/ Die(r)
  \/ \E c \in Claims : Complete(c) \/ SessionExpires(c) \/ Cancel(c) \/ Consent(c) \/ Sync(c) \/ ContainLate(c)

Next == World \/ JobStep \/ \E r \in Requests : Step(r)

Spec == Init /\ [][Next]_vars

\* Requests that are served go on, and the user asks again for a deletion that is pending.
Fairness == WF_vars(JobStep) /\ \A r \in Requests : WF_vars(Step(r))

FairSpec == Spec /\ Fairness

-----------------------------------------------------------------------------
(* Properties *)

\* Once the deletion has confirmed that the account's billing is contained, no
\* subscription runs and no session can be paid whose URL the customer has, and
\* none will: whatever requests were at work, whatever Stripe did between the
\* lists, however often claims were taken over.
Contained == job.stage = "contained" => Live = {} /\ shown \cap Open = {}

\* A claim that was certified as never created has no session and will have
\* none, unless it was taken over from a request that was still at work.
NotCreated ==
  ~overtaken /\ claim.status = "canceled" /\ ~claim.session
    => session[claim.id] = "none" /\ \A r \in Holders(claim.id) : request[r].pc = "mark"

\* What the customer pays for, or can still pay.
Payable == Live \cup (shown \cap Open)

\* As long as no request fails, dies or is overtaken, the customer cannot come
\* to hold two subscriptions: one session is payable at most, and none beside a
\* subscription.
OneUnlessFault == faults = 0 => \A c, d \in Payable : c = d

\* The claim that the deletion waits for is nobody's any more.
Abandoned == claim.status = "creating" /\ Holders(claim.id) = {}

\* A deletion that was begun gets past its billing stage, unless it finds a
\* claim at work that no request works on.
DeletionContains == lifecycle = "deleting" ~> job.stage = "contained" \/ Abandoned
=============================================================================
