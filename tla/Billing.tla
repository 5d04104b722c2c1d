------------------------------- MODULE Billing ------------------------------
(***************************************************************************)
(* Signed Stripe events of one account, and how they bring its entitlement *)
(* in line with the provider (src/app/api/billing/webhook/route.ts and     *)
(* syncStripeSubscription of src/lib/stripe-server.ts).                    *)
(*                                                                         *)
(* The events are hints: a handler claims one, takes the account's lease,  *)
(* fetches subscription, invoice and, where the event is about a charge,   *)
(* the charge, and applies what it fetched.  Every change at Stripe makes  *)
(* one event, named by the number of the change; Stripe sends it, in any   *)
(* order, until it is answered with 200.  The account is not being deleted *)
(* (AccountDeletion, Checkout), the plan is never changed, and a refund is *)
(* a full one.                                                             *)
(***************************************************************************)
EXTENDS Naturals, Sequences

CONSTANTS Handlers,    \* requests of the webhook that may be served at once
          Subs,        \* subscriptions of the account, numbered in their order
          None,        \* not a subscription, nor a handler
          MaxChanges,  \* bound: changes at Stripe, and so events
          MaxInvoices, \* bound: invoices of a subscription
          MaxFaults    \* bound: handlers that die, fail, or outlive their lease or claim

ASSUME NoneAssumption == None \notin Subs \cup Handlers
ASSUME SubsAssumption == Subs \subseteq Nat
ASSUME BoundAssumption == MaxChanges \in Nat /\ MaxInvoices \in Nat \ {0} /\ MaxFaults \in Nat

VARIABLES provider, \* subscription -> its state at Stripe: [status, invoice (latest), paid (is that one)]
          charge,   \* subscription -> invoice -> state of its charge at Stripe
          event,    \* the events in the order of the changes that made them: [sub, kind, invoice]
          pending,  \* events not answered with 200 yet
          record,   \* stripeEvents/id .status; an old claim may be taken over
          lease,    \* users/uid/billingReconciliation/current: whose token is alive, if any
          account,  \* users/uid: [sub, raw, pay, invoice], and the version it was fetched at
          consent,  \* users/uid .billingConsentSubscriptionId
          pc, on,   \* handler -> its place, and its event
          seen,     \* handler -> what it has fetched
          again,    \* handlers that have made up for a missing consent
          faults    \* counter for MaxFaults

vars == <<provider, charge, event, pending, record, lease, account, consent, pc, on, seen, again, faults>>
stripe == <<provider, charge, event>>
local == <<pc, on, seen, again>>

version == Len(event)
Invoices == 1 .. MaxInvoices
Changes == 1 .. MaxChanges
Statuses == {"none", "active", "past_due", "canceled"}
Charges == {"clear", "disputed", "won", "refunded"}
Payments == {"unknown", "paid", "disputed", "refunded"}
Leased == {"fetch", "invoice", "evidence", "apply"}
Releasing == {"release_done", "release_failed", "release_consent"}
Places == {"idle", "look", "lease", "consent", "done", "failed"} \cup Leased \cup Releasing

Event == [sub : Subs, kind : {"checkout", "plain", "charge"}, invoice : 0 .. MaxInvoices]
\* first is the latest invoice as the handler knew it before it had the lease.
Seen == [first : 0 .. MaxInvoices, at : 0 .. MaxChanges, raw : Statuses, invoice : 0 .. MaxInvoices,
         pay : Payments, won : BOOLEAN]
Nothing == [first |-> 0, at |-> 0, raw |-> "none", invoice |-> 0, pay |-> "unknown", won |-> FALSE]

TypeOK ==
  /\ provider \in [Subs -> [status : Statuses, invoice : 0 .. MaxInvoices, paid : BOOLEAN]]
  /\ charge \in [Subs -> [Invoices -> Charges]]
  /\ event \in Seq(Event) /\ version \in 0 .. MaxChanges
  /\ pending \subseteq 1 .. version
  /\ record \in [Changes -> {"none", "fresh", "old", "failed", "processed"}]
  /\ lease \in Handlers \cup {None}
  /\ account \in [sub : Subs \cup {None}, raw : Statuses, pay : Payments, invoice : 0 .. MaxInvoices,
                  at : 0 .. MaxChanges]
  /\ consent \in Subs \cup {None}
  /\ pc \in [Handlers -> Places]
  /\ on \in [Handlers -> 0 .. version]
  /\ \A h \in Handlers : pc[h] # "idle" => on[h] # 0
  /\ seen \in [Handlers -> Seen]
  /\ again \subseteq Handlers
  /\ faults \in 0 .. MaxFaults

Init ==
  /\ provider = [s \in Subs |-> [status |-> "none", invoice |-> 0, paid |-> FALSE]]
  /\ charge = [s \in Subs |-> [i \in Invoices |-> "clear"]]
  /\ event = <<>>
  /\ pending = {}
  /\ record = [v \in Changes |-> "none"]
  /\ lease = None
  /\ account = [sub |-> None, raw |-> "none", pay |-> "unknown", invoice |-> 0, at |-> 0]
  /\ consent = None
  /\ pc = [h \in Handlers |-> "idle"]
  /\ on = [h \in Handlers |-> 0]
  /\ seen = [h \in Handlers |-> Nothing]
  /\ again = {}
  /\ faults = 0

Live(status) == status \notin {"none", "canceled"}

-----------------------------------------------------------------------------
(* What happens at Stripe *)

\* The change makes an event, which Stripe sends until it is answered.
Emits(s, kind, i) ==
  /\ version < MaxChanges
  /\ event' = Append(event, [sub |-> s, kind |-> kind, invoice |-> i])
  /\ pending' = pending \cup {version + 1}
  /\ UNCHANGED <<record, lease, account, consent, local, faults>>

Becomes(s, status, invoice, paid) ==
  /\ provider' = [provider EXCEPT ![s] = [status |-> status, invoice |-> invoice, paid |-> paid]]
  /\ UNCHANGED charge

\* A checkout is completed and paid.  None is opened while a subscription lives
\* at Stripe, or for all the account knows.
Started(s) ==
  /\ provider[s].status = "none"
  /\ ~Live(account.raw)
  /\ \A t \in Subs : ~Live(provider[t].status) /\ (t < s => provider[t].status # "none")
  /\ Becomes(s, "active", 1, TRUE)
  /\ Emits(s, "checkout", 1)

\* A new period begins with an invoice that is not paid yet.
Renewed(s) ==
  /\ provider[s].status = "active" /\ provider[s].paid
  /\ provider[s].invoice < MaxInvoices
  /\ Becomes(s, "active", provider[s].invoice + 1, FALSE)
  /\ Emits(s, "plain", provider[s].invoice + 1)

\* Its payment fails, and is retried.
Unpaid(s) ==
  /\ provider[s].status = "active" /\ ~provider[s].paid
  /\ Becomes(s, "past_due", provider[s].invoice, FALSE)
  /\ Emits(s, "plain", provider[s].invoice)

Paid(s) ==
  /\ Live(provider[s].status) /\ ~provider[s].paid
  /\ Becomes(s, "active", provider[s].invoice, TRUE)
  /\ Emits(s, "plain", provider[s].invoice)

Ended(s) ==
  /\ Live(provider[s].status)
  /\ Becomes(s, "canceled", provider[s].invoice, provider[s].paid)
  /\ Emits(s, "plain", 0)

\* The charge of an invoice is disputed, the dispute is won, or it is refunded.
Charged(s, i, from, to) ==
  /\ i < provider[s].invoice \/ (i = provider[s].invoice /\ provider[s].paid)
  /\ charge[s][i] \in from
  /\ charge' = [charge EXCEPT ![s] = [charge[s] EXCEPT ![i] = to]]
  /\ UNCHANGED provider
  /\ Emits(s, "charge", i)

-----------------------------------------------------------------------------
(* A handler *)

At(h, place) == pc[h] = place
Goes(h, place) == pc' = [pc EXCEPT ![h] = place]
Sees(h, first, at, raw, invoice, pay, won) ==
  seen' = [seen EXCEPT ![h] = [first |-> first, at |-> at, raw |-> raw, invoice |-> invoice, pay |-> pay, won |-> won]]
Sub(h) == event[on[h]].sub

\* The handler is at rest again, or goes on with what it knew before it had the lease.
Leaves(h) == /\ Goes(h, "idle")
             /\ on' = [on EXCEPT ![h] = 0]
             /\ seen' = [seen EXCEPT ![h] = Nothing]
             /\ again' = again \ {h}
Forgets(h) == Sees(h, seen[h].first, 0, "none", 0, "unknown", FALSE)

\* Mutant: an event that another handler has claimed is answered as processed.
AnswersClaimed(v) == v \in pending /\ record[v] \in {"processed", "fresh"}

\* An event whose record says processed is answered with 200 at once.
AnswersAtOnce(v) == v \in pending /\ record[v] = "processed"

Duplicate(v) ==
  /\ AnswersAtOnce(v)
  /\ pending' = pending \ {v}
  /\ UNCHANGED <<stripe, record, lease, account, consent, local, faults>>

\* Mutant: a claim is never taken over.
NeverReclaimed(v) == v \in pending /\ record[v] \in {"none", "failed"}

\* A new event, a failed one, or one claimed more than five minutes ago; others
\* are answered with 409.
Claimable(v) == v \in pending /\ record[v] \in {"none", "failed", "old"}

\* claimEvent
Claim(h, v) ==
  /\ At(h, "idle")
  /\ Claimable(v)
  /\ record' = [record EXCEPT ![v] = "fresh"]
  /\ on' = [on EXCEPT ![h] = v]
  /\ Goes(h, "look")
  /\ UNCHANGED <<stripe, pending, lease, account, consent, seen, again, faults>>

\* The subscription is fetched.  The consent of a completed checkout is verified
\* by its latest invoice, and recorded in place of another's; then comes the lease.
Look(h) ==
  LET s == Sub(h)
      checkout == event[on[h]].kind = "checkout"
      fulfilled == consent = s \/ provider[s].paid
  IN
  /\ At(h, "look")
  /\ Sees(h, provider[s].invoice, 0, "none", 0, "unknown", FALSE)
  /\ consent' = IF checkout /\ fulfilled THEN s ELSE consent
  /\ Goes(h, IF checkout /\ ~fulfilled THEN "failed" ELSE "lease")
  /\ UNCHANGED <<stripe, pending, record, lease, account, on, again, faults>>

\* The lease of the account, unless another handler has it.
Take(h) ==
  /\ At(h, "lease")
  /\ IF lease # None THEN Goes(h, "failed") /\ UNCHANGED lease
     ELSE Goes(h, "fetch") /\ lease' = h
  /\ UNCHANGED <<stripe, pending, record, account, consent, on, seen, again, faults>>

\* Under the lease: the subscription,
Fetch(h) ==
  LET s == Sub(h) IN
  /\ At(h, "fetch")
  /\ Sees(h, seen[h].first, version, provider[s].status, provider[s].invoice, "unknown", FALSE)
  /\ Goes(h, "invoice")
  /\ UNCHANGED <<stripe, pending, record, lease, account, consent, on, again, faults>>

\* its invoice, which is no longer the latest, and then paid, if a period began,
FetchInvoice(h) ==
  LET s == Sub(h)
      paid == seen[h].invoice < provider[s].invoice \/ provider[s].paid
  IN
  /\ At(h, "invoice")
  /\ Sees(h, seen[h].first, seen[h].at, seen[h].raw, seen[h].invoice, IF paid THEN "paid" ELSE "unknown", FALSE)
  /\ Goes(h, IF event[on[h]].kind = "charge" /\ event[on[h]].invoice = seen[h].invoice THEN "evidence" ELSE "apply")
  /\ UNCHANGED <<stripe, pending, record, lease, account, consent, on, again, faults>>

\* and the charge, if the event is about a charge of this invoice.
FetchCharge(h) ==
  LET c == charge[Sub(h)][seen[h].invoice] IN
  /\ At(h, "evidence")
  /\ Sees(h, seen[h].first, seen[h].at, seen[h].raw, seen[h].invoice,
          IF c \in {"disputed", "refunded"} THEN c ELSE seen[h].pay, c = "won")
  /\ Goes(h, "apply")
  /\ UNCHANGED <<stripe, pending, record, lease, account, consent, on, again, faults>>

\* Mutant: what an ordinary event finds paid releases a hold.
Releases(h) == seen[h].pay

\* Mutant: a hold is not released by a dispute that was won.
HoldsForever(h) ==
  IF account.pay \in {"disputed", "refunded"} /\ account.sub = Sub(h) /\ account.invoice = seen[h].invoice
  THEN account.pay ELSE seen[h].pay

\* resolvedBillingPaymentState: a hold on the same invoice is only released by
\* the evidence that its dispute was won.
Resolved(h) ==
  IF /\ account.pay \in {"disputed", "refunded"}
     /\ account.sub = Sub(h) /\ account.invoice = seen[h].invoice
     /\ seen[h].pay = "unknown" \/ (seen[h].pay = "paid" /\ ~seen[h].won)
  THEN account.pay ELSE seen[h].pay

\* The transaction refuses to replace another subscription that is not terminal.
Replaces(h) == account.sub # Sub(h) /\ Live(account.raw)
Applies(h) == account' = [sub |-> Sub(h), raw |-> seen[h].raw, pay |-> Resolved(h), invoice |-> seen[h].invoice, at |-> seen[h].at]

\* Mutant: the transaction does not look at the lease.
Unchecked(h) == TRUE

\* The transaction goes through only under the handler's own lease.
StillLeased(h) == lease = h

\* applyVerifiedStripeSubscription: access that no consent covers is not given;
\* an ordinary event then makes up for the consent, once.
Apply(h) ==
  LET unconsented == seen[h].raw = "active" /\ Resolved(h) = "paid" /\ consent # Sub(h)
      refused == ~StillLeased(h) \/ Replaces(h)
      recoverable == event[on[h]].kind # "checkout" /\ h \notin again
  IN
  /\ At(h, "apply")
  /\ IF ~refused /\ ~unconsented THEN Applies(h) /\ Goes(h, "release_done")
     ELSE UNCHANGED account /\ Goes(h, IF ~refused /\ recoverable THEN "release_consent" ELSE "release_failed")
  /\ Forgets(h)
  /\ UNCHANGED <<stripe, pending, record, lease, consent, on, again, faults>>

\* In any case the lease is given back, if it still is the handler's.
Release(h) ==
  /\ pc[h] \in Releasing
  /\ lease' = IF lease = h THEN None ELSE lease
  /\ Goes(h, CASE At(h, "release_done") -> "done" [] At(h, "release_failed") -> "failed" [] OTHER -> "consent")
  /\ UNCHANGED <<stripe, pending, record, account, consent, on, seen, again, faults>>

\* recordSubscriptionConsentFromCheckout: the consent is recorded if the invoice
\* that was the latest at first is paid, and the event is applied once more.
Consent(h) ==
  LET s == Sub(h)
      paid == seen[h].first < provider[s].invoice \/ provider[s].paid
  IN
  /\ At(h, "consent")
  /\ consent' = IF paid THEN s ELSE consent
  /\ again' = again \cup {h}
  /\ Goes(h, IF paid THEN "lease" ELSE "failed")
  /\ UNCHANGED <<stripe, pending, record, lease, account, on, seen, faults>>

\* The outcome is put without a look at whose claim it is.  The answer 200 may be
\* lost; 500 leaves the event to be sent again.
Finish(h) ==
  /\ pc[h] \in {"done", "failed"}
  /\ record' = [record EXCEPT ![on[h]] = IF At(h, "done") THEN "processed" ELSE "failed"]
  /\ pending' \in IF At(h, "done") THEN {pending, pending \ {on[h]}} ELSE {pending}
  /\ Leaves(h)
  /\ UNCHANGED <<stripe, lease, account, consent, faults>>

-----------------------------------------------------------------------------
(* Faults, and time *)

\* A call of the handler fails; under the lease, the lease is given back.
Fail(h) ==
  /\ pc[h] \in {"look", "lease", "consent"} \cup Leased
  /\ faults < MaxFaults
  /\ faults' = faults + 1
  /\ Goes(h, IF pc[h] \in Leased THEN "release_failed" ELSE "failed")
  /\ Forgets(h)
  /\ UNCHANGED <<stripe, pending, record, lease, account, consent, on, again>>

Die(h) ==
  /\ ~At(h, "idle")
  /\ faults < MaxFaults
  /\ faults' = faults + 1
  /\ Leaves(h)
  /\ UNCHANGED <<stripe, pending, record, lease, account, consent>>

\* A minute passes: unless its holder is at rest, that is a fault.
Working(h) == pc[h] \in Leased \cup Releasing
LeaseExpires ==
  /\ lease # None
  /\ faults' = IF Working(lease) THEN faults + 1 ELSE faults
  /\ faults' <= MaxFaults
  /\ lease' = None
  /\ UNCHANGED <<stripe, pending, record, account, consent, local>>

\* Five minutes pass since an event was claimed: the same.
ClaimAges(v) ==
  /\ record[v] = "fresh"
  /\ faults' = IF \E h \in Handlers : ~At(h, "idle") /\ on[h] = v THEN faults + 1 ELSE faults
  /\ faults' <= MaxFaults
  /\ record' = [record EXCEPT ![v] = "old"]
  /\ UNCHANGED <<stripe, pending, lease, account, consent, local>>

-----------------------------------------------------------------------------
World ==
  \/ \E s \in Subs : Started(s) \/ Renewed(s) \/ Unpaid(s) \/ Paid(s) \/ Ended(s)
  \/ \E s \in Subs, i \in Invoices :
       \/ Charged(s, i, {"clear"}, "disputed")
       \/ Charged(s, i, {"disputed"}, "won")
       \/ Charged(s, i, {"clear", "disputed", "won"}, "refunded")

Works(h) == Look(h) \/ Take(h) \/ Fetch(h) \/ FetchInvoice(h) \/ FetchCharge(h) \/ Apply(h) \/ Release(h) \/ Consent(h) \/ Finish(h)

Next ==
  \/ World
  \/ \E v \in Changes : Duplicate(v) \/ ClaimAges(v) \/ \E h \in Handlers : Claim(h, v)
  \/ \E h \in Handlers : Works(h) \/ Fail(h) \/ Die(h)
  \/ LeaseExpires

Spec == Init /\ [][Next]_vars

\* Stripe sends an event until it is answered, a handler that was called goes
\* on, and time passes.
Fairness ==
  /\ \A v \in Changes : WF_vars(Duplicate(v) \/ \E h \in Handlers : Claim(h, v)) /\ WF_vars(ClaimAges(v))
  /\ \A h \in Handlers : WF_vars(Works(h))
  /\ WF_vars(LeaseExpires)

FairSpec == Spec /\ Fairness

-----------------------------------------------------------------------------
(* Properties *)

\* The account goes from older to newer states of the provider, although a slow
\* handler may come to apply what it fetched after its lease went to another.
ForwardOnly == [][account'.at >= account.at]_vars

\* An event that was answered, or is recorded as processed, was covered: the
\* account was fetched no earlier than the change that made it.
Covered == \A v \in 1 .. version : record[v] = "processed" \/ v \notin pending => account.at >= v

Access(s) == account.sub = s /\ account.raw = "active" /\ account.pay = "paid"
Entitled(s) == /\ provider[s].status = "active" /\ provider[s].paid
               /\ charge[s][provider[s].invoice] \notin {"disputed", "refunded"}

\* Once every event is answered, the account gives access just where the provider does.
Converges == pending = {} => \A s \in Subs : Access(s) <=> Entitled(s)

\* No ordinary event gives access again while the last event about the charge is
\* answered for and the charge is disputed or refunded.
HoldKept ==
  \A s \in Subs, v \in 1 .. version :
    /\ event[v].sub = s /\ event[v].kind = "charge"
    /\ \A w \in v + 1 .. version : event[w].sub = s /\ event[w].invoice = event[v].invoice => event[w].kind # "charge"
    /\ charge[s][event[v].invoice] \in {"disputed", "refunded"}
    /\ v \notin pending
    => ~(Access(s) /\ account.invoice = event[v].invoice)

\* An event that cannot be applied as things are: its subscription has been
\* replaced by a living one, or its checkout waits for a payment.
Stuck(v) ==
  LET s == event[v].sub IN
  /\ v \in pending
  /\ \/ account.sub # s /\ Live(account.raw)
     \/ event[v].kind = "checkout" /\ consent # s /\ ~provider[s].paid

\* There is one record of a consent for all subscriptions of the account: a late
\* checkout of one may take it from another just before that one is applied.
Contended == \E v, w \in pending : event[v].kind = "checkout" /\ event[w].sub # event[v].sub

\* Unless an event is stuck, or events contend for the consent, all of them are
\* answered at last, although handlers find the lease taken, fail, and die.
EventuallyQuiet == []<>(pending = {} \/ Contended \/ \E v \in 1 .. version : Stuck(v))
=============================================================================
