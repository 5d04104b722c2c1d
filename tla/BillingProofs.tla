---------------------------- MODULE BillingProofs ----------------------------
(***************************************************************************)
(* Proofs about Billing, for any handlers and subscriptions and any number *)
(* of changes, invoices and faults: its state has its type, the account    *)
(* only goes from older to newer states of the provider, no event is       *)
(* answered before the account has what made it, a hold is kept until the  *)
(* evidence releases it, and when every event is answered the account      *)
(* gives access just where the provider does.                              *)
(***************************************************************************)
EXTENDS Billing, TLAPS

Fetching == {"invoice", "evidence", "apply"}

\* What a handler fetched is no older than its event, and, as long as it holds
\* the lease, no older than what the account has; with an event that is done,
\* the account has what made it.
Leasing ==
  /\ account.at <= version
  /\ \A v \in Changes : v > version => record[v] = "none"
  /\ \A h \in Handlers : pc[h] \in Fetching => seen[h].at >= on[h] /\ seen[h].at <= version
  /\ \A h \in Handlers : pc[h] \in Fetching /\ lease = h => seen[h].at >= account.at
  /\ \A h \in Handlers : pc[h] \in {"release_done", "done"} => account.at >= on[h]

IInv == TypeOK /\ Leasing /\ Covered

-----------------------------------------------------------------------------
(* Types *)

LEMMA SeesType ==
  ASSUME TypeOK, NEW h \in Handlers, NEW first \in 0 .. MaxInvoices, NEW at \in 0 .. MaxChanges, NEW raw \in Statuses,
         NEW invoice \in 0 .. MaxInvoices, NEW pay \in Payments, NEW won \in BOOLEAN,
         Sees(h, first, at, raw, invoice, pay, won)
  PROVE  seen' \in [Handlers -> Seen]
BY DEF TypeOK, Sees, Seen

\* The event a handler is at work on, and its subscription.
LEMMA SubType ==
  ASSUME TypeOK, NEW h \in Handlers, pc[h] # "idle"
  PROVE  /\ on[h] \in 1 .. version /\ on[h] \in Changes
         /\ event[on[h]] \in Event /\ Sub(h) \in Subs
         /\ provider[Sub(h)] \in [status : Statuses, invoice : 0 .. MaxInvoices, paid : BOOLEAN]
<1>1. on[h] \in 1 .. version /\ version \in 0 .. MaxChanges
  BY DEF TypeOK, version
<1>2. event[on[h]] \in Event
  BY <1>1 DEF TypeOK, version
<1>3. on[h] \in Changes
  BY <1>1, BoundAssumption DEF Changes
<1>4. Sub(h) \in Subs
  BY <1>2 DEF Sub, Event
<1> QED BY <1>1, <1>2, <1>3, <1>4 DEF TypeOK

LEMMA SeenType ==
  ASSUME TypeOK, NEW h \in Handlers
  PROVE  /\ seen[h].first \in 0 .. MaxInvoices /\ seen[h].at \in 0 .. MaxChanges /\ seen[h].raw \in Statuses
         /\ seen[h].invoice \in 0 .. MaxInvoices /\ seen[h].pay \in Payments /\ seen[h].won \in BOOLEAN
BY DEF TypeOK, Seen

LEMMA ForgetsType ==
  ASSUME TypeOK, NEW h \in Handlers, Forgets(h)
  PROVE  seen' \in [Handlers -> Seen]
<1>1. seen[h].first \in 0 .. MaxInvoices /\ 0 \in 0 .. MaxInvoices /\ 0 \in 0 .. MaxChanges
  BY SeenType, BoundAssumption
<1>2. "none" \in Statuses /\ "unknown" \in Payments
  BY DEF Statuses, Payments
<1> QED BY <1>1, <1>2, SeesType DEF Forgets

LEMMA LeavesType ==
  ASSUME TypeOK, NEW h \in Handlers, Leaves(h)
  PROVE  /\ pc' \in [Handlers -> Places] /\ seen' \in [Handlers -> Seen] /\ again' \subseteq Handlers
         /\ on' \in [Handlers -> 0 .. version]
         /\ \A k \in Handlers : pc'[k] # "idle" => on'[k] # 0
BY BoundAssumption DEF TypeOK, Leaves, Goes, Nothing, Seen, Statuses, Payments, Places, version

\* Each change at Stripe keeps the types.
LEMMA EmitsType ==
  ASSUME TypeOK, NEW s \in Subs, NEW kind \in {"checkout", "plain", "charge"}, NEW i \in 0 .. MaxInvoices,
         Emits(s, kind, i), provider' \in [Subs -> [status : Statuses, invoice : 0 .. MaxInvoices, paid : BOOLEAN]],
         charge' \in [Subs -> [Invoices -> Charges]]
  PROVE  TypeOK'
<1> DEFINE e == [sub |-> s, kind |-> kind, invoice |-> i]
<1>1. e \in Event
  BY DEF Event
<1>2. event' \in Seq(Event) /\ Len(event') = Len(event) + 1 /\ Len(event) \in Nat /\ Len(event) < MaxChanges
  BY <1>1 DEF TypeOK, Emits, version
<1>3. pending' \subseteq 1 .. Len(event')
  <2>1. pending \subseteq 1 .. Len(event) /\ pending' = pending \cup {Len(event) + 1}
    BY DEF TypeOK, Emits, version
  <2>2. \A n \in Nat : 1 .. n \cup {n + 1} \subseteq 1 .. n + 1
    OBVIOUS
  <2> QED BY <1>2, <2>1, <2>2
<1>4. on' \in [Handlers -> 0 .. Len(event')]
  BY <1>2 DEF TypeOK, Emits, local, version
<1>5. Len(event') \in 0 .. MaxChanges
  BY <1>2, BoundAssumption
<1> QED BY <1>2, <1>3, <1>4, <1>5 DEF TypeOK, Emits, local, version

LEMMA WorldType ==
  ASSUME TypeOK, World
  PROVE  TypeOK'
<1> DEFINE Provider == [status : Statuses, invoice : 0 .. MaxInvoices, paid : BOOLEAN]
<1>1. ASSUME NEW s \in Subs, NEW status \in Statuses, NEW invoice \in 0 .. MaxInvoices, NEW paid \in BOOLEAN,
             Becomes(s, status, invoice, paid)
      PROVE  provider' \in [Subs -> Provider] /\ charge' \in [Subs -> [Invoices -> Charges]]
  BY <1>1 DEF TypeOK, Becomes
<1>2. \A s \in Subs : provider[s].status \in Statuses /\ provider[s].invoice \in 0 .. MaxInvoices /\ provider[s].paid \in BOOLEAN
  BY DEF TypeOK
<1>3. {"active", "past_due", "canceled"} \subseteq Statuses /\ 0 \in 0 .. MaxInvoices /\ 1 \in 0 .. MaxInvoices
  BY BoundAssumption DEF Statuses
<1>4. ASSUME NEW s \in Subs, Started(s) PROVE TypeOK'
  BY <1>4, <1>1, <1>3, EmitsType DEF Started
<1>5. ASSUME NEW s \in Subs, Renewed(s) PROVE TypeOK'
  <2>1. provider[s].invoice + 1 \in 0 .. MaxInvoices
    BY <1>5, <1>2, BoundAssumption DEF Renewed
  <2> QED BY <1>5, <2>1, <1>1, <1>3, EmitsType DEF Renewed
<1>6. ASSUME NEW s \in Subs, Unpaid(s) PROVE TypeOK'
  BY <1>6, <1>1, <1>2, <1>3, EmitsType DEF Unpaid
<1>7. ASSUME NEW s \in Subs, Paid(s) PROVE TypeOK'
  BY <1>7, <1>1, <1>2, <1>3, EmitsType DEF Paid
<1>8. ASSUME NEW s \in Subs, Ended(s) PROVE TypeOK'
  BY <1>8, <1>1, <1>2, <1>3, EmitsType DEF Ended
<1>9. ASSUME NEW s \in Subs, NEW i \in Invoices, NEW from \in SUBSET Charges, NEW to \in Charges, Charged(s, i, from, to)
      PROVE  TypeOK'
  <2>1. charge' \in [Subs -> [Invoices -> Charges]] /\ provider' \in [Subs -> Provider]
    BY <1>9 DEF TypeOK, Charged
  <2>2. i \in 0 .. MaxInvoices
    BY BoundAssumption DEF Invoices
  <2> QED BY <1>9, <2>1, <2>2, EmitsType DEF Charged
<1>10. {"disputed", "won", "refunded"} \subseteq Charges /\ {{"clear"}, {"disputed"}, {"clear", "disputed", "won"}} \subseteq SUBSET Charges
  BY DEF Charges
<1> QED BY <1>4, <1>5, <1>6, <1>7, <1>8, <1>9, <1>10 DEF World

\* Each step keeps the types.
LEMMA TypeStep ==
  ASSUME TypeOK, [Next]_vars
  PROVE  TypeOK'
<1>1. CASE World
  BY <1>1, WorldType
<1>2. ASSUME NEW v \in Changes, Duplicate(v) PROVE TypeOK'
  BY <1>2 DEF TypeOK, Duplicate, stripe, local, version
<1>3. ASSUME NEW v \in Changes, ClaimAges(v) PROVE TypeOK'
  <2>1. faults' \in 0 .. MaxFaults
    BY <1>3, BoundAssumption DEF TypeOK, ClaimAges
  <2> QED BY <1>3, <2>1 DEF TypeOK, ClaimAges, stripe, local, version
<1>4. ASSUME NEW v \in Changes, NEW h \in Handlers, Claim(h, v) PROVE TypeOK'
  BY <1>4, BoundAssumption DEF TypeOK, Claim, Claimable, At, Goes, Places, stripe, version, Changes
<1>5. ASSUME NEW h \in Handlers, Look(h) PROVE TypeOK'
  <2>1. Sub(h) \in Subs /\ provider[Sub(h)].invoice \in 0 .. MaxInvoices
    BY <1>5, SubType DEF Look, At
  <2>2. 0 \in 0 .. MaxChanges /\ 0 \in 0 .. MaxInvoices /\ "none" \in Statuses /\ "unknown" \in Payments
    BY BoundAssumption DEF Statuses, Payments
  <2>3. seen' \in [Handlers -> Seen]
    BY <1>5, <2>1, <2>2, SeesType DEF Look
  <2> QED BY <1>5, <2>1, <2>3 DEF TypeOK, Look, At, Goes, Places, stripe, version
<1>6. ASSUME NEW h \in Handlers, Take(h) PROVE TypeOK'
  BY <1>6 DEF TypeOK, Take, At, Goes, Places, Leased, stripe, version
<1>7. ASSUME NEW h \in Handlers, Fetch(h) PROVE TypeOK'
  <2>1. provider[Sub(h)].invoice \in 0 .. MaxInvoices /\ provider[Sub(h)].status \in Statuses
    BY <1>7, SubType DEF Fetch, At
  <2>2. version \in 0 .. MaxChanges /\ "unknown" \in Payments
    BY DEF Payments, TypeOK
  <2>3. seen' \in [Handlers -> Seen]
    BY <1>7, <2>1, <2>2, SeenType, SeesType DEF Fetch
  <2> QED BY <1>7, <2>3 DEF TypeOK, Fetch, At, Goes, Places, Leased, stripe, version
<1>8. ASSUME NEW h \in Handlers, FetchInvoice(h) PROVE TypeOK'
  <2>1. "unknown" \in Payments /\ "paid" \in Payments
    BY DEF Payments
  <2>2. seen' \in [Handlers -> Seen]
    BY <1>8, <2>1, SeenType, SeesType DEF FetchInvoice
  <2> QED BY <1>8, <2>2 DEF TypeOK, FetchInvoice, At, Goes, Places, Leased, stripe, version
<1>9. ASSUME NEW h \in Handlers, FetchCharge(h) PROVE TypeOK'
  <2>1. "disputed" \in Payments /\ "refunded" \in Payments
    BY DEF Payments
  <2>2. seen' \in [Handlers -> Seen]
    BY <1>9, <2>1, SeenType, SeesType DEF FetchCharge
  <2> QED BY <1>9, <2>2 DEF TypeOK, FetchCharge, At, Goes, Places, Leased, stripe, version
<1>10. ASSUME NEW h \in Handlers, Apply(h) PROVE TypeOK'
  <2>1. Sub(h) \in Subs
    BY <1>10, SubType DEF Apply, At
  <2>2. Resolved(h) \in Payments
    BY SeenType DEF Resolved, TypeOK
  <2>3. account' \in [sub : Subs \cup {None}, raw : Statuses, pay : Payments, invoice : 0 .. MaxInvoices, at : 0 .. MaxChanges]
    BY <1>10, <2>1, <2>2, SeenType DEF Apply, Applies, TypeOK
  <2>4. seen' \in [Handlers -> Seen]
    BY <1>10, ForgetsType DEF Apply
  <2>5. pc' \in [Handlers -> Places] /\ \A k \in Handlers : pc'[k] # "idle" => on[k] # 0
    BY <1>10 DEF TypeOK, Apply, At, Goes, Places, Releasing
  <2> QED BY <1>10, <2>3, <2>4, <2>5 DEF TypeOK, Apply, stripe, version
<1>11. ASSUME NEW h \in Handlers, Release(h) PROVE TypeOK'
  BY <1>11 DEF TypeOK, Release, Goes, At, Places, Releasing, stripe, version
<1>12. ASSUME NEW h \in Handlers, Consent(h) PROVE TypeOK'
  <2>1. Sub(h) \in Subs
    BY <1>12, SubType DEF Consent, At
  <2> QED BY <1>12, <2>1 DEF TypeOK, Consent, At, Goes, Places, stripe, version
<1>13. ASSUME NEW h \in Handlers, Finish(h) PROVE TypeOK'
  <2>1. pending' \subseteq 1 .. version
    BY <1>13 DEF TypeOK, Finish
  <2> QED BY <1>13, <2>1, LeavesType DEF TypeOK, Finish, At, stripe, version
<1>14. ASSUME NEW h \in Handlers, Fail(h) PROVE TypeOK'
  <2>1. faults' \in 0 .. MaxFaults
    BY <1>14, BoundAssumption DEF TypeOK, Fail
  <2>2. seen' \in [Handlers -> Seen]
    BY <1>14, ForgetsType DEF Fail
  <2> QED BY <1>14, <2>1, <2>2 DEF TypeOK, Fail, Goes, Places, Leased, Releasing, stripe, version
<1>15. ASSUME NEW h \in Handlers, Die(h) PROVE TypeOK'
  <2>1. faults' \in 0 .. MaxFaults
    BY <1>15, BoundAssumption DEF TypeOK, Die
  <2> QED BY <1>15, <2>1, LeavesType DEF TypeOK, Die, stripe, version
<1>16. CASE LeaseExpires
  <2>1. faults' \in 0 .. MaxFaults
    BY <1>16, BoundAssumption DEF TypeOK, LeaseExpires
  <2> QED BY <1>16, <2>1 DEF TypeOK, LeaseExpires, stripe, local, version
<1>17. CASE UNCHANGED vars
  BY <1>17 DEF TypeOK, vars, version
<1> QED
  BY <1>1, <1>2, <1>3, <1>4, <1>5, <1>6, <1>7, <1>8, <1>9, <1>10, <1>11, <1>12, <1>13, <1>14, <1>15, <1>16, <1>17
  DEF Next, Works

LEMMA TypeInit ==
  ASSUME Init
  PROVE  TypeOK
BY BoundAssumption DEF Init, TypeOK, Event, Seen, Nothing, Places, Statuses, Payments, Charges, version

\* The state of the program has its type.
THEOREM BillingTypes == Spec => []TypeOK
<1> QED BY TypeInit, TypeStep, PTL DEF Spec

-----------------------------------------------------------------------------
(* The account only gets newer, and has what is answered *)

\* The numbers that are compared.
LEMMA Numbers ==
  ASSUME TypeOK
  PROVE  /\ version \in Nat /\ account.at \in Nat /\ MaxChanges \in Nat /\ version <= MaxChanges
         /\ \A h \in Handlers : on[h] \in Nat /\ on[h] <= version /\ seen[h].at \in Nat
<1>1. \A h \in Handlers : seen[h].at \in 0 .. MaxChanges
  BY SeenType
<1>2. account.at \in 0 .. MaxChanges /\ version \in 0 .. MaxChanges
  BY DEF TypeOK
<1>3. \A h \in Handlers : on[h] \in 0 .. version
  BY DEF TypeOK
<1> QED BY <1>1, <1>2, <1>3, BoundAssumption

\* A step at Stripe makes a newer version, and an event that is pending.
LEMMA WorldKeeps ==
  ASSUME IInv, World
  PROVE  /\ Leasing' /\ Covered' /\ account' = account
<1> USE DEF IInv
<1>1. /\ UNCHANGED <<record, lease, account, pc, on, seen>> /\ event \in Seq(Event)
      /\ pending' = pending \cup {version + 1}
      /\ \E e \in [sub : Subs, kind : {"checkout", "plain", "charge"}, invoice : Nat] : event' = Append(event, e)
  <2>1. ASSUME NEW s \in Subs, NEW kind \in {"checkout", "plain", "charge"}, NEW i \in Nat, Emits(s, kind, i) PROVE <1>1!:
    BY <2>1 DEF Emits, local, TypeOK
  <2>2. \A s \in Subs : provider[s].invoice \in Nat /\ provider[s].invoice + 1 \in Nat
    BY BoundAssumption DEF TypeOK
  <2>3. 0 \in Nat /\ 1 \in Nat /\ Invoices \subseteq Nat
    BY DEF Invoices
  <2> QED BY <2>1, <2>2, <2>3 DEF World, Started, Renewed, Unpaid, Paid, Ended, Charged
<1>2. version' = version + 1
  BY <1>1 DEF version
<1>3. version + 1 \in Changes
  <2>1. version' \in 0 .. MaxChanges
    BY WorldType DEF TypeOK
  <2> QED BY <1>2, <2>1, Numbers DEF Changes
<1>4. Leasing'
  BY <1>1, <1>2, Numbers DEF Leasing, Fetching, Changes
<1>5. Covered'
  <2>1. record[version + 1] = "none" /\ version + 1 \in pending'
    BY <1>1, <1>3, Numbers DEF Leasing
  <2> QED BY <1>1, <1>2, <2>1, Numbers DEF Covered
<1> QED BY <1>1, <1>4, <1>5

\* A step of a handler: only that which applies changes the account, and it
\* holds the lease.
LEMMA HandlerKeeps ==
  ASSUME IInv, NEW h \in Handlers, Works(h) \/ Fail(h) \/ Die(h)
  PROVE  Leasing' /\ Covered' /\ account'.at >= account.at
<1> USE DEF IInv
<1> DEFINE P == Leasing' /\ Covered' /\ account'.at >= account.at
<1>0. account.at >= account.at /\ pc \in [Handlers -> Places] /\ seen \in [Handlers -> Seen] /\ on \in [Handlers -> 0 .. version]
      /\ record \in [Changes -> {"none", "fresh", "old", "failed", "processed"}] /\ lease \in Handlers \cup {None}
  BY Numbers DEF TypeOK
<1>1. CASE Look(h)
  BY <1>1, <1>0, Numbers DEF Leasing, Covered, Fetching, Look, At, Goes, Sees, stripe, version
<1>2. CASE Take(h)
  BY <1>2, <1>0, Numbers DEF Leasing, Covered, Fetching, Take, At, Goes, stripe, version
<1>3. CASE Fetch(h)
  BY <1>3, <1>0, Numbers DEF Leasing, Covered, Fetching, Fetch, At, Goes, Sees, stripe, version
<1>4. CASE FetchInvoice(h)
  BY <1>4, <1>0, Numbers DEF Leasing, Covered, Fetching, FetchInvoice, At, Goes, Sees, stripe, version
<1>5. CASE FetchCharge(h)
  BY <1>5, <1>0, Numbers DEF Leasing, Covered, Fetching, FetchCharge, At, Goes, Sees, stripe, version
<1>6. CASE Apply(h)
  <2>1. UNCHANGED <<event, pending, record, lease, on>> /\ At(h, "apply") /\ Forgets(h)
    BY <1>6 DEF Apply, stripe
  <2>2. CASE account' = account /\ (Goes(h, "release_consent") \/ Goes(h, "release_failed"))
    BY <2>1, <2>2, <1>0, Numbers DEF Leasing, Covered, Fetching, At, Goes, Forgets, Sees, version
  <2>3. CASE lease = h /\ Applies(h) /\ Goes(h, "release_done")
    <3>1. account'.at = seen[h].at /\ seen[h].at >= account.at /\ seen[h].at >= on[h] /\ seen[h].at <= version
      BY <2>1, <2>3 DEF Applies, Leasing, Fetching, At
    <3>2. \A k \in Handlers : pc'[k] \in Fetching => k # h /\ lease # k /\ pc[k] \in Fetching
      BY <2>3, <1>0 DEF Goes, Fetching
    <3>3. \A k \in Handlers : k # h => seen'[k] = seen[k] /\ pc'[k] = pc[k]
      BY <2>1, <2>3, <1>0 DEF Forgets, Sees, Goes
    <3>4. \A k \in Handlers : pc'[k] \in {"release_done", "done"} => k = h \/ pc[k] \in {"release_done", "done"}
      BY <3>3
    <3>5. Leasing'
      BY <2>1, <3>1, <3>2, <3>3, <3>4, Numbers DEF Leasing, version
    <3>6. Covered'
      BY <2>1, <3>1, Numbers DEF Covered, version
    <3> QED BY <3>1, <3>5, <3>6
  <2> QED BY <1>6, <2>2, <2>3 DEF Apply, StillLeased
<1>7. CASE Release(h)
  <2>1. /\ pc' = [pc EXCEPT ![h] = pc'[h]] /\ pc'[h] \in {"done", "failed", "consent"}
        /\ pc'[h] = "done" => pc[h] = "release_done"
        /\ UNCHANGED <<event, pending, record, account, on, seen>> /\ (lease' = lease \/ lease' = None)
    <3>1. CASE At(h, "release_done")
      BY <1>7, <3>1, <1>0 DEF Release, Goes, At, stripe
    <3>2. CASE At(h, "release_failed")
      BY <1>7, <3>2, <1>0 DEF Release, Goes, At, stripe
    <3>3. CASE ~At(h, "release_done") /\ ~At(h, "release_failed")
      BY <1>7, <3>3, <1>0 DEF Release, Goes, At, stripe
    <3> QED BY <3>1, <3>2, <3>3
  <2>2. \A k \in Handlers : (k # h => pc'[k] = pc[k]) /\ k # None
    BY <2>1, <1>0, NoneAssumption
  <2> QED BY <2>1, <2>2, <1>0, Numbers DEF Leasing, Covered, Fetching, version
<1>8. CASE Consent(h)
  BY <1>8, <1>0, Numbers DEF Leasing, Covered, Fetching, Consent, At, Goes, stripe, version
<1>9. CASE Finish(h)
  <2>1. /\ UNCHANGED <<event, account, lease>> /\ pending' \subseteq pending
        /\ \A k \in Handlers : k # h => pc'[k] = pc[k] /\ seen'[k] = seen[k] /\ on'[k] = on[k]
        /\ pc'[h] = "idle" /\ on[h] \in Changes
    BY <1>9, <1>0, SubType DEF Finish, Leaves, Goes, stripe, At
  <2>2. Leasing'
    <3>1. record' \in [Changes -> {"none", "fresh", "old", "failed", "processed"}] /\ \A v \in Changes : v > version => record'[v] = record[v]
      BY <1>9, <1>0, SubType, Numbers DEF Finish, At
    <3> QED BY <2>1, <3>1, Numbers DEF Leasing, Fetching, version
  <2>3. CASE At(h, "done")
    <3>1. account.at >= on[h]
      BY <2>3 DEF Leasing, At
    <3>2. \A v \in 1 .. version : record'[v] = "processed" \/ v \notin pending' => v = on[h] \/ record[v] = "processed" \/ v \notin pending
      BY <1>9, <1>0, <2>3, Numbers DEF Finish, Changes
    <3> QED BY <2>1, <2>2, <3>1, <3>2, Numbers DEF Covered, version
  <2>4. CASE At(h, "failed")
    <3>1. \A v \in 1 .. version : record'[v] = "processed" \/ v \notin pending' => record[v] = "processed" \/ v \notin pending
      BY <1>9, <1>0, <2>4, Numbers DEF Finish, Changes, At
    <3> QED BY <2>1, <2>2, <3>1, Numbers DEF Covered, version
  <2> QED BY <1>9, <2>3, <2>4 DEF Finish, At
<1>10. CASE Fail(h)
  <2>1. /\ UNCHANGED <<event, pending, record, account, on, lease>> /\ pc'[h] \notin Fetching \cup {"release_done", "done"}
        /\ \A k \in Handlers : k # h => pc'[k] = pc[k] /\ seen'[k] = seen[k]
    BY <1>10, <1>0 DEF Fail, Forgets, Sees, Goes, Fetching, stripe
  <2> QED BY <2>1, Numbers DEF Leasing, Covered, version
<1>11. CASE Die(h)
  <2>1. /\ UNCHANGED <<event, pending, record, account, lease>> /\ pc'[h] \notin Fetching \cup {"release_done", "done"}
        /\ \A k \in Handlers : k # h => pc'[k] = pc[k] /\ seen'[k] = seen[k] /\ on'[k] = on[k]
    BY <1>11, <1>0 DEF Die, Leaves, Goes, Fetching, stripe
  <2> QED BY <2>1, Numbers DEF Leasing, Covered, version
<1> QED BY <1>1, <1>2, <1>3, <1>4, <1>5, <1>6, <1>7, <1>8, <1>9, <1>10, <1>11 DEF Works

LEMMA Step ==
  ASSUME IInv, [Next]_vars
  PROVE  IInv' /\ account'.at >= account.at
<1> USE DEF IInv
<1>0. TypeOK' /\ account.at >= account.at
  BY TypeStep, Numbers
<1>1. CASE World
  BY <1>0, <1>1, WorldKeeps
<1>2. ASSUME NEW v \in Changes, Duplicate(v) PROVE Leasing' /\ Covered' /\ account' = account
  BY <1>2, Numbers DEF Duplicate, AnswersAtOnce, Leasing, Covered, stripe, local, version
<1>3. ASSUME NEW v \in Changes, ClaimAges(v) PROVE Leasing' /\ Covered' /\ account' = account
  BY <1>3, Numbers DEF TypeOK, ClaimAges, Leasing, Covered, stripe, local, version
<1>4. ASSUME NEW v \in Changes, NEW h \in Handlers, Claim(h, v) PROVE Leasing' /\ Covered' /\ account' = account
  <2>1. v \in 1 .. version /\ record' = [record EXCEPT ![v] = "fresh"] /\ UNCHANGED <<event, pending, lease, account, seen>>
    BY <1>4 DEF TypeOK, Claim, Claimable, stripe
  <2>2. \A k \in Handlers : pc'[k] \notin Fetching \cup {"release_done", "done"} \/ (pc'[k] = pc[k] /\ on'[k] = on[k])
    BY <1>4 DEF TypeOK, Claim, Goes, Fetching
  <2>3. Leasing'
    BY <2>1, <2>2, Numbers DEF TypeOK, Leasing, Changes, version
  <2>4. Covered'
    BY <2>1, Numbers DEF TypeOK, Covered, Changes, version
  <2> QED BY <2>1, <2>3, <2>4
<1>5. ASSUME NEW h \in Handlers, Works(h) \/ Fail(h) \/ Die(h) PROVE Leasing' /\ Covered' /\ account'.at >= account.at
  BY <1>5, HandlerKeeps
<1>6. ASSUME LeaseExpires PROVE Leasing' /\ Covered' /\ account' = account
  BY <1>6, NoneAssumption, Numbers DEF LeaseExpires, Leasing, Covered, stripe, local, version
<1>7. CASE UNCHANGED vars
  BY <1>0, <1>7 DEF Leasing, Covered, vars, version
<1> QED BY <1>0, <1>1, <1>2, <1>3, <1>4, <1>5, <1>6, <1>7 DEF Next

LEMMA Start ==
  ASSUME Init
  PROVE  IInv
<1>1. Leasing /\ Covered
  BY DEF Init, Leasing, Covered, Fetching, version
<1> QED BY <1>1, TypeInit DEF IInv

LEMMA Invariant == Spec => []IInv
<1>1. IInv /\ [Next]_vars => IInv'
  BY Step
<1> QED BY <1>1, Start, PTL DEF Spec

\* The account goes from older to newer states of the provider: a lease may
\* expire under a handler, but what it fetched is then not applied.
THEOREM AccountForward == Spec => ForwardOnly
<1>1. IInv /\ [Next]_vars => [account'.at >= account.at]_vars
  BY Step
<1> QED BY <1>1, Invariant, PTL DEF Spec, ForwardOnly

\* No event is answered, nor recorded as processed, before the account has what made it.
THEOREM AnsweredIsCovered == Spec => []Covered
<1>1. IInv => Covered
  BY DEF IInv
<1> QED BY <1>1, Invariant, PTL

-----------------------------------------------------------------------------
(* What the account, and a handler, know of the provider *)

Held == {"disputed", "refunded"}

\* No event of s came after version a; the end of s came until then.
NoLater(s, a) == \A w \in a + 1 .. version : event[w].sub # s
Ends(w, s) == event[w].sub = s /\ event[w].kind = "plain" /\ event[w].invoice = 0
Gone(s, a) == \E w \in 1 .. a : Ends(w, s)

\* The event w is about the charge of an invoice; it is the last one.
About(w, s, i) == event[w].sub = s /\ event[w].kind = "charge" /\ event[w].invoice = i
Last(v, s, i) == About(v, s, i) /\ \A w \in v + 1 .. version : ~About(w, s, i)

HasPaid(s, i) == i < provider[s].invoice \/ provider[s].paid

\* What was fetched of s at version a.
Known(s, a, raw, invoice) ==
  /\ raw # "none" /\ invoice <= provider[s].invoice
  /\ NoLater(s, a) => raw = provider[s].status /\ invoice = provider[s].invoice
  /\ raw = "canceled" <=> Gone(s, a)
  /\ \A w \in 1 .. a : event[w].sub = s => event[w].invoice <= invoice

PaidAs(s, a, invoice, pay) ==
  /\ pay = "paid" => HasPaid(s, invoice)
  /\ pay = "unknown" => (NoLater(s, a) => ~provider[s].paid) /\ \A w \in 1 .. a : ~About(w, s, invoice)
  /\ pay \in Held => invoice \in Invoices /\ charge[s][invoice] # "clear"

\* The events tell what the provider went through.
Told ==
  /\ \A s \in Subs : provider[s].status = "none" <=> \A w \in 1 .. version : event[w].sub # s
  /\ \A s \in Subs : provider[s].status = "canceled" <=> Gone(s, version)
  /\ \A s \in Subs : provider[s].status # "none" <=> provider[s].invoice >= 1
  /\ \A w \in 1 .. version : event[w].invoice <= provider[event[w].sub].invoice
  /\ \A w \in 1 .. version : event[w].kind = "charge" =>
       event[w].invoice \in Invoices /\ charge[event[w].sub][event[w].invoice] # "clear"
  /\ \A s \in Subs, i \in Invoices : charge[s][i] # "clear" =>
       i <= provider[s].invoice /\ HasPaid(s, i) /\ \E v \in 1 .. version : Last(v, s, i)

\* What the charge of its event showed a handler is so still, or another event
\* tells of the change.
Evidence(h) == event[on[h]].kind = "charge" /\ event[on[h]].invoice = seen[h].invoice
Matches(h) ==
  LET c == charge[Sub(h)][seen[h].invoice] IN
  /\ c = "won" => seen[h].pay = "paid" /\ seen[h].won
  /\ c \in Held => seen[h].pay = c
Later(h) == \E w \in seen[h].at + 1 .. version : About(w, Sub(h), seen[h].invoice)

HandlerKnows(h) ==
  /\ pc[h] \in Fetching => Known(Sub(h), seen[h].at, seen[h].raw, seen[h].invoice)
  /\ pc[h] \in {"evidence", "apply"} => PaidAs(Sub(h), seen[h].at, seen[h].invoice, seen[h].pay)
  /\ pc[h] = "evidence" => Evidence(h)
  /\ pc[h] = "evidence" \/ (pc[h] = "apply" /\ ~Evidence(h)) => ~seen[h].won /\ seen[h].pay \in {"unknown", "paid"}
  /\ pc[h] = "apply" /\ Evidence(h) => Matches(h) \/ Later(h)
  /\ pc[h] \in Fetching /\ lease = h /\ account.sub = Sub(h) => account.invoice <= seen[h].invoice

AccountKnows ==
  IF account.sub = None THEN account.raw = "none"
  ELSE /\ Known(account.sub, account.at, account.raw, account.invoice)
       /\ PaidAs(account.sub, account.at, account.invoice, account.pay)

\* The event was applied: the account is that of its subscription while this one
\* lives, and has what the last event of a charge says.
Done(v) == record[v] = "processed" \/ v \notin pending \/ \E h \in Handlers : on[h] = v /\ pc[h] \in {"release_done", "done"}
Follows(v) == Live(provider[event[v].sub].status) => account.sub = event[v].sub
Holds(v, s, i) ==
  Last(v, s, i) /\ charge[s][i] \in Held =>
    \/ account.sub = s /\ (account.invoice > i \/ (account.invoice = i /\ account.pay \in Held))
    \/ Gone(s, account.at)
Frees(v, s, i) ==
  Last(v, s, i) /\ charge[s][i] = "won" /\ account.sub = s /\ account.invoice = i => account.pay \notin Held

Reflected ==
  \A v \in 1 .. version : Done(v) =>
    Follows(v) /\ \A i \in Invoices : Holds(v, event[v].sub, i) /\ Frees(v, event[v].sub, i)

Knowing == Told /\ (\A h \in Handlers : HandlerKnows(h)) /\ AccountKnows /\ Reflected

-----------------------------------------------------------------------------
(* Changes at the provider *)

\* The change of s that makes the event e.
Moves(s, e) ==
  /\ e \in Event /\ e.sub = s
  /\ \A t \in Subs : t # s => provider'[t] = provider[t] /\ charge'[t] = charge[t]
  /\ provider[s].invoice <= provider'[s].invoice /\ 1 <= provider'[s].invoice /\ provider'[s].status # "none"
  /\ provider'[s].status = "canceled" <=> provider[s].status = "canceled" \/ (e.kind = "plain" /\ e.invoice = 0)
  /\ e.invoice <= provider'[s].invoice
  /\ \A i \in 0 .. MaxInvoices : i <= provider[s].invoice /\ HasPaid(s, i) => HasPaid(s, i)'
  /\ \A i \in Invoices : charge'[s][i] = charge[s][i] \/ (e.kind = "charge" /\ e.invoice = i)
  /\ e.kind = "charge" => e.invoice \in Invoices /\ charge'[s][e.invoice] # "clear" /\ HasPaid(s, e.invoice)'

\* What a step at Stripe leaves alone, and the event it adds.
Tells(e) ==
  /\ version' = version + 1 /\ event'[version + 1] = e
  /\ \A w \in 1 .. version : event'[w] = event[w]
  /\ pending' = pending \cup {version + 1}
  /\ UNCHANGED <<record, lease, account, consent, pc, on, seen, again>>

LEMMA WorldMoves ==
  ASSUME TypeOK, Told, World
  PROVE  \E s \in Subs, e \in Event : Moves(s, e) /\ Tells(e)
<1>1. ASSUME NEW s \in Subs, NEW kind \in {"checkout", "plain", "charge"}, NEW i \in 0 .. MaxInvoices, Emits(s, kind, i)
      PROVE  LET e == [sub |-> s, kind |-> kind, invoice |-> i] IN e \in Event /\ Tells(e)
  <2> DEFINE e == [sub |-> s, kind |-> kind, invoice |-> i]
  <2>1. e \in Event
    BY DEF Event
  <2>2. event' = Append(event, e) /\ event \in Seq(Event)
    BY <1>1 DEF Emits, TypeOK
  <2> HIDE DEF e
  <2>3. Len(event') = Len(event) + 1 /\ event'[Len(event) + 1] = e /\ \A w \in 1 .. Len(event) : event'[w] = event[w]
    BY <2>1, <2>2
  <2> QED BY <1>1, <2>1, <2>3 DEF Emits, Tells, local, version, e
<1>2. \A s \in Subs : /\ provider[s].status \in Statuses /\ provider[s].invoice \in 0 .. MaxInvoices
                      /\ provider[s].paid \in BOOLEAN
  BY DEF TypeOK
<1>3. provider \in [Subs -> [status : Statuses, invoice : 0 .. MaxInvoices, paid : BOOLEAN]] /\ charge \in [Subs -> [Invoices -> Charges]]
  BY DEF TypeOK
<1>4. ASSUME NEW s \in Subs, NEW status, NEW invoice, NEW paid, Becomes(s, status, invoice, paid)
      PROVE  /\ provider'[s].status = status /\ provider'[s].invoice = invoice /\ provider'[s].paid = paid
             /\ charge' = charge /\ \A t \in Subs : t # s => provider'[t] = provider[t]
  BY <1>3, <1>4 DEF Becomes
<1>5. \A s \in Subs : provider[s].status # "none" <=> provider[s].invoice >= 1
  BY DEF Told
<1>6. MaxInvoices \in Nat /\ MaxInvoices >= 1 /\ Invoices = 1 .. MaxInvoices
  BY BoundAssumption DEF Invoices
<1>7. ASSUME NEW s \in Subs, Started(s) PROVE \E e \in Event : Moves(s, e) /\ Tells(e)
  <2> DEFINE e == [sub |-> s, kind |-> "checkout", invoice |-> 1]
  <2>1. e \in Event /\ Tells(e)
    BY <1>1, <1>6, <1>7 DEF Started
  <2>2. /\ provider'[s].status = "active" /\ provider'[s].invoice = 1 /\ provider'[s].paid
        /\ charge' = charge /\ \A t \in Subs : t # s => provider'[t] = provider[t]
    BY <1>4, <1>7 DEF Started
  <2>3. provider[s].status = "none" /\ provider[s].invoice = 0
    BY <1>2, <1>5, <1>7 DEF Started
  <2>4. Moves(s, e)
    BY <1>2, <2>1, <2>2, <2>3 DEF Moves, HasPaid
  <2> QED BY <2>1, <2>4
<1>8. ASSUME NEW s \in Subs, NEW status \in {"active", "past_due"}, NEW invoice \in 1 .. MaxInvoices, NEW paid \in BOOLEAN,
             Live(provider[s].status), Becomes(s, status, invoice, paid), Emits(s, "plain", invoice),
             \/ invoice = provider[s].invoice + 1
             \/ invoice = provider[s].invoice /\ ~provider[s].paid
      PROVE  \E e \in Event : Moves(s, e) /\ Tells(e)
  <2> DEFINE e == [sub |-> s, kind |-> "plain", invoice |-> invoice]
  <2>1. e \in Event /\ Tells(e)
    BY <1>1, <1>6, <1>8
  <2>2. /\ provider'[s].status = status /\ provider'[s].invoice = invoice /\ provider'[s].paid = paid
        /\ charge' = charge /\ \A t \in Subs : t # s => provider'[t] = provider[t]
    BY <1>4, <1>8
  <2>3. Moves(s, e)
    BY <1>2, <1>6, <1>8, <2>1, <2>2 DEF Moves, HasPaid, Live
  <2> QED BY <2>1, <2>3
<1>9. ASSUME NEW s \in Subs, Renewed(s) \/ Unpaid(s) \/ Paid(s) PROVE \E e \in Event : Moves(s, e) /\ Tells(e)
  <2>1. Live(provider[s].status)
    BY <1>9 DEF Renewed, Unpaid, Paid, Live
  <2>2. provider[s].invoice \in 1 .. MaxInvoices
    <3>1. provider[s].invoice >= 1 /\ provider[s].invoice \in 0 .. MaxInvoices
      BY <1>2, <1>5, <2>1 DEF Live
    <3> QED BY <1>6, <3>1
  <2>3. CASE Renewed(s)
    <3>1. provider[s].invoice + 1 \in 1 .. MaxInvoices
      BY <1>6, <2>2, <2>3 DEF Renewed
    <3> QED BY <1>8, <2>1, <2>3, <3>1 DEF Renewed
  <2>4. CASE Unpaid(s)
    BY <1>8, <2>1, <2>2, <2>4 DEF Unpaid
  <2>5. CASE Paid(s)
    BY <1>8, <2>1, <2>2, <2>5 DEF Paid
  <2> QED BY <1>9, <2>3, <2>4, <2>5
<1>10. ASSUME NEW s \in Subs, Ended(s) PROVE \E e \in Event : Moves(s, e) /\ Tells(e)
  <2> DEFINE e == [sub |-> s, kind |-> "plain", invoice |-> 0]
  <2>1. e \in Event /\ Tells(e)
    BY <1>1, <1>6, <1>10 DEF Ended
  <2>2. /\ provider'[s].status = "canceled" /\ provider'[s].invoice = provider[s].invoice /\ provider'[s].paid = provider[s].paid
        /\ charge' = charge /\ \A t \in Subs : t # s => provider'[t] = provider[t]
    BY <1>4, <1>10 DEF Ended
  <2>3. provider[s].invoice >= 1
    BY <1>5, <1>10 DEF Ended, Live
  <2>4. Moves(s, e)
    BY <1>2, <2>1, <2>2, <2>3 DEF Moves, HasPaid
  <2> QED BY <2>1, <2>4
<1>11. ASSUME NEW s \in Subs, NEW i \in Invoices, NEW from, NEW to \in {"disputed", "won", "refunded"}, Charged(s, i, from, to)
       PROVE  \E e \in Event : Moves(s, e) /\ Tells(e)
  <2> DEFINE e == [sub |-> s, kind |-> "charge", invoice |-> i]
  <2>1. e \in Event /\ Tells(e)
    BY <1>1, <1>6, <1>11 DEF Charged
  <2>2. /\ charge'[s][i] = to /\ \A j \in Invoices : j # i => charge'[s][j] = charge[s][j]
        /\ \A t \in Subs : t # s => charge'[t] = charge[t]
    BY <1>3, <1>11 DEF Charged
  <2>3. provider' = provider /\ i <= provider[s].invoice /\ HasPaid(s, i) /\ provider[s].invoice >= 1
    BY <1>2, <1>6, <1>11 DEF Charged, HasPaid
  <2>4. provider[s].status # "none"
    BY <1>5, <2>3
  <2>5. Moves(s, e)
    BY <1>2, <1>6, <2>1, <2>2, <2>3, <2>4 DEF Moves, HasPaid
  <2> QED BY <2>1, <2>5
<1> QED BY <1>7, <1>9, <1>10, <1>11 DEF World

\* What is said of the events up to a version is not changed by the next one.
LEMMA TellsMore ==
  ASSUME TypeOK, NEW s \in Subs, NEW e, Tells(e), NEW a \in 0 .. version, NEW n, n = version + 1
  PROVE  /\ Gone(s, a)' <=> Gone(s, a)
         /\ NoLater(s, a)' <=> NoLater(s, a) /\ e.sub # s
         /\ \A i : \A w \in 1 .. version : About(w, s, i)' <=> About(w, s, i)
         /\ \A i : About(n, s, i)' <=> e.sub = s /\ e.kind = "charge" /\ e.invoice = i
         /\ \A i : \A v \in 1 .. version : Last(v, s, i)' <=> Last(v, s, i) /\ ~About(n, s, i)'
<1>1. version \in Nat /\ a \in Nat /\ a <= version
  BY DEF TypeOK
<1>2. /\ version' = version + 1 /\ event'[version + 1] = e
      /\ \A w \in 1 .. version : event'[w] = event[w]
  BY DEF Tells
<1>3. Gone(s, a)' <=> Gone(s, a)
  BY <1>1, <1>2 DEF Gone, Ends
<1>4. NoLater(s, a)' <=> NoLater(s, a) /\ e.sub # s
  <2>1. NoLater(s, a)' <=> \A w \in a + 1 .. version + 1 : event'[w].sub # s
    BY <1>2 DEF NoLater
  <2>2. a + 1 .. version + 1 = (a + 1 .. version) \cup {version + 1} /\ a + 1 .. version \subseteq 1 .. version
    BY <1>1
  <2> QED BY <1>2, <2>1, <2>2 DEF NoLater
<1>5. \A i : \A w \in 1 .. version : About(w, s, i)' <=> About(w, s, i)
  BY <1>2 DEF About
<1>6. \A i : About(n, s, i)' <=> e.sub = s /\ e.kind = "charge" /\ e.invoice = i
  BY <1>1, <1>2 DEF About
<1>7. ASSUME NEW i, NEW v \in 1 .. version PROVE Last(v, s, i)' <=> Last(v, s, i) /\ ~About(n, s, i)'
  <2>1. v + 1 .. version + 1 = (v + 1 .. version) \cup {version + 1} /\ v + 1 .. version \subseteq 1 .. version
    BY <1>1
  <2> DEFINE A(w) == About(w, s, i)
             B(w) == About(w, s, i)'
  <2>2. Last(v, s, i) <=> A(v) /\ \A w \in v + 1 .. version : ~A(w)
    BY DEF Last
  <2>3. Last(v, s, i)' <=> B(v) /\ \A w \in v + 1 .. version + 1 : ~B(w)
    BY <1>2 DEF Last
  <2>4. \A w \in 1 .. version : B(w) <=> A(w)
    BY <1>5
  <2> HIDE DEF A, B
  <2>5. Last(v, s, i)' <=> Last(v, s, i) /\ ~B(n)
    BY <2>1, <2>2, <2>3, <2>4
  <2> QED BY <2>5 DEF B
<1> QED BY <1>3, <1>4, <1>5, <1>6, <1>7

LEMMA WorldTold ==
  ASSUME TypeOK, TypeOK', Told, NEW s \in Subs, NEW e \in Event, Moves(s, e), Tells(e)
  PROVE  Told'
<1>1. version \in Nat /\ version' = version + 1 /\ 1 .. version + 1 = 1 .. version \cup {version + 1}
  BY DEF TypeOK, Tells
<1>2. PICK n : n = version + 1
  OBVIOUS
<1>3. /\ event'[n] = e /\ \A w \in 1 .. version : event'[w] = event[w] /\ event[w] \in Event
      /\ n \in 1 .. version'
  BY <1>1, <1>2 DEF Tells, TypeOK, version
<1>4. e.sub = s /\ \A t \in Subs : t # s => provider'[t] = provider[t] /\ charge'[t] = charge[t]
  BY DEF Moves
<1>5. ASSUME NEW t \in Subs PROVE (provider[t].status = "none" <=> \A w \in 1 .. version : event[w].sub # t)'
  BY <1>1, <1>2, <1>3, <1>4 DEF Moves, Told
<1>6. ASSUME NEW t \in Subs PROVE (provider[t].status = "canceled" <=> Gone(t, version))'
  <2>1. Gone(t, version)' <=> Gone(t, version) \/ (e.sub = t /\ e.kind = "plain" /\ e.invoice = 0)
    BY <1>1, <1>2, <1>3 DEF Gone, Ends
  <2>2. provider[t].status = "canceled" <=> Gone(t, version)
    BY DEF Told
  <2>3. provider'[t].status = "canceled" <=> provider[t].status = "canceled" \/ (e.sub = t /\ e.kind = "plain" /\ e.invoice = 0)
    BY <1>4 DEF Moves
  <2> QED BY <2>1, <2>2, <2>3
<1>7. ASSUME NEW t \in Subs PROVE (provider[t].status # "none" <=> provider[t].invoice >= 1)'
  BY <1>4 DEF Moves, Told
<1>8. \A t \in Subs : provider[t].invoice \in Nat /\ provider'[t].invoice \in Nat /\ provider[t].invoice <= provider'[t].invoice
  <2>1. provider \in [Subs -> [status : Statuses, invoice : 0 .. MaxInvoices, paid : BOOLEAN]] /\ provider' \in [Subs -> [status : Statuses, invoice : 0 .. MaxInvoices, paid : BOOLEAN]]
    BY DEF TypeOK
  <2>2. \A t \in Subs : provider[t].invoice \in 0 .. MaxInvoices /\ provider'[t].invoice \in 0 .. MaxInvoices
    BY <2>1
  <2> QED BY <1>4, <2>2, BoundAssumption DEF Moves
<1>9. ASSUME NEW w \in 1 .. version' PROVE (event[w].invoice <= provider[event[w].sub].invoice)'
  <2>1. CASE w \in 1 .. version
    <3>1. event[w].sub \in Subs /\ event[w].invoice \in Nat /\ event[w].invoice <= provider[event[w].sub].invoice
      BY <1>3, <2>1, BoundAssumption DEF Event, Told
    <3> QED BY <1>3, <1>8, <2>1, <3>1
  <2>2. CASE w = n
    BY <1>3, <1>4, <2>2 DEF Moves
  <2> QED BY <1>1, <1>2, <2>1, <2>2
<1>10. ASSUME NEW w \in 1 .. version', event'[w].kind = "charge"
       PROVE  (event[w].invoice \in Invoices /\ charge[event[w].sub][event[w].invoice] # "clear")'
  <2>1. CASE w \in 1 .. version
    <3>1. event[w].sub \in Subs /\ event[w].invoice \in Invoices /\ charge[event[w].sub][event[w].invoice] # "clear"
      BY <1>3, <1>10, <2>1 DEF Event, Told
    <3>2. charge'[event[w].sub][event[w].invoice] # "clear"
      BY <1>4, <3>1 DEF Moves
    <3> QED BY <1>3, <2>1, <3>1, <3>2
  <2>2. CASE w = n
    BY <1>3, <1>4, <1>10, <2>2 DEF Moves
  <2> QED BY <1>1, <1>2, <2>1, <2>2
<1>11. ASSUME NEW t \in Subs, NEW i \in Invoices, charge'[t][i] # "clear"
       PROVE  (i <= provider[t].invoice /\ HasPaid(t, i) /\ \E v \in 1 .. version : Last(v, t, i))'
  <2>1. About(n, t, i)' <=> e.sub = t /\ e.kind = "charge" /\ e.invoice = i
    BY <1>3 DEF About
  <2>2. \A v \in 1 .. version : Last(v, t, i)' <=> Last(v, t, i) /\ ~About(n, t, i)'
    <3>1. 0 \in 0 .. version
      BY <1>1
    <3> QED BY <1>2, <3>1, TellsMore
  <2>3. CASE About(n, t, i)'
    <3>1. Last(n, t, i)'
      BY <1>1, <1>2, <2>3 DEF Last
    <3>2. i <= provider'[t].invoice /\ HasPaid(t, i)'
      BY <2>1, <2>3 DEF Moves
    <3> QED BY <1>3, <3>1, <3>2
  <2>4. CASE ~About(n, t, i)'
    <3>1. charge[t][i] # "clear"
      BY <1>4, <1>11, <2>1, <2>4 DEF Moves
    <3>2. i <= provider[t].invoice /\ HasPaid(t, i) /\ \E v \in 1 .. version : Last(v, t, i)
      BY <3>1 DEF Told
    <3>3. i \in Nat /\ i \in 0 .. MaxInvoices
      BY BoundAssumption DEF Invoices
    <3>4. i <= provider'[t].invoice
      BY <1>8, <3>2, <3>3
    <3>5. HasPaid(t, i)'
      BY <1>4, <3>2, <3>3 DEF Moves, HasPaid
    <3>6. \E v \in 1 .. version' : Last(v, t, i)'
      BY <1>1, <2>2, <2>4, <3>2
    <3> QED BY <3>4, <3>5, <3>6
  <2> QED BY <2>3, <2>4
<1> QED BY <1>5, <1>6, <1>7, <1>9, <1>10, <1>11 DEF Told

\* What was known of a subscription at a version is so after a change at Stripe.
LEMMA WorldCarries ==
  ASSUME TypeOK, TypeOK', Told, NEW s \in Subs, NEW e \in Event, Moves(s, e), Tells(e),
         NEW t \in Subs, NEW a \in 0 .. version, NEW raw, NEW invoice \in 0 .. MaxInvoices, NEW pay
  PROVE  /\ Known(t, a, raw, invoice) => Known(t, a, raw, invoice)'
         /\ Known(t, a, raw, invoice) /\ PaidAs(t, a, invoice, pay) => PaidAs(t, a, invoice, pay)'
<1>1. \A u \in Subs : provider[u].invoice \in Nat /\ provider'[u].invoice \in Nat /\ invoice \in Nat
  <2>1. provider \in [Subs -> [status : Statuses, invoice : 0 .. MaxInvoices, paid : BOOLEAN]] /\ provider' \in [Subs -> [status : Statuses, invoice : 0 .. MaxInvoices, paid : BOOLEAN]]
    BY DEF TypeOK
  <2>2. \A u \in Subs : provider[u].invoice \in 0 .. MaxInvoices /\ provider'[u].invoice \in 0 .. MaxInvoices
    BY <2>1
  <2> QED BY <2>2, BoundAssumption
<1>2. e.sub = s /\ \A u \in Subs : u # s => provider'[u] = provider[u] /\ charge'[u] = charge[u]
  BY DEF Moves
<1>3. PICK n : n = version + 1
  OBVIOUS
<1>4. /\ Gone(t, a)' <=> Gone(t, a)
      /\ NoLater(t, a)' <=> NoLater(t, a) /\ e.sub # t
  BY <1>3, TellsMore
<1>5. provider[t].invoice <= provider'[t].invoice
  BY <1>1, <1>2 DEF Moves
<1>6. \A w \in 1 .. a : event'[w] = event[w]
  <2>1. 1 .. a \subseteq 1 .. version
    BY DEF TypeOK
  <2> QED BY <2>1 DEF Tells
<1>7. ASSUME Known(t, a, raw, invoice) PROVE Known(t, a, raw, invoice)'
  <2>1. invoice <= provider'[t].invoice
    BY <1>1, <1>5, <1>7 DEF Known
  <2> QED BY <1>2, <1>4, <1>6, <1>7, <2>1 DEF Known
<1>8. ASSUME Known(t, a, raw, invoice), PaidAs(t, a, invoice, pay) PROVE PaidAs(t, a, invoice, pay)'
  <2>1. ASSUME pay = "paid" PROVE HasPaid(t, invoice)'
    <3>1. HasPaid(t, invoice)
      BY <1>8, <2>1 DEF PaidAs
    <3>2. CASE t # s
      BY <1>2, <3>1, <3>2 DEF HasPaid
    <3>3. CASE t = s
      BY <1>8, <3>1, <3>3 DEF Moves, Known
    <3> QED BY <3>2, <3>3
  <2>2. ASSUME pay \in Held PROVE invoice \in Invoices /\ charge'[t][invoice] # "clear"
    <3>1. invoice \in Invoices /\ charge[t][invoice] # "clear"
      BY <1>8, <2>2 DEF PaidAs
    <3> QED BY <1>2, <3>1 DEF Moves
  <2>3. pay = "unknown" => (NoLater(t, a)' => ~provider'[t].paid) /\ \A w \in 1 .. a : ~About(w, t, invoice)'
    BY <1>2, <1>4, <1>6, <1>8 DEF PaidAs, About
  <2> QED BY <2>1, <2>2, <2>3 DEF PaidAs
<1> QED BY <1>7, <1>8

LEMMA WorldHandler ==
  ASSUME IInv, TypeOK', Told, NEW s \in Subs, NEW e \in Event, Moves(s, e), Tells(e),
         NEW h \in Handlers, HandlerKnows(h)
  PROVE  HandlerKnows(h)'
<1>0. TypeOK /\ Leasing /\ Tells(e)
  BY DEF IInv
<1>1. UNCHANGED <<lease, account, pc, on, seen>>
  BY DEF Tells
<1>2. CASE pc[h] \notin Fetching
  BY <1>1, <1>2 DEF HandlerKnows, Fetching
<1>3. CASE pc[h] \in Fetching
  <2>1. /\ on[h] \in 1 .. version /\ Sub(h) \in Subs /\ seen[h].at \in 0 .. version
        /\ seen[h].invoice \in 0 .. MaxInvoices
    BY <1>0, <1>3, SubType, SeenType, Numbers DEF Fetching, Leasing
  <2>2. PICK v, t, a, raw, invoice, pay :
           /\ v = on[h] /\ t = Sub(h)
           /\ a = seen[h].at /\ raw = seen[h].raw /\ invoice = seen[h].invoice /\ pay = seen[h].pay
    OBVIOUS
  <2>3. /\ v \in 1 .. version /\ t \in Subs /\ a \in 0 .. version /\ invoice \in 0 .. MaxInvoices
        /\ event'[v] = event[v] /\ t = event[v].sub
    BY <2>1, <2>2 DEF Tells, Sub
  <2>4. /\ on'[h] = v /\ Sub(h)' = t
        /\ seen'[h].at = a /\ seen'[h].raw = raw /\ seen'[h].invoice = invoice /\ seen'[h].pay = pay /\ seen'[h].won = seen[h].won
        /\ pc'[h] = pc[h] /\ lease' = lease /\ account' = account
    BY <1>1, <2>2, <2>3 DEF Sub
  <2>5. Known(t, a, raw, invoice) => Known(t, a, raw, invoice)'
    BY <1>0, <2>3, WorldCarries
  <2>6. Known(t, a, raw, invoice) /\ PaidAs(t, a, invoice, pay) => PaidAs(t, a, invoice, pay)'
    BY <1>0, <2>3, WorldCarries
  <2>7. Known(t, a, raw, invoice) /\ (pc[h] \in {"evidence", "apply"} => PaidAs(t, a, invoice, pay))
    BY <1>3, <2>2 DEF HandlerKnows
  <2>8. Known(t, a, raw, invoice)' /\ (pc[h] \in {"evidence", "apply"} => PaidAs(t, a, invoice, pay)')
    BY <2>5, <2>6, <2>7
  <2>9. Evidence(h)' <=> Evidence(h)
    BY <2>2, <2>3, <2>4 DEF Evidence
  <2>10. ASSUME Evidence(h), Matches(h) \/ Later(h) PROVE Matches(h)' \/ Later(h)'
    <3>1. PICK n : n = version + 1
      OBVIOUS
    <3>2. version' = n /\ n \in a + 1 .. version' /\ event'[n] = e /\ a + 1 .. version \subseteq 1 .. version
          /\ a + 1 .. version \subseteq a + 1 .. version'
      BY <1>0, <2>3, <3>1, Numbers DEF Tells
    <3>3. CASE Later(h)
      <4>1. PICK w \in a + 1 .. version : About(w, t, invoice)
        BY <2>2, <3>3 DEF Later
      <4>2. event'[w] = event[w] /\ w \in a + 1 .. version'
        BY <3>2, <4>1 DEF Tells
      <4> QED BY <2>4, <4>1, <4>2 DEF Later, About
    <3>4. CASE Matches(h)
      <4>1. invoice \in Invoices
        BY <2>2, <2>3, <2>10 DEF Evidence, Told
      <4>2. CASE charge'[t][invoice] = charge[t][invoice]
        BY <2>2, <2>4, <3>4, <4>2 DEF Matches
      <4>3. CASE e.sub = t /\ e.kind = "charge" /\ e.invoice = invoice
        BY <2>4, <3>2, <4>3 DEF Later, About
      <4> QED BY <2>3, <4>1, <4>2, <4>3 DEF Moves
    <3> QED BY <2>10, <3>3, <3>4
  <2>11. Known(Sub(h), seen[h].at, seen[h].raw, seen[h].invoice)'
    BY <2>4, <2>8 DEF Known, NoLater, Gone, Ends
  <2>12. pc'[h] \in {"evidence", "apply"} => PaidAs(Sub(h), seen[h].at, seen[h].invoice, seen[h].pay)'
    BY <2>4, <2>8 DEF PaidAs, NoLater, About, HasPaid
  <2> QED BY <2>2, <2>4, <2>9, <2>10, <2>11, <2>12 DEF HandlerKnows
<1> QED BY <1>2, <1>3

LEMMA WorldAccount ==
  ASSUME IInv, TypeOK', Told, NEW s \in Subs, NEW e \in Event, Moves(s, e), Tells(e), AccountKnows
  PROVE  AccountKnows'
<1>0. TypeOK /\ Leasing /\ account' = account /\ account.at \in 0 .. version /\ account.invoice \in 0 .. MaxInvoices
      /\ account.sub \in Subs \cup {None}
  <2>1. TypeOK /\ Leasing /\ account' = account
    BY DEF IInv, Tells
  <2>2. account.at \in 0 .. version
    BY <2>1, Numbers DEF Leasing
  <2>3. account.invoice \in 0 .. MaxInvoices /\ account.sub \in Subs \cup {None}
    BY <2>1 DEF TypeOK
  <2> QED BY <2>1, <2>2, <2>3
<1>1. CASE account.sub = None
  BY <1>0, <1>1 DEF AccountKnows
<1>2. CASE account.sub # None
  <2>1. PICK t, a, raw, invoice, pay :
           t = account.sub /\ a = account.at /\ raw = account.raw /\ invoice = account.invoice /\ pay = account.pay
    OBVIOUS
  <2>2. t \in Subs /\ a \in 0 .. version /\ invoice \in 0 .. MaxInvoices
    BY <1>0, <1>2, <2>1
  <2>3. Known(t, a, raw, invoice) /\ PaidAs(t, a, invoice, pay)
    BY <1>2, <2>1 DEF AccountKnows
  <2>4. Known(t, a, raw, invoice)' /\ PaidAs(t, a, invoice, pay)'
    BY <1>0, <2>2, <2>3, WorldCarries
  <2>5. account'.sub = t /\ account'.at = a /\ account'.raw = raw /\ account'.invoice = invoice /\ account'.pay = pay
    BY <1>0, <2>1
  <2>6. Known(account.sub, account.at, account.raw, account.invoice)'
    BY <2>4, <2>5 DEF Known, NoLater, Gone, Ends
  <2>7. PaidAs(account.sub, account.at, account.invoice, account.pay)'
    BY <2>4, <2>5 DEF PaidAs, NoLater, About, HasPaid
  <2> QED BY <1>0, <1>2, <2>6, <2>7 DEF AccountKnows
<1> QED BY <1>1, <1>2

\* The event of a change at Stripe is not done yet, and what is done already is
\* not about the change.
LEMMA WorldReflected ==
  ASSUME IInv, TypeOK', Told, Reflected, NEW s \in Subs, NEW e \in Event, Moves(s, e), Tells(e)
  PROVE  Reflected'
<1>0. TypeOK /\ Leasing /\ Tells(e) /\ version \in Nat /\ account.at \in 0 .. version
  BY Numbers DEF IInv, Leasing
<1>1. PICK n : n = version + 1
  OBVIOUS
<1>2. /\ version' = n /\ event'[n] = e /\ n \in pending' /\ 1 .. n = 1 .. version \cup {n}
      /\ UNCHANGED <<record, account, pc, on>>
      /\ pending' = pending \cup {n} /\ n \in Nat /\ n > version
  BY <1>0, <1>1 DEF Tells
<1>3. \A w \in 1 .. version : event'[w] = event[w] /\ event[w] \in Event /\ w # n
  BY <1>0, <1>2 DEF Tells, TypeOK, version
<1>4. ASSUME Done(n)' PROVE FALSE
  <2>1. n \in Changes
    <3>1. version' \in 0 .. MaxChanges
      BY DEF TypeOK
    <3> QED BY <1>0, <1>2, <3>1, BoundAssumption DEF Changes
  <2>2. record[n] = "none"
    BY <1>0, <1>2, <2>1 DEF Leasing
  <2>3. \A h \in Handlers : on[h] # n
    BY <1>0, <1>2, Numbers
  <2> QED BY <1>2, <1>4, <2>2, <2>3 DEF Done
<1>5. ASSUME NEW v \in 1 .. version, Done(v)'
      PROVE  (Follows(v) /\ \A i \in Invoices : Holds(v, event[v].sub, i) /\ Frees(v, event[v].sub, i))'
  <2>1. Done(v)
    BY <1>2, <1>3, <1>5 DEF Done
  <2>2. PICK t : t = event[v].sub
    OBVIOUS
  <2>3. t \in Subs /\ event'[v].sub = t
    BY <1>3, <2>2 DEF Event
  <2>4. Follows(v) /\ \A i \in Invoices : Holds(v, t, i) /\ Frees(v, t, i)
    BY <2>1, <2>2 DEF Reflected
  <2>5. Follows(v)'
    <3>1. provider[t].status # "none"
      BY <2>2, <2>3 DEF Told
    <3>2. Live(provider'[t].status) => Live(provider[t].status)
      BY <2>3, <3>1 DEF Moves, Live
    <3> QED BY <1>2, <2>2, <2>3, <2>4, <3>2 DEF Follows
  <2>6. ASSUME NEW i \in Invoices PROVE Holds(v, t, i)' /\ Frees(v, t, i)'
    <3>1. About(n, t, i)' <=> e.sub = t /\ e.kind = "charge" /\ e.invoice = i
      BY <1>2 DEF About
    <3>2. Last(v, t, i)' => Last(v, t, i) /\ ~About(n, t, i)'
      BY <1>0, <1>1, <2>3, TellsMore
    <3>3. ~About(n, t, i)' => charge'[t][i] = charge[t][i]
      BY <2>3, <3>1 DEF Moves
    <3>4. \A a \in 0 .. version : Gone(t, a)' <=> Gone(t, a)
      BY <1>0, <1>1, <2>3, TellsMore
    <3>5. PICK a : a = account.at
      OBVIOUS
    <3>6. account'.at = a /\ a \in 0 .. version /\ (Gone(t, a)' <=> Gone(t, a))
      BY <1>0, <1>2, <3>4, <3>5
    <3>7. Gone(t, account.at) => Gone(t, account.at)'
      BY <3>5, <3>6 DEF Gone, Ends
    <3> QED BY <1>2, <2>4, <3>2, <3>3, <3>7 DEF Holds, Frees
  <2> QED BY <2>3, <2>5, <2>6 DEF Holds, Frees, Last, About, Gone, Ends
<1>6. \A v \in 1 .. version' : Done(v)' => v \in 1 .. version
  BY <1>2, <1>4
<1> QED BY <1>5, <1>6 DEF Reflected

-----------------------------------------------------------------------------
(* What a handler learns *)

\* A step that is not at Stripe leaves alone what is said of it.
LEMMA SameTold ==
  ASSUME Told, UNCHANGED stripe
  PROVE  Told'
<1>1. event' = event /\ provider' = provider /\ charge' = charge /\ version' = version
  BY DEF stripe, version
<1>2. \A s, i : \A v : (Last(v, s, i)' <=> Last(v, s, i)) /\ (HasPaid(s, i)' <=> HasPaid(s, i))
  BY <1>1 DEF Last, About, HasPaid
<1>3. \A s : Gone(s, version)' <=> Gone(s, version)
  BY <1>1 DEF Gone, Ends
<1> QED BY <1>1, <1>2, <1>3 DEF Told

LEMMA SameKnown ==
  ASSUME UNCHANGED stripe, NEW s, NEW a, NEW raw, NEW invoice, NEW pay
  PROVE  /\ Known(s, a, raw, invoice)' <=> Known(s, a, raw, invoice)
         /\ PaidAs(s, a, invoice, pay)' <=> PaidAs(s, a, invoice, pay)
BY DEF stripe, version, Known, PaidAs, NoLater, Gone, Ends, About, HasPaid

LEMMA SameReflected ==
  ASSUME UNCHANGED stripe, account' = account, \A v \in 1 .. version : Done(v)' => Done(v),
         AccountKnows, Reflected
  PROVE  AccountKnows' /\ Reflected'
<1>1. event' = event /\ provider' = provider /\ charge' = charge /\ version' = version
  BY DEF stripe, version
<1>2. \A v : Follows(v)' <=> Follows(v)
  BY <1>1 DEF Follows
<1>3. \A v, s, i : Last(v, s, i)' <=> Last(v, s, i)
  BY <1>1 DEF Last, About
<1>4. \A v, s, i : (Holds(v, s, i)' <=> Holds(v, s, i)) /\ (Frees(v, s, i)' <=> Frees(v, s, i))
  BY <1>1, <1>3 DEF Holds, Frees, Gone, Ends
<1>5. ASSUME NEW v \in 1 .. version, Done(v)'
      PROVE  (Follows(v) /\ \A i \in Invoices : Holds(v, event[v].sub, i) /\ Frees(v, event[v].sub, i))'
  <2>1. PICK t : t = event[v].sub
    OBVIOUS
  <2>2. Follows(v) /\ \A i \in Invoices : Holds(v, t, i) /\ Frees(v, t, i)
    BY <1>5, <2>1 DEF Reflected
  <2>3. \A i \in Invoices : Holds(v, t, i)' /\ Frees(v, t, i)'
    BY <1>4, <2>2
  <2> QED BY <1>1, <1>2, <2>1, <2>2, <2>3 DEF Holds, Frees, Last, About, Gone, Ends
<1>6. AccountKnows'
  BY <1>1 DEF AccountKnows, Known, PaidAs, NoLater, Gone, Ends, About, HasPaid
<1> QED BY <1>1, <1>5, <1>6 DEF Reflected

LEMMA Unmoved ==
  ASSUME UNCHANGED stripe, NEW k \in Handlers, HandlerKnows(k),
         pc'[k] = pc[k], on'[k] = on[k], seen'[k] = seen[k],
         lease' = k => lease = k /\ account' = account
  PROVE  HandlerKnows(k)'
<1>1. event' = event /\ provider' = provider /\ charge' = charge /\ version' = version /\ Sub(k)' = Sub(k)
  BY DEF stripe, version, Sub
<1>2. Known(Sub(k), seen[k].at, seen[k].raw, seen[k].invoice)' <=> Known(Sub(k), seen[k].at, seen[k].raw, seen[k].invoice)
  BY <1>1 DEF Known, NoLater, Gone, Ends
<1>3. PaidAs(Sub(k), seen[k].at, seen[k].invoice, seen[k].pay)' <=> PaidAs(Sub(k), seen[k].at, seen[k].invoice, seen[k].pay)
  BY <1>1 DEF PaidAs, NoLater, About, HasPaid
<1>4. (Evidence(k)' <=> Evidence(k)) /\ (Matches(k)' <=> Matches(k)) /\ (Later(k)' <=> Later(k))
  BY <1>1 DEF Evidence, Matches, Later, About
<1> QED BY <1>1, <1>2, <1>3, <1>4 DEF HandlerKnows

\* It is enough to look at the handler that takes the step.
LEMMA OthersKnow ==
  ASSUME NEW h \in Handlers, \A k \in Handlers : HandlerKnows(k), UNCHANGED stripe,
         \A k \in Handlers : k # h => pc'[k] = pc[k] /\ on'[k] = on[k] /\ seen'[k] = seen[k],
         \A k \in Handlers : k # h /\ lease' = k => lease = k /\ account' = account,
         pc'[h] \in Fetching => HandlerKnows(h)'
  PROVE  \A k \in Handlers : HandlerKnows(k)'
<1> SUFFICES ASSUME NEW k \in Handlers PROVE HandlerKnows(k)'
  OBVIOUS
<1>1. CASE k # h
  BY <1>1, Unmoved
<1>2. CASE k = h /\ pc'[h] \notin Fetching
  BY <1>2 DEF HandlerKnows, Fetching
<1> QED BY <1>1, <1>2

LEMMA OneDone ==
  ASSUME NEW h \in Handlers, UNCHANGED <<record, pending, on>>,
         \A k \in Handlers : k # h => pc'[k] = pc[k],
         pc'[h] \in {"release_done", "done"} => pc[h] \in {"release_done", "done"}
  PROVE  \A v : Done(v)' => Done(v)
BY DEF Done

LEMMA FetchKnows ==
  ASSUME IInv, Knowing, NEW h \in Handlers, Fetch(h)
  PROVE  HandlerKnows(h)'
<1> USE DEF IInv, Knowing
<1>1. PICK s : s = Sub(h)
  OBVIOUS
<1>2. /\ on[h] \in 1 .. version /\ s \in Subs /\ event[on[h]].sub = s /\ pc[h] = "fetch"
      /\ provider[s].invoice \in Nat
  <2>1. pc[h] = "fetch"
    BY DEF Fetch, At
  <2>2. provider[s].invoice \in 0 .. MaxInvoices
    BY <1>1, <2>1, SubType
  <2> QED BY <1>1, <2>1, <2>2, SubType, BoundAssumption DEF Sub
<1>3. PICK a, raw, invoice : a = version /\ raw = provider[s].status /\ invoice = provider[s].invoice
  OBVIOUS
<1>4. /\ seen'[h].at = a /\ seen'[h].raw = raw /\ seen'[h].invoice = invoice
      /\ pc'[h] = "invoice" /\ UNCHANGED <<stripe, lease, account, on>>
  BY <1>1, <1>3 DEF Fetch, Sees, Goes, TypeOK
<1>5. Known(s, a, raw, invoice)
  <2>1. raw # "none" /\ (raw = "canceled" <=> Gone(s, a))
    BY <1>2, <1>3 DEF Told
  <2>2. \A w \in 1 .. a : event[w].sub = s => event[w].invoice <= invoice
    BY <1>3 DEF Told
  <2> QED BY <1>2, <1>3, <2>1, <2>2 DEF Known
<1>6. Known(s, a, raw, invoice)'
  BY <1>4, <1>5, SameKnown
<1>7. Sub(h)' = s /\ account' = account
  BY <1>1, <1>4 DEF Sub, stripe
<1>8. Known(Sub(h), seen[h].at, seen[h].raw, seen[h].invoice)'
  BY <1>4, <1>6, <1>7 DEF Known, NoLater, Gone, Ends
<1>9. account.sub = s => account.invoice <= invoice
  BY <1>2, <1>3, NoneAssumption DEF AccountKnows, Known
<1> QED BY <1>4, <1>7, <1>8, <1>9 DEF HandlerKnows

LEMMA FetchInvoiceKnows ==
  ASSUME IInv, Knowing, NEW h \in Handlers, FetchInvoice(h)
  PROVE  HandlerKnows(h)'
<1> USE DEF IInv, Knowing
<1>1. PICK s, v, a, raw, invoice :
        s = Sub(h) /\ v = on[h] /\ a = seen[h].at /\ raw = seen[h].raw /\ invoice = seen[h].invoice
  OBVIOUS
<1>2. PICK pay : pay = IF HasPaid(s, invoice) THEN "paid" ELSE "unknown"
  OBVIOUS
<1>3. pc[h] = "invoice" /\ v \in 1 .. version /\ s \in Subs /\ event[v].sub = s /\ a <= version /\ a \in Nat
  <2>1. pc[h] = "invoice"
    BY DEF FetchInvoice, At
  <2>2. a <= version /\ a \in Nat
    BY <1>1, <2>1, Numbers DEF Leasing, Fetching
  <2> QED BY <1>1, <2>1, <2>2, SubType DEF Sub
<1>4. /\ seen'[h].at = a /\ seen'[h].raw = raw /\ seen'[h].invoice = invoice /\ seen'[h].pay = pay /\ seen'[h].won = FALSE
      /\ pc'[h] = IF event[v].kind = "charge" /\ event[v].invoice = invoice THEN "evidence" ELSE "apply"
      /\ UNCHANGED <<stripe, lease, account, on>>
  BY <1>1, <1>2 DEF FetchInvoice, Sees, Goes, TypeOK, HasPaid
<1>5. /\ Sub(h)' = s /\ event' = event /\ on'[h] = v /\ account' = account
  BY <1>1, <1>4 DEF Sub, stripe
<1>6. Known(s, a, raw, invoice) /\ (lease = h /\ account.sub = s => account.invoice <= invoice)
  BY <1>1, <1>3 DEF HandlerKnows, Fetching
<1>7. PaidAs(s, a, invoice, pay)
  <2>1. pay \notin Held
    BY <1>2 DEF Held
  <2>2. pay = "paid" => HasPaid(s, invoice)
    BY <1>2
  <2>3. pay = "unknown" => ~HasPaid(s, invoice)
    BY <1>2
  <2>4. ASSUME NEW w \in 1 .. a, About(w, s, invoice) PROVE HasPaid(s, invoice)
    <3>1. w \in 1 .. version /\ event[w].kind = "charge" /\ event[w].sub = s /\ event[w].invoice = invoice
      BY <1>3, <2>4 DEF TypeOK, About
    <3>2. invoice \in Invoices /\ charge[s][invoice] # "clear"
      BY <3>1 DEF Told
    <3> QED BY <1>3, <3>2 DEF Told
  <2> QED BY <2>1, <2>2, <2>3, <2>4 DEF PaidAs, HasPaid
<1>8. Known(s, a, raw, invoice)' /\ PaidAs(s, a, invoice, pay)'
  BY <1>4, <1>6, <1>7, SameKnown
<1>9. Known(Sub(h), seen[h].at, seen[h].raw, seen[h].invoice)'
  BY <1>4, <1>5, <1>8 DEF Known, NoLater, Gone, Ends
<1>10. PaidAs(Sub(h), seen[h].at, seen[h].invoice, seen[h].pay)'
  BY <1>4, <1>5, <1>8 DEF PaidAs, NoLater, About, HasPaid
<1>11. Evidence(h)' <=> pc'[h] = "evidence"
  BY <1>4, <1>5 DEF Evidence
<1>12. pay \in {"unknown", "paid"}
  BY <1>2
<1> QED BY <1>4, <1>5, <1>6, <1>9, <1>10, <1>11, <1>12 DEF HandlerKnows

LEMMA FetchChargeKnows ==
  ASSUME IInv, Knowing, NEW h \in Handlers, FetchCharge(h)
  PROVE  HandlerKnows(h)'
<1> USE DEF IInv, Knowing
<1>1. PICK s, v, a, raw, invoice, old :
        s = Sub(h) /\ v = on[h] /\ a = seen[h].at /\ raw = seen[h].raw /\ invoice = seen[h].invoice /\ old = seen[h].pay
  OBVIOUS
<1>2. PICK c : c = charge[s][invoice]
  OBVIOUS
<1>3. PICK pay : pay = IF c \in Held THEN c ELSE old
  OBVIOUS
<1>4. pc[h] = "evidence" /\ v \in 1 .. version /\ s \in Subs /\ event[v].sub = s /\ a <= version /\ a \in Nat
  <2>1. pc[h] = "evidence"
    BY DEF FetchCharge, At
  <2>2. a <= version /\ a \in Nat
    BY <1>1, <2>1, Numbers DEF Leasing, Fetching
  <2> QED BY <1>1, <2>1, <2>2, SubType DEF Sub
<1>5. /\ seen'[h].at = a /\ seen'[h].raw = raw /\ seen'[h].invoice = invoice /\ seen'[h].pay = pay /\ seen'[h].won = (c = "won")
      /\ pc'[h] = "apply" /\ UNCHANGED <<stripe, lease, account, on>>
  BY <1>1, <1>2, <1>3 DEF FetchCharge, Sees, Goes, TypeOK, Held
<1>6. Sub(h)' = s /\ event' = event /\ charge' = charge /\ version' = version /\ on'[h] = v /\ account' = account
  BY <1>1, <1>5 DEF Sub, stripe, version
<1>7. /\ Known(s, a, raw, invoice) /\ PaidAs(s, a, invoice, old) /\ old \in {"unknown", "paid"}
      /\ event[v].kind = "charge" /\ event[v].invoice = invoice
      /\ lease = h /\ account.sub = s => account.invoice <= invoice
  BY <1>1, <1>4 DEF HandlerKnows, Fetching, Evidence
<1>8. invoice \in Invoices /\ c # "clear"
  BY <1>2, <1>4, <1>7 DEF Told
<1>9. PaidAs(s, a, invoice, pay)
  <2>1. CASE c \in Held
    BY <1>2, <1>3, <1>8, <2>1 DEF PaidAs, Held
  <2>2. CASE c \notin Held
    BY <1>3, <1>7, <2>2
  <2> QED BY <2>1, <2>2
<1>10. Known(s, a, raw, invoice)' /\ PaidAs(s, a, invoice, pay)'
  BY <1>5, <1>7, <1>9, SameKnown
<1>11. Known(Sub(h), seen[h].at, seen[h].raw, seen[h].invoice)'
  BY <1>5, <1>6, <1>10 DEF Known, NoLater, Gone, Ends
<1>12. PaidAs(Sub(h), seen[h].at, seen[h].invoice, seen[h].pay)'
  BY <1>5, <1>6, <1>10 DEF PaidAs, NoLater, About, HasPaid
<1>13. Evidence(h)'
  BY <1>5, <1>6, <1>7 DEF Evidence
<1>14. Matches(h)' \/ Later(h)'
  <2>1. Matches(h)' <=> (c = "won" => pay = "paid") /\ (c \in Held => pay = c)
    BY <1>2, <1>5, <1>6 DEF Matches
  <2>2. CASE c \notin Held /\ old = "unknown"
    <3>1. PICK w \in 1 .. version : Last(w, s, invoice)
      BY <1>2, <1>4, <1>8 DEF Told
    <3>2. w \notin 1 .. a
      BY <1>7, <2>2, <3>1 DEF PaidAs, Last
    <3>3. w \in a + 1 .. version
      BY <1>4, <3>2 DEF TypeOK
    <3>4. Later(h)'
      BY <1>5, <1>6, <3>1, <3>3 DEF Later, Last, About
    <3> QED BY <3>4
  <2>3. CASE c \notin Held /\ old = "paid"
    BY <1>3, <2>1, <2>3
  <2>4. CASE c \in Held
    BY <1>3, <2>1, <2>4 DEF Held
  <2> QED BY <1>7, <2>2, <2>3, <2>4
<1> QED BY <1>5, <1>6, <1>7, <1>11, <1>12, <1>13, <1>14 DEF HandlerKnows

\* What is applied is true of the provider, and keeps what was said by every event
\* that is done: a handler under its own lease has fetched no less than the account.
LEMMA AppliedKnows ==
  ASSUME IInv, Knowing, NEW h \in Handlers, pc[h] = "apply", lease = h, ~Replaces(h), Applies(h),
         UNCHANGED <<provider, charge, event, record, pending, on>>, Goes(h, "release_done")
  PROVE  AccountKnows' /\ Reflected'
<1> USE DEF IInv, Knowing
<1>1. PICK s, v, a, raw, invoice, pay, new :
        /\ s = Sub(h) /\ v = on[h] /\ a = seen[h].at /\ raw = seen[h].raw
        /\ invoice = seen[h].invoice /\ pay = seen[h].pay /\ new = Resolved(h)
  OBVIOUS
<1>2. PICK at : at = account.at
  OBVIOUS
<1>3. /\ account'.sub = s /\ account'.raw = raw /\ account'.pay = new /\ account'.invoice = invoice /\ account'.at = a
  BY <1>1 DEF Applies
<1>4. /\ v \in 1 .. version /\ s \in Subs /\ s # None /\ event[v].sub = s
      /\ a \in Nat /\ at \in Nat /\ v <= a /\ at <= a /\ a <= version /\ version \in Nat
      /\ invoice \in Nat
  <2>1. a <= version /\ a \in Nat /\ v <= a /\ at <= a /\ at \in Nat /\ version \in Nat
    BY <1>1, <1>2, Numbers DEF Leasing, Fetching
  <2>2. invoice \in Nat
    BY <1>1, SeenType, BoundAssumption
  <2> QED BY <1>1, <2>1, <2>2, SubType, NoneAssumption DEF Sub
<1>5. /\ Known(s, a, raw, invoice) /\ PaidAs(s, a, invoice, pay)
      /\ account.sub = s => account.invoice <= invoice
      /\ ~Evidence(h) => ~seen[h].won /\ pay \in {"unknown", "paid"}
      /\ Evidence(h) => Matches(h) \/ Later(h)
  BY <1>1 DEF HandlerKnows, Fetching
<1>6. \/ new = pay
      \/ new = account.pay /\ account.pay \in Held /\ account.sub = s /\ account.invoice = invoice
  BY <1>1 DEF Resolved, Held
<1>7. version' = version /\ event' = event /\ provider' = provider /\ charge' = charge
  BY DEF version
<1>8. account.sub # None /\ account.sub # s => Gone(account.sub, a) /\ ~Live(provider[account.sub].status)
  <2>1. ASSUME account.sub # None, account.sub # s PROVE Gone(account.sub, at) /\ account.sub \in Subs
    <3>1. account.raw = "canceled"
      BY <1>1, <2>1 DEF Replaces, Live, AccountKnows, Known, TypeOK, Statuses
    <3> QED BY <1>2, <2>1, <3>1 DEF AccountKnows, Known, TypeOK
  <2>2. ASSUME NEW t, Gone(t, at) PROVE Gone(t, a) /\ Gone(t, version)
    BY <1>4, <2>2 DEF Gone
  <2> QED BY <2>1, <2>2 DEF Told, Live
<1>9. AccountKnows'
  <2>1. PaidAs(s, a, invoice, new)
    <3>1. CASE new = pay
      BY <1>5, <3>1
    <3>2. CASE new = account.pay /\ account.pay \in Held /\ account.sub = s /\ account.invoice = invoice
      BY <1>4, <3>2 DEF AccountKnows, PaidAs, Held
    <3> QED BY <1>6, <3>1, <3>2
  <2>2. Known(s, a, raw, invoice)' /\ PaidAs(s, a, invoice, new)'
    BY <1>5, <2>1, SameKnown DEF stripe
  <2>3. Known(account.sub, account.at, account.raw, account.invoice)'
    BY <1>3, <2>2 DEF Known, NoLater, Gone, Ends
  <2>4. PaidAs(account.sub, account.at, account.invoice, account.pay)'
    BY <1>3, <2>2 DEF PaidAs, NoLater, About, HasPaid
  <2> QED BY <1>3, <1>4, <2>3, <2>4 DEF AccountKnows
<1>10. ASSUME NEW u \in 1 .. version, Done(u)' PROVE u <= a /\ (Done(u) \/ u = v)
  <2>1. Done(u) \/ u = v
    BY <1>1, <1>10 DEF Done, Goes, TypeOK
  <2>2. ASSUME Done(u) PROVE u <= at
    BY <1>2, <2>2 DEF Done, Covered, Leasing
  <2>3. u \in Nat
    BY <1>4
  <2> QED BY <1>4, <2>1, <2>2, <2>3
<1>11. ASSUME NEW u \in 1 .. version, Done(u)'
       PROVE  (Follows(u) /\ \A i \in Invoices : Holds(u, event[u].sub, i) /\ Frees(u, event[u].sub, i))'
  <2>1. u <= a /\ u \in Nat /\ (Done(u) \/ u = v)
    BY <1>4, <1>10, <1>11
  <2>2. PICK t : t = event[u].sub
    OBVIOUS
  <2>3. t \in Subs /\ t # None
    <3>1. event[u] \in Event
      BY DEF TypeOK, version
    <3> QED BY <2>2, <3>1, NoneAssumption DEF Event
  <2>4. Done(u) => Follows(u) /\ \A i \in Invoices : Holds(u, t, i) /\ Frees(u, t, i)
    BY <2>2 DEF Reflected
  <2>5. t # s => Done(u)
    BY <1>4, <2>1, <2>2
  <2>6. Live(provider[t].status) => s = t
    BY <1>8, <2>2, <2>3, <2>4, <2>5 DEF Follows
  <2>7. ASSUME NEW i \in Invoices, Last(u, s, i), t = s, invoice = i, ~Evidence(h) PROVE Done(u)
    <3>1. u # v
      BY <1>1, <2>7 DEF Last, About, Evidence
    <3> QED BY <2>1, <3>1
  <2>8. ASSUME NEW i \in Invoices, Last(u, s, i), invoice = i, Evidence(h) PROVE Matches(h)
    <3>1. ASSUME NEW w \in a + 1 .. version, About(w, s, i) PROVE FALSE
      <4>1. w \in u + 1 .. version
        BY <1>4, <2>1, <3>1
      <4> QED BY <2>8, <3>1, <4>1 DEF Last
    <3>2. ~Later(h)
      BY <1>1, <2>8, <3>1 DEF Later
    <3> QED BY <1>5, <2>8, <3>2
  <2>9. ASSUME NEW i \in Invoices, Last(u, t, i), charge[t][i] \in Held
        PROVE  (s = t /\ (invoice > i \/ (invoice = i /\ new \in Held))) \/ Gone(t, a)
    <3>1. CASE t # s
      <4>1. (account.sub = t) \/ Gone(t, at)
        BY <2>4, <2>5, <2>9, <3>1, <1>2 DEF Holds
      <4>2. Gone(t, at) => Gone(t, a)
        BY <1>4 DEF Gone
      <4> QED BY <1>8, <2>3, <3>1, <4>1, <4>2
    <3>2. CASE t = s
      <4>1. i \in Nat /\ i <= invoice
        <5>1. u \in 1 .. a /\ event[u].sub = s /\ event[u].invoice = i
          BY <1>4, <2>1, <2>9, <3>2 DEF Last, About
        <5> QED BY <1>5, <5>1 DEF Known, Invoices
      <4>2. CASE invoice = i /\ Evidence(h)
        <5>1. pay \in Held
          BY <1>1, <2>8, <2>9, <3>2, <4>2 DEF Matches
        <5> QED BY <1>6, <3>2, <4>2, <5>1
      <4>3. CASE invoice = i /\ ~Evidence(h)
        <5>1. Holds(u, s, i) /\ ~seen[h].won /\ pay \in {"unknown", "paid"}
          BY <1>5, <2>4, <2>7, <2>9, <3>2, <4>3
        <5>2. CASE Gone(s, at)
          BY <1>4, <3>2, <5>2 DEF Gone
        <5>3. CASE account.sub = s /\ account.invoice = i /\ account.pay \in Held
          <6>1. new = account.pay
            BY <1>1, <4>3, <5>1, <5>3 DEF Resolved, Held
          <6> QED BY <3>2, <4>3, <5>3, <6>1
        <5>4. ~(account.sub = s /\ account.invoice > i)
          <6>1. account.invoice \in Nat
            BY BoundAssumption DEF TypeOK
          <6> QED BY <1>5, <4>1, <4>3, <6>1
        <5> QED BY <1>2, <2>9, <3>2, <5>1, <5>2, <5>3, <5>4 DEF Holds
      <4> QED BY <1>4, <3>2, <4>1, <4>2, <4>3
    <3> QED BY <3>1, <3>2
  <2>10. ASSUME NEW i \in Invoices, Last(u, t, i), charge[t][i] = "won", s = t, invoice = i PROVE new \notin Held
    <3>1. CASE Evidence(h)
      <4>1. pay = "paid" /\ seen[h].won
        BY <1>1, <2>8, <2>10, <3>1 DEF Matches
      <4> QED BY <1>1, <4>1 DEF Resolved, Held
    <3>2. CASE ~Evidence(h)
      <4>1. Frees(u, s, i) /\ pay \in {"unknown", "paid"}
        BY <1>5, <2>4, <2>7, <2>10, <3>2
      <4>2. account.sub = s /\ account.invoice = invoice => account.pay \notin Held
        BY <2>10, <4>1 DEF Frees
      <4> QED BY <1>6, <4>1, <4>2 DEF Held
    <3> QED BY <3>1, <3>2
  <2>11. \A i : (Last(u, t, i)' <=> Last(u, t, i)) /\ event'[u].sub = t
    BY <1>7, <2>2 DEF Last, About
  <2>12. Gone(t, a) => Gone(t, account.at)'
    BY <1>3, <1>7 DEF Gone, Ends
  <2>13. \A i \in Invoices : Holds(u, t, i)' /\ Frees(u, t, i)'
    BY <1>3, <1>7, <2>9, <2>10, <2>11, <2>12 DEF Holds, Frees
  <2>14. Follows(u)'
    BY <1>3, <1>7, <2>2, <2>6 DEF Follows
  <2> QED BY <2>11, <2>13, <2>14 DEF Holds, Frees, Last, About, Gone, Ends
<1>12. Reflected'
  BY <1>7, <1>11 DEF Reflected
<1> QED BY <1>9, <1>12

\* Most steps of a handler leave the account, and what is done.
LEMMA QuietKnows ==
  ASSUME Knowing, NEW h \in Handlers, UNCHANGED stripe, account' = account,
         \A k \in Handlers : k # h => pc'[k] = pc[k] /\ on'[k] = on[k] /\ seen'[k] = seen[k],
         \A k \in Handlers : k # h /\ lease' = k => lease = k,
         pc'[h] \in Fetching => HandlerKnows(h)',
         \A v \in 1 .. version : Done(v)' => Done(v)
  PROVE  Knowing'
<1>1. \A k \in Handlers : HandlerKnows(k)'
  BY OthersKnow DEF Knowing
<1> QED BY <1>1, SameTold, SameReflected DEF Knowing

LEMMA WorksKnow ==
  ASSUME IInv, Knowing, NEW h \in Handlers, Works(h) \/ Fail(h) \/ Die(h)
  PROVE  Knowing'
<1> USE DEF IInv
<1> DEFINE Answering == {"release_done", "done"}
           Quiet == /\ UNCHANGED stripe /\ account' = account
                    /\ \A k \in Handlers : k # h => pc'[k] = pc[k] /\ on'[k] = on[k] /\ seen'[k] = seen[k]
                    /\ \A k \in Handlers : k # h /\ lease' = k => lease = k
           Undone == UNCHANGED <<record, pending, on>> /\ (pc'[h] \in Answering => pc[h] \in Answering)
<1>0. /\ pc \in [Handlers -> Places] /\ seen \in [Handlers -> Seen] /\ on \in [Handlers -> 0 .. version]
      /\ lease \in Handlers \cup {None} /\ record \in [Changes -> {"none", "fresh", "old", "failed", "processed"}]
      /\ None \notin Handlers
  BY NoneAssumption DEF TypeOK
<1>1. Quiet /\ Undone /\ (pc'[h] \in Fetching => HandlerKnows(h)') => Knowing'
  BY OneDone, QuietKnows
<1>2. CASE Look(h)
  <2>1. Quiet /\ Undone /\ pc'[h] \notin Fetching
    BY <1>0, <1>2 DEF Look, Sees, Goes, Fetching
  <2> QED BY <1>1, <2>1
<1>3. CASE Take(h)
  <2>1. Quiet /\ Undone /\ pc'[h] \notin Fetching
    BY <1>0, <1>3 DEF Take, Goes, Fetching
  <2> QED BY <1>1, <2>1
<1>4. CASE Fetch(h)
  <2>1. Quiet /\ Undone
    BY <1>0, <1>4 DEF Fetch, Sees, Goes
  <2> QED BY <1>1, <1>4, <2>1, FetchKnows
<1>5. CASE FetchInvoice(h)
  <2>1. Quiet /\ Undone
    BY <1>0, <1>5 DEF FetchInvoice, Sees, Goes
  <2> QED BY <1>1, <1>5, <2>1, FetchInvoiceKnows
<1>6. CASE FetchCharge(h)
  <2>1. Quiet /\ Undone
    BY <1>0, <1>6 DEF FetchCharge, Sees, Goes
  <2> QED BY <1>1, <1>6, <2>1, FetchChargeKnows
<1>7. CASE Apply(h)
  <2>1. /\ UNCHANGED <<stripe, record, pending, on>> /\ lease' = lease /\ pc[h] = "apply"
        /\ \A k \in Handlers : k # h => seen'[k] = seen[k]
    BY <1>0, <1>7 DEF Apply, Forgets, Sees, At
  <2>2. CASE account' = account /\ (Goes(h, "release_consent") \/ Goes(h, "release_failed"))
    <3>1. Quiet /\ Undone /\ pc'[h] \notin Fetching
      BY <1>0, <2>1, <2>2 DEF Goes, Fetching
    <3> QED BY <1>1, <3>1
  <2>3. CASE lease = h /\ ~Replaces(h) /\ Applies(h) /\ Goes(h, "release_done")
    <3>1. AccountKnows' /\ Reflected'
      BY <2>1, <2>3, AppliedKnows DEF stripe
    <3>2. /\ pc'[h] \notin Fetching
          /\ \A k \in Handlers : k # h => pc'[k] = pc[k] /\ on'[k] = on[k] /\ seen'[k] = seen[k]
          /\ \A k \in Handlers : k # h => lease' # k
      BY <1>0, <2>1, <2>3 DEF Goes, Fetching
    <3>3. \A k \in Handlers : HandlerKnows(k)'
      BY <2>1, <3>2, OthersKnow DEF Knowing
    <3> QED BY <2>1, <3>1, <3>3, SameTold DEF Knowing
  <2> QED BY <1>7, <2>2, <2>3 DEF Apply, StillLeased
<1>8. CASE Release(h)
  <2>1. /\ pc' = [pc EXCEPT ![h] = pc'[h]] /\ pc'[h] \in {"done", "failed", "consent"}
        /\ pc'[h] = "done" => pc[h] = "release_done"
        /\ UNCHANGED <<stripe, pending, record, account, on, seen>> /\ (lease' = lease \/ lease' = None)
    <3>1. CASE At(h, "release_done")
      BY <1>8, <3>1, <1>0 DEF Release, Goes, At
    <3>2. CASE At(h, "release_failed")
      BY <1>8, <3>2, <1>0 DEF Release, Goes, At
    <3>3. CASE ~At(h, "release_done") /\ ~At(h, "release_failed")
      BY <1>8, <3>3, <1>0 DEF Release, Goes, At
    <3> QED BY <3>1, <3>2, <3>3
  <2>2. Quiet /\ Undone /\ pc'[h] \notin Fetching
    BY <1>0, <2>1 DEF Fetching
  <2> QED BY <1>1, <2>2
<1>9. CASE Consent(h)
  <2>1. Quiet /\ Undone /\ pc'[h] \notin Fetching
    BY <1>0, <1>9 DEF Consent, Goes, Fetching
  <2> QED BY <1>1, <2>1
<1>10. CASE Finish(h)
  <2>1. Quiet /\ pc'[h] = "idle"
    BY <1>0, <1>10 DEF Finish, Leaves, Goes
  <2>2. ASSUME NEW v \in 1 .. version, Done(v)' PROVE Done(v)
    <3>1. v \in Changes /\ on[h] \in Changes
      <4>1. pc[h] # "idle"
        BY <1>10 DEF Finish
      <4> QED BY <4>1, SubType, Numbers DEF Changes
    <3>2. CASE \E k \in Handlers : on'[k] = v /\ pc'[k] \in Answering
      BY <2>1, <2>2, <3>2 DEF Done
    <3>3. CASE pc[h] = "done" /\ v = on[h]
      BY <3>3 DEF Done
    <3>4. CASE (record'[v] = "processed" \/ v \notin pending') /\ (v # on[h] \/ pc[h] = "failed")
      BY <1>0, <1>10, <3>1, <3>4 DEF Finish, At, Done
    <3> QED BY <1>10, <2>2, <3>2, <3>3, <3>4 DEF Finish, Done
  <2> QED BY <2>1, <2>2, QuietKnows DEF Fetching
<1>11. CASE Fail(h)
  <2>1. Quiet /\ Undone /\ pc'[h] \notin Fetching
    BY <1>0, <1>11 DEF Fail, Forgets, Sees, Goes, Fetching
  <2> QED BY <1>1, <2>1
<1>12. CASE Die(h)
  <2>1. Quiet /\ UNCHANGED <<record, pending>> /\ pc'[h] = "idle"
    BY <1>0, <1>12 DEF Die, Leaves, Goes
  <2>2. \A v \in 1 .. version : Done(v)' => Done(v)
    BY <2>1 DEF Done
  <2> QED BY <2>1, <2>2, QuietKnows DEF Fetching
<1> QED BY <1>2, <1>3, <1>4, <1>5, <1>6, <1>7, <1>8, <1>9, <1>10, <1>11, <1>12 DEF Works

LEMMA KnowsStep ==
  ASSUME IInv, IInv', Knowing, [Next]_vars
  PROVE  Knowing'
<1> USE DEF IInv
<1>1. CASE World
  <2>1. PICK s \in Subs, e \in Event : Moves(s, e) /\ Tells(e)
    BY <1>1, WorldMoves DEF Knowing
  <2>2. Told' /\ AccountKnows' /\ Reflected'
    BY <2>1, WorldTold, WorldAccount, WorldReflected DEF Knowing
  <2>3. \A h \in Handlers : HandlerKnows(h)'
    BY <2>1, WorldHandler DEF Knowing
  <2> QED BY <2>2, <2>3 DEF Knowing
<1>2. ASSUME UNCHANGED <<stripe, account, pc, on, seen>>, lease' = lease \/ lease' = None,
             \A v \in 1 .. version : Done(v)' => Done(v)
      PROVE  Knowing'
  <2>1. \A h \in Handlers : HandlerKnows(h)'
    BY <1>2, Unmoved, NoneAssumption DEF Knowing
  <2> QED BY <1>2, <2>1, SameTold, SameReflected DEF Knowing
<1>3. ASSUME NEW v \in Changes, Duplicate(v) PROVE Knowing'
  <2>1. \A w \in 1 .. version : Done(w)' => Done(w)
    BY <1>3 DEF Duplicate, AnswersAtOnce, Done, local
  <2> QED BY <1>2, <1>3, <2>1 DEF Duplicate, local
<1>4. ASSUME NEW v \in Changes, ClaimAges(v) PROVE Knowing'
  <2>1. \A w \in 1 .. version : Done(w)' => Done(w)
    BY <1>4 DEF ClaimAges, Done, local, TypeOK
  <2> QED BY <1>2, <1>4, <2>1 DEF ClaimAges, local
<1>5. ASSUME NEW v \in Changes, NEW h \in Handlers, Claim(h, v) PROVE Knowing'
  <2>1. /\ UNCHANGED <<stripe, pending, lease, account, seen>> /\ pc'[h] = "look"
        /\ \A k \in Handlers : k # h => pc'[k] = pc[k] /\ on'[k] = on[k] /\ seen'[k] = seen[k]
        /\ \A w \in Changes : record'[w] = "processed" => record[w] = "processed"
    BY <1>5 DEF Claim, Goes, TypeOK
  <2>2. \A w \in 1 .. version : Done(w)' => Done(w)
    BY <2>1, Numbers DEF Done, Changes
  <2> QED BY <2>1, <2>2, QuietKnows DEF Fetching
<1>6. ASSUME NEW h \in Handlers, Works(h) \/ Fail(h) \/ Die(h) PROVE Knowing'
  BY <1>6, WorksKnow
<1>7. CASE LeaseExpires
  <2>1. \A w \in 1 .. version : Done(w)' => Done(w)
    BY <1>7 DEF LeaseExpires, Done, local
  <2> QED BY <1>2, <1>7, <2>1 DEF LeaseExpires, local
<1>8. CASE UNCHANGED vars
  <2>1. \A w \in 1 .. version : Done(w)' => Done(w)
    BY <1>8 DEF vars, Done
  <2> QED BY <1>2, <1>8, <2>1 DEF vars, stripe
<1> QED BY <1>1, <1>3, <1>4, <1>5, <1>6, <1>7, <1>8 DEF Next

LEMMA KnowsAtFirst ==
  ASSUME Init
  PROVE  Knowing
<1>1. version = 0 /\ 1 .. version = {}
  BY DEF Init, version
<1>2. Told
  BY <1>1, BoundAssumption DEF Init, Told, Gone
<1>3. \A h \in Handlers : HandlerKnows(h)
  BY DEF Init, HandlerKnows, Fetching
<1>4. AccountKnows
  BY DEF Init, AccountKnows
<1>5. Reflected
  BY <1>1 DEF Reflected
<1> QED BY <1>2, <1>3, <1>4, <1>5 DEF Knowing

LEMMA AlwaysKnowing == Spec => [](IInv /\ Knowing)
<1>1. Init => IInv /\ Knowing
  BY Start, KnowsAtFirst
<1>2. IInv /\ Knowing /\ [Next]_vars => (IInv /\ Knowing)'
  BY Step, KnowsStep
<1> QED BY <1>1, <1>2, PTL DEF Spec

\* No ordinary event gives access again: once the last event about a charge is
\* answered, an account that gives access to its invoice has a charge that stands.
THEOREM HoldsAreKept == Spec => []HoldKept
<1>1. ASSUME IInv, Knowing PROVE HoldKept
  <2> SUFFICES ASSUME NEW s \in Subs, NEW v \in 1 .. version,
                      event[v].sub = s, event[v].kind = "charge",
                      \A w \in v + 1 .. version : event[w].sub = s /\ event[w].invoice = event[v].invoice => event[w].kind # "charge",
                      charge[s][event[v].invoice] \in Held,
                      v \notin pending, Access(s), account.invoice = event[v].invoice
               PROVE  FALSE
    BY DEF HoldKept, Held
  <2>1. PICK i : i = event[v].invoice
    OBVIOUS
  <2>2. Last(v, s, i) /\ i \in Invoices
    BY <1>1, <2>1 DEF Last, About, Knowing, Told
  <2>3. Holds(v, s, i)
    BY <1>1, <2>2 DEF Knowing, Reflected, Done
  <2>4. account.sub = s /\ s # None /\ account.raw = "active" /\ account.pay = "paid"
    BY NoneAssumption DEF Access
  <2>5. ~Gone(s, account.at)
    BY <1>1, <2>4 DEF Knowing, AccountKnows, Known
  <2>6. i \in Nat
    BY <2>2 DEF Invoices
  <2> QED BY <2>1, <2>2, <2>3, <2>4, <2>5, <2>6 DEF Holds, Held
<1> QED BY <1>1, AlwaysKnowing, PTL

\* With every event answered, in whatever order, late, twice or after a handler's
\* death, the account gives access just where the provider does.
THEOREM AnsweredConverges == Spec => []Converges
<1>1. ASSUME IInv, Knowing PROVE Converges
  <2> USE <1>1 DEF IInv, Knowing
  <2> SUFFICES ASSUME pending = {}, NEW s \in Subs PROVE Access(s) <=> Entitled(s)
    BY DEF Converges
  <2>1. account.at = version /\ version \in Nat
    <3>1. account.at <= version /\ account.at \in Nat /\ version \in Nat
      BY Numbers DEF Leasing
    <3>2. version > 0 => account.at >= version
      BY <3>1 DEF Covered
    <3> QED BY <3>1, <3>2
  <2>2. \A v \in 1 .. version : Follows(v) /\ \A i \in Invoices : Holds(v, event[v].sub, i) /\ Frees(v, event[v].sub, i)
    BY DEF Reflected, Done
  <2>3. PICK i : i = provider[s].invoice
    OBVIOUS
  <2>4. ASSUME account.sub = s
        PROVE  /\ account.raw = provider[s].status /\ account.raw # "none" /\ account.invoice = i
               /\ account.pay = "paid" => provider[s].paid
               /\ account.pay = "unknown" => ~provider[s].paid
               /\ account.pay \in Held => charge[s][i] # "clear"
               /\ account.raw = "canceled" <=> Gone(s, account.at)
    <3>1. s # None /\ NoLater(s, account.at)
      BY <2>1, NoneAssumption DEF NoLater
    <3>2. Known(s, account.at, account.raw, account.invoice) /\ PaidAs(s, account.at, account.invoice, account.pay)
      BY <2>4, <3>1 DEF AccountKnows
    <3>3. i \in Nat
      <4>1. provider[s].invoice \in 0 .. MaxInvoices
        BY DEF TypeOK
      <4> QED BY <2>3, <4>1, BoundAssumption
    <3> QED BY <2>3, <3>1, <3>2, <3>3 DEF Known, PaidAs, HasPaid
  <2>5. ASSUME provider[s].status # "none" PROVE i \in Invoices
    <3>1. provider[s].invoice \in 0 .. MaxInvoices
      BY DEF TypeOK
    <3>2. i >= 1
      BY <2>3, <2>5 DEF Told
    <3> QED BY <2>3, <3>1, <3>2, BoundAssumption DEF Invoices
  <2>6. ASSUME provider[s].status # "none", charge[s][i] # "clear"
        PROVE  \E v \in 1 .. version : Last(v, s, i) /\ Holds(v, s, i) /\ Frees(v, s, i)
    <3>1. PICK v \in 1 .. version : Last(v, s, i)
      BY <2>5, <2>6 DEF Told
    <3> QED BY <2>2, <2>5, <2>6, <3>1 DEF Last, About
  <2>7. ASSUME Access(s) PROVE Entitled(s)
    <3>1. account.sub = s /\ account.raw = "active" /\ account.pay = "paid"
      BY <2>7 DEF Access
    <3>2. provider[s].status = "active" /\ provider[s].paid /\ account.invoice = i /\ ~Gone(s, account.at)
      BY <2>4, <3>1
    <3>3. ASSUME charge[s][i] \in Held PROVE FALSE
      <4>1. \E v \in 1 .. version : Last(v, s, i) /\ Holds(v, s, i)
        BY <2>6, <3>2, <3>3 DEF Held
      <4>2. i \in Nat
        BY <2>5, <3>2 DEF Invoices
      <4> QED BY <3>1, <3>2, <3>3, <4>1, <4>2 DEF Holds, Held
    <3> QED BY <2>3, <3>2, <3>3 DEF Entitled, Held
  <2>8. ASSUME Entitled(s) PROVE Access(s)
    <3>1. provider[s].status = "active" /\ provider[s].paid /\ charge[s][i] \notin Held
      BY <2>3, <2>8 DEF Entitled, Held
    <3>2. PICK w \in 1 .. version : event[w].sub = s
      BY <3>1 DEF Told
    <3>3. account.sub = s
      BY <2>2, <3>1, <3>2 DEF Follows, Live
    <3>4. account.raw = "active" /\ account.invoice = i /\ account.pay # "unknown"
      BY <2>4, <3>1, <3>3
    <3>5. ASSUME account.pay \in Held PROVE FALSE
      <4>1. charge[s][i] # "clear" /\ charge[s][i] \in Charges
        BY <2>4, <2>5, <3>1, <3>3, <3>5 DEF TypeOK
      <4>2. charge[s][i] = "won"
        BY <3>1, <4>1 DEF Charges, Held
      <4>3. \E v \in 1 .. version : Last(v, s, i) /\ Frees(v, s, i)
        BY <2>6, <3>1, <4>1
      <4> QED BY <3>3, <3>4, <3>5, <4>2, <4>3 DEF Frees
    <3>6. account.pay \in Payments
      BY DEF TypeOK
    <3> QED BY <3>3, <3>4, <3>5, <3>6 DEF Access, Payments, Held
  <2> QED BY <2>7, <2>8
<1> QED BY <1>1, AlwaysKnowing, PTL
=============================================================================
