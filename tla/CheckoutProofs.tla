--------------------------- MODULE CheckoutProofs ---------------------------
(***************************************************************************)
(* Proofs about Checkout, for any requests and claims and any number of    *)
(* faults: its state has its type, billing that was contained stays so,    *)
(* a session certified as never created never is, and without a fault the  *)
(* customer holds one subscription at most.                                *)
(***************************************************************************)
EXTENDS Checkout, TLAPS

Before == {"customer", "list", "previous"}
After == {"allowed", "create", "opening"}

-----------------------------------------------------------------------------
(* The inductive invariants *)

\* What is at Stripe was asked for with a customer of the account, and was shown before it was paid.
AtStripe ==
  /\ \A c \in Claims : session[c] # "none" => account.customer
  /\ \A r \in Requests : request[r].pc \in (After \cup {"list", "previous", "contain"}) => account.customer
  /\ \A c \in Claims : sub[c] = "live" => session[c] = "complete" /\ c \in shown
  /\ \A c \in notice : session[c] = "complete"
  /\ \A c \in shown : session[c] # "none"
  /\ \A r \in Requests : request[r].pc \in {"opening", "contain"} => session[request[r].id] # "none"
  /\ claim.status = "open" => session[claim.id] # "none" /\ claim.id \in shown

\* What the job has listed, expired and canceled so far.
Swept ==
  /\ lifecycle = "active" <=> job.stage = "none"
  /\ lifecycle = "deleting" => job.customer = account.customer
  /\ job.stage = "sessions" => shown \cap Open \subseteq job.work
  /\ job.stage \in {"cancel", "confirm", "contained"} => shown \cap Open = {}
  /\ job.stage = "cancel" => Live \subseteq job.work
  /\ job.stage \in {"confirm", "contained"} => Live = {}

\* Where a request stands tells what it knows, and until a claim is taken over
\* from it, nobody else works on it.
Alone ==
  /\ \A r \in Requests : request[r].pc \in {"idle", "claim"} =>
       /\ request[r].id = None /\ request[r].prev = None /\ ~request[r].mayExist /\ ~request[r].contained
  /\ \A r \in Requests : request[r].pc \in {"create", "opening", "contain"} => request[r].mayExist
  /\ \A r \in Requests : request[r].pc \in {"certify", "mark"} => (request[r].mayExist <=> request[r].contained)
  /\ \A r \in Requests : request[r].contained => request[r].pc \in {"certify", "mark"}
  /\ overtaken => faults # 0
  /\ ~overtaken => \A r, q \in Requests :
       request[r].pc \in Holding /\ request[q].pc \in Holding /\ request[r].id = request[q].id => r = q
  /\ ~overtaken => \A r \in Requests :
       request[r].pc \in Holding /\ ~request[r].mayExist => session[request[r].id] = "none"

\* Without a fault, the claim is the one request's that works, and what is payable is known to it.
Faultless ==
  /\ claim.status = "creating" => ~claim.session
  /\ faults = 0 /\ lifecycle = "active" =>
       /\ \A r \in Requests : request[r].pc \in Holding => request[r].id = claim.id /\ claim.status = "creating"
       /\ claim.status = "creating" => Holders(claim.id) # {}
       /\ \A c \in shown \cap Open :
            \/ claim.id = c /\ claim.status = "open"
            \/ \E r \in Requests : request[r].pc \in Before /\ request[r].prev = c
       /\ \A r \in Requests : request[r].pc = "previous" => Live \subseteq {request[r].prev}
       /\ \A r \in Requests : request[r].pc \in After => Payable = {}
       /\ \A r \in Requests : request[r].pc # "contain"
       /\ \A r \in Requests : request[r].pc \in Before \cup {"allowed"} => ~request[r].mayExist

-----------------------------------------------------------------------------
(* Types *)

RequestOK ==
  /\ request \in [Requests -> Request]
  /\ \A r \in Requests : request[r].pc \in Holding => request[r].id \in Claims

LEMMA GoesType ==
  ASSUME TypeOK, NEW r \in Requests, request[r].pc \in Holding, NEW pc \in Holding,
         NEW mayExist \in BOOLEAN, NEW contained \in BOOLEAN, NEW customer \in BOOLEAN,
         Goes(r, pc, mayExist, contained, customer)
  PROVE  RequestOK'
BY DEF TypeOK, Goes, RequestOK, Request

LEMMA GoToType ==
  ASSUME TypeOK, NEW r \in Requests, request[r].pc \in Holding, NEW pc \in Holding, GoTo(r, pc)
  PROVE  RequestOK'
<1>1. request[r] \in Request
  BY DEF TypeOK
<1>2. request[r].mayExist \in BOOLEAN /\ request[r].contained \in BOOLEAN /\ request[r].customer \in BOOLEAN
  BY <1>1 DEF Request
<1> QED BY <1>2, GoesType DEF GoTo

LEMMA LeaveType ==
  ASSUME TypeOK, NEW r \in Requests, Leave(r)
  PROVE  RequestOK'
BY NoneAssumption DEF TypeOK, Leave, Idle, RequestOK, Request, Holding, Failing

LEMMA RefusedType ==
  ASSUME TypeOK, NEW r \in Requests, request[r].pc \in Holding, Refused(r)
  PROVE  RequestOK'
BY GoToType, LeaveType DEF Refused, Holding, Failing


\* Each action keeps the types.
LEMMA TypeStep ==
  ASSUME TypeOK, [Next]_vars
  PROVE  TypeOK'
<1>1. ASSUME NEW r \in Requests, Enter(r) PROVE TypeOK'
  BY <1>1, NoneAssumption, BoundAssumption
     DEF TypeOK, stripe, Claim, Request, Holding, Failing, JobStages, Enter, At, Idle
<1>2. ASSUME NEW r \in Requests, Fail(r) PROVE TypeOK'
  <2>1. request[r] \in Request
    BY DEF TypeOK
  <2>2. RequestOK'
    BY <1>2, <2>1, GoesType, GoToType, LeaveType, RefusedType DEF Fail, At, Request, Holding, Failing
  <2>3. session' \in [Claims -> {"none", "open", "expired", "complete"}] /\ sub' \in [Claims -> {"none", "live", "canceled"}]
    BY <1>2 DEF TypeOK, Fail, Expired, Canceled, Created
  <2>4. faults' \in 0 .. MaxFaults
    BY <1>2, BoundAssumption DEF TypeOK, Fail
  <2> QED BY <1>2, <2>2, <2>3, <2>4 DEF TypeOK, Fail, RequestOK
<1>3. ASSUME NEW r \in Requests, Die(r) PROVE TypeOK'
  BY <1>3, NoneAssumption, BoundAssumption
     DEF TypeOK, stripe, Claim, Request, Holding, Failing, JobStages, Die, Leave, Idle
<1>4. ASSUME NEW r \in Requests, Turned(r) PROVE TypeOK'
  BY <1>4, NoneAssumption, BoundAssumption
     DEF TypeOK, stripe, Claim, Request, Holding, Failing, JobStages, Turned, At, Leave, Idle
<1>5. ASSUME NEW r \in Requests, Reuse(r) PROVE TypeOK'
  BY <1>5, NoneAssumption, BoundAssumption
     DEF TypeOK, stripe, Claim, Request, Holding, Failing, JobStages, Reuse, At, Leave, Idle
<1>6. ASSUME NEW r \in Requests, Resume(r) PROVE TypeOK'
  <2>1. claim.id \in Claims
    BY <1>6 DEF TypeOK, Resume
  <2>2. RequestOK'
    BY <1>6, <2>1, NoneAssumption DEF TypeOK, Resume, Works, RequestOK, Request, Holding, Failing
  <2>3. claim' \in Claim /\ claim'.id \in Claims
    BY <1>6, <2>1 DEF Resume, Claim
  <2>4. faults' \in 0 .. MaxFaults /\ overtaken' \in BOOLEAN
    <3>1. CASE Holders(claim.id) = {}
      BY <1>6, <3>1 DEF TypeOK, Resume
    <3>2. CASE Holders(claim.id) # {}
      <4>1. faults < MaxFaults /\ faults' = faults + 1
        BY <1>6, <3>2 DEF Resume
      <4>2. overtaken'
        BY <1>6, <3>2 DEF Resume
      <4> QED BY <4>1, <4>2, BoundAssumption DEF TypeOK
    <3> QED BY <3>1, <3>2
  <2> QED BY <1>6, <2>2, <2>3, <2>4 DEF TypeOK, Resume, RequestOK, stripe
<1>7. ASSUME NEW r \in Requests, NEW c \in Claims, New(r, c) PROVE TypeOK'
  BY <1>7, NoneAssumption, BoundAssumption
     DEF TypeOK, stripe, Claim, Request, Holding, Failing, JobStages, New, At, Unused, Works
<1>8. ASSUME NEW r \in Requests, Customer(r) PROVE TypeOK'
  <2>1. request[r] \in Request
    BY DEF TypeOK
  <2>2. RequestOK'
    BY <1>8, <2>1, GoesType, GoToType, LeaveType, RefusedType DEF Customer, At, Request, Holding, Failing
  <2>3. account' \in [customer : BOOLEAN, sub : Claims \cup {None}, live : BOOLEAN]
    <3>1. account \in [customer : BOOLEAN, sub : Claims \cup {None}, live : BOOLEAN]
      BY DEF TypeOK
    <3>2. CASE lifecycle = "active" \/ account.customer
      <4>1. account' = [customer |-> TRUE, sub |-> account.sub, live |-> account.live]
        BY <1>8, <3>2 DEF Customer
      <4> QED BY <3>1, <4>1
    <3>3. CASE ~(lifecycle = "active" \/ account.customer)
      BY <1>8, <3>1, <3>3 DEF Customer
    <3> QED BY <3>2, <3>3
  <2> QED BY <1>8, <2>2, <2>3 DEF TypeOK, Customer, RequestOK, stripe
<1>9. ASSUME NEW r \in Requests, List(r) PROVE TypeOK'
  <2>1. request[r] \in Request
    BY DEF TypeOK
  <2>2. RequestOK'
    BY <1>9, <2>1, GoesType, GoToType, LeaveType, RefusedType DEF List, At, Request, Holding, Failing
  <2> QED BY <1>9, <2>2 DEF TypeOK, List, RequestOK, stripe
<1>10. ASSUME NEW r \in Requests, Previous(r) PROVE TypeOK'
  <2>1. request[r] \in Request
    BY DEF TypeOK
  <2>2. RequestOK'
    BY <1>10, <2>1, GoesType, GoToType, LeaveType, RefusedType DEF Previous, At, Request, Holding, Failing
  <2>3. session' \in [Claims -> {"none", "open", "expired", "complete"}]
    BY <1>10 DEF TypeOK, Previous, Expired
  <2> QED BY <1>10, <2>2, <2>3 DEF TypeOK, Previous, RequestOK
<1>11. ASSUME NEW r \in Requests, Allowed(r) PROVE TypeOK'
  <2>1. request[r] \in Request
    BY DEF TypeOK
  <2>2. RequestOK'
    BY <1>11, <2>1, GoesType, GoToType, LeaveType, RefusedType DEF Allowed, At, Request, Holding, Failing
  <2> QED BY <1>11, <2>2 DEF TypeOK, Allowed, RequestOK, stripe
<1>12. ASSUME NEW r \in Requests, Create(r) PROVE TypeOK'
  BY <1>12, NoneAssumption, BoundAssumption
     DEF TypeOK, stripe, Claim, Request, Holding, Failing, JobStages, Create, At, Created, GoTo, Goes
<1>13. ASSUME NEW r \in Requests, Opening(r) PROVE TypeOK'
  <2>1. request[r] \in Request
    BY DEF TypeOK
  <2>2. RequestOK'
    BY <1>13, <2>1, GoesType, GoToType, LeaveType, RefusedType DEF Opening, At, Request, Holding, Failing
  <2>3. claim' \in Claim /\ shown' \subseteq Claims /\ (claim'.status # "none" => claim'.id \in Claims)
    <3>1. request[r].id \in Claims
      BY <1>13 DEF TypeOK, Opening, At, Holding, Failing
    <3>2. CASE lifecycle = "active" /\ claim.id = request[r].id
      <4>1. claim' = [status |-> "open", id |-> request[r].id, session |-> TRUE, fresh |-> TRUE]
        BY <1>13, <3>2 DEF Opening
      <4>2. shown' = shown \cup {request[r].id}
        BY <1>13, <3>2 DEF Opening
      <4> QED BY <3>1, <4>1, <4>2 DEF Claim, TypeOK
    <3>3. CASE ~(lifecycle = "active" /\ claim.id = request[r].id)
      BY <1>13, <3>3 DEF Opening, TypeOK
    <3> QED BY <3>2, <3>3
  <2> QED BY <1>13, <2>2, <2>3 DEF TypeOK, Opening, RequestOK
<1>14. ASSUME NEW r \in Requests, Contain(r) PROVE TypeOK'
  BY <1>14, NoneAssumption, BoundAssumption
     DEF TypeOK, stripe, Claim, Request, Holding, Failing, JobStages, Contain, At, Expired, Canceled, GoTo,
         Goes
<1>15. ASSUME NEW r \in Requests, Certify(r) PROVE TypeOK'
  <2>1. request[r] \in Request
    BY DEF TypeOK
  <2>2. RequestOK'
    BY <1>15, <2>1, GoesType, GoToType, LeaveType, RefusedType DEF Certify, At, Request, Holding, Failing
  <2>3. claim' \in Claim /\ (claim'.status # "none" => claim'.id \in Claims)
    BY <1>15, <2>1 DEF TypeOK, Certify, Claim, Request
  <2> QED BY <1>15, <2>2, <2>3 DEF TypeOK, Certify, RequestOK, stripe
<1>16. ASSUME NEW r \in Requests, Mark(r) PROVE TypeOK'
  BY <1>16, NoneAssumption, BoundAssumption
     DEF TypeOK, stripe, Claim, Request, Holding, Failing, JobStages, Mark, At, Leave, Idle, Marked
<1>17. ASSUME NEW c \in Claims, Complete(c) PROVE TypeOK'
  BY <1>17, NoneAssumption, BoundAssumption
     DEF TypeOK, stripe, Claim, Request, Holding, Failing, JobStages, Complete, Open
<1>18. ASSUME NEW c \in Claims, SessionExpires(c) PROVE TypeOK'
  BY <1>18, NoneAssumption, BoundAssumption
     DEF TypeOK, stripe, Claim, Request, Holding, Failing, JobStages, SessionExpires, Expired, Open, Marked
<1>19. ASSUME NEW c \in Claims, Cancel(c) PROVE TypeOK'
  BY <1>19, NoneAssumption, BoundAssumption
     DEF TypeOK, stripe, Claim, Request, Holding, Failing, JobStages, Cancel, Canceled, Live
<1>20. ASSUME NEW c \in Claims, Consent(c) PROVE TypeOK'
  BY <1>20, NoneAssumption, BoundAssumption
     DEF TypeOK, stripe, Claim, Request, Holding, Failing, JobStages, Consent, Marked
<1>21. ASSUME NEW c \in Claims, Sync(c) PROVE TypeOK'
  BY <1>21, NoneAssumption, BoundAssumption
     DEF TypeOK, stripe, Claim, Request, Holding, Failing, JobStages, Sync
<1>22. ASSUME NEW c \in Claims, ContainLate(c) PROVE TypeOK'
  BY <1>22, NoneAssumption, BoundAssumption
     DEF TypeOK, stripe, Claim, Request, Holding, Failing, JobStages, ContainLate, Expired, Canceled
<1>23. ASSUME NEW c \in Claims, ExpireSession(c) PROVE TypeOK'
  BY <1>23, NoneAssumption, BoundAssumption
     DEF TypeOK, stripe, Claim, Request, Holding, Failing, JobStages, ExpireSession, Expired, To
<1>24. ASSUME NEW c \in Claims, CancelSub(c) PROVE TypeOK'
  BY <1>24, NoneAssumption, BoundAssumption
     DEF TypeOK, stripe, Claim, Request, Holding, Failing, JobStages, CancelSub, Canceled, To
<1>25. CASE Begin
  BY <1>25, NoneAssumption, BoundAssumption
     DEF TypeOK, stripe, Claim, Request, Holding, Failing, JobStages, Begin
<1>26. CASE ClaimAges
  BY <1>26, NoneAssumption, BoundAssumption
     DEF TypeOK, stripe, Claim, Request, Holding, Failing, JobStages, ClaimAges, Marked
<1>27. CASE JobFails
  BY <1>27, NoneAssumption, BoundAssumption
     DEF TypeOK, stripe, Claim, Request, Holding, Failing, JobStages, JobFails, To
<1>28. CASE CheckoutStage
  BY <1>28, NoneAssumption, BoundAssumption
     DEF TypeOK, stripe, Claim, Request, Holding, Failing, JobStages, CheckoutStage, To, Waits
<1>29. CASE ListSessions
  BY <1>29, NoneAssumption, BoundAssumption
     DEF TypeOK, stripe, Claim, Request, Holding, Failing, JobStages, ListSessions, To, Open
<1>30. CASE ListSubs
  BY <1>30, NoneAssumption, BoundAssumption
     DEF TypeOK, stripe, Claim, Request, Holding, Failing, JobStages, ListSubs, To
<1>31. CASE ConfirmSubs
  BY <1>31, NoneAssumption, BoundAssumption
     DEF TypeOK, stripe, Claim, Request, Holding, Failing, JobStages, ConfirmSubs, To, Live
<1>32. CASE ConfirmSessions
  BY <1>32, NoneAssumption, BoundAssumption
     DEF TypeOK, stripe, Claim, Request, Holding, Failing, JobStages, ConfirmSessions, To, Open
<1>33. CASE UNCHANGED vars
  BY <1>33 DEF TypeOK, stripe, Claim, Request, Holding, Failing, JobStages, vars, stripe
<1> QED BY <1>1, <1>2, <1>3, <1>4, <1>5, <1>6, <1>7, <1>8, <1>9, <1>10, <1>11, <1>12, <1>13,
         <1>14, <1>15, <1>16, <1>17, <1>18, <1>19, <1>20, <1>21, <1>22, <1>23, <1>24, <1>25,
         <1>26, <1>27, <1>28, <1>29, <1>30, <1>31, <1>32, <1>33 DEF Next, World, JobStep, Step

\* Each action keeps what is known of Stripe.
LEMMA AtStripeStep ==
  ASSUME TypeOK, AtStripe, [Next]_vars
  PROVE  AtStripe'
<1>1. ASSUME NEW r \in Requests, Enter(r) PROVE AtStripe'
  BY <1>1, NoneAssumption
     DEF TypeOK, AtStripe, stripe, Claim, Request, Holding, Failing, After, Enter, At, Idle
<1>2. ASSUME NEW r \in Requests, Fail(r) PROVE AtStripe'
  BY <1>2, NoneAssumption
     DEF TypeOK, AtStripe, stripe, Claim, Request, Holding, Failing, After, Fail, At, Refused, Leave,
         Expired, Canceled, Created, Idle, GoTo, Goes
<1>3. ASSUME NEW r \in Requests, Die(r) PROVE AtStripe'
  BY <1>3, NoneAssumption
     DEF TypeOK, AtStripe, stripe, Claim, Request, Holding, Failing, After, Die, Leave, Idle
<1>4. ASSUME NEW r \in Requests, Turned(r) PROVE AtStripe'
  BY <1>4, NoneAssumption
     DEF TypeOK, AtStripe, stripe, Claim, Request, Holding, Failing, After, Turned, At, Leave, Idle
<1>5. ASSUME NEW r \in Requests, Reuse(r) PROVE AtStripe'
  BY <1>5, NoneAssumption
     DEF TypeOK, AtStripe, stripe, Claim, Request, Holding, Failing, After, Reuse, At, Leave, Idle
<1>6. ASSUME NEW r \in Requests, Resume(r) PROVE AtStripe'
  BY <1>6, NoneAssumption
     DEF TypeOK, AtStripe, stripe, Claim, Request, Holding, Failing, After, Resume, At, Holders, Works
<1>7. ASSUME NEW r \in Requests, NEW c \in Claims, New(r, c) PROVE AtStripe'
  BY <1>7, NoneAssumption
     DEF TypeOK, AtStripe, stripe, Claim, Request, Holding, Failing, After, New, At, Unused, Works
<1>8. ASSUME NEW r \in Requests, Customer(r) PROVE AtStripe'
  BY <1>8, NoneAssumption
     DEF TypeOK, AtStripe, stripe, Claim, Request, Holding, Failing, After, Customer, At, Refused, Leave,
         Idle, GoTo, Goes
<1>9. ASSUME NEW r \in Requests, List(r) PROVE AtStripe'
  BY <1>9, NoneAssumption
     DEF TypeOK, AtStripe, stripe, Claim, Request, Holding, Failing, After, List, At, Refused, Leave, Idle,
         GoTo, Goes
<1>10. ASSUME NEW r \in Requests, Previous(r) PROVE AtStripe'
  BY <1>10, NoneAssumption, SMTT(30)
     DEF TypeOK, AtStripe, stripe, Claim, Request, Holding, Failing, After, Previous, At, Refused, Leave,
         Expired, Idle, GoTo, Goes
<1>11. ASSUME NEW r \in Requests, Allowed(r) PROVE AtStripe'
  BY <1>11, NoneAssumption
     DEF TypeOK, AtStripe, stripe, Claim, Request, Holding, Failing, After, Allowed, At, Refused, Leave,
         Idle, GoTo, Goes
<1>12. ASSUME NEW r \in Requests, Create(r) PROVE AtStripe'
  BY <1>12, NoneAssumption
     DEF TypeOK, AtStripe, stripe, Claim, Request, Holding, Failing, After, Create, At, Created, GoTo, Goes
<1>13. ASSUME NEW r \in Requests, Opening(r) PROVE AtStripe'
  BY <1>13, NoneAssumption
     DEF TypeOK, AtStripe, stripe, Claim, Request, Holding, Failing, After, Opening, At, Leave, Idle, GoTo,
         Goes
<1>14. ASSUME NEW r \in Requests, Contain(r) PROVE AtStripe'
  BY <1>14, NoneAssumption
     DEF TypeOK, AtStripe, stripe, Claim, Request, Holding, Failing, After, Contain, At, Expired, Canceled,
         GoTo, Goes
<1>15. ASSUME NEW r \in Requests, Certify(r) PROVE AtStripe'
  BY <1>15, NoneAssumption
     DEF TypeOK, AtStripe, stripe, Claim, Request, Holding, Failing, After, Certify, At, Leave, Idle, GoTo,
         Goes
<1>16. ASSUME NEW r \in Requests, Mark(r) PROVE AtStripe'
  BY <1>16, NoneAssumption
     DEF TypeOK, AtStripe, stripe, Claim, Request, Holding, Failing, After, Mark, At, Leave, Idle, Marked
<1>17. ASSUME NEW c \in Claims, Complete(c) PROVE AtStripe'
  BY <1>17, NoneAssumption
     DEF TypeOK, AtStripe, stripe, Claim, Request, Holding, Failing, After, Complete, Open
<1>18. ASSUME NEW c \in Claims, SessionExpires(c) PROVE AtStripe'
  BY <1>18, NoneAssumption
     DEF TypeOK, AtStripe, stripe, Claim, Request, Holding, Failing, After, SessionExpires, Expired, Open,
         Marked
<1>19. ASSUME NEW c \in Claims, Cancel(c) PROVE AtStripe'
  BY <1>19, NoneAssumption
     DEF TypeOK, AtStripe, stripe, Claim, Request, Holding, Failing, After, Cancel, Canceled, Live
<1>20. ASSUME NEW c \in Claims, Consent(c) PROVE AtStripe'
  BY <1>20, NoneAssumption
     DEF TypeOK, AtStripe, stripe, Claim, Request, Holding, Failing, After, Consent, Marked
<1>21. ASSUME NEW c \in Claims, Sync(c) PROVE AtStripe'
  BY <1>21, NoneAssumption
     DEF TypeOK, AtStripe, stripe, Claim, Request, Holding, Failing, After, Sync
<1>22. ASSUME NEW c \in Claims, ContainLate(c) PROVE AtStripe'
  BY <1>22, NoneAssumption
     DEF TypeOK, AtStripe, stripe, Claim, Request, Holding, Failing, After, ContainLate, Expired, Canceled
<1>23. ASSUME NEW c \in Claims, ExpireSession(c) PROVE AtStripe'
  BY <1>23, NoneAssumption
     DEF TypeOK, AtStripe, stripe, Claim, Request, Holding, Failing, After, ExpireSession, Expired, To
<1>24. ASSUME NEW c \in Claims, CancelSub(c) PROVE AtStripe'
  BY <1>24, NoneAssumption
     DEF TypeOK, AtStripe, stripe, Claim, Request, Holding, Failing, After, CancelSub, Canceled, To
<1>25. CASE Begin
  BY <1>25, NoneAssumption
     DEF TypeOK, AtStripe, stripe, Claim, Request, Holding, Failing, After, Begin
<1>26. CASE ClaimAges
  BY <1>26, NoneAssumption
     DEF TypeOK, AtStripe, stripe, Claim, Request, Holding, Failing, After, ClaimAges, Marked
<1>27. CASE JobFails
  BY <1>27, NoneAssumption
     DEF TypeOK, AtStripe, stripe, Claim, Request, Holding, Failing, After, JobFails, To
<1>28. CASE CheckoutStage
  BY <1>28, NoneAssumption
     DEF TypeOK, AtStripe, stripe, Claim, Request, Holding, Failing, After, CheckoutStage, To, Waits
<1>29. CASE ListSessions
  BY <1>29, NoneAssumption
     DEF TypeOK, AtStripe, stripe, Claim, Request, Holding, Failing, After, ListSessions, To
<1>30. CASE ListSubs
  BY <1>30, NoneAssumption
     DEF TypeOK, AtStripe, stripe, Claim, Request, Holding, Failing, After, ListSubs, To
<1>31. CASE ConfirmSubs
  BY <1>31, NoneAssumption
     DEF TypeOK, AtStripe, stripe, Claim, Request, Holding, Failing, After, ConfirmSubs, To, Live
<1>32. CASE ConfirmSessions
  BY <1>32, NoneAssumption
     DEF TypeOK, AtStripe, stripe, Claim, Request, Holding, Failing, After, ConfirmSessions, To, Open
<1>33. CASE UNCHANGED vars
  BY <1>33 DEF TypeOK, AtStripe, stripe, Claim, Request, Holding, Failing, After, vars, stripe
<1> QED BY <1>1, <1>2, <1>3, <1>4, <1>5, <1>6, <1>7, <1>8, <1>9, <1>10, <1>11, <1>12, <1>13,
         <1>14, <1>15, <1>16, <1>17, <1>18, <1>19, <1>20, <1>21, <1>22, <1>23, <1>24, <1>25,
         <1>26, <1>27, <1>28, <1>29, <1>30, <1>31, <1>32, <1>33 DEF Next, World, JobStep, Step

\* Each action keeps what the deletion job has achieved.
LEMMA SweptStep ==
  ASSUME TypeOK, AtStripe, Swept, [Next]_vars
  PROVE  Swept'
<1>1. ASSUME NEW r \in Requests, Enter(r) PROVE Swept'
  BY <1>1, NoneAssumption
     DEF TypeOK, AtStripe, Swept, stripe, Claim, Request, Holding, Failing, After, Open, Live, Enter, At, Idle
<1>2. ASSUME NEW r \in Requests, Fail(r) PROVE Swept'
  <2>1. \A c \in Claims : session'[c] = "open" => session[c] = "open" \/ c \notin shown
    BY <1>2 DEF TypeOK, AtStripe, Fail, Expired, Created
  <2>2. \A c \in Claims : sub'[c] = "live" => sub[c] = "live"
    BY <1>2 DEF TypeOK, Fail, Canceled
  <2> QED BY <1>2, <2>1, <2>2 DEF Fail, Swept, Open, Live, TypeOK
<1>3. ASSUME NEW r \in Requests, Die(r) PROVE Swept'
  BY <1>3, NoneAssumption
     DEF TypeOK, AtStripe, Swept, stripe, Claim, Request, Holding, Failing, After, Open, Live, Die, Leave,
         Idle
<1>4. ASSUME NEW r \in Requests, Turned(r) PROVE Swept'
  BY <1>4, NoneAssumption
     DEF TypeOK, AtStripe, Swept, stripe, Claim, Request, Holding, Failing, After, Open, Live, Turned, At,
         Leave, Idle
<1>5. ASSUME NEW r \in Requests, Reuse(r) PROVE Swept'
  BY <1>5, NoneAssumption
     DEF TypeOK, AtStripe, Swept, stripe, Claim, Request, Holding, Failing, After, Open, Live, Reuse, At,
         Leave, Idle
<1>6. ASSUME NEW r \in Requests, Resume(r) PROVE Swept'
  BY <1>6, NoneAssumption
     DEF TypeOK, AtStripe, Swept, stripe, Claim, Request, Holding, Failing, After, Open, Live, Resume, At,
         Holders, Works
<1>7. ASSUME NEW r \in Requests, NEW c \in Claims, New(r, c) PROVE Swept'
  BY <1>7, NoneAssumption
     DEF TypeOK, AtStripe, Swept, stripe, Claim, Request, Holding, Failing, After, Open, Live, New, At,
         Unused, Works
<1>8. ASSUME NEW r \in Requests, Customer(r) PROVE Swept'
  <2>1. lifecycle = "deleting" => account'.customer = account.customer
    BY <1>8 DEF Customer, TypeOK
  <2> QED BY <1>8, <2>1 DEF Customer, Swept, Open, Live, stripe
<1>9. ASSUME NEW r \in Requests, List(r) PROVE Swept'
  BY <1>9, NoneAssumption
     DEF TypeOK, AtStripe, Swept, stripe, Claim, Request, Holding, Failing, After, Open, Live, List, At,
         Refused, Leave, Idle, GoTo, Goes
<1>10. ASSUME NEW r \in Requests, Previous(r) PROVE Swept'
  BY <1>10, NoneAssumption
     DEF TypeOK, AtStripe, Swept, stripe, Claim, Request, Holding, Failing, After, Open, Live, Previous,
         At, Refused, Leave, Expired, Idle, GoTo, Goes
<1>11. ASSUME NEW r \in Requests, Allowed(r) PROVE Swept'
  BY <1>11, NoneAssumption
     DEF TypeOK, AtStripe, Swept, stripe, Claim, Request, Holding, Failing, After, Open, Live, Allowed, At,
         Refused, Leave, Idle, GoTo, Goes
<1>12. ASSUME NEW r \in Requests, Create(r) PROVE Swept'
  <2>1. \A c \in Claims : session'[c] = "open" => session[c] = "open" \/ c \notin shown
    BY <1>12 DEF TypeOK, AtStripe, Create, Created
  <2> QED BY <1>12, <2>1 DEF Create, Swept, Open, Live, TypeOK
<1>13. ASSUME NEW r \in Requests, Opening(r) PROVE Swept'
  BY <1>13, NoneAssumption
     DEF TypeOK, AtStripe, Swept, stripe, Claim, Request, Holding, Failing, After, Open, Live, Opening, At,
         Leave, Idle, GoTo, Goes
<1>14. ASSUME NEW r \in Requests, Contain(r) PROVE Swept'
  BY <1>14, NoneAssumption
     DEF TypeOK, AtStripe, Swept, stripe, Claim, Request, Holding, Failing, After, Open, Live, Contain, At,
         Expired, Canceled, GoTo, Goes
<1>15. ASSUME NEW r \in Requests, Certify(r) PROVE Swept'
  BY <1>15, NoneAssumption
     DEF TypeOK, AtStripe, Swept, stripe, Claim, Request, Holding, Failing, After, Open, Live, Certify, At,
         Leave, Idle, GoTo, Goes
<1>16. ASSUME NEW r \in Requests, Mark(r) PROVE Swept'
  BY <1>16, NoneAssumption
     DEF TypeOK, AtStripe, Swept, stripe, Claim, Request, Holding, Failing, After, Open, Live, Mark, At,
         Leave, Idle, Marked
<1>17. ASSUME NEW c \in Claims, Complete(c) PROVE Swept'
  BY <1>17, NoneAssumption
     DEF TypeOK, AtStripe, Swept, stripe, Claim, Request, Holding, Failing, After, Open, Live, Complete
<1>18. ASSUME NEW c \in Claims, SessionExpires(c) PROVE Swept'
  BY <1>18, NoneAssumption
     DEF TypeOK, AtStripe, Swept, stripe, Claim, Request, Holding, Failing, After, Open, Live,
         SessionExpires, Expired, Marked
<1>19. ASSUME NEW c \in Claims, Cancel(c) PROVE Swept'
  BY <1>19, NoneAssumption
     DEF TypeOK, AtStripe, Swept, stripe, Claim, Request, Holding, Failing, After, Open, Live, Cancel,
         Canceled
<1>20. ASSUME NEW c \in Claims, Consent(c) PROVE Swept'
  BY <1>20, NoneAssumption
     DEF TypeOK, AtStripe, Swept, stripe, Claim, Request, Holding, Failing, After, Open, Live, Consent, Marked
<1>21. ASSUME NEW c \in Claims, Sync(c) PROVE Swept'
  BY <1>21, NoneAssumption
     DEF TypeOK, AtStripe, Swept, stripe, Claim, Request, Holding, Failing, After, Open, Live, Sync
<1>22. ASSUME NEW c \in Claims, ContainLate(c) PROVE Swept'
  BY <1>22, NoneAssumption
     DEF TypeOK, AtStripe, Swept, stripe, Claim, Request, Holding, Failing, After, Open, Live, ContainLate,
         Expired, Canceled
<1>23. ASSUME NEW c \in Claims, ExpireSession(c) PROVE Swept'
  BY <1>23, NoneAssumption
     DEF TypeOK, AtStripe, Swept, stripe, Claim, Request, Holding, Failing, After, Open, Live,
         ExpireSession, Expired, To
<1>24. ASSUME NEW c \in Claims, CancelSub(c) PROVE Swept'
  BY <1>24, NoneAssumption
     DEF TypeOK, AtStripe, Swept, stripe, Claim, Request, Holding, Failing, After, Open, Live, CancelSub,
         Canceled, To
<1>25. CASE Begin
  BY <1>25, NoneAssumption
     DEF TypeOK, AtStripe, Swept, stripe, Claim, Request, Holding, Failing, After, Open, Live, Begin
<1>26. CASE ClaimAges
  BY <1>26, NoneAssumption
     DEF TypeOK, AtStripe, Swept, stripe, Claim, Request, Holding, Failing, After, Open, Live, ClaimAges,
         Marked
<1>27. CASE JobFails
  BY <1>27, NoneAssumption
     DEF TypeOK, AtStripe, Swept, stripe, Claim, Request, Holding, Failing, After, Open, Live, JobFails, To
<1>28. CASE CheckoutStage
  BY <1>28, NoneAssumption
     DEF TypeOK, AtStripe, Swept, stripe, Claim, Request, Holding, Failing, After, Open, Live,
         CheckoutStage, To, Waits
<1>29. CASE ListSessions
  BY <1>29, NoneAssumption
     DEF TypeOK, AtStripe, Swept, stripe, Claim, Request, Holding, Failing, After, Open, Live,
         ListSessions, To
<1>30. CASE ListSubs
  BY <1>30, NoneAssumption
     DEF TypeOK, AtStripe, Swept, stripe, Claim, Request, Holding, Failing, After, Open, Live, ListSubs, To
<1>31. CASE ConfirmSubs
  BY <1>31, NoneAssumption
     DEF TypeOK, AtStripe, Swept, stripe, Claim, Request, Holding, Failing, After, Open, Live, ConfirmSubs, To
<1>32. CASE ConfirmSessions
  BY <1>32, NoneAssumption
     DEF TypeOK, AtStripe, Swept, stripe, Claim, Request, Holding, Failing, After, Open, Live,
         ConfirmSessions, To
<1>33. CASE UNCHANGED vars
  BY <1>33 DEF TypeOK, AtStripe, Swept, stripe, Claim, Request, Holding, Failing, After, Open, Live, vars,
               stripe
<1> QED BY <1>1, <1>2, <1>3, <1>4, <1>5, <1>6, <1>7, <1>8, <1>9, <1>10, <1>11, <1>12, <1>13,
         <1>14, <1>15, <1>16, <1>17, <1>18, <1>19, <1>20, <1>21, <1>22, <1>23, <1>24, <1>25,
         <1>26, <1>27, <1>28, <1>29, <1>30, <1>31, <1>32, <1>33 DEF Next, World, JobStep, Step

\* Each action keeps what a request knows, and that it is alone with its claim.
LEMMA AloneStep ==
  ASSUME TypeOK, AtStripe, Alone, [Next]_vars
  PROVE  Alone'
<1>1. ASSUME NEW r \in Requests, Enter(r) PROVE Alone'
  BY <1>1, NoneAssumption, BoundAssumption
     DEF TypeOK, Alone, stripe, Request, Holding, Failing, Works, Enter, At, Idle
<1>2. ASSUME NEW r \in Requests, Fail(r) PROVE Alone'
  BY <1>2, NoneAssumption, BoundAssumption
     DEF TypeOK, Alone, stripe, Request, Holding, Failing, Works, Fail, At, Refused, Leave, Expired,
         Canceled, Created, Idle, AtStripe, GoTo, Goes
<1>3. ASSUME NEW r \in Requests, Die(r) PROVE Alone'
  BY <1>3, NoneAssumption, BoundAssumption
     DEF TypeOK, Alone, stripe, Request, Holding, Failing, Works, Die, Leave, Idle
<1>4. ASSUME NEW r \in Requests, Turned(r) PROVE Alone'
  BY <1>4, NoneAssumption, BoundAssumption
     DEF TypeOK, Alone, stripe, Request, Holding, Failing, Works, Turned, At, Leave, Idle
<1>5. ASSUME NEW r \in Requests, Reuse(r) PROVE Alone'
  BY <1>5, NoneAssumption, BoundAssumption
     DEF TypeOK, Alone, stripe, Request, Holding, Failing, Works, Reuse, At, Leave, Idle
<1>6. ASSUME NEW r \in Requests, Resume(r) PROVE Alone'
  BY <1>6, NoneAssumption, BoundAssumption
     DEF TypeOK, Alone, stripe, Request, Holding, Failing, Works, Resume, At, Holders
<1>7. ASSUME NEW r \in Requests, NEW c \in Claims, New(r, c) PROVE Alone'
  BY <1>7, NoneAssumption, BoundAssumption
     DEF TypeOK, Alone, stripe, Request, Holding, Failing, Works, New, At, Unused
<1>8. ASSUME NEW r \in Requests, Customer(r) PROVE Alone'
  BY <1>8, NoneAssumption, BoundAssumption
     DEF TypeOK, Alone, stripe, Request, Holding, Failing, Works, Customer, At, Refused, Leave, Idle, GoTo,
         Goes
<1>9. ASSUME NEW r \in Requests, List(r) PROVE Alone'
  BY <1>9, NoneAssumption, BoundAssumption, SMTT(30)
     DEF TypeOK, Alone, stripe, Request, Holding, Failing, Works, List, At, Refused, Leave, Idle, GoTo, Goes
<1>10. ASSUME NEW r \in Requests, Previous(r) PROVE Alone'
  BY <1>10, NoneAssumption, BoundAssumption, SMTT(30)
     DEF TypeOK, Alone, stripe, Request, Holding, Failing, Works, Previous, At, Refused, Leave, Expired,
         Idle, GoTo, Goes
<1>11. ASSUME NEW r \in Requests, Allowed(r) PROVE Alone'
  BY <1>11, NoneAssumption, BoundAssumption
     DEF TypeOK, Alone, stripe, Request, Holding, Failing, Works, Allowed, At, Refused, Leave, Idle, GoTo,
         Goes
<1>12. ASSUME NEW r \in Requests, Create(r) PROVE Alone'
  BY <1>12, NoneAssumption, BoundAssumption
     DEF TypeOK, Alone, stripe, Request, Holding, Failing, Works, Create, At, Created, GoTo, Goes
<1>13. ASSUME NEW r \in Requests, Opening(r) PROVE Alone'
  BY <1>13, NoneAssumption, BoundAssumption, SMTT(30)
     DEF TypeOK, Alone, stripe, Request, Holding, Failing, Works, Opening, At, Leave, Idle, GoTo, Goes
<1>14. ASSUME NEW r \in Requests, Contain(r) PROVE Alone'
  BY <1>14, NoneAssumption, BoundAssumption
     DEF TypeOK, Alone, stripe, Request, Holding, Failing, Works, Contain, At, Expired, Canceled, GoTo, Goes
<1>15. ASSUME NEW r \in Requests, Certify(r) PROVE Alone'
  BY <1>15, NoneAssumption, BoundAssumption
     DEF TypeOK, Alone, stripe, Request, Holding, Failing, Works, Certify, At, Leave, Idle, GoTo, Goes
<1>16. ASSUME NEW r \in Requests, Mark(r) PROVE Alone'
  BY <1>16, NoneAssumption, BoundAssumption
     DEF TypeOK, Alone, stripe, Request, Holding, Failing, Works, Mark, At, Leave, Idle, Marked
<1>17. ASSUME NEW c \in Claims, Complete(c) PROVE Alone'
  BY <1>17, NoneAssumption, BoundAssumption
     DEF TypeOK, Alone, stripe, Request, Holding, Failing, Works, Complete, Open
<1>18. ASSUME NEW c \in Claims, SessionExpires(c) PROVE Alone'
  BY <1>18, NoneAssumption, BoundAssumption
     DEF TypeOK, Alone, stripe, Request, Holding, Failing, Works, SessionExpires, Expired, Open, Marked
<1>19. ASSUME NEW c \in Claims, Cancel(c) PROVE Alone'
  BY <1>19, NoneAssumption, BoundAssumption
     DEF TypeOK, Alone, stripe, Request, Holding, Failing, Works, Cancel, Canceled, Live
<1>20. ASSUME NEW c \in Claims, Consent(c) PROVE Alone'
  BY <1>20, NoneAssumption, BoundAssumption
     DEF TypeOK, Alone, stripe, Request, Holding, Failing, Works, Consent, Marked
<1>21. ASSUME NEW c \in Claims, Sync(c) PROVE Alone'
  BY <1>21, NoneAssumption, BoundAssumption
     DEF TypeOK, Alone, stripe, Request, Holding, Failing, Works, Sync
<1>22. ASSUME NEW c \in Claims, ContainLate(c) PROVE Alone'
  BY <1>22, NoneAssumption, BoundAssumption
     DEF TypeOK, Alone, stripe, Request, Holding, Failing, Works, ContainLate, Expired, Canceled
<1>23. ASSUME NEW c \in Claims, ExpireSession(c) PROVE Alone'
  BY <1>23, NoneAssumption, BoundAssumption
     DEF TypeOK, Alone, stripe, Request, Holding, Failing, Works, ExpireSession, Expired, To
<1>24. ASSUME NEW c \in Claims, CancelSub(c) PROVE Alone'
  BY <1>24, NoneAssumption, BoundAssumption
     DEF TypeOK, Alone, stripe, Request, Holding, Failing, Works, CancelSub, Canceled, To
<1>25. CASE Begin
  BY <1>25, NoneAssumption, BoundAssumption
     DEF TypeOK, Alone, stripe, Request, Holding, Failing, Works, Begin
<1>26. CASE ClaimAges
  BY <1>26, NoneAssumption, BoundAssumption
     DEF TypeOK, Alone, stripe, Request, Holding, Failing, Works, ClaimAges, Marked
<1>27. CASE JobFails
  BY <1>27, NoneAssumption, BoundAssumption
     DEF TypeOK, Alone, stripe, Request, Holding, Failing, Works, JobFails, To
<1>28. CASE CheckoutStage
  BY <1>28, NoneAssumption, BoundAssumption
     DEF TypeOK, Alone, stripe, Request, Holding, Failing, Works, CheckoutStage, To, Waits
<1>29. CASE ListSessions
  BY <1>29, NoneAssumption, BoundAssumption
     DEF TypeOK, Alone, stripe, Request, Holding, Failing, Works, ListSessions, To
<1>30. CASE ListSubs
  BY <1>30, NoneAssumption, BoundAssumption
     DEF TypeOK, Alone, stripe, Request, Holding, Failing, Works, ListSubs, To
<1>31. CASE ConfirmSubs
  BY <1>31, NoneAssumption, BoundAssumption
     DEF TypeOK, Alone, stripe, Request, Holding, Failing, Works, ConfirmSubs, To, Live
<1>32. CASE ConfirmSessions
  BY <1>32, NoneAssumption, BoundAssumption
     DEF TypeOK, Alone, stripe, Request, Holding, Failing, Works, ConfirmSessions, To, Open
<1>33. CASE UNCHANGED vars
  BY <1>33 DEF TypeOK, Alone, stripe, Request, Holding, Failing, Works, vars, stripe
<1> QED BY <1>1, <1>2, <1>3, <1>4, <1>5, <1>6, <1>7, <1>8, <1>9, <1>10, <1>11, <1>12, <1>13,
         <1>14, <1>15, <1>16, <1>17, <1>18, <1>19, <1>20, <1>21, <1>22, <1>23, <1>24, <1>25,
         <1>26, <1>27, <1>28, <1>29, <1>30, <1>31, <1>32, <1>33 DEF Next, World, JobStep, Step

\* Each action keeps the certificates true.
LEMMA NotCreatedStep ==
  ASSUME TypeOK, AtStripe, Alone, NotCreated, [Next]_vars
  PROVE  NotCreated'
<1>1. ASSUME NEW r \in Requests, Enter(r) PROVE NotCreated'
  BY <1>1, NoneAssumption
     DEF TypeOK, Alone, NotCreated, stripe, Claim, Request, Holding, Failing, Works, Holders, Enter, At, Idle
<1>2. ASSUME NEW r \in Requests, Fail(r) PROVE NotCreated'
  BY <1>2, NoneAssumption
     DEF TypeOK, Alone, NotCreated, stripe, Claim, Request, Holding, Failing, Works, Holders, Fail, At,
         Refused, Leave, Expired, Canceled, Created, Idle, GoTo, Goes
<1>3. ASSUME NEW r \in Requests, Die(r) PROVE NotCreated'
  BY <1>3, NoneAssumption
     DEF TypeOK, Alone, NotCreated, stripe, Claim, Request, Holding, Failing, Works, Holders, Die, Leave, Idle
<1>4. ASSUME NEW r \in Requests, Turned(r) PROVE NotCreated'
  BY <1>4, NoneAssumption
     DEF TypeOK, Alone, NotCreated, stripe, Claim, Request, Holding, Failing, Works, Holders, Turned, At,
         Leave, Idle
<1>5. ASSUME NEW r \in Requests, Reuse(r) PROVE NotCreated'
  BY <1>5, NoneAssumption
     DEF TypeOK, Alone, NotCreated, stripe, Claim, Request, Holding, Failing, Works, Holders, Reuse, At,
         Leave, Idle
<1>6. ASSUME NEW r \in Requests, Resume(r) PROVE NotCreated'
  BY <1>6, NoneAssumption
     DEF TypeOK, Alone, NotCreated, stripe, Claim, Request, Holding, Failing, Works, Holders, Resume, At
<1>7. ASSUME NEW r \in Requests, NEW c \in Claims, New(r, c) PROVE NotCreated'
  BY <1>7, NoneAssumption
     DEF TypeOK, Alone, NotCreated, stripe, Claim, Request, Holding, Failing, Works, Holders, New, At, Unused
<1>8. ASSUME NEW r \in Requests, Customer(r) PROVE NotCreated'
  BY <1>8, NoneAssumption
     DEF TypeOK, Alone, NotCreated, stripe, Claim, Request, Holding, Failing, Works, Holders, Customer, At,
         Refused, Leave, Idle, GoTo, Goes
<1>9. ASSUME NEW r \in Requests, List(r) PROVE NotCreated'
  BY <1>9, NoneAssumption
     DEF TypeOK, Alone, NotCreated, stripe, Claim, Request, Holding, Failing, Works, Holders, List, At,
         Refused, Leave, Idle, GoTo, Goes
<1>10. ASSUME NEW r \in Requests, Previous(r) PROVE NotCreated'
  BY <1>10, NoneAssumption
     DEF TypeOK, Alone, NotCreated, stripe, Claim, Request, Holding, Failing, Works, Holders, Previous, At,
         Refused, Leave, Expired, Idle, GoTo, Goes
<1>11. ASSUME NEW r \in Requests, Allowed(r) PROVE NotCreated'
  BY <1>11, NoneAssumption
     DEF TypeOK, Alone, NotCreated, stripe, Claim, Request, Holding, Failing, Works, Holders, Allowed, At,
         Refused, Leave, Idle, GoTo, Goes
<1>12. ASSUME NEW r \in Requests, Create(r) PROVE NotCreated'
  BY <1>12, NoneAssumption
     DEF TypeOK, Alone, NotCreated, stripe, Claim, Request, Holding, Failing, Works, Holders, Create, At,
         Created, GoTo, Goes
<1>13. ASSUME NEW r \in Requests, Opening(r) PROVE NotCreated'
  BY <1>13, NoneAssumption
     DEF TypeOK, Alone, NotCreated, stripe, Claim, Request, Holding, Failing, Works, Holders, Opening, At,
         Leave, Idle, GoTo, Goes
<1>14. ASSUME NEW r \in Requests, Contain(r) PROVE NotCreated'
  BY <1>14, NoneAssumption
     DEF TypeOK, Alone, NotCreated, stripe, Claim, Request, Holding, Failing, Works, Holders, Contain, At,
         Expired, Canceled, GoTo, Goes
<1>15. ASSUME NEW r \in Requests, Certify(r) PROVE NotCreated'
  BY <1>15, NoneAssumption
     DEF TypeOK, Alone, NotCreated, stripe, Claim, Request, Holding, Failing, Works, Holders, Certify, At,
         Leave, Idle, GoTo, Goes
<1>16. ASSUME NEW r \in Requests, Mark(r) PROVE NotCreated'
  BY <1>16, NoneAssumption
     DEF TypeOK, Alone, NotCreated, stripe, Claim, Request, Holding, Failing, Works, Holders, Mark, At,
         Leave, Idle, Marked
<1>17. ASSUME NEW c \in Claims, Complete(c) PROVE NotCreated'
  BY <1>17, NoneAssumption
     DEF TypeOK, Alone, NotCreated, stripe, Claim, Request, Holding, Failing, Works, Holders, Complete, Open
<1>18. ASSUME NEW c \in Claims, SessionExpires(c) PROVE NotCreated'
  BY <1>18, NoneAssumption
     DEF TypeOK, Alone, NotCreated, stripe, Claim, Request, Holding, Failing, Works, Holders,
         SessionExpires, Expired, Open, Marked
<1>19. ASSUME NEW c \in Claims, Cancel(c) PROVE NotCreated'
  BY <1>19, NoneAssumption
     DEF TypeOK, Alone, NotCreated, stripe, Claim, Request, Holding, Failing, Works, Holders, Cancel,
         Canceled, Live
<1>20. ASSUME NEW c \in Claims, Consent(c) PROVE NotCreated'
  BY <1>20, NoneAssumption
     DEF TypeOK, Alone, NotCreated, stripe, Claim, Request, Holding, Failing, Works, Holders, Consent, Marked
<1>21. ASSUME NEW c \in Claims, Sync(c) PROVE NotCreated'
  BY <1>21, NoneAssumption
     DEF TypeOK, Alone, NotCreated, stripe, Claim, Request, Holding, Failing, Works, Holders, Sync
<1>22. ASSUME NEW c \in Claims, ContainLate(c) PROVE NotCreated'
  BY <1>22, NoneAssumption
     DEF TypeOK, Alone, NotCreated, stripe, Claim, Request, Holding, Failing, Works, Holders, ContainLate,
         Expired, Canceled
<1>23. ASSUME NEW c \in Claims, ExpireSession(c) PROVE NotCreated'
  BY <1>23, NoneAssumption
     DEF TypeOK, Alone, NotCreated, stripe, Claim, Request, Holding, Failing, Works, Holders,
         ExpireSession, Expired, To
<1>24. ASSUME NEW c \in Claims, CancelSub(c) PROVE NotCreated'
  BY <1>24, NoneAssumption
     DEF TypeOK, Alone, NotCreated, stripe, Claim, Request, Holding, Failing, Works, Holders, CancelSub,
         Canceled, To
<1>25. CASE Begin
  BY <1>25, NoneAssumption
     DEF TypeOK, Alone, NotCreated, stripe, Claim, Request, Holding, Failing, Works, Holders, Begin
<1>26. CASE ClaimAges
  BY <1>26, NoneAssumption
     DEF TypeOK, Alone, NotCreated, stripe, Claim, Request, Holding, Failing, Works, Holders, ClaimAges,
         Marked
<1>27. CASE JobFails
  BY <1>27, NoneAssumption
     DEF TypeOK, Alone, NotCreated, stripe, Claim, Request, Holding, Failing, Works, Holders, JobFails, To
<1>28. CASE CheckoutStage
  BY <1>28, NoneAssumption
     DEF TypeOK, Alone, NotCreated, stripe, Claim, Request, Holding, Failing, Works, Holders,
         CheckoutStage, To, Waits
<1>29. CASE ListSessions
  BY <1>29, NoneAssumption
     DEF TypeOK, Alone, NotCreated, stripe, Claim, Request, Holding, Failing, Works, Holders, ListSessions, To
<1>30. CASE ListSubs
  BY <1>30, NoneAssumption
     DEF TypeOK, Alone, NotCreated, stripe, Claim, Request, Holding, Failing, Works, Holders, ListSubs, To
<1>31. CASE ConfirmSubs
  BY <1>31, NoneAssumption
     DEF TypeOK, Alone, NotCreated, stripe, Claim, Request, Holding, Failing, Works, Holders, ConfirmSubs,
         To, Live
<1>32. CASE ConfirmSessions
  BY <1>32, NoneAssumption
     DEF TypeOK, Alone, NotCreated, stripe, Claim, Request, Holding, Failing, Works, Holders,
         ConfirmSessions, To, Open
<1>33. CASE UNCHANGED vars
  BY <1>33 DEF TypeOK, Alone, NotCreated, stripe, Claim, Request, Holding, Failing, Works, Holders, vars,
               stripe
<1> QED BY <1>1, <1>2, <1>3, <1>4, <1>5, <1>6, <1>7, <1>8, <1>9, <1>10, <1>11, <1>12, <1>13,
         <1>14, <1>15, <1>16, <1>17, <1>18, <1>19, <1>20, <1>21, <1>22, <1>23, <1>24, <1>25,
         <1>26, <1>27, <1>28, <1>29, <1>30, <1>31, <1>32, <1>33 DEF Next, World, JobStep, Step

\* Each action, while there is no fault, keeps the claim with one request.
LEMMA FaultlessStep ==
  ASSUME TypeOK, AtStripe, Swept, Alone, Faultless, OneUnlessFault, [Next]_vars
  PROVE  Faultless'
<1>1. ASSUME NEW r \in Requests, Enter(r) PROVE Faultless'
  BY <1>1, NoneAssumption, BoundAssumption
     DEF TypeOK, AtStripe, Alone, Faultless, stripe, Claim, Request, Holding, Failing, Works, Holders,
         Before, After, Payable, Open, Live, Enter, At, Idle
<1>2. ASSUME NEW r \in Requests, Fail(r) PROVE Faultless'
  BY <1>2, NoneAssumption, BoundAssumption
     DEF TypeOK, AtStripe, Alone, Faultless, stripe, Claim, Request, Holding, Failing, Works, Holders,
         Before, After, Payable, Open, Live, Fail, At, Refused, Leave, Expired, Canceled, Created, Idle,
         GoTo, Goes
<1>3. ASSUME NEW r \in Requests, Die(r) PROVE Faultless'
  BY <1>3, NoneAssumption, BoundAssumption
     DEF TypeOK, AtStripe, Alone, Faultless, stripe, Claim, Request, Holding, Failing, Works, Holders,
         Before, After, Payable, Open, Live, Die, Leave, Idle
<1>4. ASSUME NEW r \in Requests, Turned(r) PROVE Faultless'
  BY <1>4, NoneAssumption, BoundAssumption
     DEF TypeOK, AtStripe, Alone, Faultless, stripe, Claim, Request, Holding, Failing, Works, Holders,
         Before, After, Payable, Open, Live, Turned, At, Leave, Idle
<1>5. ASSUME NEW r \in Requests, Reuse(r) PROVE Faultless'
  BY <1>5, NoneAssumption, BoundAssumption
     DEF TypeOK, AtStripe, Alone, Faultless, stripe, Claim, Request, Holding, Failing, Works, Holders,
         Before, After, Payable, Open, Live, Reuse, At, Leave, Idle
<1>6. ASSUME NEW r \in Requests, Resume(r) PROVE Faultless'
  BY <1>6, NoneAssumption, BoundAssumption
     DEF TypeOK, AtStripe, Alone, Faultless, stripe, Claim, Request, Holding, Failing, Works, Holders,
         Before, After, Payable, Open, Live, Resume, At
<1>7. ASSUME NEW r \in Requests, NEW c \in Claims, New(r, c) PROVE Faultless'
  BY <1>7, NoneAssumption, BoundAssumption
     DEF TypeOK, AtStripe, Alone, Faultless, stripe, Claim, Request, Holding, Failing, Works, Holders,
         Before, After, Payable, Open, Live, New, At, Unused
<1>8. ASSUME NEW r \in Requests, Customer(r) PROVE Faultless'
  BY <1>8, NoneAssumption, BoundAssumption
     DEF TypeOK, AtStripe, Alone, Faultless, stripe, Claim, Request, Holding, Failing, Works, Holders,
         Before, After, Payable, Open, Live, Customer, At, Refused, Leave, Idle, GoTo, Goes
<1>9. ASSUME NEW r \in Requests, List(r) PROVE Faultless'
  <2>1. CASE Live = {}
    BY <1>9, <2>1 DEF List, At, GoTo, Goes, AtStripe, Alone, Faultless, OneUnlessFault, stripe, Request,
                      Holding, Failing, Holders, Before, After, Payable, Open, Live, TypeOK
  <2>2. CASE Live # {}
    <3>1. faults = 0 /\ lifecycle = "active" => shown \cap Open = {}
      BY <1>9, <2>2 DEF AtStripe, OneUnlessFault, Payable, Open, Live, List, TypeOK
    <3>2. Refused(r)
      BY <1>9, <2>2 DEF List
    <3> QED BY <1>9, <2>2, <3>1, <3>2 DEF List, At, Refused, GoTo, Goes, Leave, Idle, AtStripe, Alone,
                                          Faultless, OneUnlessFault, stripe, Request, Holding, Failing,
                                          Holders, Before, After, Payable, Open, Live, TypeOK
  <2> QED BY <2>1, <2>2
<1>10. ASSUME NEW r \in Requests, Previous(r) PROVE Faultless'
  <2> DEFINE p == request[r].prev
  <2>1. CASE p = None \/ p \in Open
    <3>1. session' = Expired(session, {p}) /\ GoTo(r, "allowed")
      BY <1>10, <2>1 DEF Previous
    <3> QED BY <1>10, <2>1, <3>1, NoneAssumption DEF Previous, At, GoTo, Goes, Expired, AtStripe, Alone,
                                                     Faultless, OneUnlessFault, stripe, Request, Holding,
                                                     Failing, Holders, Before, After, Payable, Open, Live,
                                                     TypeOK
  <2>2. CASE ~(p = None \/ p \in Open)
    <3>1. session' = session /\ Refused(r)
      BY <1>10, <2>2 DEF Previous
    <3>2. faults = 0 /\ lifecycle = "active" => shown \cap Open = {}
      BY <1>10, <2>2 DEF Previous, At, AtStripe, Alone, Faultless, OneUnlessFault, stripe, Request,
                         Holding, Failing, Holders, Before, After, Payable, Open, Live, TypeOK
    <3> QED BY <1>10, <2>2, <3>1, <3>2 DEF Previous, At, Refused, GoTo, Goes, Leave, Idle, AtStripe, Alone,
                                           Faultless, OneUnlessFault, stripe, Request, Holding, Failing,
                                           Holders, Before, After, Payable, Open, Live, TypeOK
  <2> QED BY <2>1, <2>2
<1>11. ASSUME NEW r \in Requests, Allowed(r) PROVE Faultless'
  BY <1>11, NoneAssumption, BoundAssumption
     DEF TypeOK, AtStripe, Alone, Faultless, stripe, Claim, Request, Holding, Failing, Works, Holders,
         Before, After, Payable, Open, Live, Allowed, At, Refused, Leave, Idle, GoTo, Goes
<1>12. ASSUME NEW r \in Requests, Create(r) PROVE Faultless'
  BY <1>12, NoneAssumption, BoundAssumption
     DEF TypeOK, AtStripe, Alone, Faultless, stripe, Claim, Request, Holding, Failing, Works, Holders,
         Before, After, Payable, Open, Live, Create, At, Created, GoTo, Goes
<1>13. ASSUME NEW r \in Requests, Opening(r) PROVE Faultless'
  BY <1>13, NoneAssumption, BoundAssumption
     DEF TypeOK, AtStripe, Alone, Faultless, stripe, Claim, Request, Holding, Failing, Works, Holders,
         Before, After, Payable, Open, Live, Opening, At, Leave, Idle, GoTo, Goes
<1>14. ASSUME NEW r \in Requests, Contain(r) PROVE Faultless'
  BY <1>14, NoneAssumption, BoundAssumption
     DEF TypeOK, AtStripe, Alone, Faultless, stripe, Claim, Request, Holding, Failing, Works, Holders,
         Before, After, Payable, Open, Live, Contain, At, Expired, Canceled, GoTo, Goes
<1>15. ASSUME NEW r \in Requests, Certify(r) PROVE Faultless'
  BY <1>15, NoneAssumption, BoundAssumption
     DEF TypeOK, AtStripe, Alone, Faultless, stripe, Claim, Request, Holding, Failing, Works, Holders,
         Before, After, Payable, Open, Live, Certify, At, Leave, Idle, GoTo, Goes
<1>16. ASSUME NEW r \in Requests, Mark(r) PROVE Faultless'
  BY <1>16, NoneAssumption, BoundAssumption
     DEF TypeOK, AtStripe, Alone, Faultless, stripe, Claim, Request, Holding, Failing, Works, Holders,
         Before, After, Payable, Open, Live, Mark, At, Leave, Idle, Marked
<1>17. ASSUME NEW c \in Claims, Complete(c) PROVE Faultless'
  BY <1>17, NoneAssumption, BoundAssumption
     DEF TypeOK, AtStripe, Alone, Faultless, stripe, Claim, Request, Holding, Failing, Works, Holders,
         Before, After, Payable, Open, Live, Complete
<1>18. ASSUME NEW c \in Claims, SessionExpires(c) PROVE Faultless'
  BY <1>18, NoneAssumption, BoundAssumption
     DEF TypeOK, AtStripe, Alone, Faultless, stripe, Claim, Request, Holding, Failing, Works, Holders,
         Before, After, Payable, Open, Live, SessionExpires, Expired, Marked
<1>19. ASSUME NEW c \in Claims, Cancel(c) PROVE Faultless'
  BY <1>19, NoneAssumption, BoundAssumption
     DEF TypeOK, AtStripe, Alone, Faultless, stripe, Claim, Request, Holding, Failing, Works, Holders,
         Before, After, Payable, Open, Live, Cancel, Canceled
<1>20. ASSUME NEW c \in Claims, Consent(c) PROVE Faultless'
  BY <1>20, NoneAssumption, BoundAssumption
     DEF TypeOK, AtStripe, Alone, Faultless, stripe, Claim, Request, Holding, Failing, Works, Holders,
         Before, After, Payable, Open, Live, Consent, Marked
<1>21. ASSUME NEW c \in Claims, Sync(c) PROVE Faultless'
  BY <1>21, NoneAssumption, BoundAssumption
     DEF TypeOK, AtStripe, Alone, Faultless, stripe, Claim, Request, Holding, Failing, Works, Holders,
         Before, After, Payable, Open, Live, Sync
<1>22. ASSUME NEW c \in Claims, ContainLate(c) PROVE Faultless'
  BY <1>22, NoneAssumption, BoundAssumption
     DEF TypeOK, AtStripe, Alone, Faultless, stripe, Claim, Request, Holding, Failing, Works, Holders,
         Before, After, Payable, Open, Live, ContainLate, Expired, Canceled
<1>23. ASSUME NEW c \in Claims, ExpireSession(c) PROVE Faultless'
  BY <1>23, NoneAssumption, BoundAssumption
     DEF TypeOK, AtStripe, Alone, Faultless, stripe, Claim, Request, Holding, Failing, Works, Holders,
         Before, After, Payable, Open, Live, ExpireSession, Expired, To
<1>24. ASSUME NEW c \in Claims, CancelSub(c) PROVE Faultless'
  BY <1>24, NoneAssumption, BoundAssumption
     DEF TypeOK, AtStripe, Alone, Faultless, stripe, Claim, Request, Holding, Failing, Works, Holders,
         Before, After, Payable, Open, Live, CancelSub, Canceled, To
<1>25. CASE Begin
  BY <1>25, NoneAssumption, BoundAssumption
     DEF TypeOK, AtStripe, Alone, Faultless, stripe, Claim, Request, Holding, Failing, Works, Holders,
         Before, After, Payable, Open, Live, Begin
<1>26. CASE ClaimAges
  BY <1>26, NoneAssumption, BoundAssumption
     DEF TypeOK, AtStripe, Alone, Faultless, stripe, Claim, Request, Holding, Failing, Works, Holders,
         Before, After, Payable, Open, Live, ClaimAges, Marked
<1>27. CASE JobFails
  BY <1>27, NoneAssumption, BoundAssumption
     DEF TypeOK, AtStripe, Alone, Faultless, stripe, Claim, Request, Holding, Failing, Works, Holders,
         Before, After, Payable, Open, Live, JobFails, To
<1>28. CASE CheckoutStage
  BY <1>28, NoneAssumption, BoundAssumption
     DEF TypeOK, AtStripe, Alone, Faultless, stripe, Claim, Request, Holding, Failing, Works, Holders,
         Before, After, Payable, Open, Live, CheckoutStage, To, Waits
<1>29. CASE ListSessions
  BY <1>29, NoneAssumption, BoundAssumption
     DEF TypeOK, AtStripe, Alone, Faultless, stripe, Claim, Request, Holding, Failing, Works, Holders,
         Before, After, Payable, Open, Live, ListSessions, To
<1>30. CASE ListSubs
  BY <1>30, NoneAssumption, BoundAssumption
     DEF TypeOK, AtStripe, Alone, Faultless, stripe, Claim, Request, Holding, Failing, Works, Holders,
         Before, After, Payable, Open, Live, ListSubs, To
<1>31. CASE ConfirmSubs
  BY <1>31, NoneAssumption, BoundAssumption
     DEF TypeOK, AtStripe, Alone, Faultless, stripe, Claim, Request, Holding, Failing, Works, Holders,
         Before, After, Payable, Open, Live, ConfirmSubs, To
<1>32. CASE ConfirmSessions
  BY <1>32, NoneAssumption, BoundAssumption
     DEF TypeOK, AtStripe, Alone, Faultless, stripe, Claim, Request, Holding, Failing, Works, Holders,
         Before, After, Payable, Open, Live, ConfirmSessions, To
<1>33. CASE UNCHANGED vars
  BY <1>33 DEF TypeOK, AtStripe, Alone, Faultless, stripe, Claim, Request, Holding, Failing, Works,
               Holders, Before, After, Payable, Open, Live, vars, stripe
<1> QED BY <1>1, <1>2, <1>3, <1>4, <1>5, <1>6, <1>7, <1>8, <1>9, <1>10, <1>11, <1>12, <1>13,
         <1>14, <1>15, <1>16, <1>17, <1>18, <1>19, <1>20, <1>21, <1>22, <1>23, <1>24, <1>25,
         <1>26, <1>27, <1>28, <1>29, <1>30, <1>31, <1>32, <1>33 DEF Next, World, JobStep, Step

\* Each action, while there is no fault, keeps one session payable at most.
LEMMA OneStep ==
  ASSUME TypeOK, AtStripe, Swept, Alone, Faultless, OneUnlessFault, [Next]_vars
  PROVE  OneUnlessFault'
<1>1. ASSUME NEW r \in Requests, Enter(r) PROVE OneUnlessFault'
  BY <1>1, NoneAssumption, BoundAssumption
     DEF TypeOK, AtStripe, Faultless, OneUnlessFault, stripe, Request, Holding, Failing, Before, After,
         Payable, Open, Live, Enter, At, Idle
<1>2. ASSUME NEW r \in Requests, Fail(r) PROVE OneUnlessFault'
  BY <1>2, NoneAssumption, BoundAssumption
     DEF TypeOK, AtStripe, Faultless, OneUnlessFault, stripe, Request, Holding, Failing, Before, After,
         Payable, Open, Live, Fail, At, Refused, Leave, Expired, Canceled, Created, Idle, GoTo, Goes
<1>3. ASSUME NEW r \in Requests, Die(r) PROVE OneUnlessFault'
  BY <1>3, NoneAssumption, BoundAssumption
     DEF TypeOK, AtStripe, Faultless, OneUnlessFault, stripe, Request, Holding, Failing, Before, After,
         Payable, Open, Live, Die, Leave, Idle
<1>4. ASSUME NEW r \in Requests, Turned(r) PROVE OneUnlessFault'
  BY <1>4, NoneAssumption, BoundAssumption
     DEF TypeOK, AtStripe, Faultless, OneUnlessFault, stripe, Request, Holding, Failing, Before, After,
         Payable, Open, Live, Turned, At, Leave, Idle
<1>5. ASSUME NEW r \in Requests, Reuse(r) PROVE OneUnlessFault'
  BY <1>5, NoneAssumption, BoundAssumption
     DEF TypeOK, AtStripe, Faultless, OneUnlessFault, stripe, Request, Holding, Failing, Before, After,
         Payable, Open, Live, Reuse, At, Leave, Idle
<1>6. ASSUME NEW r \in Requests, Resume(r) PROVE OneUnlessFault'
  BY <1>6, NoneAssumption, BoundAssumption
     DEF TypeOK, AtStripe, Faultless, OneUnlessFault, stripe, Request, Holding, Failing, Before, After,
         Payable, Open, Live, Resume, At, Holders, Works
<1>7. ASSUME NEW r \in Requests, NEW c \in Claims, New(r, c) PROVE OneUnlessFault'
  BY <1>7, NoneAssumption, BoundAssumption
     DEF TypeOK, AtStripe, Faultless, OneUnlessFault, stripe, Request, Holding, Failing, Before, After,
         Payable, Open, Live, New, At, Unused, Works
<1>8. ASSUME NEW r \in Requests, Customer(r) PROVE OneUnlessFault'
  BY <1>8, NoneAssumption, BoundAssumption
     DEF TypeOK, AtStripe, Faultless, OneUnlessFault, stripe, Request, Holding, Failing, Before, After,
         Payable, Open, Live, Customer, At, Refused, Leave, Idle, GoTo, Goes
<1>9. ASSUME NEW r \in Requests, List(r) PROVE OneUnlessFault'
  BY <1>9, NoneAssumption, BoundAssumption
     DEF TypeOK, AtStripe, Faultless, OneUnlessFault, stripe, Request, Holding, Failing, Before, After,
         Payable, Open, Live, List, At, Refused, Leave, Idle, GoTo, Goes
<1>10. ASSUME NEW r \in Requests, Previous(r) PROVE OneUnlessFault'
  BY <1>10, NoneAssumption, BoundAssumption
     DEF TypeOK, AtStripe, Faultless, OneUnlessFault, stripe, Request, Holding, Failing, Before, After,
         Payable, Open, Live, Previous, At, Refused, Leave, Expired, Idle, GoTo, Goes
<1>11. ASSUME NEW r \in Requests, Allowed(r) PROVE OneUnlessFault'
  BY <1>11, NoneAssumption, BoundAssumption
     DEF TypeOK, AtStripe, Faultless, OneUnlessFault, stripe, Request, Holding, Failing, Before, After,
         Payable, Open, Live, Allowed, At, Refused, Leave, Idle, GoTo, Goes
<1>12. ASSUME NEW r \in Requests, Create(r) PROVE OneUnlessFault'
  BY <1>12, NoneAssumption, BoundAssumption
     DEF TypeOK, AtStripe, Faultless, OneUnlessFault, stripe, Request, Holding, Failing, Before, After,
         Payable, Open, Live, Create, At, Created, GoTo, Goes
<1>13. ASSUME NEW r \in Requests, Opening(r) PROVE OneUnlessFault'
  BY <1>13, NoneAssumption, BoundAssumption
     DEF TypeOK, AtStripe, Faultless, OneUnlessFault, stripe, Request, Holding, Failing, Before, After,
         Payable, Open, Live, Opening, At, Leave, Idle, GoTo, Goes
<1>14. ASSUME NEW r \in Requests, Contain(r) PROVE OneUnlessFault'
  BY <1>14, NoneAssumption, BoundAssumption
     DEF TypeOK, AtStripe, Faultless, OneUnlessFault, stripe, Request, Holding, Failing, Before, After,
         Payable, Open, Live, Contain, At, Expired, Canceled, GoTo, Goes
<1>15. ASSUME NEW r \in Requests, Certify(r) PROVE OneUnlessFault'
  BY <1>15, NoneAssumption, BoundAssumption
     DEF TypeOK, AtStripe, Faultless, OneUnlessFault, stripe, Request, Holding, Failing, Before, After,
         Payable, Open, Live, Certify, At, Leave, Idle, GoTo, Goes
<1>16. ASSUME NEW r \in Requests, Mark(r) PROVE OneUnlessFault'
  BY <1>16, NoneAssumption, BoundAssumption
     DEF TypeOK, AtStripe, Faultless, OneUnlessFault, stripe, Request, Holding, Failing, Before, After,
         Payable, Open, Live, Mark, At, Leave, Idle, Marked
<1>17. ASSUME NEW c \in Claims, Complete(c) PROVE OneUnlessFault'
  BY <1>17, NoneAssumption, BoundAssumption
     DEF TypeOK, AtStripe, Faultless, OneUnlessFault, stripe, Request, Holding, Failing, Before, After,
         Payable, Open, Live, Complete
<1>18. ASSUME NEW c \in Claims, SessionExpires(c) PROVE OneUnlessFault'
  BY <1>18, NoneAssumption, BoundAssumption
     DEF TypeOK, AtStripe, Faultless, OneUnlessFault, stripe, Request, Holding, Failing, Before, After,
         Payable, Open, Live, SessionExpires, Expired, Marked
<1>19. ASSUME NEW c \in Claims, Cancel(c) PROVE OneUnlessFault'
  BY <1>19, NoneAssumption, BoundAssumption
     DEF TypeOK, AtStripe, Faultless, OneUnlessFault, stripe, Request, Holding, Failing, Before, After,
         Payable, Open, Live, Cancel, Canceled
<1>20. ASSUME NEW c \in Claims, Consent(c) PROVE OneUnlessFault'
  BY <1>20, NoneAssumption, BoundAssumption
     DEF TypeOK, AtStripe, Faultless, OneUnlessFault, stripe, Request, Holding, Failing, Before, After,
         Payable, Open, Live, Consent, Marked
<1>21. ASSUME NEW c \in Claims, Sync(c) PROVE OneUnlessFault'
  BY <1>21, NoneAssumption, BoundAssumption
     DEF TypeOK, AtStripe, Faultless, OneUnlessFault, stripe, Request, Holding, Failing, Before, After,
         Payable, Open, Live, Sync
<1>22. ASSUME NEW c \in Claims, ContainLate(c) PROVE OneUnlessFault'
  BY <1>22, NoneAssumption, BoundAssumption
     DEF TypeOK, AtStripe, Faultless, OneUnlessFault, stripe, Request, Holding, Failing, Before, After,
         Payable, Open, Live, ContainLate, Expired, Canceled
<1>23. ASSUME NEW c \in Claims, ExpireSession(c) PROVE OneUnlessFault'
  BY <1>23, NoneAssumption, BoundAssumption
     DEF TypeOK, AtStripe, Faultless, OneUnlessFault, stripe, Request, Holding, Failing, Before, After,
         Payable, Open, Live, ExpireSession, Expired, To
<1>24. ASSUME NEW c \in Claims, CancelSub(c) PROVE OneUnlessFault'
  BY <1>24, NoneAssumption, BoundAssumption
     DEF TypeOK, AtStripe, Faultless, OneUnlessFault, stripe, Request, Holding, Failing, Before, After,
         Payable, Open, Live, CancelSub, Canceled, To
<1>25. CASE Begin
  BY <1>25, NoneAssumption, BoundAssumption
     DEF TypeOK, AtStripe, Faultless, OneUnlessFault, stripe, Request, Holding, Failing, Before, After,
         Payable, Open, Live, Begin
<1>26. CASE ClaimAges
  BY <1>26, NoneAssumption, BoundAssumption
     DEF TypeOK, AtStripe, Faultless, OneUnlessFault, stripe, Request, Holding, Failing, Before, After,
         Payable, Open, Live, ClaimAges, Marked
<1>27. CASE JobFails
  BY <1>27, NoneAssumption, BoundAssumption
     DEF TypeOK, AtStripe, Faultless, OneUnlessFault, stripe, Request, Holding, Failing, Before, After,
         Payable, Open, Live, JobFails, To
<1>28. CASE CheckoutStage
  BY <1>28, NoneAssumption, BoundAssumption
     DEF TypeOK, AtStripe, Faultless, OneUnlessFault, stripe, Request, Holding, Failing, Before, After,
         Payable, Open, Live, CheckoutStage, To, Waits
<1>29. CASE ListSessions
  BY <1>29, NoneAssumption, BoundAssumption
     DEF TypeOK, AtStripe, Faultless, OneUnlessFault, stripe, Request, Holding, Failing, Before, After,
         Payable, Open, Live, ListSessions, To
<1>30. CASE ListSubs
  BY <1>30, NoneAssumption, BoundAssumption
     DEF TypeOK, AtStripe, Faultless, OneUnlessFault, stripe, Request, Holding, Failing, Before, After,
         Payable, Open, Live, ListSubs, To
<1>31. CASE ConfirmSubs
  BY <1>31, NoneAssumption, BoundAssumption
     DEF TypeOK, AtStripe, Faultless, OneUnlessFault, stripe, Request, Holding, Failing, Before, After,
         Payable, Open, Live, ConfirmSubs, To
<1>32. CASE ConfirmSessions
  BY <1>32, NoneAssumption, BoundAssumption
     DEF TypeOK, AtStripe, Faultless, OneUnlessFault, stripe, Request, Holding, Failing, Before, After,
         Payable, Open, Live, ConfirmSessions, To
<1>33. CASE UNCHANGED vars
  BY <1>33 DEF TypeOK, AtStripe, Faultless, OneUnlessFault, stripe, Request, Holding, Failing, Before,
               After, Payable, Open, Live, vars, stripe
<1> QED BY <1>1, <1>2, <1>3, <1>4, <1>5, <1>6, <1>7, <1>8, <1>9, <1>10, <1>11, <1>12, <1>13,
         <1>14, <1>15, <1>16, <1>17, <1>18, <1>19, <1>20, <1>21, <1>22, <1>23, <1>24, <1>25,
         <1>26, <1>27, <1>28, <1>29, <1>30, <1>31, <1>32, <1>33 DEF Next, World, JobStep, Step

-----------------------------------------------------------------------------
(* The theorems *)

IInv == TypeOK /\ AtStripe /\ Swept /\ Alone /\ NotCreated /\ Faultless /\ OneUnlessFault

LEMMA InitInv == Init => IInv
<1> SUFFICES ASSUME Init PROVE IInv
  OBVIOUS
<1>1. TypeOK
  <2>1. account \in [customer : BOOLEAN, sub : Claims \cup {None}, live : BOOLEAN]
    BY DEF Init
  <2>2. request \in [Requests -> Request] /\ \A r \in Requests : request[r].pc = "idle"
    BY DEF Init, Idle, Request
  <2>3. claim \in Claim /\ claim.status = "none"
    BY DEF Init, Claim
  <2>4. job \in [stage : JobStages, customer : BOOLEAN, work : SUBSET Claims]
    BY DEF Init, JobStages
  <2>5. session \in [Claims -> {"none", "open", "expired", "complete"}] /\ sub \in [Claims -> {"none", "live", "canceled"}]
    BY DEF Init
  <2>6. faults \in 0 .. MaxFaults
    BY BoundAssumption DEF Init
  <2>7. lifecycle = "active" /\ shown = {} /\ notice = {} /\ overtaken = FALSE
    BY DEF Init
  <2> QED BY <2>1, <2>2, <2>3, <2>4, <2>5, <2>6, <2>7 DEF TypeOK, Holding, Failing
<1>2. AtStripe /\ Swept
  BY DEF Init, AtStripe, Swept, Idle, After, Open, Live
<1>3. Alone /\ NotCreated
  BY DEF Init, Alone, NotCreated, Idle, Holding, Failing
<1>4. Faultless /\ OneUnlessFault
  BY DEF Init, Faultless, OneUnlessFault, Idle, Holding, Failing, Before, After, Payable, Open, Live
<1> QED BY <1>1, <1>2, <1>3, <1>4 DEF IInv

LEMMA Inductive == Spec => []IInv
<1>1. IInv /\ [Next]_vars => IInv'
  BY TypeStep, AtStripeStep, SweptStep, AloneStep, NotCreatedStep, FaultlessStep, OneStep DEF IInv
<1> QED BY InitInv, <1>1, PTL DEF Spec

\* The state of the checkout has its type, for any requests, claims and faults.
THEOREM TypeCorrect == Spec => []TypeOK
<1>1. IInv => TypeOK
  BY DEF IInv
<1> QED BY Inductive, <1>1, PTL

\* Billing that the deletion has contained stays contained, whichever requests
\* fail, die or take over each other's claims, and whatever the customer pays.
THEOREM ContainedStays == Spec => []Contained
<1>1. IInv => Contained
  BY DEF IInv, Swept, Contained
<1> QED BY Inductive, <1>1, PTL

\* A session that was certified as never created never is, as long as no claim
\* was taken over from a request that was still at work.
THEOREM NeverCreated == Spec => []NotCreated
<1>1. IInv => NotCreated
  BY DEF IInv
<1> QED BY Inductive, <1>1, PTL

\* As long as no request fails, dies or is overtaken, the customer can pay for one subscription at most.
THEOREM OneWithoutFault == Spec => []OneUnlessFault
<1>1. IInv => OneUnlessFault
  BY DEF IInv
<1> QED BY Inductive, <1>1, PTL

=============================================================================
