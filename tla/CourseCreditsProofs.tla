------------------------- MODULE CourseCreditsProofs -------------------------
(***************************************************************************)
(* Proofs about CourseCredits, for any courses, requests, plans and times: *)
(* its state has its type, deleting courses neither mints a credit nor     *)
(* forgets one, and nothing yields more than an allocation for each month. *)
(***************************************************************************)
EXTENDS CourseCredits, FiniteSetTheorems, TLAPS

-----------------------------------------------------------------------------
(* Arithmetic of the ledger *)

\* The month of an earlier time is not a later month.
LEMMA DivMonotone ==
  ASSUME NEW a \in Nat, NEW b \in Nat, NEW k \in Nat \ {0}, a <= b
  PROVE  a \div k \in Nat /\ b \div k \in Nat /\ a \div k <= b \div k
<1>1. a \div k \in Int /\ b \div k \in Int /\ a = k * (a \div k) + (a % k) /\ b = k * (b \div k) + (b % k)
  OBVIOUS
<1>2. 0 <= a % k /\ a % k < k /\ 0 <= b % k /\ b % k < k
  OBVIOUS
<1> DEFINE x == a \div k
           y == b \div k
<1>3. ASSUME x > y PROVE FALSE
  <2>1. k * x >= k * (y + 1)
    BY <1>1, <1>3
  <2> QED BY <1>1, <1>2, <2>1
<1>4. x >= 0 /\ y >= 0
  OBVIOUS
<1> QED BY <1>1, <1>3, <1>4

LEMMA PassedType ==
  ASSUME NEW b \in Nat, NEW t \in Nat
  PROVE  Passed(b, t) \in Nat
<1>1. CASE b <= t
  <2>1. t - b \in Nat
    BY <1>1
  <2>2. (t - b) \div Month \in Nat
    BY <2>1, DivMonotone, TimesAssumption
  <2> QED BY <1>1, <2>2 DEF Passed
<1> QED BY <1>1 DEF Passed

LEMMA LeastType ==
  ASSUME NEW a \in Nat, NEW b \in Nat
  PROVE  Least(a, b) \in Nat
BY DEF Least

LEMMA KeptType ==
  ASSUME NEW l \in Ledger, NEW p, NEW t \in Nat
  PROVE  Kept(l, p, t) \in Nat
BY DEF Kept, Ledger

LEMMA AccruedType ==
  ASSUME NEW l \in Ledger, NEW p \in Plans, NEW t \in Nat
  PROVE  Accrued(l, p, t) \in Ledger
<1> DEFINE a == Allocation[p]
           cap == Cap[p]
           next == IF l.next # 0 THEN l.next ELSE t + Month
           returning == l.until # 0
           renewed == ~l.stored \/ (returning /\ (l.next = 0 \/ next <= t))
           first == IF ~l.stored THEN a
                    ELSE IF renewed THEN Least(cap, Kept(l, p, t) + a) ELSE Kept(l, p, t)
           granted == IF renewed THEN a ELSE l.granted
           resumed == IF returning THEN next + Month * Passed(next, t) ELSE next
           upgraded == (l.plan = "plus" \/ returning) /\ p = "pro" /\ granted < a
           second == IF upgraded THEN Least(cap, first + a - granted) ELSE first
           n == Passed(resumed, t)
<1>1. a \in Nat /\ cap \in Nat /\ Month \in Nat
  BY PlansAssumption, TimesAssumption
<1>2. l.next \in Nat /\ l.granted \in Nat /\ Kept(l, p, t) \in Nat
  BY KeptType DEF Ledger
<1>3. next \in Nat
  BY <1>1, <1>2
<1>4. granted \in Nat
  BY <1>1, <1>2
<1>5. first \in Nat
  <2>1. Kept(l, p, t) + a \in Nat
    BY <1>1, <1>2
  <2> QED BY <1>1, <1>2, <2>1, LeastType
<1>6. resumed \in Nat
  <2>1. Passed(next, t) \in Nat
    BY <1>3, PassedType
  <2>2. Month * Passed(next, t) \in Nat
    BY <1>1, <2>1
  <2> QED BY <1>3, <2>2
<1> HIDE DEF next, first, granted, resumed
<1>7. second \in Nat
  <2>1. upgraded => first + a - granted \in Nat
    BY <1>1, <1>4, <1>5
  <2> QED BY <1>1, <1>5, <2>1, LeastType
<1>8. n \in Nat
  BY <1>6, PassedType
<1> HIDE DEF second, n, upgraded
<1>9. n * a \in Nat /\ n * Month \in Nat
  BY <1>1, <1>8
<1>10. Least(cap, second + n * a) \in Nat
  <2>1. second + n * a \in Nat
    BY <1>7, <1>9
  <2> QED BY <1>1, <2>1, LeastType
<1>11. (IF upgraded \/ n > 0 THEN a ELSE granted) \in Nat
  BY <1>1, <1>4
<1>12. resumed + n * Month \in Nat
  BY <1>6, <1>9
<1>13. Accrued(l, p, t) = [stored |-> TRUE, plan |-> p, balance |-> Least(cap, second + n * a),
                          granted |-> IF upgraded \/ n > 0 THEN a ELSE granted,
                          next |-> resumed + n * Month, until |-> 0]
  BY DEF Accrued, next, first, granted, resumed, second, n, upgraded
<1> QED BY <1>10, <1>11, <1>12, <1>13 DEF Ledger

\* Bringing a ledger up to date keeps its type: nothing becomes negative.
LEMMA ReconciledType ==
  ASSUME NEW l \in Ledger, NEW p \in Plans, NEW t \in Nat
  PROVE  Reconciled(l, p, t) \in Ledger
<1>1. Frozen(l, t) \in Ledger
  <2> DEFINE until == IF l.until # 0 THEN l.until ELSE t + FreezeTicks
  <2>1. until \in Nat
    BY TimesAssumption DEF Ledger
  <2> HIDE DEF until
  <2>2. Frozen(l, t) = [stored |-> TRUE, plan |-> "free", balance |-> IF until <= t THEN 0 ELSE l.balance,
                       granted |-> l.granted, next |-> l.next, until |-> until]
    BY DEF Frozen, until
  <2> QED BY <2>1, <2>2 DEF Ledger, Plans
<1> QED BY <1>1, AccruedType DEF Reconciled

LEMMA GrantType ==
  ASSUME ledger \in Ledger, now \in Nat \ {0}, given \in [credits : Nat, since : Nat],
         NEW l \in Ledger, NEW t \in Nat, Grant(l, t)
  PROVE  given' \in [credits : Nat, since : Nat]
<1> DEFINE gain == l.balance - Kept(ledger, l.plan, t)
<1>1. gain \in Int
  BY KeptType DEF Ledger
<1>2. given.credits + (IF gain > 0 THEN gain ELSE 0) \in Nat
  BY <1>1
<1>3. (IF given.since = 0 /\ l.plan # "free" THEN now ELSE given.since) \in Nat
  OBVIOUS
<1> QED BY <1>2, <1>3 DEF Grant

-----------------------------------------------------------------------------
(* Steps of requests *)

Positions == {"idle", "record", "delete", "read", "settle"}

LEMMA Moved ==
  ASSUME request \in [Requests -> Request], NEW r \in Requests, NEW pc \in Positions, Goto(r, pc)
  PROVE  /\ request' \in [Requests -> Request]
         /\ \A q \in Requests \ {r} : request'[q] = request[q]
         /\ request'[r].pc = pc /\ request'[r].course = request[r].course
         /\ request'[r].now = request[r].now
<1>1. request[r] \in Request
  OBVIOUS
<1>2. request' = [request EXCEPT ![r] = [request[r] EXCEPT !.pc = pc]]
  BY DEF Goto
<1>3. [request[r] EXCEPT !.pc = pc] \in Request
  BY <1>1 DEF Request, Positions
<1>4. request'[r] = [request[r] EXCEPT !.pc = pc]
  BY <1>2
<1> QED BY <1>1, <1>2, <1>3, <1>4 DEF Request

LEMMA Answered ==
  ASSUME request \in [Requests -> Request], NEW r \in Requests, Answer(r)
  PROVE  /\ request' \in [Requests -> Request]
         /\ \A q \in Requests \ {r} : request'[q] = request[q]
         /\ request'[r] = Idle
<1>1. Idle \in Request
  BY DEF Idle, Request, Plans
<1> QED BY <1>1 DEF Answer

\* A request at work has a course, and its times are within the behaviour.
Bounds ==
  /\ now <= MaxTime
  /\ \A r \in Requests : request[r].now <= MaxTime
  /\ \A r \in Requests : request[r].pc # "idle" => request[r].course \in Courses

\* A step of request r, from one place to another.
LEMMA BoundsMoved ==
  ASSUME TypeOK, Bounds, NEW r \in Requests, now' = now,
         \/ Answer(r)
         \/ \E pc \in Positions : Goto(r, pc) /\ request[r].pc # "idle"
  PROVE  Bounds' /\ request' \in [Requests -> Request]
<1>1. request \in [Requests -> Request]
  BY DEF TypeOK
<1>2. CASE Answer(r)
  <2>1. /\ request' \in [Requests -> Request]
        /\ \A q \in Requests \ {r} : request'[q] = request[q]
        /\ request'[r] = Idle
    BY <1>1, <1>2, Answered
  <2>2. Idle.now <= MaxTime /\ Idle.pc = "idle"
    BY TimesAssumption DEF Idle
  <2> QED BY <2>1, <2>2 DEF Bounds
<1>3. CASE \E pc \in Positions : Goto(r, pc) /\ request[r].pc # "idle"
  <2>1. PICK pc \in Positions : Goto(r, pc) /\ request[r].pc # "idle"
    BY <1>3
  <2>2. /\ request' \in [Requests -> Request]
        /\ \A q \in Requests \ {r} : request'[q] = request[q]
        /\ request'[r].pc = pc /\ request'[r].course = request[r].course
        /\ request'[r].now = request[r].now
    BY <1>1, <2>1, Moved
  <2> QED BY <2>1, <2>2 DEF Bounds
<1> QED BY <1>2, <1>3

-----------------------------------------------------------------------------
(* Types *)

LEMMA TypeInit ==
  ASSUME Init
  PROVE  TypeOK /\ Bounds
<1>1. Idle \in Request /\ Idle.now = 0 /\ Idle.pc = "idle"
  BY DEF Idle, Request, Plans
<1>2. request \in [Requests -> Request] /\ \A r \in Requests : request[r] = Idle
  BY <1>1 DEF Init
<1>3. Bounds
  BY <1>1, <1>2, TimesAssumption DEF Init, Bounds
<1>4. ledger \in Ledger /\ given \in [credits : Nat, since : Nat]
  BY DEF Init, Ledger, Plans
<1>5. course \in [Courses -> Course] /\ intent \in [Courses -> Intent]
  BY DEF Init, Course, Intent
<1> QED BY <1>2, <1>3, <1>4, <1>5 DEF Init, TypeOK, Plans

\* The month of a time within the behaviour is one of its months.
LEMMA MonthType ==
  ASSUME NEW t \in Nat, t <= MaxTime
  PROVE  t \div Month \in Months
<1>1. t \div Month \in Nat /\ MaxTime \div Month \in Nat /\ t \div Month <= MaxTime \div Month
  BY DivMonotone, TimesAssumption
<1> QED BY <1>1 DEF Months

LEMMA IntentType ==
  ASSUME TypeOK, NEW c \in Courses, NEW outcome \in {"refunded", "already", "cap"}, SettleIntent(c, outcome)
  PROVE  /\ intent' \in [Courses -> Intent]
         /\ \A d \in Courses \ {c} : intent'[d] = intent[d]
         /\ intent[c].status = "pending" => intent'[c].outcome = outcome
         /\ intent[c].status # "pending" => intent'[c] = intent[c]
<1>1. intent \in [Courses -> Intent] /\ intent[c] \in Intent
  BY DEF TypeOK
<1>2. CASE intent[c].status = "pending"
  <2> DEFINE i == [status |-> "settled", at |-> intent[c].at, outcome |-> outcome]
  <2>1. i \in Intent
    BY <1>1 DEF Intent
  <2>2. intent' = [intent EXCEPT ![c] = i]
    BY <1>2 DEF SettleIntent
  <2> QED BY <1>1, <1>2, <2>1, <2>2
<1>3. CASE intent[c].status # "pending"
  BY <1>1, <1>3 DEF SettleIntent
<1> QED BY <1>2, <1>3

LEMMA TypeNext ==
  ASSUME TypeOK, Bounds, [Next]_vars
  PROVE  TypeOK' /\ Bounds'
<1>t. /\ now \in Nat \ {0} /\ plan \in Plans /\ ledger \in Ledger
      /\ claim \in [Courses -> {"none", "reserved", "completed", "released"}]
      /\ course \in [Courses -> Course] /\ intent \in [Courses -> Intent]
      /\ refund \in [Courses -> Months \cup {-1}] /\ refunds \in [Months -> Nat]
      /\ request \in [Requests -> Request] /\ given \in [credits : Nat, since : Nat]
  BY DEF TypeOK
<1>1. CASE Tick
  <2>1. now' \in Nat \ {0} /\ now' <= MaxTime
    BY <1>1, <1>t, TimesAssumption DEF Tick
  <2> QED BY <1>1, <1>t, <2>1 DEF Tick, others, TypeOK, Bounds
<1>2. CASE courseCreditSummaryForAccount
  <2> DEFINE l == Reconciled(ledger, plan, now)
  <2>1. l \in Ledger
    BY <1>t, ReconciledType
  <2>2. given' \in [credits : Nat, since : Nat]
    BY <1>2, <1>t, <2>1, GrantType DEF courseCreditSummaryForAccount
  <2> QED BY <1>2, <1>t, <2>1, <2>2 DEF courseCreditSummaryForAccount, others, TypeOK, Bounds
<1>3. CASE Lapse
  BY <1>3, <1>t DEF Lapse, TypeOK, Bounds, Plans
<1>4. ASSUME NEW p \in Plans, Subscription(p) PROVE TypeOK' /\ Bounds'
  <2> DEFINE l == Reconciled(ledger, p, now)
  <2>1. l \in Ledger
    BY <1>t, ReconciledType
  <2>2. given' \in [credits : Nat, since : Nat]
    BY <1>4, <1>t, <2>1, GrantType DEF Subscription
  <2> QED BY <1>4, <1>t, <2>1, <2>2 DEF Subscription, TypeOK, Bounds
<1>5. ASSUME NEW c \in Courses, Reserve(c) PROVE TypeOK' /\ Bounds'
  <2> DEFINE l == Reconciled(ledger, plan, now)
  <2>1. l \in Ledger
    BY <1>t, ReconciledType
  <2>2. given' \in [credits : Nat, since : Nat]
    BY <1>5, <1>t, <2>1, GrantType DEF Reserve
  <2>3. ledger' = [l EXCEPT !.balance = l.balance - 1] /\ l.balance > 0
    BY <1>5 DEF Reserve
  <2> HIDE DEF l
  <2>4. ledger' \in Ledger
    BY <2>1, <2>3 DEF Ledger
  <2>5. claim' \in [Courses -> {"none", "reserved", "completed", "released"}]
    BY <1>5, <1>t DEF Reserve
  <2> QED BY <1>5, <1>t, <2>2, <2>4, <2>5 DEF Reserve, TypeOK, Bounds
<1>6. ASSUME NEW c \in Courses, Complete(c) PROVE TypeOK' /\ Bounds'
  <2>1. [status |-> "live", redeemed |-> now] \in Course
    BY <1>t DEF Course
  <2>2. course' \in [Courses -> Course]
    BY <1>6, <1>t, <2>1 DEF Complete
  <2>3. claim' \in [Courses -> {"none", "reserved", "completed", "released"}]
    BY <1>6, <1>t DEF Complete
  <2> QED BY <1>6, <1>t, <2>2, <2>3 DEF Complete, TypeOK, Bounds
<1>7. ASSUME NEW c \in Courses, Release(c) PROVE TypeOK' /\ Bounds'
  <2>1. ledger' \in Ledger
    BY <1>7, <1>t DEF Release, Ledger
  <2>2. claim' \in [Courses -> {"none", "reserved", "completed", "released"}]
    BY <1>7, <1>t DEF Release
  <2> QED BY <1>7, <1>t, <2>1, <2>2 DEF Release, TypeOK, Bounds
<1>8. ASSUME NEW r \in Requests, NEW c \in Courses, Enter(r, c) PROVE TypeOK' /\ Bounds'
  <2> DEFINE q == [pc |-> IF course[c].status = "live" THEN "record" ELSE "read", course |-> c,
                   plan |-> plan, redeemed |-> course[c].redeemed, now |-> 0]
  <2>1. course[c].redeemed \in Nat
    BY <1>t DEF Course
  <2>2. q \in Request
    BY <1>t, <2>1 DEF Request
  <2>3. request' = [request EXCEPT ![r] = q]
    BY <1>8 DEF Enter
  <2>4. q.now = 0 /\ q.course \in Courses
    OBVIOUS
  <2> HIDE DEF q
  <2>5. request' \in [Requests -> Request]
    BY <1>t, <2>2, <2>3
  <2>6. Bounds'
    BY <1>8, <1>t, <2>3, <2>4, TimesAssumption DEF Enter, Bounds
  <2> QED BY <1>8, <1>t, <2>5, <2>6 DEF Enter, TypeOK
<1>9. ASSUME NEW r \in Requests, Record(r) PROVE TypeOK' /\ Bounds'
  <2>1. Bounds' /\ request' \in [Requests -> Request]
    BY <1>9, BoundsMoved DEF Record, Positions
  <2>2. [status |-> "pending", at |-> now, outcome |-> "none"] \in Intent
    BY <1>t DEF Intent
  <2>3. intent' \in [Courses -> Intent]
    BY <1>9, <1>t, <2>2 DEF Record
  <2> QED BY <1>9, <1>t, <2>1, <2>3 DEF Record, TypeOK
<1>10. ASSUME NEW r \in Requests, Delete(r) PROVE TypeOK' /\ Bounds'
  <2>1. Bounds' /\ request' \in [Requests -> Request]
    BY <1>10, BoundsMoved DEF Delete, Positions
  <2> DEFINE c == request[r].course
  <2>2. c \in Courses
    BY <1>10 DEF Delete, Bounds
  <2>3. [status |-> "deleted", redeemed |-> course[c].redeemed] \in Course
    BY <1>t, <2>2 DEF Course
  <2>4. course' \in [Courses -> Course]
    BY <1>10, <1>t, <2>3 DEF Delete, Deleted
  <2> QED BY <1>10, <1>t, <2>1, <2>4 DEF Delete, TypeOK
<1>11. ASSUME NEW r \in Requests, ReadIntent(r) PROVE TypeOK' /\ Bounds'
  <2>1. CASE Answer(r)
    <3>1. Bounds' /\ request' \in [Requests -> Request]
      BY <1>11, <2>1, BoundsMoved DEF ReadIntent
    <3> QED BY <1>11, <1>t, <3>1 DEF ReadIntent, TypeOK
  <2>2. CASE ~Answer(r)
    <3> DEFINE q == [pc |-> "settle", course |-> request[r].course, plan |-> request[r].plan,
                     redeemed |-> request[r].redeemed, now |-> now]
    <3>1. request' = [request EXCEPT ![r] = q]
      BY <1>11, <2>2 DEF ReadIntent
    <3>2. q \in Request
      BY <1>t DEF Request
    <3>3. q.now = now /\ q.course \in Courses
      BY <1>11 DEF ReadIntent, Bounds
    <3> HIDE DEF q
    <3>4. request' \in [Requests -> Request]
      BY <1>t, <3>1, <3>2
    <3>5. Bounds'
      BY <1>11, <1>t, <3>1, <3>3 DEF ReadIntent, Bounds
    <3> QED BY <1>11, <1>t, <3>4, <3>5 DEF ReadIntent, TypeOK
  <2> QED BY <2>1, <2>2
<1>12. ASSUME NEW r \in Requests, Settle(r) PROVE TypeOK' /\ Bounds'
  <2> DEFINE c == request[r].course
             m == request[r].now \div Month
             l == Reconciled(ledger, request[r].plan, request[r].now)
  <2>1. Bounds' /\ request' \in [Requests -> Request]
    BY <1>12, BoundsMoved DEF Settle
  <2>2. c \in Courses
    BY <1>12 DEF Settle, Bounds
  <2>3. request[r].now \in Nat /\ request[r].now <= MaxTime /\ request[r].plan \in Plans
    BY <1>t DEF Bounds, Request
  <2>4. m \in Months /\ l \in Ledger
    BY <1>t, <2>3, MonthType, ReconciledType
  <2> HIDE DEF c, m, l
  <2>5. CASE SettleIntent(c, "already") /\ UNCHANGED <<ledger, refund, refunds, given>>
    <3>1. intent' \in [Courses -> Intent]
      BY <2>2, <2>5, IntentType
    <3> QED BY <1>12, <1>t, <2>1, <2>5, <3>1 DEF Settle, TypeOK
  <2>6. CASE SettleIntent(c, "cap") /\ ledger' = l /\ Grant(l, request[r].now) /\ UNCHANGED <<refund, refunds>>
    <3>1. intent' \in [Courses -> Intent]
      BY <2>2, <2>6, IntentType
    <3>2. given' \in [credits : Nat, since : Nat]
      BY <1>t, <2>3, <2>4, <2>6, GrantType
    <3> QED BY <1>12, <1>t, <2>1, <2>4, <2>6, <3>1, <3>2 DEF Settle, TypeOK
  <2>7. CASE /\ SettleIntent(c, "refunded")
             /\ ledger' = [l EXCEPT !.balance = Least(Cap[l.plan], l.balance + 1)] /\ Grant(l, request[r].now)
             /\ refund' = [refund EXCEPT ![c] = m] /\ refunds' = [refunds EXCEPT ![m] = refunds[m] + 1]
    <3>1. intent' \in [Courses -> Intent]
      BY <2>2, <2>7, IntentType
    <3>2. given' \in [credits : Nat, since : Nat]
      BY <1>t, <2>3, <2>4, <2>7, GrantType
    <3>3. l.balance + 1 \in Nat /\ Cap[l.plan] \in Nat
      BY <2>4, PlansAssumption DEF Ledger
    <3>4. Least(Cap[l.plan], l.balance + 1) \in Nat
      BY <3>3, LeastType
    <3>5. ledger' \in Ledger
      BY <2>4, <2>7, <3>4 DEF Ledger
    <3>6. refund' \in [Courses -> Months \cup {-1}] /\ refunds' \in [Months -> Nat]
      BY <1>t, <2>2, <2>4, <2>7
    <3> QED BY <1>12, <1>t, <2>1, <3>1, <3>2, <3>5, <3>6 DEF Settle, TypeOK
  <2> QED BY <1>12, <2>5, <2>6, <2>7 DEF Settle, c, m, l
<1>13. ASSUME NEW r \in Requests, Crash(r) PROVE TypeOK' /\ Bounds'
  <2>1. Bounds' /\ request' \in [Requests -> Request]
    BY <1>13, BoundsMoved DEF Crash
  <2> QED BY <1>13, <1>t, <2>1 DEF Crash, TypeOK
<1>14. CASE UNCHANGED vars
  BY <1>14 DEF vars, TypeOK, Bounds
<1> QED BY <1>1, <1>2, <1>3, <1>4, <1>5, <1>6, <1>7, <1>8, <1>9, <1>10, <1>11, <1>12, <1>13, <1>14 DEF Next

\* The state always has its type: no balance, refund or time becomes negative
\* and no refund falls into a month outside the behaviour.
THEOREM TypeCorrect == Spec => []TypeOK
<1>1. Init => TypeOK /\ Bounds
  BY TypeInit
<1>2. TypeOK /\ Bounds /\ [Next]_vars => TypeOK' /\ Bounds'
  BY TypeNext
<1> QED BY <1>1, <1>2, PTL DEF Spec

-----------------------------------------------------------------------------
(* Deletions and refunds *)

\* A deleted course is accounted for, or remembered.
Recoverable(c) == refund[c] # -1 \/ intent[c].status = "pending" \/ intent[c].outcome = "cap"

\* A course exists only for a completed claim, so a deleted one does not come
\* back; the requests know what they have done.
Facts ==
  /\ \A c \in Courses : course[c].status # "none" => claim[c] = "completed"
  /\ \A c \in Courses : refund[c] # -1 => course[c].status = "deleted"
  /\ \A c \in Courses : course[c].status = "deleted" => Recoverable(c)
  /\ \A r \in Requests : request[r].pc \in {"read", "settle"} => course[request[r].course].status = "deleted"
  /\ \A r \in Requests : request[r].pc = "delete" => Recoverable(request[r].course)
  /\ \A r \in Requests : request[r].pc # "idle" => course[request[r].course].status # "none"

\* The counter of a month is the number of its refunds.
Counted ==
  \A m \in Months : refunds[m] = Cardinality({c \in Courses : refund[c] = m}) /\ refunds[m] <= MonthlyCap

IInv == TypeOK /\ Bounds /\ Facts /\ Counted

LEMMA FactsInit ==
  ASSUME Init
  PROVE  Facts /\ Counted
<1>1. Facts
  BY DEF Init, Facts, Recoverable, Idle
<1>2. ASSUME NEW m \in Months PROVE refunds[m] = Cardinality({c \in Courses : refund[c] = m}) /\ refunds[m] <= MonthlyCap
  <2>1. {c \in Courses : refund[c] = m} = {}
    BY DEF Init, Months
  <2>2. Cardinality({c \in Courses : refund[c] = m}) = 0
    BY <2>1, FS_EmptySet
  <2>3. refunds[m] = 0
    BY DEF Init
  <2> QED BY <2>2, <2>3, TimesAssumption
<1> QED BY <1>1, <1>2 DEF Counted

\* A request that goes on or is answered, while no document changes.
LEMMA FactsMoved ==
  ASSUME TypeOK, Facts, NEW r \in Requests, UNCHANGED <<claim, course, intent, refund>>, Answer(r)
  PROVE  Facts'
<1>1. /\ \A q \in Requests \ {r} : request'[q] = request[q]
      /\ request'[r] = Idle /\ Idle.pc = "idle"
  BY Answered DEF TypeOK, Idle
<1> QED BY <1>1 DEF Facts, Recoverable

LEMMA FactsNext ==
  ASSUME TypeOK, Bounds, Facts, [Next]_vars
  PROVE  Facts'
<1>t. /\ claim \in [Courses -> {"none", "reserved", "completed", "released"}]
      /\ course \in [Courses -> Course] /\ intent \in [Courses -> Intent]
      /\ refund \in [Courses -> Months \cup {-1}] /\ request \in [Requests -> Request]
  BY DEF TypeOK
<1>1. CASE Tick \/ courseCreditSummaryForAccount \/ Lapse \/ UNCHANGED vars
  BY <1>1 DEF Tick, courseCreditSummaryForAccount, Lapse, vars, others, Facts, Recoverable
<1>2. ASSUME NEW p \in Plans, Subscription(p) PROVE Facts'
  BY <1>2 DEF Subscription, Facts, Recoverable
<1>3. ASSUME NEW c \in Courses, Reserve(c) \/ Release(c) PROVE Facts'
  <2>1. claim[c] # "completed" /\ UNCHANGED <<course, intent, refund, request>>
    BY <1>3 DEF Reserve, Release
  <2>2. \A d \in Courses \ {c} : claim'[d] = claim[d]
    BY <1>3, <1>t DEF Reserve, Release
  <2>3. course[c].status = "none"
    BY <2>1 DEF Facts
  <2> QED BY <2>1, <2>2, <2>3 DEF Facts, Recoverable
<1>4. ASSUME NEW c \in Courses, Complete(c) PROVE Facts'
  <2>1. claim[c] # "completed" /\ UNCHANGED <<intent, refund, request>>
    BY <1>4 DEF Complete
  <2>2. /\ claim'[c] = "completed" /\ course'[c].status = "live"
        /\ \A d \in Courses \ {c} : claim'[d] = claim[d] /\ course'[d] = course[d]
    BY <1>4, <1>t DEF Complete
  <2>3. course[c].status = "none" /\ refund[c] = -1
    BY <2>1 DEF Facts
  <2>4. \A r \in Requests : request[r].pc # "idle" => request[r].course \in Courses \ {c}
    BY <2>3 DEF Facts, Bounds
  <2> QED BY <2>1, <2>2, <2>3, <2>4 DEF Facts, Recoverable
<1>5. ASSUME NEW r \in Requests, NEW c \in Courses, Enter(r, c) PROVE Facts'
  <2> DEFINE q == [pc |-> IF course[c].status = "live" THEN "record" ELSE "read", course |-> c,
                   plan |-> plan, redeemed |-> course[c].redeemed, now |-> 0]
  <2>1. request' = [request EXCEPT ![r] = q] /\ UNCHANGED <<claim, course, intent, refund>>
    BY <1>5 DEF Enter
  <2>2. course[c].status # "none" /\ course[c].status \in {"none", "live", "deleted"}
    BY <1>5, <1>t DEF Enter, Course
  <2>3. q.course = c /\ q.pc # "delete" /\ (q.pc = "read" => course[c].status = "deleted") /\ q.pc # "settle"
    BY <2>2
  <2> HIDE DEF q
  <2>4. request'[r] = q /\ \A s \in Requests \ {r} : request'[s] = request[s]
    BY <1>t, <2>1
  <2> QED BY <2>1, <2>2, <2>3, <2>4 DEF Facts, Recoverable
<1>6. ASSUME NEW r \in Requests, Record(r) PROVE Facts'
  <2>0. PICK c \in Courses : c = request[r].course
    BY <1>6 DEF Record, Bounds
  <2>1. UNCHANGED <<claim, course, refund>>
    BY <1>6 DEF Record
  <2>2. /\ \A q \in Requests \ {r} : request'[q] = request[q]
        /\ request'[r].pc = "delete" /\ request'[r].course = c
    BY <1>6, <1>t, <2>0, Moved DEF Record, Positions
  <2>3. intent'[c].status = "pending" /\ \A d \in Courses \ {c} : intent'[d] = intent[d]
    BY <1>6, <1>t, <2>0 DEF Record
  <2>4. \A d \in Courses : Recoverable(d) => Recoverable(d)'
    BY <2>1, <2>3 DEF Recoverable
  <2>5. Recoverable(c)'
    BY <2>3 DEF Recoverable
  <2>6. \A q \in Requests : request'[q].pc = "delete" => (Recoverable(request[q].course))'
    <3> SUFFICES ASSUME NEW q \in Requests, request'[q].pc = "delete"
                 PROVE  (Recoverable(request[q].course))'
      OBVIOUS
    <3>1. CASE q = r
      BY <2>2, <2>5, <3>1 DEF Recoverable
    <3>2. CASE q # r
      <4>1. request[q].course \in Courses /\ Recoverable(request[q].course) /\ request'[q] = request[q]
        BY <2>2, <3>2 DEF Facts, Bounds
      <4> QED BY <2>4, <4>1 DEF Recoverable
    <3> QED BY <3>1, <3>2
  <2>7. course[c].status # "none"
    BY <1>6, <2>0 DEF Record, Facts
  <2> QED BY <2>1, <2>2, <2>4, <2>6, <2>7 DEF Facts
<1>7. ASSUME NEW r \in Requests, Delete(r) PROVE Facts'
  <2>0. PICK c \in Courses : c = request[r].course
    BY <1>7 DEF Delete, Bounds
  <2>1. UNCHANGED <<claim, intent, refund>> /\ Recoverable(c)
    BY <1>7, <2>0 DEF Delete, Facts
  <2>2. /\ \A q \in Requests \ {r} : request'[q] = request[q]
        /\ request'[r].pc = "read" /\ request'[r].course = c
    BY <1>7, <1>t, <2>0, Moved DEF Delete, Positions
  <2>3. course'[c].status = "deleted" /\ \A d \in Courses \ {c} : course'[d] = course[d]
    BY <1>7, <1>t, <2>0 DEF Delete, Deleted
  <2>4. claim[c] = "completed"
    BY <1>7, <2>0 DEF Delete, Facts
  <2> QED BY <2>1, <2>2, <2>3, <2>4 DEF Facts, Recoverable, Bounds
<1>8. ASSUME NEW r \in Requests, ReadIntent(r) PROVE Facts'
  <2>1. UNCHANGED <<claim, course, intent, refund>>
    BY <1>8 DEF ReadIntent
  <2>2. CASE Answer(r)
    BY <2>1, <2>2, FactsMoved
  <2>3. CASE ~Answer(r)
    <3> DEFINE q == [pc |-> "settle", course |-> request[r].course, plan |-> request[r].plan,
                     redeemed |-> request[r].redeemed, now |-> now]
    <3>1. request' = [request EXCEPT ![r] = q] /\ request[r].pc = "read"
      BY <1>8, <2>3 DEF ReadIntent
    <3>2. q.course = request[r].course /\ q.pc = "settle"
      OBVIOUS
    <3> HIDE DEF q
    <3>3. request'[r] = q /\ \A s \in Requests \ {r} : request'[s] = request[s]
      BY <1>t, <3>1
    <3> QED BY <2>1, <3>1, <3>2, <3>3 DEF Facts, Recoverable
  <2> QED BY <2>2, <2>3
<1>9. ASSUME NEW r \in Requests, Settle(r) PROVE Facts'
  <2>0. PICK c \in Courses : c = request[r].course
    BY <1>9 DEF Settle, Bounds
  <2>1. course[c].status = "deleted" /\ UNCHANGED <<claim, course>>
    BY <1>9, <2>0 DEF Settle, Facts
  <2>2. /\ \A q \in Requests \ {r} : request'[q] = request[q]
        /\ request'[r].pc = "idle"
    BY <1>9, <1>t, Answered DEF Settle, Idle
  <2>3. PICK m \in Months : m = request[r].now \div Month
    <3>1. request[r].now \in Nat /\ request[r].now <= MaxTime
      BY <1>t DEF Bounds, Request
    <3> QED BY <3>1, MonthType
  <2>4. PICK outcome \in {"refunded", "already", "cap"} : SettleIntent(c, outcome)
    BY <1>9, <2>0 DEF Settle
  <2>5. \A d \in Courses \ {c} : intent'[d] = intent[d] /\ refund'[d] = refund[d]
    <3>1. \A d \in Courses \ {c} : intent'[d] = intent[d]
      BY <2>4, IntentType
    <3>2. \/ refund' = refund
          \/ refund' = [refund EXCEPT ![c] = m]
      BY <1>9, <2>0, <2>3 DEF Settle
    <3> QED BY <1>t, <3>1, <3>2
  <2>6. Recoverable(c)'
    <3>1. Recoverable(c)
      BY <2>1 DEF Facts
    <3>2. CASE Refunded(c) /\ UNCHANGED refund
      BY <3>2 DEF Refunded, Recoverable
    <3>3. CASE SettleIntent(c, "cap") /\ UNCHANGED refund
      <4>1. /\ intent[c].status = "pending" => intent'[c].outcome = "cap"
            /\ intent[c].status # "pending" => intent'[c] = intent[c]
        BY <2>1, <3>3, IntentType
      <4> QED BY <3>1, <3>3, <4>1 DEF Recoverable
    <3>4. CASE refund' = [refund EXCEPT ![c] = m]
      <4>1. refund'[c] = m /\ m # -1
        BY <1>t, <2>1, <2>3, <3>4 DEF Months
      <4> QED BY <4>1 DEF Recoverable
    <3> QED BY <1>9, <2>0, <2>3, <3>2, <3>3, <3>4 DEF Settle
  <2> QED BY <2>1, <2>2, <2>5, <2>6 DEF Facts, Recoverable, Bounds
<1>10. ASSUME NEW r \in Requests, Crash(r) PROVE Facts'
  BY <1>10, FactsMoved DEF Crash
<1> QED BY <1>1, <1>2, <1>3, <1>4, <1>5, <1>6, <1>7, <1>8, <1>9, <1>10 DEF Next

LEMMA CountedNext ==
  ASSUME TypeOK, Bounds, Counted, [Next]_vars
  PROVE  Counted'
<1>t. refund \in [Courses -> Months \cup {-1}] /\ refunds \in [Months -> Nat]
  BY DEF TypeOK
<1>1. CASE UNCHANGED <<refund, refunds>>
  BY <1>1 DEF Counted
<1>2. ASSUME NEW r \in Requests, Settle(r) PROVE Counted'
  <2>1. PICK c \in Courses : c = request[r].course
    BY <1>2 DEF Settle, Bounds
  <2>2. PICK m \in Months : m = request[r].now \div Month
    <3>1. request[r].now \in Nat /\ request[r].now <= MaxTime
      BY DEF Bounds, TypeOK, Request
    <3> QED BY <3>1, MonthType
  <2>3. CASE /\ ~Refunded(c) /\ ~LimitReached(m)
             /\ refund' = [refund EXCEPT ![c] = m] /\ refunds' = [refunds EXCEPT ![m] = refunds[m] + 1]
    <3> SUFFICES ASSUME NEW k \in Months
                 PROVE  refunds'[k] = Cardinality({d \in Courses : refund'[d] = k}) /\ refunds'[k] <= MonthlyCap
      BY DEF Counted
    <3>1. refunds[k] = Cardinality({d \in Courses : refund[d] = k}) /\ refunds[k] <= MonthlyCap
      BY DEF Counted
    <3>2. CASE k = m
      <4>1. {d \in Courses : refund'[d] = k} = {d \in Courses : refund[d] = k} \cup {c}
        BY <1>t, <2>3, <3>2
      <4>2. c \notin {d \in Courses : refund[d] = k}
        BY <2>3 DEF Refunded, Months
      <4>3. IsFiniteSet({d \in Courses : refund[d] = k})
        BY FiniteAssumption, FS_Subset
      <4>4. Cardinality({d \in Courses : refund'[d] = k}) = Cardinality({d \in Courses : refund[d] = k}) + 1
        BY <4>1, <4>2, <4>3, FS_AddElement
      <4>5. refunds'[k] = refunds[k] + 1 /\ refunds[k] < MonthlyCap /\ refunds[k] \in Nat
        BY <1>t, <2>3, <3>2, TimesAssumption DEF LimitReached
      <4> QED BY <3>1, <4>4, <4>5, TimesAssumption
    <3>3. CASE k # m
      <4>1. {d \in Courses : refund'[d] = k} = {d \in Courses : refund[d] = k}
        BY <1>t, <2>3, <3>3 DEF Refunded, Months
      <4>2. refunds'[k] = refunds[k]
        BY <1>t, <2>3, <3>3
      <4> QED BY <3>1, <4>1, <4>2
    <3> QED BY <3>2, <3>3
  <2> QED BY <1>1, <1>2, <2>1, <2>2, <2>3 DEF Settle
<1>3. UNCHANGED <<refund, refunds>> \/ \E r \in Requests : Settle(r)
  BY DEF Next, vars, others, Tick, courseCreditSummaryForAccount, Lapse, Subscription, Reserve, Complete, Release,
         Enter, Record, Delete, ReadIntent, Crash
<1> QED BY <1>1, <1>2, <1>3

-----------------------------------------------------------------------------
(* What the months yield *)

Most == Allocation["pro"]

LEMMA MostType == Most \in Nat /\ \A p \in Plans \ {"free"} : Allocation[p] \in Nat /\ Allocation[p] <= Most
<1>1. Plans \ {"free"} = {"plus", "pro"} /\ "plus" \in Plans /\ "pro" \in Plans
  BY DEF Plans
<1> QED BY <1>1, PlansAssumption, AllocationAssumption DEF Most

LEMMA TimesMonotone ==
  ASSUME NEW n \in Nat, NEW x \in Nat, NEW y \in Nat, x <= y
  PROVE  n * x \in Nat /\ n * y \in Nat /\ n * x <= n * y
<1>1. n * (y - x) \in Nat /\ n * x \in Nat /\ n * y \in Nat
  OBVIOUS
<1>2. n * y = n * x + n * (y - x)
  OBVIOUS
<1> QED BY <1>1, <1>2

\* The boundaries passed are those until t: the next one is within a month.
LEMMA PassedBounds ==
  ASSUME NEW b \in Nat, NEW t \in Nat, NEW n, n = Passed(b, t)
  PROVE  /\ n \in Nat
         /\ b > t => n = 0
         /\ b <= t => n >= 1 /\ b + n * Month > t /\ b + n * Month <= t + Month
<1>1. CASE b > t
  BY <1>1 DEF Passed
<1>2. CASE b <= t
  <2>1. PICK d \in Nat : d = t - b
    BY <1>2
  <2>2. PICK q : q = d \div Month
    OBVIOUS
  <2>3. Month \in Nat \ {0}
    BY TimesAssumption
  <2>4. q \in Nat /\ d = Month * q + (d % Month) /\ 0 <= d % Month /\ d % Month < Month
    <3>1. d \div Month \in Nat
      BY <2>3, DivMonotone
    <3>2. d = Month * (d \div Month) + (d % Month) /\ 0 <= d % Month /\ d % Month < Month
      BY <2>3
    <3> QED BY <2>2, <3>1, <3>2
  <2>5. n = q + 1
    BY <1>2, <2>1, <2>2 DEF Passed
  <2>6. n * Month = Month * q + Month /\ Month * q \in Nat
    BY <2>3, <2>4, <2>5
  <2>7. d % Month \in Nat
    BY <2>3
  <2> QED BY <1>2, <2>1, <2>3, <2>4, <2>5, <2>6, <2>7
<1> QED BY <1>1, <1>2

\* What the accrual yields beyond what is kept: an allocation for each month that
\* began, and what the last month's grant lacks.
LEMMA AccruedEarns ==
  ASSUME NEW l \in Ledger, NEW p \in Plans \ {"free"}, NEW t \in Nat, NEW m, m = Accrued(l, p, t),
         l.granted <= Most
  PROVE  /\ m.stored /\ m.plan = p /\ m.granted <= Most
         /\ l.next = 0 /\ l.granted = 0 => m.next = t + Month /\ m.balance <= Kept(l, p, t) + m.granted
         /\ l.next # 0 /\ l.stored =>
              \E j \in Nat : /\ m.next = l.next + j * Month
                             /\ j = 0 \/ m.next <= t + Month
                             /\ j >= 1 \/ m.granted >= l.granted
                             /\ m.balance <= Kept(l, p, t) + (Most * j + m.granted - l.granted)
<1>1. PICK a, cap, kept :
        a = Allocation[p] /\ cap = Cap[p] /\ kept = Kept(l, p, t)
  OBVIOUS
<1>2. /\ a \in Nat /\ a <= Most /\ Most \in Nat /\ cap \in Nat /\ kept \in Nat /\ Month \in Nat \ {0}
      /\ l.next \in Nat /\ l.granted \in Nat /\ l.until \in Nat
  BY <1>1, MostType, KeptType, PlansAssumption, TimesAssumption DEF Ledger
<1>3. PICK next : next = IF l.next # 0 THEN l.next ELSE t + Month
  OBVIOUS
<1>4. PICK renewed \in BOOLEAN : renewed <=> (~l.stored \/ (l.until # 0 /\ (l.next = 0 \/ next <= t)))
  OBVIOUS
<1>5. PICK first : first = IF ~l.stored THEN a ELSE IF renewed THEN Least(cap, kept + a) ELSE kept
  OBVIOUS
<1>6. PICK granted : granted = IF renewed THEN a ELSE l.granted
  OBVIOUS
<1>7. PICK passed : passed = Passed(next, t)
  OBVIOUS
<1>8. PICK resumed : resumed = IF l.until # 0 THEN next + Month * passed ELSE next
  OBVIOUS
<1>9. PICK upgraded \in BOOLEAN : upgraded <=> ((l.plan = "plus" \/ l.until # 0) /\ p = "pro" /\ granted < a)
  OBVIOUS
<1>10. PICK second : second = IF upgraded THEN Least(cap, first + a - granted) ELSE first
  OBVIOUS
<1>11. PICK n : n = Passed(resumed, t)
  OBVIOUS
<1>12. m = [stored |-> TRUE, plan |-> p, balance |-> Least(cap, second + n * a),
            granted |-> IF upgraded \/ n > 0 THEN a ELSE granted, next |-> resumed + n * Month, until |-> 0]
  BY <1>1, <1>3, <1>4, <1>5, <1>6, <1>7, <1>8, <1>9, <1>10, <1>11 DEF Accrued
<1>13. /\ m.stored /\ m.plan = p /\ m.next = resumed + n * Month
       /\ m.balance = Least(cap, second + n * a) /\ m.granted = IF upgraded \/ n > 0 THEN a ELSE granted
  BY <1>12
<1>14. next \in Nat /\ granted \in Nat /\ granted <= Most
  BY <1>2, <1>3, <1>6
<1>15. passed \in Nat /\ (next > t => passed = 0) /\ (next <= t => passed >= 1 /\ next + passed * Month > t /\ next + passed * Month <= t + Month)
  BY <1>7, <1>14, PassedBounds
<1>16. passed * Month = Month * passed /\ passed * Month \in Nat
  BY <1>2, <1>15
<1>17. resumed \in Nat
  BY <1>8, <1>14, <1>16
<1>18. n \in Nat /\ (resumed > t => n = 0) /\ (resumed <= t => n >= 1 /\ resumed + n * Month > t /\ resumed + n * Month <= t + Month)
  BY <1>11, <1>17, PassedBounds
<1>19. n * a \in Nat /\ n * Month \in Nat
  BY <1>2, <1>18
<1>l. \A x, y \in Nat : Least(x, y) \in Nat /\ Least(x, y) <= y
  BY DEF Least
<1>20. first \in Nat /\ first <= kept + (IF renewed THEN a ELSE 0)
  <2>1. kept + a \in Nat
    BY <1>2
  <2>2. Least(cap, kept + a) \in Nat /\ Least(cap, kept + a) <= kept + a
    BY <1>2, <1>l, <2>1
  <2> QED BY <1>2, <1>4, <1>5, <2>1, <2>2
<1>21. second \in Nat /\ second <= first + (IF upgraded THEN a - granted ELSE 0)
  <2>1. CASE upgraded
    <3>1. granted <= a /\ first + a - granted \in Nat
      BY <1>2, <1>9, <1>14, <1>20, <2>1
    <3> QED BY <1>2, <1>10, <1>14, <1>20, <1>l, <2>1, <3>1
  <2>2. CASE ~upgraded
    BY <1>10, <1>20, <2>2
  <2> QED BY <2>1, <2>2
<1>22. m.balance <= second + n * a
  BY <1>2, <1>13, <1>19, <1>21 DEF Least
<1>23. m.granted <= Most /\ m.granted \in Nat
  BY <1>2, <1>13, <1>14
<1>24. ASSUME l.next = 0, l.granted = 0 PROVE m.next = t + Month /\ m.balance <= kept + m.granted
  <2>1. next > t /\ passed = 0 /\ passed * Month = 0
    BY <1>2, <1>3, <1>15, <1>24
  <2>2. resumed = t + Month /\ n = 0
    BY <1>2, <1>3, <1>8, <1>16, <1>18, <1>24, <2>1
  <2>3. n * a = 0 /\ n * Month = 0
    BY <1>2, <2>2
  <2>4. second <= kept + (IF upgraded THEN a ELSE granted)
    BY <1>2, <1>6, <1>14, <1>20, <1>21, <1>24
  <2>5. m.next = t + Month /\ m.granted = IF upgraded THEN a ELSE granted
    BY <1>2, <1>13, <1>17, <2>2, <2>3
  <2>6. m.balance <= second + 0 /\ m.balance \in Nat
    <3>1. second + 0 \in Nat
      BY <1>21
    <3> QED BY <1>2, <1>13, <1>22, <1>l, <2>3, <3>1
  <2> QED BY <1>2, <1>14, <1>21, <2>4, <2>5, <2>6
<1>25. ASSUME l.next # 0, l.stored
       PROVE  \E j \in Nat : /\ m.next = l.next + j * Month
                             /\ j = 0 \/ m.next <= t + Month
                             /\ j >= 1 \/ m.granted >= l.granted
                             /\ m.balance <= kept + (Most * j + m.granted - l.granted)
  <2>1. next = l.next
    BY <1>3, <1>25
  <2>2. CASE renewed
    <3>1. l.until # 0 /\ next <= t
      BY <1>2, <1>4, <1>25, <2>1, <2>2
    <3>2. resumed = next + passed * Month /\ resumed > t /\ resumed <= t + Month /\ passed >= 1
      BY <1>8, <1>15, <1>16, <3>1
    <3>3. n = 0 /\ n * a = 0 /\ n * Month = 0
      BY <1>2, <1>18, <3>2
    <3>4. granted = a /\ ~upgraded
      BY <1>2, <1>6, <1>9, <2>2
    <3>5. m.next = l.next + passed * Month /\ m.next <= t + Month /\ m.granted = a /\ m.balance <= kept + a
      BY <1>2, <1>13, <1>17, <1>20, <1>21, <1>22, <1>23, <2>1, <2>2, <3>2, <3>3, <3>4 DEF Least
    <3>6. Most * 1 <= Most * passed /\ Most * 1 = Most /\ Most * passed \in Nat
      BY <1>2, <1>15, <3>2, TimesMonotone
    <3>7. m.balance \in Int
      BY <1>2, <1>13, <1>19, <1>21 DEF Least
    <3>8. m.balance <= kept + (Most * passed + m.granted - l.granted)
      BY <1>2, <3>5, <3>6, <3>7
    <3> QED BY <1>15, <3>2, <3>5, <3>8
  <2>3. CASE ~renewed
    <3>1. granted = l.granted /\ first <= kept
      BY <1>2, <1>6, <1>20, <2>3
    <3>2. resumed = next
      BY <1>2, <1>4, <1>8, <1>14, <1>15, <1>16, <1>25, <2>1, <2>3
    <3>3. m.next = l.next + n * Month /\ (n = 0 \/ m.next <= t + Month)
      BY <1>13, <1>17, <1>18, <2>1, <3>2
    <3>4. second <= kept + (IF upgraded THEN a ELSE granted) - l.granted
      BY <1>2, <1>14, <1>20, <1>21, <3>1
    <3>5. CASE n = 0
      <4>1. n * a = 0 /\ Most * n = 0
        BY <1>2, <3>5
      <4>2. m.granted = IF upgraded THEN a ELSE granted
        BY <1>13, <3>5
      <4>3. m.balance <= kept + (Most * n + m.granted - l.granted)
        BY <1>2, <1>13, <1>14, <1>21, <1>22, <3>4, <4>1, <4>2 DEF Least
      <4>4. m.granted >= l.granted
        BY <1>2, <1>9, <1>14, <3>1, <4>2
      <4> QED BY <1>18, <3>3, <4>3, <4>4
    <3>6. CASE n >= 1
      <4>1. PICK k \in Nat : n = k + 1
        BY <1>18, <3>6
      <4>2. n * a = k * a + a /\ Most * n = k * Most + Most
        BY <1>2, <4>1
      <4>3. k * a <= k * Most /\ k * a \in Nat /\ k * Most \in Nat
        BY <1>2, <4>1, TimesMonotone
      <4>4. m.granted = a /\ (IF upgraded THEN a ELSE granted) <= Most
        BY <1>2, <1>13, <1>14, <1>18, <3>6
      <4>5. m.balance \in Int
        BY <1>2, <1>13, <1>19, <1>21 DEF Least
      <4>6. m.balance <= kept + (Most * n + m.granted - l.granted)
        BY <1>2, <1>14, <1>21, <1>22, <3>4, <4>2, <4>3, <4>4, <4>5
      <4> QED BY <1>18, <3>3, <3>6, <4>6
    <3> QED BY <1>18, <3>5, <3>6
  <2> QED BY <2>2, <2>3
<1> QED BY <1>1, <1>13, <1>23, <1>24, <1>25

\* The months since the first grant are counted by the next boundary: there were
\* k of them before the one that runs, and what was granted fits them.
Earned ==
  /\ ledger.granted <= Most
  /\ given.since = 0 =>
       ledger.next = 0 /\ ledger.granted = 0 /\ given.credits = 0 /\ \A c \in Courses : claim[c] = "none"
  /\ given.since # 0 =>
       /\ ledger.stored /\ ledger.next # 0 /\ ledger.next <= now + Month
       /\ \E k \in Nat : /\ ledger.next = given.since + (k + 1) * Month
                         /\ given.credits <= Most * k + ledger.granted

\* No request reads a time that is still to come.
Past == \A r \in Requests : request[r].now <= now

LEMMA GrantEarns ==
  ASSUME TypeOK, Earned, NEW p \in Plans, NEW t \in Nat, t <= now, given.since = 0 => t = now,
         NEW l, l = Reconciled(ledger, p, t), Grant(l, t), now' = now,
         ledger'.next = l.next, ledger'.granted = l.granted, ledger'.stored = l.stored,
         given.since = 0 /\ p = "free" => \A c \in Courses : claim'[c] = "none"
  PROVE  Earned'
<1>1. PICK kept : kept = Kept(ledger, p, t)
  OBVIOUS
<1>2. /\ ledger \in Ledger /\ ledger.next \in Nat /\ ledger.granted \in Nat /\ ledger.balance \in Nat /\ ledger.until \in Nat
      /\ ledger.stored \in BOOLEAN /\ given.credits \in Nat /\ given.since \in Nat /\ now \in Nat \ {0} /\ kept \in Nat
      /\ l.balance \in Nat /\ l.next \in Nat /\ l.granted \in Nat /\ Month \in Nat \ {0} /\ Most \in Nat
  BY <1>1, KeptType, ReconciledType, TimesAssumption, MostType DEF TypeOK, Ledger
<1>3. ASSUME l.plan = p
      PROVE  /\ given'.credits = given.credits + IF l.balance - kept > 0 THEN l.balance - kept ELSE 0
             /\ given'.since = IF given.since = 0 /\ p # "free" THEN now ELSE given.since
  BY <1>1, <1>3 DEF Grant
<1>4. CASE p = "free"
  <2>1. l.plan = p /\ l.next = ledger.next /\ l.granted = ledger.granted /\ l.stored
    BY <1>4 DEF Reconciled, Frozen
  <2>2. l.balance <= kept
    BY <1>1, <1>2, <1>4 DEF Reconciled, Frozen, Kept
  <2>3. given'.credits = given.credits /\ given'.since = given.since
    BY <1>2, <1>3, <1>4, <2>1, <2>2
  <2> QED BY <1>4, <2>1, <2>3 DEF Earned
<1>5. CASE p # "free"
  <2>1. l = Accrued(ledger, p, t) /\ p \in Plans \ {"free"} /\ ledger.granted <= Most
    BY <1>5 DEF Reconciled, Earned
  <2>2. /\ l.stored /\ l.plan = p /\ l.granted <= Most
        /\ ledger.next = 0 /\ ledger.granted = 0 => l.next = t + Month /\ l.balance <= kept + l.granted
        /\ ledger.next # 0 /\ ledger.stored =>
             \E j \in Nat : /\ l.next = ledger.next + j * Month
                            /\ j = 0 \/ l.next <= t + Month
                            /\ j >= 1 \/ l.granted >= ledger.granted
                            /\ l.balance <= kept + (Most * j + l.granted - ledger.granted)
    <3>1. ledger \in Ledger
      BY <1>2
    <3> QED BY <1>1, <2>1, <3>1, AccruedEarns
  <2>3. CASE given.since = 0
    <3>1. ledger.next = 0 /\ ledger.granted = 0 /\ given.credits = 0 /\ t = now
      BY <2>3 DEF Earned
    <3>2. given'.since = now /\ ledger'.next = now + Month /\ given'.credits <= l.granted
      BY <1>2, <1>3, <1>5, <2>2, <2>3, <3>1
    <3>3. ledger'.next = given'.since + (0 + 1) * Month /\ given'.credits <= Most * 0 + ledger'.granted
      BY <1>2, <3>2
    <3>4. \E k \in Nat : ledger'.next = given'.since + (k + 1) * Month /\ given'.credits <= Most * k + ledger'.granted
      BY <3>3
    <3>5. given'.since # 0 /\ ledger'.next # 0 /\ ledger'.next <= now' + Month
      BY <1>2, <3>2
    <3> QED BY <2>2, <3>4, <3>5 DEF Earned
  <2>4. CASE given.since # 0
    <3>1. PICK k \in Nat : ledger.next = given.since + (k + 1) * Month /\ given.credits <= Most * k + ledger.granted
      BY <2>4 DEF Earned
    <3>2. ledger.stored /\ ledger.next # 0 /\ ledger.next <= now + Month /\ ledger.granted <= Most
      BY <2>4 DEF Earned
    <3>3. PICK j \in Nat : /\ l.next = ledger.next + j * Month
                           /\ j = 0 \/ l.next <= t + Month
                           /\ j >= 1 \/ l.granted >= ledger.granted
                           /\ l.balance <= kept + (Most * j + l.granted - ledger.granted)
      BY <2>2, <3>2
    <3>4. j * Month \in Nat /\ Most * j \in Nat /\ Most * k \in Nat
      BY <1>2
    <3>5. (k + 1) * Month + j * Month = (k + j + 1) * Month /\ (k + 1) * Month \in Nat /\ (k + j + 1) * Month \in Nat
      BY <1>2
    <3>6. Most * k + Most * j = Most * (k + j) /\ Most * (k + j) \in Nat
      BY <1>2
    <3>7. l.next = given.since + (k + j + 1) * Month
      BY <1>2, <3>1, <3>3, <3>4, <3>5
    <3>8. l.next <= now + Month /\ l.next # 0
      <4>1. CASE j = 0
        <5>1. j * Month = 0
          BY <1>2, <4>1
        <5> QED BY <1>2, <3>2, <3>3, <5>1
      <4>2. CASE j # 0
        BY <1>2, <3>2, <3>3, <3>4, <4>2
      <4> QED BY <4>1, <4>2
    <3>9. ledger.granted <= Most * j + l.granted
      <4>1. CASE j = 0
        <5>1. Most * j = 0
          BY <1>2, <4>1
        <5> QED BY <1>2, <3>3, <4>1, <5>1
      <4>2. CASE j >= 1
        <5>1. Most * 1 <= Most * j /\ Most * 1 = Most
          BY <1>2, <4>2, TimesMonotone
        <5> QED BY <1>2, <3>2, <3>4, <5>1
      <4> QED BY <4>1, <4>2
    <3>10. given'.credits <= Most * (k + j) + l.granted /\ given'.since = given.since
      <4>1. given'.since = given.since
        BY <1>3, <2>2, <2>4
      <4>2. PICK u, v : u = Most * k /\ v = Most * j
        OBVIOUS
      <4>3. u \in Nat /\ v \in Nat /\ Most * (k + j) = u + v
        BY <3>4, <3>6, <4>2
      <4>4. given.credits <= u + ledger.granted /\ l.balance <= kept + (v + l.granted - ledger.granted)
            /\ ledger.granted <= v + l.granted
        BY <3>1, <3>3, <3>9, <4>2
      <4>5. given'.credits <= (u + v) + l.granted
        BY <1>2, <1>3, <2>2, <4>3, <4>4
      <4> QED BY <4>1, <4>3, <4>5
    <3>11. k + j \in Nat
      OBVIOUS
    <3>12. \E i \in Nat : ledger'.next = given'.since + (i + 1) * Month /\ given'.credits <= Most * i + ledger'.granted
      BY <3>7, <3>10, <3>11
    <3> QED BY <2>2, <2>4, <3>8, <3>10, <3>12 DEF Earned
  <2> QED BY <2>3, <2>4
<1> QED BY <1>4, <1>5

\* The steps that leave the history of grants and the boundaries of the ledger.
LEMMA SameEarned ==
  ASSUME TypeOK, Earned, UNCHANGED given, now <= now', now' \in Nat,
         ledger'.next = ledger.next, ledger'.granted = ledger.granted, ledger'.stored = ledger.stored,
         given.since = 0 => claim' = claim
  PROVE  Earned'
<1>1. ledger.next \in Nat /\ now \in Nat /\ Month \in Nat
  BY TimesAssumption DEF TypeOK, Ledger
<1>2. ledger.next <= now + Month => ledger'.next <= now' + Month
  BY <1>1
<1> QED BY <1>2 DEF Earned

LEMMA EarnedNext ==
  ASSUME TypeOK, TypeOK', Bounds, Facts, Past, Earned, [Next]_vars
  PROVE  Past' /\ Earned'
<1>t. /\ request \in [Requests -> Request] /\ claim \in [Courses -> {"none", "reserved", "completed", "released"}]
      /\ ledger \in Ledger /\ now \in Nat \ {0} /\ now' \in Nat \ {0} /\ plan \in Plans
      /\ \A r \in Requests : request[r].now \in Nat /\ request[r].plan \in Plans
  BY DEF TypeOK, Request
<1>p. ASSUME now' = now, NEW r \in Requests, \A q \in Requests \ {r} : request'[q] = request[q],
             request'[r].now <= now
      PROVE  Past'
  BY <1>p DEF Past
<1>s. ASSUME UNCHANGED <<now, ledger, claim, given>> PROVE Earned'
  <2>1. now <= now'
    BY <1>t, <1>s
  <2> QED BY <1>t, <1>s, <2>1, SameEarned
<1>1. CASE Tick
  <2>1. now <= now' /\ UNCHANGED <<ledger, claim, given, request>>
    BY <1>t, <1>1 DEF Tick, others
  <2>2. Past'
    BY <1>t, <2>1 DEF Past
  <2> QED BY <1>t, <2>1, <2>2, SameEarned
<1>2. CASE courseCreditSummaryForAccount
  <2>1. Past'
    BY <1>2 DEF courseCreditSummaryForAccount, others, Past
  <2>2. Earned'
    <3>1. PICK l : l = Reconciled(ledger, plan, now)
      OBVIOUS
    <3>2. now <= now /\ now \in Nat
      BY <1>t
    <3>3. ledger' = l /\ Grant(l, now) /\ now' = now /\ claim' = claim
      BY <1>2, <3>1 DEF courseCreditSummaryForAccount, others
    <3>4. given.since = 0 => \A c \in Courses : claim'[c] = "none"
      BY <3>3 DEF Earned
    <3> QED BY <1>t, <3>1, <3>2, <3>3, <3>4, GrantEarns
  <2> QED BY <2>1, <2>2
<1>3. ASSUME NEW p \in Plans, Subscription(p) PROVE Past' /\ Earned'
  <2>1. Past'
    BY <1>3 DEF Subscription, Past
  <2>2. Earned'
    <3>1. PICK l : l = Reconciled(ledger, p, now)
      OBVIOUS
    <3>2. now <= now /\ now \in Nat
      BY <1>t
    <3>3. ledger' = l /\ Grant(l, now) /\ now' = now /\ claim' = claim
      BY <1>3, <3>1 DEF Subscription
    <3>4. given.since = 0 => \A c \in Courses : claim'[c] = "none"
      BY <3>3 DEF Earned
    <3> QED BY <1>t, <3>1, <3>2, <3>3, <3>4, GrantEarns
  <2> QED BY <2>1, <2>2
<1>4. ASSUME NEW c \in Courses, Reserve(c) PROVE Past' /\ Earned'
  <2>1. Past'
    BY <1>4 DEF Reserve, Past
  <2>2. Earned'
    <3>1. PICK l : l = Reconciled(ledger, plan, now)
      OBVIOUS
    <3>2. now <= now /\ now \in Nat /\ l \in Ledger
      BY <1>t, <3>1, ReconciledType
    <3>3. ledger' = [l EXCEPT !.balance = l.balance - 1] /\ Grant(l, now) /\ now' = now /\ plan # "free"
      BY <1>4, <3>1 DEF Reserve
    <3>4. ledger'.next = l.next /\ ledger'.granted = l.granted /\ ledger'.stored = l.stored
      BY <3>2, <3>3 DEF Ledger
    <3> QED BY <1>t, <3>1, <3>2, <3>3, <3>4, GrantEarns
  <2> QED BY <2>1, <2>2
<1>5. ASSUME NEW c \in Courses, Complete(c) \/ Release(c) PROVE Past' /\ Earned'
  <2>1. Past'
    BY <1>5 DEF Complete, Release, Past
  <2>2. claim[c] = "reserved" /\ UNCHANGED <<now, given>>
    BY <1>5 DEF Complete, Release
  <2>3. given.since # 0 /\ now <= now'
    BY <1>t, <2>2 DEF Earned
  <2>4. ledger'.next = ledger.next /\ ledger'.granted = ledger.granted /\ ledger'.stored = ledger.stored
    BY <1>t, <1>5 DEF Complete, Release, Ledger
  <2> QED BY <1>t, <2>1, <2>2, <2>3, <2>4, SameEarned
<1>6. CASE Lapse \/ UNCHANGED vars
  <2>1. Past' /\ UNCHANGED <<now, ledger, claim, given>>
    BY <1>6 DEF Lapse, vars, Past
  <2> QED BY <1>s, <2>1
<1>7. ASSUME NEW r \in Requests, Answer(r), now' = now PROVE Past'
  <2>1. (\A q \in Requests \ {r} : request'[q] = request[q]) /\ request'[r] = Idle
    BY <1>t, <1>7, Answered
  <2>2. request'[r].now = 0 /\ 0 <= now
    BY <1>t, <2>1 DEF Idle
  <2> QED BY <1>7, <1>p, <2>1, <2>2
<1>8. ASSUME NEW r \in Requests, NEW pc \in Positions, Goto(r, pc), now' = now PROVE Past'
  <2>1. (\A q \in Requests \ {r} : request'[q] = request[q]) /\ request'[r].now = request[r].now
    BY <1>t, <1>8, Moved
  <2> QED BY <1>8, <1>p, <2>1 DEF Past
<1>9. ASSUME NEW r \in Requests, NEW c \in Courses, Enter(r, c) PROVE Past' /\ Earned'
  <2>1. /\ \A q \in Requests \ {r} : request'[q] = request[q]
        /\ request'[r].now = 0 /\ 0 <= now /\ now' = now
    BY <1>t, <1>9 DEF Enter
  <2>2. Past'
    BY <1>p, <2>1
  <2>3. UNCHANGED <<now, ledger, claim, given>>
    BY <1>9 DEF Enter
  <2> QED BY <1>s, <2>2, <2>3
<1>10. ASSUME NEW r \in Requests, Record(r) \/ Delete(r) PROVE Past' /\ Earned'
  <2>1. (Goto(r, "delete") \/ Goto(r, "read")) /\ UNCHANGED <<now, ledger, claim, given>>
    BY <1>10 DEF Record, Delete
  <2>2. Past'
    BY <1>8, <2>1 DEF Positions
  <2> QED BY <1>s, <2>1, <2>2
<1>11. ASSUME NEW r \in Requests, ReadIntent(r) PROVE Past' /\ Earned'
  <2>1. UNCHANGED <<now, ledger, claim, given>>
    BY <1>11 DEF ReadIntent
  <2>2. CASE Answer(r)
    BY <1>7, <1>s, <2>1, <2>2
  <2>3. CASE ~Answer(r)
    <3>1. (\A q \in Requests \ {r} : request'[q] = request[q]) /\ request'[r].now = now /\ now <= now
      BY <1>t, <1>11, <2>3 DEF ReadIntent
    <3>2. Past'
      BY <1>p, <2>1, <3>1
    <3> QED BY <1>s, <2>1, <3>2
  <2> QED BY <2>2, <2>3
<1>12. ASSUME NEW r \in Requests, Crash(r) PROVE Past' /\ Earned'
  <2>1. Answer(r) /\ UNCHANGED <<now, ledger, claim, given>>
    BY <1>12 DEF Crash
  <2> QED BY <1>7, <1>s, <2>1
<1>13. ASSUME NEW r \in Requests, Settle(r) PROVE Past' /\ Earned'
  <2>1. request[r].pc = "settle" /\ Answer(r) /\ UNCHANGED <<now, claim>>
    BY <1>13 DEF Settle
  <2>2. Past'
    BY <1>7, <2>1
  <2>3. given.since # 0
    <3>1. request[r].course \in Courses /\ claim[request[r].course] = "completed"
      BY <2>1 DEF Bounds, Facts
    <3> QED BY <3>1 DEF Earned
  <2>4. PICK p, t, l : p = request[r].plan /\ t = request[r].now /\ l = Reconciled(ledger, p, t)
    OBVIOUS
  <2>5. p \in Plans /\ t \in Nat /\ t <= now /\ l \in Ledger
    BY <1>t, <2>4, ReconciledType DEF Past
  <2>6. CASE UNCHANGED <<ledger, given>>
    BY <1>s, <2>1, <2>2, <2>6
  <2>7. CASE Grant(l, t) /\ (ledger' = l \/ \E b : ledger' = [l EXCEPT !.balance = b])
    <3>1. ledger'.next = l.next /\ ledger'.granted = l.granted /\ ledger'.stored = l.stored
      BY <2>5, <2>7 DEF Ledger
    <3>2. Earned'
      BY <2>1, <2>3, <2>4, <2>5, <2>7, <3>1, GrantEarns
    <3> QED BY <2>2, <3>2
  <2> QED BY <1>13, <2>4, <2>6, <2>7 DEF Settle
<1> QED BY <1>1, <1>2, <1>3, <1>4, <1>5, <1>6, <1>9, <1>10, <1>11, <1>12, <1>13 DEF Next

-----------------------------------------------------------------------------
(* Theorems *)

LEMMA Invariance == Spec => []IInv
<1>1. Init => IInv
  BY TypeInit, FactsInit DEF IInv
<1>2. IInv /\ [Next]_vars => IInv'
  BY TypeNext, FactsNext, CountedNext DEF IInv
<1> QED BY <1>1, <1>2, PTL DEF Spec

\* refundCourseCreditForDeletedCourse: a course that lives was not refunded,
\* and a month's refunds are counted exactly and stay within the limit.
THEOREM RefundsAreCounted == Spec => []RefundsCounted
<1>1. IInv => RefundsCounted
  BY DEF IInv, Facts, Counted, RefundsCounted
<1> QED BY <1>1, Invariance, PTL

\* recordCourseCreditRefundIntent: whatever requests die, the credit of a
\* deleted course was restored, met the limit, or can still be settled.
THEOREM RefundsAreRecoverable == Spec => []RefundRecoverable
<1>1. IInv => RefundRecoverable
  BY DEF IInv, Facts, Recoverable, RefundRecoverable
<1> QED BY <1>1, Invariance, PTL

\* reconcileCourseCreditLedger: no order of upgrades, lapses, suspensions,
\* recoveries and refunds yields more than the largest allocation for each month
\* since the first grant.
THEOREM NothingIsFarmed == Spec => []NoFarming
<1>1. Init => IInv /\ Past /\ Earned
  <2>1. Init => Past /\ Earned
    BY MostType DEF Init, Past, Earned, Idle
  <2> QED BY <2>1, TypeInit, FactsInit DEF IInv
<1>2. IInv /\ Past /\ Earned /\ [Next]_vars => IInv' /\ Past' /\ Earned'
  BY TypeNext, FactsNext, CountedNext, EarnedNext DEF IInv
<1>3. IInv /\ Earned => NoFarming
  <2> SUFFICES ASSUME IInv, Earned, given.since # 0
               PROVE  given.credits <= Allocation["pro"] * ((now - given.since) \div Month + 1)
    BY DEF NoFarming
  <2>1. PICK k \in Nat : ledger.next = given.since + (k + 1) * Month /\ given.credits <= Most * k + ledger.granted
    BY DEF Earned
  <2>2. /\ given.since \in Nat /\ given.credits \in Nat /\ now \in Nat /\ ledger.granted \in Nat
        /\ Month \in Nat \ {0} /\ Most \in Nat
    BY TimesAssumption, MostType DEF IInv, TypeOK, Ledger
  <2>3. ledger.next <= now + Month /\ ledger.granted <= Most
    BY DEF Earned
  <2>4. (k + 1) * Month = Month * k + Month /\ Month * k \in Nat /\ (k + 1) * Month \in Nat
    BY <2>2
  <2>5. given.since + Month * k <= now
    BY <2>1, <2>2, <2>3, <2>4
  <2>6. PICK d \in Nat : d = now - given.since
    BY <2>2, <2>4, <2>5
  <2>7. PICK q : q = d \div Month
    OBVIOUS
  <2>8. q \in Nat /\ d = Month * q + (d % Month) /\ d % Month < Month /\ d % Month \in Nat
    <3>1. d \div Month \in Nat
      BY <2>2, DivMonotone
    <3>2. d = Month * (d \div Month) + (d % Month) /\ d % Month < Month /\ d % Month \in Nat
      BY <2>2
    <3> QED BY <2>7, <3>1, <3>2
  <2>9. k <= q
    <3>1. SUFFICES ASSUME k >= q + 1 PROVE FALSE
      BY <2>8
    <3>2. Month * (q + 1) <= Month * k /\ Month * (q + 1) = Month * q + Month /\ Month * q \in Nat
      BY <2>2, <2>8, <3>1, TimesMonotone
    <3> QED BY <2>2, <2>4, <2>5, <2>6, <2>8, <3>2
  <2>10. Most * k <= Most * q /\ Most * (q + 1) = Most * q + Most /\ Most * q \in Nat /\ Most * k \in Nat
    BY <2>2, <2>8, <2>9, TimesMonotone
  <2>11. given.credits <= Most * (q + 1)
    BY <2>1, <2>2, <2>3, <2>10
  <2> QED BY <2>6, <2>7, <2>11 DEF Most
<1> QED BY <1>1, <1>2, <1>3, PTL DEF Spec
=============================================================================
