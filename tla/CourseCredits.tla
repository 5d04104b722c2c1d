---------------------------- MODULE CourseCredits ----------------------------
(***************************************************************************)
(* The course credits of one account: the ledger that is brought up to     *)
(* date whenever it is used (src/lib/course-credit-policy.ts), and the     *)
(* deletion of courses, which restores a credit within a day               *)
(* (src/lib/course-credits.ts, DELETE of app/api/courses/[courseId]).      *)
(*                                                                         *)
(* Deletion and refund are several transactions.  A durable intent is      *)
(* recorded first, so that another request can finish a refund whose       *)
(* request died.  Time is counted in ticks of the refund window, months    *)
(* all have the same length, and an account that is suspended or unpaid    *)
(* has the plan "free".                                                    *)
(***************************************************************************)
EXTENDS Integers, FiniteSets

CONSTANTS Courses,      \* course ids
          Requests,     \* DELETE requests that may be served at once
          None,         \* not a course
          Allocation,   \* plan -> limits.courseCreditsPerMonth
          Cap,          \* plan -> limits.courseCreditBalanceCap
          Month,        \* ticks in a month
          FreezeTicks,  \* COURSE_CREDIT_FREEZE_MONTHS
          Window,       \* COURSE_CREDIT_BACK_WINDOW_MS
          MonthlyCap,   \* COURSE_CREDIT_BACK_MONTHLY_CAP
          MaxTime       \* bound: ticks in a behaviour

Plans == {"free", "plus", "pro"}

ASSUME PlansAssumption == Allocation \in [Plans -> Nat] /\ Cap \in [Plans -> Nat]
ASSUME AllocationAssumption == Allocation["plus"] <= Allocation["pro"]
ASSUME NoneAssumption == None \notin Courses
ASSUME TimesAssumption == {Month, MaxTime} \subseteq Nat \ {0} /\ {FreezeTicks, Window, MonthlyCap} \subseteq Nat
ASSUME FiniteAssumption == IsFiniteSet(Courses)

VARIABLES now,      \* the current tick, from 1 on; 0 stands for an absent date
          plan,     \* the plan the account is entitled to
          ledger,   \* courseCredits/current
          claim,    \* course -> status of the courseCreditClaims document
          course,   \* course -> [status, redeemed]
          intent,   \* course -> [status, at] of its courseCreditRefundIntents document
          refund,   \* course -> month of its courseCreditRefunds document, -1 if there is none
          refunds,  \* month -> refunds of its courseCreditRefundMonths document
          request,  \* DELETE request -> where it is and what it read
          given     \* credits granted, and the time of the first grant (history)

vars == <<now, plan, ledger, claim, course, intent, refund, refunds, request, given>>
others == <<plan, claim, course, intent, refund, refunds, request>>

Months == 0 .. MaxTime \div Month
Ledger == [stored : BOOLEAN, plan : Plans, balance : Nat, granted : Nat, next : Nat, until : Nat]
Course == [status : {"none", "live", "deleted"}, redeemed : Nat]
Intent == [status : {"none", "pending", "settled"}, at : Nat, outcome : {"none", "refunded", "already", "cap"}]
Request == [pc : {"idle", "record", "delete", "read", "settle"}, course : Courses \cup {None}, plan : Plans,
            redeemed : Nat, now : Nat]
Idle == [pc |-> "idle", course |-> None, plan |-> "free", redeemed |-> 0, now |-> 0]

TypeOK ==
  /\ now \in Nat \ {0}
  /\ plan \in Plans
  /\ ledger \in Ledger
  /\ claim \in [Courses -> {"none", "reserved", "completed", "released"}]
  /\ course \in [Courses -> Course]
  /\ intent \in [Courses -> Intent]
  /\ refund \in [Courses -> Months \cup {-1}]
  /\ refunds \in [Months -> Nat]
  /\ request \in [Requests -> Request]
  /\ given \in [credits : Nat, since : Nat]

Init ==
  /\ now = 1
  /\ plan = "free"
  /\ ledger = [stored |-> FALSE, plan |-> "free", balance |-> 0, granted |-> 0, next |-> 0, until |-> 0]
  /\ claim = [c \in Courses |-> "none"]
  /\ course = [c \in Courses |-> [status |-> "none", redeemed |-> 0]]
  /\ intent = [c \in Courses |-> [status |-> "none", at |-> 0, outcome |-> "none"]]
  /\ refund = [c \in Courses |-> -1]
  /\ refunds = [m \in Months |-> 0]
  /\ request = [r \in Requests |-> Idle]
  /\ given = [credits |-> 0, since |-> 0]

-----------------------------------------------------------------------------
(* reconcileCourseCreditLedger *)

Least(a, b) == IF a <= b THEN a ELSE b

\* Boundaries passed at time t, the next one being at b.
Passed(b, t) == IF b <= t THEN (t - b) \div Month + 1 ELSE 0

\* Mutant: the payment identity is cleared by a suspension or a lapse.
FrozenAnew(l, t) ==
  LET until == IF l.until # 0 THEN l.until ELSE t + FreezeTicks IN
  [stored |-> TRUE, plan |-> "free", balance |-> IF until <= t THEN 0 ELSE l.balance,
   granted |-> l.granted, next |-> 0, until |-> until]

\* Unpaid or suspended: what is left is frozen, and expires.
Frozen(l, t) ==
  LET until == IF l.until # 0 THEN l.until ELSE t + FreezeTicks IN
  [stored |-> TRUE, plan |-> "free", balance |-> IF until <= t THEN 0 ELSE l.balance,
   granted |-> l.granted, next |-> l.next, until |-> until]

\* What survives until now, before anything is granted.
Kept(l, p, t) == IF l.until # 0 /\ l.until <= t THEN 0 ELSE l.balance

\* A paid plan p: one allocation at first and at each boundary, of a frozen
\* time only the last, and on an upgrade what the month's allocation lacks.
Accrued(l, p, t) ==
  LET a == Allocation[p]
      next == IF l.next # 0 THEN l.next ELSE t + Month
      returning == l.until # 0
      renewed == ~l.stored \/ (returning /\ (l.next = 0 \/ next <= t))
      first == IF ~l.stored THEN a
               ELSE IF renewed THEN Least(Cap[p], Kept(l, p, t) + a) ELSE Kept(l, p, t)
      granted == IF renewed THEN a ELSE l.granted
      resumed == IF returning THEN next + Month * Passed(next, t) ELSE next
      upgraded == (l.plan = "plus" \/ returning) /\ p = "pro" /\ granted < a
      second == IF upgraded THEN Least(Cap[p], first + a - granted) ELSE first
      n == Passed(resumed, t)
  IN [stored |-> TRUE, plan |-> p, balance |-> Least(Cap[p], second + n * a),
      granted |-> IF upgraded \/ n > 0 THEN a ELSE granted,
      next |-> resumed + n * Month, until |-> 0]

Reconciled(l, p, t) == IF p = "free" THEN Frozen(l, t) ELSE Accrued(l, p, t)

\* The history of what the reconciliation granted.
Grant(l, t) ==
  LET gain == l.balance - Kept(ledger, l.plan, t) IN
  given' = [credits |-> given.credits + IF gain > 0 THEN gain ELSE 0,
            since |-> IF given.since = 0 /\ l.plan # "free" THEN now ELSE given.since]

-----------------------------------------------------------------------------
(* The account *)

Tick ==
  /\ now < MaxTime
  /\ now' = now + 1
  /\ UNCHANGED <<ledger, given, others>>

\* The ledger as it is shown, and stored.
courseCreditSummaryForAccount ==
  /\ ledger' = Reconciled(ledger, plan, now)
  /\ Grant(Reconciled(ledger, plan, now), now)
  /\ UNCHANGED <<now, others>>

\* A subscription event: the new plan and the ledger in one transaction.
Subscription(p) ==
  /\ plan' = p
  /\ ledger' = Reconciled(ledger, p, now)
  /\ Grant(Reconciled(ledger, p, now), now)
  /\ UNCHANGED <<now, claim, course, intent, refund, refunds, request>>

\* A paid period or a manual grant runs out, and nobody looks at the ledger.
Lapse ==
  /\ plan # "free"
  /\ plan' = "free"
  /\ UNCHANGED <<now, ledger, given, claim, course, intent, refund, refunds, request>>

\* A course costs a credit of a paid account.
Reserve(c) ==
  LET l == Reconciled(ledger, plan, now) IN
  /\ plan # "free" /\ claim[c] = "none" /\ l.balance > 0
  /\ ledger' = [l EXCEPT !.balance = l.balance - 1]
  /\ Grant(l, now)
  /\ claim' = [claim EXCEPT ![c] = "reserved"]
  /\ UNCHANGED <<now, plan, course, intent, refund, refunds, request>>

\* generationCreditSettlementWrites for a course that was generated ...
Complete(c) ==
  /\ claim[c] = "reserved"
  /\ claim' = [claim EXCEPT ![c] = "completed"]
  /\ course' = [course EXCEPT ![c] = [status |-> "live", redeemed |-> now]]
  /\ UNCHANGED <<now, plan, ledger, intent, refund, refunds, request, given>>

\* ... and for one that failed; the ledger is not reconciled here.
Release(c) ==
  /\ claim[c] = "reserved"
  /\ claim' = [claim EXCEPT ![c] = "released"]
  /\ ledger' = [ledger EXCEPT !.balance = ledger.balance + 1]
  /\ UNCHANGED <<now, plan, course, intent, refund, refunds, request, given>>

-----------------------------------------------------------------------------
(* DELETE of a course *)

Goto(r, pc) == request' = [request EXCEPT ![r].pc = pc]
Answer(r) == request' = [request EXCEPT ![r] = Idle]

\* The course is there, or a pending intent tells that it was deleted.
Enter(r, c) ==
  /\ request[r].pc = "idle" /\ course[c].status # "none"
  /\ course[c].status = "deleted" => intent[c].status = "pending"
  /\ request' = [request EXCEPT ![r] =
       [pc |-> IF course[c].status = "live" THEN "record" ELSE "read", course |-> c,
        plan |-> plan, redeemed |-> course[c].redeemed, now |-> 0]]
  /\ UNCHANGED <<now, plan, ledger, claim, course, intent, refund, refunds, given>>

\* Mutant: the refund comes before the deletion, and nothing remembers it.
RecordNothing(r) ==
  /\ request[r].pc = "record"
  /\ Goto(r, "delete")
  /\ UNCHANGED <<now, plan, ledger, claim, course, intent, refund, refunds, given>>

\* recordCourseCreditRefundIntent: a pending intent keeps its date.
Record(r) ==
  LET c == request[r].course IN
  /\ request[r].pc = "record"
  /\ intent' = IF intent[c].status = "pending" THEN intent
               ELSE [intent EXCEPT ![c] = [status |-> "pending", at |-> now, outcome |-> "none"]]
  /\ Goto(r, "delete")
  /\ UNCHANGED <<now, plan, ledger, claim, course, refund, refunds, given>>

Deleted(c) == [course EXCEPT ![c] = [status |-> "deleted", redeemed |-> course[c].redeemed]]

\* deleteCourse: what depends on the course goes first, then the course.
Delete(r) ==
  /\ request[r].pc = "delete"
  /\ course' = Deleted(request[r].course)
  /\ Goto(r, "read")
  /\ UNCHANGED <<now, plan, ledger, claim, intent, refund, refunds, given>>

\* refundCourseCreditForDeletedCourse reads the intent before its transaction,
\* and judges the day by it.
ReadIntent(r) ==
  LET c == request[r].course
      deleted == IF intent[c].status = "pending" THEN intent[c].at ELSE now IN
  /\ request[r].pc = "read"
  /\ \/ deleted - request[r].redeemed > Window /\ Answer(r)
     \/ /\ deleted - request[r].redeemed <= Window
        /\ request' = [request EXCEPT ![r] = [pc |-> "settle", course |-> c, plan |-> request[r].plan,
                                              redeemed |-> request[r].redeemed, now |-> now]]
  /\ UNCHANGED <<now, plan, ledger, claim, course, intent, refund, refunds, given>>

\* The refund document says that this was done.
Refunded(c) == refund[c] # -1

\* Mutant: the limit is checked too late.
LimitReachedLate(m) == refunds[m] > MonthlyCap

LimitReached(m) == refunds[m] >= MonthlyCap

SettleIntent(c, outcome) ==
  intent' = IF intent[c].status = "pending"
            THEN [intent EXCEPT ![c] = [status |-> "settled", at |-> intent[c].at, outcome |-> outcome]]
            ELSE intent

\* The transaction of refundCourseCreditForDeletedCourse.
Settle(r) ==
  LET c == request[r].course
      m == request[r].now \div Month
      l == Reconciled(ledger, request[r].plan, request[r].now) IN
  /\ request[r].pc = "settle"
  /\ Answer(r)
  /\ \/ /\ Refunded(c)
        /\ SettleIntent(c, "already")
        /\ UNCHANGED <<ledger, refund, refunds, given>>
     \/ /\ ~Refunded(c) /\ LimitReached(m)
        /\ SettleIntent(c, "cap")
        /\ ledger' = l /\ Grant(l, request[r].now)
        /\ UNCHANGED <<refund, refunds>>
     \/ /\ ~Refunded(c) /\ ~LimitReached(m)
        /\ SettleIntent(c, "refunded")
        /\ ledger' = [l EXCEPT !.balance = Least(Cap[l.plan], l.balance + 1)] /\ Grant(l, request[r].now)
        /\ refund' = [refund EXCEPT ![c] = m]
        /\ refunds' = [refunds EXCEPT ![m] = refunds[m] + 1]
  /\ UNCHANGED <<now, plan, claim, course>>

\* A request fails, or its server dies.
Crash(r) ==
  /\ request[r].pc # "idle"
  /\ Answer(r)
  /\ UNCHANGED <<now, plan, ledger, claim, course, intent, refund, refunds, given>>

Next ==
  \/ Tick \/ courseCreditSummaryForAccount \/ Lapse
  \/ \E p \in Plans : Subscription(p)
  \/ \E c \in Courses : Reserve(c) \/ Complete(c) \/ Release(c)
  \/ \E r \in Requests :
       \/ \E c \in Courses : Enter(r, c)
       \/ Record(r) \/ Delete(r) \/ ReadIntent(r) \/ Settle(r) \/ Crash(r)

Spec == Init /\ [][Next]_vars

-----------------------------------------------------------------------------
(* Properties *)

\* A course that lives was not refunded, whatever deletions failed, and a
\* month's refunds are counted exactly and stay within the limit however many
\* requests overlap.
RefundsCounted ==
  /\ \A c \in Courses : refund[c] # -1 => course[c].status = "deleted"
  /\ \A m \in Months : refunds[m] = Cardinality({c \in Courses : refund[c] = m}) /\ refunds[m] <= MonthlyCap

\* A credit is not lost with its request: a deleted course is refunded, has
\* met the limit, or is remembered by an intent that a retry can settle.
RefundRecoverable ==
  \A c \in Courses : course[c].status = "deleted" =>
    \/ refund[c] # -1
    \/ intent[c].status = "pending"
    \/ intent[c].outcome = "cap"

\* No sequence of upgrades, payment failures, suspensions and recoveries
\* yields more than the largest allocation for each month since the first.
NoFarming ==
  given.since # 0 => given.credits <= Allocation["pro"] * ((now - given.since) \div Month + 1)

==============================================================================
