------------------------- MODULE GenerationOperation -------------------------
(***************************************************************************)
(* Durable generation of courses and lessons (src/lib/generation-          *)
(* operations.ts, src/lib/course-pipeline/lesson-commit.ts) for one user.  *)
(*                                                                         *)
(* An operation is admitted against the user's and the pool's budget with  *)
(* a worst-case reserve, runs under a lease and a lock on its target, and  *)
(* sends paid provider calls, each behind a durable intent.  It may pause  *)
(* and be resumed by another request under a new attempt token.  When it   *)
(* ends, what the provider reported is charged, what is not known is kept  *)
(* as uncertain, and the course credit is redeemed or given back.  A       *)
(* provider may still answer after the operation ended, after its server   *)
(* died, or after the account was deleted.                                 *)
(*                                                                         *)
(* Every action is one document-store transaction (see DocumentStore) or   *)
(* one event of the provider, of time or of a server that dies.  A request *)
(* that finds its guard false is refused and changes nothing.  The budget  *)
(* of the month mirrors the usage period: "personal" stands for both.      *)
(***************************************************************************)
EXTENDS Integers, FiniteSets, Functions

CONSTANTS Ops,          \* operation ids (a user's idempotency keys)
          Calls,        \* the provider calls an operation makes, by fingerprint
          Keys,         \* the locks in the user's usage periods
          Key,          \* operation -> the lock it needs
          CourseKeys,   \* those of courses; the others are of lessons
          Nobody,       \* the holder of a free lock
          Reserve,      \* context.reserveCostMicros, in units of cost
          Costs,        \* what the provider may report for one call
          UserLimit,    \* context.userLimitMicros
          PoolLimit,    \* context.poolLimitMicros
          Balance,      \* the course credits at the start
          MaxAttempts   \* bound: attempts of one operation

ASSUME FiniteAssumption == IsFiniteSet(Ops) /\ IsFiniteSet(Calls)
ASSUME KeyAssumption == Key \in [Ops -> Keys] /\ CourseKeys \subseteq Keys /\ Nobody \notin Ops
ASSUME AmountsAssumption == Reserve \in Nat \ {0} /\ Costs \subseteq Nat
ASSUME LimitsAssumption == {UserLimit, PoolLimit, Balance, MaxAttempts} \subseteq Nat

VARIABLES op,        \* operation -> [status, token, fresh, pending]
          denied,    \* keys closed by denyGenerationAdmission
          stage,     \* operation -> call -> status of its generationStages document
          receipt,   \* operation -> [remaining, actual, uncertain] of its usage receipt
          calls,     \* operation -> call -> [status, est, cost] in the receipt
          accounted, \* operation -> accountedCallIds of its request
          lock,      \* key -> [op, token, live]
          personal,  \* [reserved, actual, uncertain, count] of period and budget
          global,    \* [reserved, actual, uncertain] of the pool's shard
          credits,   \* balance of the course credit ledger
          claim,     \* operation -> status of its course credit claim
          exec,      \* operation -> call -> the server code running the call
          sent,      \* operation -> call -> provider requests made (history)
          active     \* the account's lifecycle is active

personalVars == <<op, denied, stage, accounted, lock, personal, credits, claim>>
vars == <<op, denied, stage, receipt, calls, accounted, lock, personal, global, credits, claim,
          exec, sent, active>>

\* fresh: for a running operation its lease has not expired; for a pending
\* one its 24 hours have not passed.
Operation == [status : {"none", "running", "pending", "completed", "failed", "removed"},
              token : Nat, fresh : BOOLEAN, pending : SUBSET Calls]
Stages == {"none", "not_started", "in_flight", "completed", "rejected"}
Receipt == [remaining : Nat, actual : Nat, uncertain : Nat]
UsageCall == [status : {"none", "in_flight", "uncertain", "observed"}, est : Int, cost : Nat]
Lock == [op : Ops \cup {Nobody}, token : Nat, live : BOOLEAN]
Execution == [phase : {"idle", "sent", "answered", "recorded"}, token : Nat, ok : BOOLEAN, cost : Nat]

NoCall == [status |-> "none", est |-> 0, cost |-> 0]
NoLock == [op |-> Nobody, token |-> 0, live |-> FALSE]
Idle == [phase |-> "idle", token |-> 0, ok |-> TRUE, cost |-> 0]

TypeOK ==
  /\ op \in [Ops -> Operation]
  /\ denied \in SUBSET Ops
  /\ stage \in [Ops -> [Calls -> Stages]]
  /\ receipt \in [Ops -> Receipt]
  /\ calls \in [Ops -> [Calls -> UsageCall]]
  /\ accounted \in [Ops -> SUBSET Calls]
  /\ lock \in [Keys -> Lock]
  /\ claim \in [Ops -> {"none", "reserved", "completed", "released"}]
  /\ exec \in [Ops -> [Calls -> Execution]]
  /\ sent \in [Ops -> [Calls -> Nat]]
  /\ credits \in Nat
  /\ active \in BOOLEAN

Init ==
  /\ op = [o \in Ops |-> [status |-> "none", token |-> 0, fresh |-> FALSE, pending |-> {}]]
  /\ denied = {}
  /\ stage = [o \in Ops |-> [c \in Calls |-> "none"]]
  /\ receipt = [o \in Ops |-> [remaining |-> 0, actual |-> 0, uncertain |-> 0]]
  /\ calls = [o \in Ops |-> [c \in Calls |-> NoCall]]
  /\ accounted = [o \in Ops |-> {}]
  /\ lock = [k \in Keys |-> NoLock]
  /\ personal = [reserved |-> 0, actual |-> 0, uncertain |-> 0, count |-> 0]
  /\ global = [reserved |-> 0, actual |-> 0, uncertain |-> 0]
  /\ credits = Balance
  /\ claim = [o \in Ops |-> "none"]
  /\ exec = [o \in Ops |-> [c \in Calls |-> Idle]]
  /\ sent = [o \in Ops |-> [c \in Calls |-> 0]]
  /\ active = TRUE

-----------------------------------------------------------------------------
(* Helpers *)

IsCourse(o) == Key[o] \in CourseKeys
Terminal(o) == op[o].status \in {"completed", "failed"}

\* Math.max(0, a - b)
Less(a, b) == IF a >= b THEN a - b ELSE 0
Least(a, b) == IF a <= b THEN a ELSE b

With(o, status) == {c \in Calls : calls[o][c].status = status}
CostOf(o, C) == SumFunctionOnSet([c \in Calls |-> calls[o][c].cost], C)
EstimateOf(o, C) == SumFunctionOnSet([c \in Calls |-> calls[o][c].est], C)

\* aiUsageConflictingUntil: the lock itself, and no other one.  A usage period
\* is a document of one feature and one month.  Courses lock that of theirs as
\* a whole, lessons a resource in that of theirs: the two never meet, nor do
\* operations that were admitted in different months.
NoConflict(k) == ~lock[k].live

\* Mutant: the lock is freed whoever holds it by now.
ReleaseAnyLock(o) == lock' = [lock EXCEPT ![Key[o]] = NoLock]

\* aiUsageReleaseLock: only the attempt that holds the lock releases it.
ReleaseLock(o) ==
  lock' = IF lock[Key[o]].op = o /\ lock[Key[o]].token = op[o].token
          THEN [lock EXCEPT ![Key[o]] = NoLock] ELSE lock

\* assertOwner with active = true, for the attempt that holds the token.
Owns(o, token) ==
  /\ active
  /\ op[o].status = "running" /\ op[o].fresh /\ op[o].token = token
  /\ lock[Key[o]] = [op |-> o, token |-> token, live |-> TRUE]

Total(ledger) == ledger.reserved + ledger.actual + ledger.uncertain

-----------------------------------------------------------------------------
(* Admission *)

\* Mutant: a closed key can be admitted.
UnusedThough(o) == op[o].status = "none"

\* Neither an operation nor a closed request exists under the key.
Unused(o) == op[o].status = "none" /\ o \notin denied

\* Mutant: an operation is resumed over its own unconfirmed calls.
ResumableBlindly(o) ==
  \/ op[o].status = "pending" /\ op[o].fresh
  \/ op[o].status = "running" /\ ~op[o].fresh

\* Paused, or left by a server that died between two calls.
Resumable(o) ==
  /\ \/ op[o].status = "pending" /\ op[o].fresh
     \/ op[o].status = "running" /\ ~op[o].fresh
  /\ op[o].pending = {}

\* The lease, the lock and the token of a new attempt.
Attempt(o) ==
  LET token == op[o].token + 1 IN
  /\ token <= MaxAttempts
  /\ op' = [op EXCEPT ![o].status = "running", ![o].token = token, ![o].fresh = TRUE]
  /\ lock' = [lock EXCEPT ![Key[o]] = [op |-> o, token |-> token, live |-> TRUE]]

\* beginGenerationOperation for a key that was never used.
Begin(o) ==
  /\ active
  /\ Unused(o)
  /\ NoConflict(Key[o])
  /\ Total(global) + Reserve <= PoolLimit /\ Total(personal) + Reserve <= UserLimit
  /\ IsCourse(o) => credits > 0
  /\ Attempt(o)
  /\ credits' = IF IsCourse(o) THEN credits - 1 ELSE credits
  /\ claim' = IF IsCourse(o) THEN [claim EXCEPT ![o] = "reserved"] ELSE claim
  /\ receipt' = [receipt EXCEPT ![o].remaining = Reserve]
  /\ personal' = [personal EXCEPT !.reserved = @ + Reserve, !.count = @ + 1]
  /\ global' = [global EXCEPT !.reserved = @ + Reserve]
  /\ UNCHANGED <<denied, stage, calls, accounted, exec, sent, active>>

\* beginGenerationOperation for a key in use: a new attempt, with what is
\* reserved, claimed and saved by the former ones.
Resume(o) ==
  /\ active
  /\ Resumable(o)
  /\ NoConflict(Key[o])
  /\ Total(global) <= PoolLimit /\ Total(personal) <= UserLimit
  /\ Attempt(o)
  /\ UNCHANGED <<denied, stage, receipt, calls, accounted, personal, global, credits, claim,
                 exec, sent, active>>

\* denyGenerationAdmission: a refused key is closed unless it was admitted.
Deny(o) ==
  /\ active
  /\ op[o].status = "none"
  /\ denied' = denied \cup {o}
  /\ UNCHANGED <<op, stage, receipt, calls, accounted, lock, personal, global, credits, claim,
                 exec, sent, active>>

-----------------------------------------------------------------------------
(* Provider calls *)

\* Mutant: a call may be sent again unless its result is saved.
ClaimableAgain(o, c) == stage[o][c] # "completed"

\* A call is sent once, or again if it provably was not sent.
Claimable(o, c) == stage[o][c] \in {"none", "not_started"}

\* The intent of runGenerationProviderCall: recorded before the provider is
\* called, and never for a call whose result is not known.
Claim(o, c) ==
  /\ Owns(o, op[o].token)
  /\ Claimable(o, c)
  /\ receipt[o].remaining > 0
  /\ stage' = [stage EXCEPT ![o][c] = "in_flight"]
  /\ op' = [op EXCEPT ![o].pending = @ \cup {c}]
  /\ calls' = [calls EXCEPT ![o][c] = [NoCall EXCEPT !.status = "in_flight"]]
  /\ exec' = [exec EXCEPT ![o][c] = [Idle EXCEPT !.phase = "sent", !.token = op[o].token]]
  /\ sent' = [sent EXCEPT ![o][c] = @ + 1]
  /\ UNCHANGED <<denied, receipt, accounted, lock, personal, global, credits, claim, active>>

Execute(o, c, e) == exec' = [exec EXCEPT ![o][c] = e]

\* The provider answers: with a result and its usage, or by rejecting the
\* request before running the model.
Answer(o, c, ok, cost) ==
  /\ exec[o][c].phase = "sent"
  /\ ok \/ cost = 0
  /\ Execute(o, c, [exec[o][c] EXCEPT !.phase = "answered", !.ok = ok, !.cost = cost])
  /\ UNCHANGED <<personalVars, receipt, calls, global, sent, active>>

\* A refusal before dispatch takes the intent back, if the attempt still owns
\* the operation.
Refuse(o, c) ==
  /\ exec[o][c].phase = "sent"
  /\ Owns(o, exec[o][c].token) /\ stage[o][c] = "in_flight" /\ calls[o][c].status = "in_flight"
  /\ stage' = [stage EXCEPT ![o][c] = "not_started"]
  /\ calls' = [calls EXCEPT ![o][c] = NoCall]
  /\ op' = [op EXCEPT ![o].pending = @ \ {c}]
  /\ sent' = [sent EXCEPT ![o][c] = @ - 1]
  /\ Execute(o, c, Idle)
  /\ UNCHANGED <<denied, receipt, accounted, lock, personal, global, credits, claim, active>>

\* The outcome is never known, or the server running the call dies.
Lose(o, c) ==
  /\ exec[o][c].phase # "idle"
  /\ Execute(o, c, Idle)
  /\ UNCHANGED <<personalVars, receipt, calls, global, sent, active>>

\* Mutant: a late answer is charged and its estimate stays.
EstimateIgnored(o, c) == 0

\* What the pool holds as uncertain for the call.
Estimate(o, c) == calls[o][c].est

\* recordProviderUsage: in the receipt and the pool only, so that it works
\* whatever became of the operation and of the account.
Record(o, c) ==
  LET cost == exec[o][c].cost
      released == Least(receipt[o].remaining, cost)
      est == Estimate(o, c) IN
  /\ exec[o][c].phase = "answered"
  /\ Execute(o, c, [exec[o][c] EXCEPT !.phase = "recorded"])
  /\ IF calls[o][c].status \in {"none", "observed"}
       THEN UNCHANGED <<receipt, calls, global>>
       ELSE /\ calls' = [calls EXCEPT ![o][c].status = "observed", ![o][c].cost = cost]
            /\ receipt' = [receipt EXCEPT ![o] = [remaining |-> @.remaining - released,
                             actual |-> @.actual + cost, uncertain |-> Less(@.uncertain, est)]]
            /\ global' = [reserved |-> Less(global.reserved, released), actual |-> global.actual + cost,
                          uncertain |-> Less(global.uncertain, est)]
  /\ UNCHANGED <<personalVars, sent, active>>

\* The result, or the rejection, is saved with the stage, or the attempt
\* finds that it lost the operation.
SaveStage(o, c) ==
  LET owner == Owns(o, exec[o][c].token) /\ (exec[o][c].ok \/ stage[o][c] = "in_flight") IN
  /\ exec[o][c].phase = "recorded"
  /\ Execute(o, c, Idle)
  /\ IF owner
       THEN /\ stage' = [stage EXCEPT ![o][c] = IF exec[o][c].ok THEN "completed" ELSE "rejected"]
            /\ op' = [op EXCEPT ![o].pending = @ \ {c}]
       ELSE UNCHANGED <<stage, op>>
  /\ UNCHANGED <<denied, receipt, calls, accounted, lock, personal, global, credits, claim, sent, active>>

-----------------------------------------------------------------------------
(* The end of an attempt *)

\* pauseGenerationOperation
Pause(o) ==
  /\ Owns(o, op[o].token)
  /\ op[o].pending = {}
  /\ op' = [op EXCEPT ![o].status = "pending", ![o].fresh = TRUE]
  /\ ReleaseLock(o)
  /\ UNCHANGED <<denied, stage, receipt, calls, accounted, personal, global, credits, claim,
                 exec, sent, active>>

\* The reserve that is left covers the calls in flight; with none it is free.
Unsettled(o) == IF With(o, "in_flight") = {} THEN 0 ELSE receipt[o].remaining

\* It is shared among them, the last one taking what the division leaves.
Share(o, last, c) ==
  LET n == Cardinality(With(o, "in_flight"))
      part == receipt[o].remaining \div n IN
  IF c = last THEN receipt[o].remaining - (n - 1) * part ELSE part

\* The receipt is closed, and the pool keeps what is not known.
CloseReceipt(o, last) ==
  /\ With(o, "in_flight") # {} => last \in With(o, "in_flight")
  /\ calls' = [calls EXCEPT ![o] = [c \in Calls |->
                 IF calls[o][c].status = "in_flight"
                 THEN [status |-> "uncertain", est |-> Share(o, last, c), cost |-> 0]
                 ELSE calls[o][c]]]
  /\ receipt' = [receipt EXCEPT ![o].remaining = 0, ![o].uncertain = @ + Unsettled(o)]
  /\ global' = [global EXCEPT !.reserved = Less(@, receipt[o].remaining), !.uncertain = @ + Unsettled(o)]

\* Mutant: the credit is given back although the claim was settled.
SettleCreditAlways(o, failed) ==
  /\ claim' = [claim EXCEPT ![o] = IF failed THEN "released" ELSE "completed"]
  /\ credits' = IF failed THEN credits + 1 ELSE credits

\* generationCreditSettlementWrites
SettleCredit(o, failed) ==
  IF claim[o] # "reserved" THEN UNCHANGED <<claim, credits>>
  ELSE /\ claim' = [claim EXCEPT ![o] = IF failed THEN "released" ELSE "completed"]
       /\ credits' = IF failed THEN credits + 1 ELSE credits

\* The user's side of finishGenerationOperation.
Settle(o, failed) ==
  /\ op' = [op EXCEPT ![o].status = IF failed THEN "failed" ELSE "completed", ![o].fresh = FALSE]
  /\ accounted' = [accounted EXCEPT ![o] = With(o, "observed")]
  /\ personal' = [personal EXCEPT !.count = IF failed THEN Less(@, 1) ELSE @,
                                  !.reserved = Less(@, Reserve),
                                  !.actual = @ + CostOf(o, With(o, "observed")),
                                  !.uncertain = @ + Unsettled(o)]
  /\ ReleaseLock(o)
  /\ SettleCredit(o, failed)

\* Mutant: a result is committed over calls that may still be running.
ConfirmedAnyway(o) == TRUE

\* No call of the operation is unconfirmed; a lesson also checks its receipt.
Confirmed(o) ==
  /\ op[o].pending = {}
  /\ ~IsCourse(o) => With(o, "observed") # {} /\ With(o, "in_flight") \cup With(o, "uncertain") = {}

\* A course commits with its accounting; a lesson likewise, in the transaction
\* of its save.
Complete(o) ==
  /\ Owns(o, op[o].token)
  /\ Confirmed(o)
  /\ Settle(o, FALSE)
  /\ \E last \in Calls : CloseReceipt(o, last)
  /\ UNCHANGED <<denied, stage, exec, sent, active>>

\* finishGenerationOperation with failed: a known failure of the attempt.
Fail(o) ==
  /\ Owns(o, op[o].token)
  /\ Settle(o, TRUE)
  /\ \E last \in Calls : CloseReceipt(o, last)
  /\ UNCHANGED <<denied, stage, exec, sent, active>>

\* finishGenerationOperation with reconcile: another request, a status query
\* or the maintenance script ends an attempt whose lease is over.
FailReconcile(o) ==
  /\ active
  /\ Settle(o, TRUE)
  /\ \E last \in Calls : CloseReceipt(o, last)
  /\ UNCHANGED <<denied, stage, exec, sent, active>>

\* Mutant: an operation that ended is failed once more.
ReconcileEnded(o) == op[o].status \notin {"none", "removed"} /\ ~op[o].fresh /\ FailReconcile(o)

\* Mutant: nobody looks after paused operations.
ReconcileRunning(o) == op[o].status = "running" /\ ~op[o].fresh /\ FailReconcile(o)

\* reconcileGenerationOperation: an expired lease, or a day of waiting.
Reconcile(o) == op[o].status \in {"running", "pending"} /\ ~op[o].fresh /\ FailReconcile(o)

\* abandonGenerationOperation: the author need not wait for the day.
Abandon(o) == op[o].status = "pending" /\ op[o].fresh /\ FailReconcile(o)

\* Mutant: what is already accounted is not left out.
LateAgain(o) == With(o, "observed")

\* Mutant: calls that were estimated count as accounted.
LateUnestimated(o) == {c \in With(o, "observed") \ accounted[o] : calls[o][c].est = 0}

\* Reported, and not yet in the user's ledger.
Late(o) == With(o, "observed") \ accounted[o]

\* reconcileGenerationPersonalUsage: answers that came after the end replace
\* their estimates in the user's ledger.
AccountLate(o) ==
  /\ active
  /\ op[o].status = "failed"
  /\ Late(o) # {}
  /\ accounted' = [accounted EXCEPT ![o] = @ \cup Late(o)]
  /\ personal' = [personal EXCEPT !.actual = @ + CostOf(o, Late(o)), !.uncertain = Less(@, EstimateOf(o, Late(o)))]
  /\ UNCHANGED <<op, denied, stage, receipt, calls, lock, global, credits, claim, exec, sent, active>>

-----------------------------------------------------------------------------
(* Time and the end of the account *)

\* The lease and the lock, written together, run out together; or the day of
\* a paused operation passes.
Expire(o) ==
  /\ op[o].fresh
  /\ op' = [op EXCEPT ![o].fresh = FALSE]
  /\ lock' = IF op[o].status = "running" /\ lock[Key[o]].op = o
             THEN [lock EXCEPT ![Key[o]].live = FALSE] ELSE lock
  /\ UNCHANGED <<denied, stage, receipt, calls, accounted, personal, global, credits, claim,
                 exec, sent, active>>

\* The account is fenced: no transaction in the user's scope commits again.
DeleteAccount ==
  /\ active
  /\ active' = FALSE
  /\ UNCHANGED <<personalVars, receipt, calls, global, exec, sent>>

\* Mutant: the deletion waits for the calls in flight.
AbandonQuietUsage(o) ==
  /\ ~active
  /\ receipt[o].remaining > 0 /\ With(o, "in_flight") = {}
  /\ \E last \in Calls : CloseReceipt(o, last)
  /\ UNCHANGED <<personalVars, exec, sent, active>>

\* abandonGenerationUsage, for each receipt of the deleted account.
AbandonUsage(o) ==
  /\ ~active
  /\ receipt[o].remaining > 0
  /\ \E last \in Calls : CloseReceipt(o, last)
  /\ UNCHANGED <<personalVars, exec, sent, active>>

\* The deletion job removes the user's records, once nothing is reserved.
RemoveRecords(o) ==
  /\ ~active
  /\ op[o].status \notin {"none", "removed"}
  /\ receipt[o].remaining = 0
  /\ op' = [op EXCEPT ![o].status = "removed", ![o].fresh = FALSE, ![o].pending = {}]
  /\ UNCHANGED <<denied, stage, receipt, calls, accounted, lock, personal, global, credits, claim,
                 exec, sent, active>>

Work(o, c) == Record(o, c) \/ SaveStage(o, c)

Next ==
  \/ DeleteAccount
  \/ \E o \in Ops :
       \/ Begin(o) \/ Resume(o) \/ Deny(o)
       \/ Pause(o) \/ Complete(o) \/ Fail(o) \/ Reconcile(o) \/ Abandon(o) \/ AccountLate(o)
       \/ Expire(o) \/ AbandonUsage(o) \/ RemoveRecords(o)
       \/ \E c \in Calls :
            \/ Claim(o, c) \/ Refuse(o, c) \/ Lose(o, c) \/ Work(o, c)
            \/ \E ok \in BOOLEAN, cost \in Costs \cup {0} : Answer(o, c, ok, cost)

Spec == Init /\ [][Next]_vars

\* Time passes, a status query or the maintenance script reconciles what
\* expired and what was reported late, and the deletion job goes on. No server
\* is assumed to finish a call: it may die at any step.
Fairness ==
  \A o \in Ops :
    /\ WF_vars(Expire(o)) /\ WF_vars(Reconcile(o)) /\ WF_vars(AccountLate(o))
    /\ WF_vars(AbandonUsage(o)) /\ WF_vars(RemoveRecords(o))
FairSpec == Spec /\ Fairness

-----------------------------------------------------------------------------
(* Properties *)

\* The pool holds exactly what the receipts hold: what is reserved, charged
\* and uncertain is neither lost nor counted twice, through takeovers, late
\* answers, refusals, crashes and the deletion of the account.
PoolMatchesReceipts ==
  /\ global.reserved = SumFunction([o \in Ops |-> receipt[o].remaining])
  /\ global.actual = SumFunction([o \in Ops |-> CostOf(o, With(o, "observed"))])
  /\ global.uncertain = SumFunction([o \in Ops |-> EstimateOf(o, With(o, "uncertain"))])

\* What an ended operation still holds as uncertain in the user's ledger.
Owed(o) ==
  IF Terminal(o) THEN EstimateOf(o, (With(o, "uncertain") \cup With(o, "observed")) \ accounted[o]) ELSE 0

\* The user's ledger holds the reserve of every open operation, the cost of
\* every accounted call and the estimate of every call that is not accounted.
LedgerMatchesOperations ==
  active =>
    /\ personal.reserved = Reserve * Cardinality({o \in Ops : op[o].status \in {"running", "pending"}})
    /\ personal.count = Cardinality({o \in Ops : op[o].status \in {"running", "pending", "completed"}})
    /\ personal.actual = SumFunction([o \in Ops |-> CostOf(o, accounted[o])])
    /\ personal.uncertain = SumFunction([o \in Ops |-> Owed(o)])

\* A credit is in the ledger, held by an open operation or redeemed by a
\* course; an operation that failed has given it back, once.
CreditsConserved ==
  /\ credits + Cardinality({o \in Ops : claim[o] \in {"reserved", "completed"}}) = Balance
  /\ \A o \in Ops : IsCourse(o) =>
       /\ op[o].status \in {"running", "pending"} => claim[o] = "reserved"
       /\ op[o].status = "completed" => claim[o] = "completed"
       /\ op[o].status = "failed" => claim[o] = "released"

\* A lease is worth its lock: while an attempt may write, it holds the lock of
\* its target, whatever became of the former holder, of its late end and of
\* those that wait.  So no two attempts work on one lesson, or on two courses,
\* of one month.
OneOwner ==
  \A o \in Ops : op[o].status = "running" /\ op[o].fresh =>
    /\ lock[Key[o]] = [op |-> o, token |-> op[o].token, live |-> TRUE]
    /\ \A u \in Ops \ {o} : op[u].status = "running" /\ op[u].fresh => Key[u] # Key[o]

\* A paid call is not made again, by retry, resumption or takeover, unless the
\* provider is known not to have received it.
PaidOnce == \A o \in Ops, c \in Calls : sent[o][c] <= 1

\* An ended operation has nothing reserved and no call whose cost is neither
\* reported nor estimated; a completed one knows every cost, and charged it.
ClosedBooks ==
  \A o \in Ops :
    /\ Terminal(o) => receipt[o].remaining = 0 /\ With(o, "in_flight") = {}
    /\ op[o].status = "completed" => With(o, "uncertain") = {} /\ With(o, "observed") = accounted[o]

\* A key that was refused and closed is never admitted, and one that was
\* admitted is never closed.
ClosedKeysStayUnused == \A o \in denied : op[o].status = "none"

\* An unconfirmed call blocks every other attempt: while one is running at
\* the provider, the operation is in the hands of the attempt that sent it,
\* or has failed.
NoTakeoverDuringCall ==
  \A o \in Ops, c \in Calls :
    exec[o][c].phase \in {"sent", "answered"} /\ op[o].status \in {"running", "pending", "completed"} =>
      op[o].token = exec[o][c].token /\ op[o].status = "running" /\ c \in op[o].pending

\* The end is final: what was decided, saved and settled stays, and only the
\* late answers of failed operations still move estimates.
EndIsFinal ==
  [][\A o \in Ops : Terminal(o) /\ op'[o].status # "removed" =>
       /\ op'[o] = op[o] /\ stage'[o] = stage[o] /\ claim'[o] = claim[o]
       /\ receipt'[o].remaining = 0
       /\ op[o].status = "completed" => calls'[o] = calls[o] /\ receipt'[o] = receipt[o]]_vars

\* Every admitted operation ends, whatever servers die, or is removed with
\* its account: no user is locked out by one.
EventuallyEnds ==
  \A o \in Ops : op[o].status \in {"running", "pending"} ~> op[o].status \in {"completed", "failed", "removed"}

\* A cost reported after the end reaches the user's ledger, unless the account
\* goes away.
LateUsageAccounted ==
  \A o \in Ops, c \in Calls :
    op[o].status = "failed" /\ calls[o][c].status = "observed" ~> c \in accounted[o] \/ ~active

\* The deletion of the account frees every reserve and removes every record,
\* without waiting for the provider.
DeletionCompletes ==
  ~active ~> global.reserved = 0 /\ \A o \in Ops : op[o].status \in {"none", "removed"}
==============================================================================
