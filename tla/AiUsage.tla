------------------------------ MODULE AiUsage ------------------------------
(***************************************************************************)
(* The reservations of single paid calls (src/lib/ai-usage.ts) for one     *)
(* user, one feature and one month, and the routes that use them.          *)
(*                                                                         *)
(* A request reserves a worst-case cost under its idempotency key, calls   *)
(* the provider, and books what was reported.  A "product" route           *)
(* (assessments, flashcard decks) first checkpoints the paid result with   *)
(* its usage and then writes product and accounts in one transaction, so   *)
(* that a retry can finish without paying again.  A "turn" route (tutor,   *)
(* Spark, drafts) books directly.  Where no answer was seen the reserve is *)
(* contained as uncertain, by the request or by an operator's run over     *)
(* expired leases.  An account may be deleted at any time; its records go, *)
(* the pool's counters and receipts stay.                                  *)
(*                                                                         *)
(* Every action is one document-store transaction, or an event of the      *)
(* provider, of time, or of a server that dies.  The user's budget mirrors *)
(* the usage period: "personal" stands for both.  The lease of a request   *)
(* and the lock of its period are written together and run out together.   *)
(* The documents of a request and of its last attempt hold the same        *)
(* checkpoint and amounts: one stands for both.                             *)
(***************************************************************************)
EXTENDS Integers, FiniteSets, Functions

CONSTANTS Keys,         \* request ids (a user's idempotency keys)
          Handlers,     \* requests that may be served at once
          None,         \* not a key
          Route,        \* key -> "product" or "turn"
          Reserve,      \* policy.reserveCostMicros
          Costs,        \* what the provider may charge for a call
          RequestLimit, \* policy.limit
          UserLimit,    \* userBudgetLimitMicros
          PoolLimit,    \* the shard's part of the pool's budget
          MaxAttempts,  \* bound: attempts of one key
          MaxEdits      \* bound: changes of the product by others

ASSUME FiniteAssumption == IsFiniteSet(Keys)
ASSUME RouteAssumption == Route \in [Keys -> {"product", "turn"}] /\ None \notin Keys
ASSUME AmountsAssumption == Reserve \in Nat \ {0} /\ Costs \subseteq Nat \ {0}
ASSUME LimitsAssumption == {RequestLimit, UserLimit, PoolLimit, MaxAttempts, MaxEdits} \subseteq Nat

VARIABLES request,  \* key -> [status, reason, n] of aiRequests/key; n: its attempt
          attempt,  \* key -> attempt -> [status, cost] of its own document
          saved,    \* key -> resultCheckpoint of the last attempt: [held, cost, guard]
          receipt,  \* key -> attempt -> [kind, cost, failed] in generationUsageReceipts
          personal, \* [count, reserved, uncertain, actual] of usage period and user budget
          pool,     \* [reserved, uncertain, actual] of the system's usage shard
          lock,     \* lock of the usage period: [key, n, live]
          product,  \* version of the product's document
          handler,  \* request being served -> where it is and what it knows
          account,  \* [active, ledger there, keys abandoned by the deletion]
          spent,    \* key -> attempt -> what the provider charged (history)
          edits     \* counter for MaxEdits

vars == <<request, attempt, saved, receipt, personal, pool, lock, product, handler, account, spent, edits>>
documents == <<request, attempt, saved, receipt, personal, pool, lock, product>>

Attempts == 1 .. MaxAttempts

Request == [status : {"none", "reserved", "checkpointed", "completed", "failed"},
            reason : {"none", "unknown", "pre"}, n : 0 .. MaxAttempts]
Attempt == [status : {"none", "reserved", "uncertain", "checkpointed", "observed"}, cost : Nat, failed : BOOLEAN]
Checkpoint == [held : {"none", "reserved", "uncertain"}, cost : Nat, guard : Nat]
Receipt == [kind : {"none", "uncertain", "completion", "result"}, cost : Nat, failed : BOOLEAN]
Handler == [pc : {"idle", "read", "ready", "called", "answered", "settle", "failing", "unsent", "lost"},
            key : Keys \cup {None}, n : 0 .. MaxAttempts, guard : Nat, cost : Nat]

NoRequest == [status |-> "none", reason |-> "none", n |-> 0]
NoAttempt == [status |-> "none", cost |-> 0, failed |-> FALSE]
NoCheckpoint == [held |-> "none", cost |-> 0, guard |-> 0]
NoReceipt == [kind |-> "none", cost |-> 0, failed |-> FALSE]
Free == [key |-> None, n |-> 0, live |-> FALSE]
Idle == [pc |-> "idle", key |-> None, n |-> 0, guard |-> 0, cost |-> 0]

TypeOK ==
  /\ request \in [Keys -> Request]
  /\ attempt \in [Keys -> [Attempts -> Attempt]]
  /\ saved \in [Keys -> Checkpoint]
  /\ receipt \in [Keys -> [Attempts -> Receipt]]
  /\ personal \in [count : Int, reserved : Int, uncertain : Int, actual : Nat]
  /\ pool \in [reserved : Int, uncertain : Int, actual : Nat]
  /\ lock \in [key : Keys \cup {None}, n : 0 .. MaxAttempts, live : BOOLEAN]
  /\ product \in Nat
  /\ handler \in [Handlers -> Handler]
  /\ \A h \in Handlers : handler[h].pc # "idle" => handler[h].key \in Keys
  /\ \A h \in Handlers : handler[h].pc \notin {"idle", "read"} => handler[h].n \in Attempts
  /\ account \in [active : BOOLEAN, ledger : BOOLEAN, abandoned : SUBSET Keys]
  /\ spent \in [Keys -> [Attempts -> Nat]]
  /\ edits \in 0 .. MaxEdits

Init ==
  /\ request = [k \in Keys |-> NoRequest]
  /\ attempt = [k \in Keys |-> [n \in Attempts |-> NoAttempt]]
  /\ saved = [k \in Keys |-> NoCheckpoint]
  /\ receipt = [k \in Keys |-> [n \in Attempts |-> NoReceipt]]
  /\ personal = [count |-> 0, reserved |-> 0, uncertain |-> 0, actual |-> 0]
  /\ pool = [reserved |-> 0, uncertain |-> 0, actual |-> 0]
  /\ lock = Free
  /\ product = 0
  /\ handler = [h \in Handlers |-> Idle]
  /\ account = [active |-> TRUE, ledger |-> TRUE, abandoned |-> {}]
  /\ spent = [k \in Keys |-> [n \in Attempts |-> 0]]
  /\ edits = 0

-----------------------------------------------------------------------------
(* Counters, locks and what the documents tell of an attempt *)

Goto(h, pc) == handler' = [handler EXCEPT ![h].pc = pc]
Leave(h) == handler' = [handler EXCEPT ![h] = Idle]

\* What is held for an attempt becomes a cost ...
Booked(bill, held, cost) == [bill EXCEPT ![held] = bill[held] - Reserve, !.actual = bill.actual + cost]
\* ... or an uncertain cost of the same size.
Contained(bill) == [bill EXCEPT !.reserved = bill.reserved - Reserve, !.uncertain = bill.uncertain + Reserve]

\* Is as much held as the attempt takes out?
Enough(bill, held) == bill[held] >= Reserve

\* aiUsageReleaseLock: only the attempt's own lock.
Released(k, n) == IF lock.key = k /\ lock.n = n THEN Free ELSE lock

\* What a receipt tells of the pool's counters.
HeldInPool(k, n) ==
  CASE receipt[k][n].kind = "none" -> "reserved"
    [] receipt[k][n].kind = "uncertain" -> "uncertain"
    [] OTHER -> "nothing"

\* The personal state that finalizedPersonalState and exactCheckpointAccountingState find.
Held(k, n) ==
  IF request[k].n # n THEN "nothing"
  ELSE CASE request[k].status = "reserved" /\ attempt[k][n].status = "reserved" -> "reserved"
         [] request[k].status = "failed" /\ request[k].reason = "unknown" /\ attempt[k][n].status = "uncertain" -> "uncertain"
         [] request[k].status = "checkpointed" /\ attempt[k][n].status = "checkpointed" -> saved[k].held
         [] OTHER -> "nothing"

\* Request and receipt agree on what is still held for the attempt.
Open(k, n) == Held(k, n) \in {"reserved", "uncertain"} /\ Held(k, n) = HeldInPool(k, n)

-----------------------------------------------------------------------------
(* Reservation *)

\* The route reads the product, and decides by it later.
Read(h, k) ==
  /\ handler[h].pc = "idle" /\ account.active
  /\ handler' = [handler EXCEPT ![h] = [pc |-> "read", key |-> k, n |-> 0, cost |-> 0,
                   guard |-> IF Route[k] = "product" THEN product ELSE 0]]
  /\ UNCHANGED <<documents, account, spent, edits>>

\* A key is new, or its last attempt certainly did not reach the provider.
MayReserve(k) ==
  \/ request[k].status = "none"
  \/ request[k].status = "failed" /\ request[k].reason = "pre"

\* reserveAiUsage
reserveAiUsage(h) ==
  LET k == handler[h].key
      n == request[k].n + 1 IN
  /\ handler[h].pc = "read" /\ account.active /\ n \in Attempts
  /\ MayReserve(k)
  /\ personal.count < RequestLimit
  /\ ~lock.live
  /\ personal.actual + personal.uncertain + personal.reserved + Reserve <= UserLimit
  /\ pool.actual + pool.uncertain + pool.reserved + Reserve <= PoolLimit
  /\ request' = [request EXCEPT ![k] = [status |-> "reserved", reason |-> "none", n |-> n]]
  /\ attempt' = [attempt EXCEPT ![k][n] = [status |-> "reserved", cost |-> 0, failed |-> FALSE]]
  /\ personal' = [personal EXCEPT !.count = personal.count + 1, !.reserved = personal.reserved + Reserve]
  /\ pool' = [pool EXCEPT !.reserved = pool.reserved + Reserve]
  /\ lock' = [key |-> k, n |-> n, live |-> TRUE]
  /\ handler' = [handler EXCEPT ![h].pc = "ready", ![h].n = n]
  /\ UNCHANGED <<saved, receipt, product, account, spent, edits>>

\* A repeated key whose result is saved: the request goes on from there.
recoverAiUsageResult(h) ==
  LET k == handler[h].key IN
  /\ handler[h].pc = "read" /\ Route[k] = "product" /\ request[k].status = "checkpointed"
  /\ handler' = [handler EXCEPT ![h].pc = "settle", ![h].n = request[k].n, ![h].guard = saved[k].guard]
  /\ UNCHANGED <<documents, account, spent, edits>>

-----------------------------------------------------------------------------
(* The provider *)

Dispatch(h, c) ==
  /\ handler[h].pc = "ready"
  /\ spent' = [spent EXCEPT ![handler[h].key][handler[h].n] = c]
  /\ Goto(h, "called")
  /\ UNCHANGED <<documents, account, edits>>

\* The input is refused, or the route fails before its call: Spark says so,
\* the other routes do not know.
NotDispatched(h) ==
  /\ handler[h].pc = "ready"
  /\ \E pc \in IF Route[handler[h].key] = "turn" THEN {"unsent", "lost"} ELSE {"lost"} : Goto(h, pc)
  /\ UNCHANGED <<documents, account, spent, edits>>

Answer(h) ==
  /\ handler[h].pc = "called"
  /\ handler' = [handler EXCEPT ![h].pc = "answered", ![h].cost = spent[handler[h].key][handler[h].n]]
  /\ UNCHANGED <<documents, account, spent, edits>>

\* Mutant: what the illustration route does, course-illustrations.ts:296.
NoAnswerUnsent(h) ==
  /\ handler[h].pc = "called"
  /\ Goto(h, "unsent")
  /\ UNCHANGED <<documents, account, spent, edits>>

\* The call fails, or its answer is malformed.
NoAnswer(h) ==
  /\ handler[h].pc = "called"
  /\ Goto(h, "lost")
  /\ UNCHANGED <<documents, account, spent, edits>>

\* The route fails with the answer in hand; not every route keeps its usage.
Fails(h) ==
  /\ handler[h].pc = "answered"
  /\ \E pc \in {"failing", "lost"} : Goto(h, pc)
  /\ UNCHANGED <<documents, account, spent, edits>>

-----------------------------------------------------------------------------
(* Checkpoint and settlement of a product *)

\* Mutant: a contained reservation is checkpointed as one that still holds.
CheckpointAsReserved(k, n, c, g) == [held |-> "reserved", cost |-> c, guard |-> g]

\* accountingStatus tells where the attempt's reserve was when it was saved.
CheckpointOf(k, n, c, g) == [held |-> Held(k, n), cost |-> c, guard |-> g]

\* The reply may be lost: the route then fails.
checkpointAiUsageResult(h) ==
  LET k == handler[h].key
      n == handler[h].n IN
  /\ handler[h].pc = "answered" /\ Route[k] = "product" /\ account.active
  /\ request[k].status # "checkpointed" /\ Held(k, n) \in {"reserved", "uncertain"}
  /\ request' = [request EXCEPT ![k].status = "checkpointed", ![k].reason = "none"]
  /\ attempt' = [attempt EXCEPT ![k][n].status = "checkpointed"]
  /\ saved' = [saved EXCEPT ![k] = CheckpointOf(k, n, handler[h].cost, handler[h].guard)]
  /\ \E pc \in {"settle", "failing"} : Goto(h, pc)
  /\ UNCHANGED <<receipt, personal, pool, lock, product, account, spent, edits>>

\* The checks of exactCheckpointAccountingState and of the counters.
MaySettle(k, n) ==
  /\ request[k].status = "checkpointed" /\ Open(k, n)
  /\ Enough(personal, saved[k].held) /\ Enough(pool, saved[k].held)

\* Mutant: a result that was late is not counted against the allowance.
CountedNoMore(bill, held) == bill

\* A contained attempt gave its request back, and takes it again.
CountedAgain(bill, held) == IF held = "uncertain" THEN [bill EXCEPT !.count = bill.count + 1] ELSE bill

\* Product and accounts in one transaction; refused when the product changed.
settleAiUsageProduct(h) ==
  LET k == handler[h].key
      n == handler[h].n
      held == saved[k].held IN
  /\ handler[h].pc = "settle" /\ account.active
  /\ MaySettle(k, n) /\ product = saved[k].guard
  /\ request' = [request EXCEPT ![k].status = "completed"]
  /\ attempt' = [attempt EXCEPT ![k][n] = [status |-> "observed", cost |-> saved[k].cost, failed |-> FALSE]]
  /\ receipt' = [receipt EXCEPT ![k][n] = [kind |-> "result", cost |-> saved[k].cost, failed |-> FALSE]]
  /\ personal' = CountedAgain(Booked(personal, held, saved[k].cost), held)
  /\ pool' = Booked(pool, held, saved[k].cost)
  /\ lock' = Released(k, n)
  /\ product' = product + 1
  /\ Leave(h)
  /\ UNCHANGED <<saved, account, spent, edits>>

-----------------------------------------------------------------------------
(* finalizeAiUsage *)

\* Mutant: a checkpointed result is booked as the failure of its request.
MayBookAnyway(k, n) ==
  /\ Open(k, n)
  /\ Enough(personal, Held(k, n)) /\ Enough(pool, Held(k, n))

\* The checks of settleFinalizedAiUsage: the attempt is still open, and what
\* has a checkpoint is left to the product's settlement.
MayBook(k, n) ==
  /\ request[k].status # "checkpointed"
  /\ Open(k, n)
  /\ Enough(personal, Held(k, n)) /\ Enough(pool, Held(k, n))

\* An attempt that was contained keeps its status; one that surely was not
\* sent may be repeated.
settleFinalizedAiUsage(k, n, cost, failed, reason) ==
  LET held == Held(k, n)
      bill == Booked(personal, held, cost) IN
  /\ account.active /\ MayBook(k, n)
  /\ request' = [request EXCEPT
       ![k].status = IF held = "reserved" /\ ~failed THEN "completed" ELSE "failed",
       ![k].reason = IF reason = "pre" THEN "pre" ELSE request[k].reason]
  /\ attempt' = [attempt EXCEPT ![k][n] = [status |-> "observed", cost |-> cost, failed |-> failed]]
  /\ receipt' = [receipt EXCEPT ![k][n] = [kind |-> "completion", cost |-> cost, failed |-> failed]]
  /\ personal' = IF held = "reserved" /\ failed THEN [bill EXCEPT !.count = bill.count - 1] ELSE bill
  /\ pool' = Booked(pool, held, cost)
  /\ lock' = Released(k, n)
  /\ UNCHANGED <<saved, product, account, spent, edits>>

\* A turn ends well; when the reply is lost its route fails.
FinalizeTurn(h) ==
  /\ handler[h].pc = "answered" /\ Route[handler[h].key] = "turn"
  /\ settleFinalizedAiUsage(handler[h].key, handler[h].n, handler[h].cost, FALSE, "none")
  /\ Leave(h) \/ Goto(h, "failing")

\* A route failed after it saw the answer ...
FinalizeFailed(h) ==
  /\ handler[h].pc = "failing"
  /\ settleFinalizedAiUsage(handler[h].key, handler[h].n, handler[h].cost, TRUE, "none")
  /\ Leave(h)

\* ... or before it sent anything: providerOutcome "not_started".
FinalizeUnsent(h) ==
  /\ handler[h].pc = "unsent"
  /\ settleFinalizedAiUsage(handler[h].key, handler[h].n, 0, TRUE, "pre")
  /\ Leave(h)

\* The account was deleted in the meantime: only the pool learns the cost.
FinalizeDeleted(h) ==
  LET k == handler[h].key
      n == handler[h].n
      failed == handler[h].pc # "answered" IN
  /\ handler[h].pc \in {"failing", "unsent"} \/ (handler[h].pc = "answered" /\ Route[k] = "turn")
  /\ ~account.active /\ ~account.ledger /\ request[k].status = "none"
  /\ receipt[k][n].kind = "uncertain" /\ Enough(pool, "uncertain")
  /\ receipt' = [receipt EXCEPT ![k][n] = [kind |-> "completion", cost |-> handler[h].cost, failed |-> failed]]
  /\ pool' = Booked(pool, "uncertain", handler[h].cost)
  /\ Leave(h)
  /\ UNCHANGED <<request, attempt, saved, personal, lock, product, account, spent, edits>>

\* The checks of reconcileAiUsageRoot.
MayContain(k, n) ==
  /\ request[k].status = "reserved" /\ Open(k, n)
  /\ personal.count >= 1 /\ Enough(personal, "reserved") /\ Enough(pool, "reserved")

reconcileAiUsageRoot(k, n) ==
  /\ account.active /\ MayContain(k, n)
  /\ request' = [request EXCEPT ![k].status = "failed", ![k].reason = "unknown"]
  /\ attempt' = [attempt EXCEPT ![k][n].status = "uncertain"]
  /\ receipt' = [receipt EXCEPT ![k][n].kind = "uncertain"]
  /\ personal' = [Contained(personal) EXCEPT !.count = personal.count - 1]
  /\ pool' = Contained(pool)
  /\ lock' = Released(k, n)
  /\ UNCHANGED <<saved, product, account, spent, edits>>

\* A failure without an observed response cannot certify that nothing was spent.
FinalizeUnknown(h) ==
  /\ handler[h].pc = "lost"
  /\ reconcileAiUsageRoot(handler[h].key, handler[h].n)
  /\ Leave(h)

\* An operator's run: reservations whose lease has run out.
reconcileExpiredAiUsage(k) ==
  /\ ~(lock.live /\ lock.key = k /\ lock.n = request[k].n)
  /\ reconcileAiUsageRoot(k, request[k].n)
  /\ UNCHANGED handler

-----------------------------------------------------------------------------
(* Time, others, and the deletion of the account *)

LeaseExpires ==
  /\ lock.live
  /\ lock' = [lock EXCEPT !.live = FALSE]
  /\ UNCHANGED <<request, attempt, saved, receipt, personal, pool, product, handler, account, spent, edits>>

\* Another writer of the product: the learner, or another result.
ChangeProduct ==
  /\ account.active /\ edits < MaxEdits
  /\ product' = product + 1
  /\ edits' = edits + 1
  /\ UNCHANGED <<request, attempt, saved, receipt, personal, pool, lock, handler, account, spent>>

\* A request is refused, fails, or its server dies.
Refused(h) ==
  /\ handler[h].pc # "idle"
  /\ Leave(h)
  /\ UNCHANGED <<documents, account, spent, edits>>

DeleteAccount ==
  /\ account.active
  /\ account' = [account EXCEPT !.active = FALSE]
  /\ UNCHANGED <<documents, handler, spent, edits>>

\* Mutant: the saved result of a contained attempt is not accepted.
MayAbandonReserved(k) ==
  request[k].status = "checkpointed" /\ HeldInPool(k, request[k].n) # "uncertain"

\* A saved result is still open, or an earlier try has booked it.
MayAbandonResult(k) ==
  LET known == receipt[k][request[k].n] IN
  /\ request[k].status = "checkpointed"
  /\ \/ Open(k, request[k].n) /\ Enough(pool, saved[k].held)
     \/ known.kind = "result" /\ known.cost = saved[k].cost /\ pool.actual >= known.cost

\* Deletion stops for a manual review unless receipt, request and counters agree.
MayAbandon(k) ==
  LET n == request[k].n
      known == receipt[k][n] IN
  \/ request[k].status = "none"
  \/ MayAbandonResult(k)
  \/ request[k].status = "reserved" /\ Held(k, n) = "reserved" /\ HeldInPool(k, n) # "nothing" /\ Enough(pool, HeldInPool(k, n))
  \/ request[k].status = "failed" /\ Open(k, n) /\ Enough(pool, "uncertain")
  \/ /\ request[k].status \in {"completed", "failed"} /\ attempt[k][n].status = "observed"
     /\ known.kind = IF saved[k].held = "none" THEN "completion" ELSE "result"
     /\ known.cost = attempt[k][n].cost /\ known.failed = attempt[k][n].failed /\ pool.actual >= known.cost

\* abandonAiUsage of the documents stage, which may be repeated: a saved
\* result is booked in the pool, a reservation becomes uncertain there;
\* nothing personal is written.
abandonAiUsage(k) ==
  LET n == request[k].n IN
  /\ ~account.active /\ MayAbandon(k)
  /\ CASE request[k].status = "checkpointed" /\ HeldInPool(k, n) # "nothing" ->
            /\ receipt' = [receipt EXCEPT ![k][n] = [kind |-> "result", cost |-> saved[k].cost, failed |-> FALSE]]
            /\ pool' = Booked(pool, saved[k].held, saved[k].cost)
       [] request[k].status = "reserved" /\ HeldInPool(k, n) = "reserved" ->
            /\ receipt' = [receipt EXCEPT ![k][n].kind = "uncertain"]
            /\ pool' = Contained(pool)
       [] OTHER -> UNCHANGED <<receipt, pool>>
  /\ account' = [account EXCEPT !.abandoned = account.abandoned \cup {k}]
  /\ UNCHANGED <<request, attempt, saved, personal, lock, product, handler, spent, edits>>

\* The documents are removed when all of them were abandoned.
RemoveRequest(k) ==
  /\ account.abandoned = Keys /\ request[k].status # "none"
  /\ request' = [request EXCEPT ![k] = NoRequest]
  /\ attempt' = [attempt EXCEPT ![k] = [n \in Attempts |-> NoAttempt]]
  /\ saved' = [saved EXCEPT ![k] = NoCheckpoint]
  /\ UNCHANGED <<receipt, personal, pool, lock, product, handler, account, spent, edits>>

RemoveLedger ==
  /\ account.abandoned = Keys /\ account.ledger
  /\ account' = [account EXCEPT !.ledger = FALSE]
  /\ personal' = [count |-> 0, reserved |-> 0, uncertain |-> 0, actual |-> 0]
  /\ lock' = Free
  /\ UNCHANGED <<request, attempt, saved, receipt, pool, product, handler, spent, edits>>

-----------------------------------------------------------------------------

Next ==
  \/ \E h \in Handlers :
       \/ \E k \in Keys : Read(h, k)
       \/ \E c \in Costs : Dispatch(h, c)
       \/ reserveAiUsage(h) \/ recoverAiUsageResult(h)
       \/ NotDispatched(h) \/ Answer(h) \/ NoAnswer(h) \/ Fails(h)
       \/ checkpointAiUsageResult(h) \/ settleAiUsageProduct(h)
       \/ FinalizeTurn(h) \/ FinalizeFailed(h) \/ FinalizeUnsent(h) \/ FinalizeUnknown(h) \/ FinalizeDeleted(h)
       \/ Refused(h)
  \/ \E k \in Keys : reconcileExpiredAiUsage(k) \/ abandonAiUsage(k) \/ RemoveRequest(k)
  \/ LeaseExpires \/ ChangeProduct \/ DeleteAccount \/ RemoveLedger

Spec == Init /\ [][Next]_vars

\* A deletion that was begun is repeated until it is done.
Fairness ==
  /\ \A k \in Keys : WF_vars(abandonAiUsage(k)) /\ WF_vars(RemoveRequest(k))
  /\ WF_vars(RemoveLedger)

FairSpec == Spec /\ Fairness

-----------------------------------------------------------------------------
(* Properties *)

Slots == Keys \X Attempts
Made == {a \in Slots : attempt[a[1]][a[2]].status # "none" \/ receipt[a[1]][a[2]].kind # "none"}
InPool(held) == {a \in Made : HeldInPool(a[1], a[2]) = held}
Holding(held) == {a \in Made : Held(a[1], a[2]) = held}

\* The counters that admit or refuse paid work are never off: those of the
\* pool are what the receipts say, those of the user what the attempts say,
\* and the allowance counts the requests that run or were served.
LedgersMatch ==
  /\ pool.reserved = Reserve * Cardinality(InPool("reserved"))
  /\ pool.uncertain = Reserve * Cardinality(InPool("uncertain"))
  /\ pool.actual = SumFunction([a \in Slots |-> receipt[a[1]][a[2]].cost])
  /\ account.active =>
       /\ personal.reserved = Reserve * Cardinality(Holding("reserved"))
       /\ personal.uncertain = Reserve * Cardinality(Holding("uncertain"))
       /\ personal.actual = SumFunction([a \in Slots |-> attempt[a[1]][a[2]].cost])
       /\ personal.count = Cardinality({k \in Keys : request[k].status = "completed"})
                           + Cardinality(Holding("reserved"))

\* A call that was sent is paid for once, and stays held against the pool, or
\* in doubt, or is booked at what it cost: whatever request died, was late, or
\* was overtaken by the operator or by the deletion of the account.
SpendKept ==
  \A k \in Keys :
    /\ \A n \in Attempts : spent[k][n] # 0 =>
         /\ attempt[k][n].status # "none" \/ receipt[k][n].kind # "none"
         /\ HeldInPool(k, n) = "nothing" => receipt[k][n].cost = spent[k][n]
    /\ \A m, n \in Attempts : spent[k][m] # 0 /\ spent[k][n] # 0 => m = n

\* The strict checks of receipt, request, attempt and counters never refuse
\* what the code itself wrote: a reservation can be contained, a saved result
\* settled, and a deletion goes on, and is repeated, without a manual review.
NeverBlocked ==
  \A k \in Keys :
    /\ account.active /\ request[k].status = "reserved" => MayContain(k, request[k].n)
    /\ account.active /\ request[k].status = "checkpointed" => MaySettle(k, request[k].n)
    /\ MayAbandon(k)

\* A paid result that was saved is not lost to a failing request or to the
\* operator's run: it waits until it is in the product or the account goes,
\* and the product is written with it once.
ResultKept ==
  [][\A k \in Keys : request[k].status \in {"checkpointed", "completed"} /\ account'.active =>
       \/ request'[k] = request[k]
       \/ request[k].status = "checkpointed" /\ request'[k].status = "completed" /\ product = saved[k].guard]_vars

\* A deletion leaves no reserve in the pool and none of the user's records.
DeletionSettles ==
  ~account.active ~> pool.reserved = 0 /\ ~account.ledger /\ \A k \in Keys : request[k].status = "none"
=============================================================================
