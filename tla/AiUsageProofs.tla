---------------------------- MODULE AiUsageProofs ----------------------------
(***************************************************************************)
(* Proofs about AiUsage, for any keys, requests, attempts and amounts: its *)
(* state has its type, what was spent stays in the pool's books at what it *)
(* cost, a paid result that was saved is not given up, the totals are the  *)
(* sums over the documents, and no strict check finds its account short.   *)
(***************************************************************************)
EXTENDS AiUsage, FiniteSetTheorems, WellFoundedInduction, TLAPS

Before == {"ready", "unsent"}
Sent == {"called", "answered", "failing"}

-----------------------------------------------------------------------------
(* The inductive invariant *)

Numbered == \A k \in Keys : request[k].status # "none" => request[k].n \in Attempts

\* For a request that has a reservation and has not called the provider,
\* nothing was spent under its key, no other request is as far, and its
\* attempt is the key's last and is held or in doubt.
NothingSent ==
  \A h \in Handlers : handler[h].pc \in Before =>
    LET k == handler[h].key
        n == handler[h].n IN
    /\ \A m \in Attempts : spent[k][m] = 0
    /\ handler[h].cost = 0
    /\ attempt[k][n].status # "none" \/ receipt[k][n].kind # "none"
    /\ receipt[k][n].kind \in {"none", "uncertain"}
    /\ \/ request[k].status = "none" /\ ~account.active
       \/ /\ request[k].n = n
          /\ request[k].status = "reserved" \/ (request[k].status = "failed" /\ request[k].reason = "unknown")
    /\ \A g \in Handlers : handler[g].pc \in Before /\ handler[g].key = k => g = h

\* A request that has called the provider has paid, and knows what once it is answered.
WasSent ==
  \A h \in Handlers :
    /\ handler[h].pc = "read" => handler[h].cost = 0
    /\ handler[h].pc \in Sent => spent[handler[h].key][handler[h].n] # 0
    /\ handler[h].pc \in Sent \ {"called"} => handler[h].cost = spent[handler[h].key][handler[h].n]

\* What is saved is what was spent, and a key that may be reserved has spent nothing.
Roots ==
  \A k \in Keys :
    /\ request[k].status = "checkpointed" => saved[k].cost = spent[k][request[k].n]
    /\ request[k].status \in {"none", "reserved"} => request[k].reason = "none"
    /\ (request[k].status = "none" /\ account.active) \/ request[k].reason = "pre" => \A m \in Attempts : spent[k][m] = 0
    /\ account.active => \A m \in Attempts : m > request[k].n => receipt[k][m].kind = "none"

\* All attempts but the last one have their receipt, and the last one has it
\* before the key is reserved anew, or when the deletion is through with it.
Receipted ==
  \A k \in Keys, m \in Attempts : attempt[k][m].status # "none" =>
    \/ receipt[k][m].kind # "none"
    \/ m = request[k].n /\ request[k].status # "none" /\ request[k].reason # "pre" /\ k \notin account.abandoned

Deleting == account.abandoned # {} => ~account.active

TypeInv == TypeOK /\ Numbered
SpendInv == NothingSent /\ WasSent /\ Roots /\ Receipted /\ SpendKept
IInv == TypeInv /\ Deleting /\ SpendInv

-----------------------------------------------------------------------------
(* Types *)

\* A request at work has a key, and an attempt once it has reserved.
LEMMA AtWork ==
  ASSUME TypeInv, NEW h \in Handlers, handler[h].pc # "idle"
  PROVE  /\ handler[h].key \in Keys
         /\ handler[h].pc # "read" => handler[h].n \in Attempts
         /\ handler[h].n \in 0 .. MaxAttempts /\ handler[h].cost \in Nat /\ handler[h].guard \in Nat
BY DEF TypeInv, TypeOK, Handler

LEMMA OfKey ==
  ASSUME TypeInv, NEW k \in Keys
  PROVE  /\ request[k] \in Request /\ saved[k] \in Checkpoint
         /\ attempt[k] \in [Attempts -> Attempt] /\ receipt[k] \in [Attempts -> Receipt] /\ spent[k] \in [Attempts -> Nat]
         /\ request[k].n \in 0 .. MaxAttempts /\ request[k].n \in Nat /\ saved[k].cost \in Nat /\ saved[k].guard \in Nat
         /\ request[k].status # "none" => request[k].n \in Attempts
BY DEF TypeInv, TypeOK, Request, Checkpoint, Numbered

LEMMA Amounts ==
  /\ Reserve \in Nat /\ Reserve # 0
  /\ \A c \in Costs : c \in Nat /\ c # 0
  /\ MaxAttempts \in Nat /\ MaxEdits \in Nat /\ 0 \in 0 .. MaxAttempts
  /\ \A n \in Attempts : n \in 0 .. MaxAttempts /\ n # 0 /\ n \in Nat
BY AmountsAssumption, LimitsAssumption DEF Attempts

LEMMA HeldIs ==
  ASSUME NEW k, NEW n, Held(k, n) \in {"reserved", "uncertain"}
  PROVE  /\ request[k].n = n
         /\ \/ request[k].status = "reserved" /\ Held(k, n) = "reserved"
            \/ request[k].status = "failed" /\ request[k].reason = "unknown" /\ Held(k, n) = "uncertain"
            \/ request[k].status = "checkpointed" /\ Held(k, n) = saved[k].held
BY DEF Held

Pool == [reserved : Int, uncertain : Int, actual : Nat]
Personal == [count : Int, reserved : Int, uncertain : Int, actual : Nat]

LEMMA Books ==
  ASSUME NEW held \in {"reserved", "uncertain"}, NEW cost \in Nat
  PROVE  /\ \A b \in Pool : Booked(b, held, cost) \in Pool /\ Contained(b) \in Pool
         /\ \A b \in Personal : Booked(b, held, cost) \in Personal /\ Contained(b) \in Personal
<1>1. Reserve \in Int
  BY Amounts
<1>2. ASSUME NEW b \in Pool PROVE Booked(b, held, cost) \in Pool /\ Contained(b) \in Pool
  <2>1. b.reserved - Reserve \in Int /\ b.uncertain - Reserve \in Int /\ b.uncertain + Reserve \in Int /\ b.actual + cost \in Nat
    BY <1>1, <1>2 DEF Pool
  <2> QED BY <1>2, <2>1 DEF Booked, Contained, Pool
<1>3. ASSUME NEW b \in Personal PROVE Booked(b, held, cost) \in Personal /\ Contained(b) \in Personal
  <2>1. b.reserved - Reserve \in Int /\ b.uncertain - Reserve \in Int /\ b.uncertain + Reserve \in Int /\ b.actual + cost \in Nat
    BY <1>1, <1>3 DEF Personal
  <2> QED BY <1>3, <2>1 DEF Booked, Contained, Personal
<1> QED BY <1>2, <1>3

LEMMA ReleasedType ==
  ASSUME TypeInv, NEW k, NEW n
  PROVE  Released(k, n) \in [key : Keys \cup {None}, n : 0 .. MaxAttempts, live : BOOLEAN]
BY Amounts DEF TypeInv, TypeOK, Released, Free

LEMMA Moves ==
  ASSUME TypeInv, NEW h \in Handlers, handler[h].pc \notin {"idle", "read"},
         NEW pc \in {"idle", "called", "settle", "failing", "unsent", "lost"},
         handler' = IF pc = "idle" THEN [handler EXCEPT ![h] = Idle] ELSE [handler EXCEPT ![h].pc = pc]
  PROVE  /\ handler' \in [Handlers -> Handler]
         /\ \A g \in Handlers : handler'[g].pc # "idle" => handler'[g].key \in Keys
         /\ \A g \in Handlers : handler'[g].pc \notin {"idle", "read"} => handler'[g].n \in Attempts
<1>1. handler[h].key \in Keys /\ handler[h].n \in Attempts /\ handler[h] \in Handler
  BY AtWork DEF TypeInv, TypeOK
<1>2. Idle \in Handler
  BY Amounts DEF Idle, Handler
<1>3. [handler[h] EXCEPT !.pc = pc] \in Handler
  BY <1>1 DEF Handler
<1>4. handler'[h].key \in Keys \/ handler'[h].pc = "idle"
  BY <1>1 DEF TypeInv, TypeOK, Idle, Handler
<1>5. handler'[h].n \in Attempts \/ handler'[h].pc = "idle"
  BY <1>1 DEF TypeInv, TypeOK, Idle, Handler
<1> QED BY <1>1, <1>2, <1>3, <1>4, <1>5 DEF TypeInv, TypeOK

LEMMA OneChanged ==
  ASSUME NEW S, NEW T, NEW V, NEW f \in [S -> [T -> V]], NEW k \in S, NEW n \in T, NEW v \in V
  PROVE  [f EXCEPT ![k][n] = v] \in [S -> [T -> V]]
OBVIOUS

\* What settleFinalizedAiUsage writes has its type.
LEMMA FinalizeTypes ==
  ASSUME TypeInv, NEW k \in Keys, NEW n \in Attempts, NEW cost \in Nat, NEW failed \in BOOLEAN, NEW reason \in {"none", "pre"},
         settleFinalizedAiUsage(k, n, cost, failed, reason)
  PROVE  /\ request' \in [Keys -> Request] /\ Numbered'
         /\ attempt' \in [Keys -> [Attempts -> Attempt]] /\ receipt' \in [Keys -> [Attempts -> Receipt]]
         /\ personal' \in Personal /\ pool' \in Pool
         /\ lock' \in [key : Keys \cup {None}, n : 0 .. MaxAttempts, live : BOOLEAN]
         /\ UNCHANGED <<saved, product, account, spent, edits>>
<1>1. Held(k, n) \in {"reserved", "uncertain"}
  BY DEF settleFinalizedAiUsage, MayBook, Open
<1>2. request' \in [Keys -> Request]
  <2>1. \A s \in {"completed", "failed"}, r \in {"none", "unknown", "pre"} :
           [[request[k] EXCEPT !.status = s] EXCEPT !.reason = r] \in Request
    BY OfKey DEF Request
  <2>2. request[k].reason \in {"none", "unknown", "pre"}
    BY OfKey DEF Request
  <2> QED BY <2>1, <2>2 DEF settleFinalizedAiUsage, TypeInv, TypeOK
<1>3. Numbered'
  BY <1>1, HeldIs DEF settleFinalizedAiUsage, TypeInv, TypeOK, Numbered, Request
<1>4. [status |-> "observed", cost |-> cost, failed |-> failed] \in Attempt
      /\ [kind |-> "completion", cost |-> cost, failed |-> failed] \in Receipt
  BY DEF Attempt, Receipt
<1>5. attempt' \in [Keys -> [Attempts -> Attempt]] /\ receipt' \in [Keys -> [Attempts -> Receipt]]
  BY <1>4 DEF settleFinalizedAiUsage, TypeInv, TypeOK
<1>6. personal \in Personal /\ pool \in Pool
  BY DEF TypeInv, TypeOK, Personal, Pool
<1>7. pool' \in Pool
  BY <1>1, <1>6, Books DEF settleFinalizedAiUsage
<1>8. personal' \in Personal
  <2>1. Booked(personal, Held(k, n), cost) \in Personal
    BY <1>1, <1>6, Books
  <2>2. \A b \in Personal : [b EXCEPT !.count = b.count - 1] \in Personal
    BY DEF Personal
  <2> QED BY <2>1, <2>2 DEF settleFinalizedAiUsage
<1> QED BY <1>2, <1>3, <1>5, <1>7, <1>8, ReleasedType DEF settleFinalizedAiUsage

\* So has what reconcileAiUsageRoot writes.
LEMMA ContainTypes ==
  ASSUME TypeInv, NEW k \in Keys, NEW n \in 0 .. MaxAttempts, reconcileAiUsageRoot(k, n)
  PROVE  /\ n \in Attempts /\ request' \in [Keys -> Request] /\ Numbered'
         /\ attempt' \in [Keys -> [Attempts -> Attempt]] /\ receipt' \in [Keys -> [Attempts -> Receipt]]
         /\ personal' \in Personal /\ pool' \in Pool
         /\ lock' \in [key : Keys \cup {None}, n : 0 .. MaxAttempts, live : BOOLEAN]
         /\ UNCHANGED <<saved, product, account, spent, edits>>
<1>1. request[k].status = "reserved" /\ request[k].n = n
  BY HeldIs DEF reconcileAiUsageRoot, MayContain, Open
<1>2. n \in Attempts
  BY <1>1, OfKey
<1>3. request' \in [Keys -> Request] /\ Numbered'
  <2>1. [[request[k] EXCEPT !.status = "failed"] EXCEPT !.reason = "unknown"] \in Request
    BY OfKey DEF Request
  <2> QED BY <1>1, <1>2, <2>1 DEF reconcileAiUsageRoot, TypeInv, TypeOK, Numbered, Request
<1>4. [attempt[k][n] EXCEPT !.status = "uncertain"] \in Attempt /\ [receipt[k][n] EXCEPT !.kind = "uncertain"] \in Receipt
  BY <1>2, OfKey DEF Attempt, Receipt
<1>5. attempt' \in [Keys -> [Attempts -> Attempt]] /\ receipt' \in [Keys -> [Attempts -> Receipt]]
  BY <1>2, <1>4 DEF reconcileAiUsageRoot, TypeInv, TypeOK
<1>6. personal \in Personal /\ pool \in Pool
  BY DEF TypeInv, TypeOK, Personal, Pool
<1>7. Contained(pool) \in Pool /\ Contained(personal) \in Personal
  BY <1>6, Books
<1>8. \A b \in Personal, c \in Int : [b EXCEPT !.count = c] \in Personal
  BY DEF Personal
<1>9. personal.count - 1 \in Int
  BY <1>6 DEF Personal
<1>10. personal' \in Personal
  BY <1>7, <1>8, <1>9 DEF reconcileAiUsageRoot
<1> QED BY <1>2, <1>3, <1>5, <1>7, <1>10, ReleasedType DEF reconcileAiUsageRoot

\* A step of a request that writes no document.
LEMMA RequestTypes ==
  ASSUME TypeInv, NEW h \in Handlers,
         (\E k \in Keys : Read(h, k)) \/ recoverAiUsageResult(h) \/ (\E c \in Costs : Dispatch(h, c))
           \/ NotDispatched(h) \/ Answer(h) \/ NoAnswer(h) \/ Fails(h) \/ Refused(h)
  PROVE  TypeInv'
<1> DEFINE HandlerInv ==
      /\ handler \in [Handlers -> Handler]
      /\ \A g \in Handlers : handler[g].pc # "idle" => handler[g].key \in Keys
      /\ \A g \in Handlers : handler[g].pc \notin {"idle", "read"} => handler[g].n \in Attempts
<1> SUFFICES ASSUME UNCHANGED <<documents, account, edits>>, HandlerInv', spent' \in [Keys -> [Attempts -> Nat]]
             PROVE  TypeInv'
  <2>1. UNCHANGED <<documents, account, edits>>
    BY DEF Read, recoverAiUsageResult, Dispatch, NotDispatched, Answer, NoAnswer, Fails, Refused
  <2>2. spent' \in [Keys -> [Attempts -> Nat]]
    <3>1. CASE \E c \in Costs : Dispatch(h, c)
      BY <3>1, AtWork, Amounts DEF Dispatch, TypeInv, TypeOK
    <3>2. CASE UNCHANGED spent
      BY <3>2 DEF TypeInv, TypeOK
    <3> QED BY <3>1, <3>2 DEF Read, recoverAiUsageResult, NotDispatched, Answer, NoAnswer, Fails, Refused
  <2>3. HandlerInv'
    <3>1. ASSUME NEW k \in Keys, Read(h, k) PROVE HandlerInv'
      BY <3>1, Amounts DEF Read, TypeInv, TypeOK, Handler
    <3>2. CASE recoverAiUsageResult(h)
      <4>1. handler[h].key \in Keys /\ handler[h] \in Handler
        BY <3>2, AtWork DEF recoverAiUsageResult, TypeInv, TypeOK
      <4>2. request[handler[h].key].n \in Attempts /\ request[handler[h].key].n \in 0 .. MaxAttempts
            /\ saved[handler[h].key].guard \in Nat
        BY <3>2, <4>1, OfKey, Amounts DEF recoverAiUsageResult, Checkpoint
      <4> QED BY <3>2, <4>1, <4>2 DEF recoverAiUsageResult, TypeInv, TypeOK, Handler
    <3>3. CASE Answer(h)
      <4>1. handler[h].key \in Keys /\ handler[h].n \in Attempts /\ handler[h] \in Handler
        BY <3>3, AtWork DEF Answer, TypeInv, TypeOK
      <4>2. spent[handler[h].key][handler[h].n] \in Nat
        BY <4>1, OfKey
      <4> QED BY <3>3, <4>1, <4>2 DEF Answer, TypeInv, TypeOK, Handler
    <3>4. CASE Refused(h)
      BY <3>4, Amounts DEF Refused, Leave, Idle, TypeInv, TypeOK, Handler
    <3>5. CASE (\E c \in Costs : Dispatch(h, c)) \/ NotDispatched(h) \/ NoAnswer(h) \/ Fails(h)
      <4>1. handler[h].pc \notin {"idle", "read"}
        BY <3>5 DEF Dispatch, NotDispatched, NoAnswer, Fails
      <4>2. PICK pc \in {"called", "failing", "unsent", "lost"} : Goto(h, pc)
        BY <3>5 DEF Dispatch, NotDispatched, NoAnswer, Fails
      <4> QED BY <4>1, <4>2, Moves DEF Goto
    <3> QED BY <3>1, <3>2, <3>3, <3>4, <3>5
  <2> HIDE DEF HandlerInv
  <2> QED BY <2>1, <2>2, <2>3
<1> QED BY DEF documents, TypeInv, TypeOK, Numbered

LEMMA ReserveTypes ==
  ASSUME TypeInv, NEW h \in Handlers, reserveAiUsage(h)
  PROVE  TypeInv'
<1> DEFINE k == handler[h].key
           n == request[k].n + 1
<1>1. k \in Keys /\ n \in Attempts /\ n \in 0 .. MaxAttempts /\ handler[h] \in Handler
  BY AtWork, Amounts DEF reserveAiUsage, TypeInv, TypeOK
<1>2. request' \in [Keys -> Request] /\ Numbered'
  BY <1>1 DEF reserveAiUsage, TypeInv, TypeOK, Numbered, Request
<1>3. attempt' \in [Keys -> [Attempts -> Attempt]]
  BY <1>1 DEF reserveAiUsage, TypeInv, TypeOK, Attempt
<1>4. personal' \in Personal /\ pool' \in Pool
  <2>1. /\ personal.count + 1 \in Int /\ personal.reserved + Reserve \in Int
        /\ pool.reserved + Reserve \in Int
    BY Amounts DEF TypeInv, TypeOK
  <2> QED BY <2>1 DEF reserveAiUsage, TypeInv, TypeOK, Personal, Pool
<1>5. lock' \in [key : Keys \cup {None}, n : 0 .. MaxAttempts, live : BOOLEAN]
  BY <1>1 DEF reserveAiUsage
<1>6. [[handler[h] EXCEPT !.pc = "ready"] EXCEPT !.n = n] \in Handler
  BY <1>1 DEF Handler
<1>7. handler' \in [Handlers -> Handler] /\ handler' = [handler EXCEPT ![h] = [[handler[h] EXCEPT !.pc = "ready"] EXCEPT !.n = n]]
  BY <1>6 DEF reserveAiUsage, TypeInv, TypeOK
<1>8. /\ \A g \in Handlers : handler'[g].pc # "idle" => handler'[g].key \in Keys
      /\ \A g \in Handlers : handler'[g].pc \notin {"idle", "read"} => handler'[g].n \in Attempts
  BY <1>1, <1>7 DEF TypeInv, TypeOK, Handler
<1> QED BY <1>2, <1>3, <1>4, <1>5, <1>7, <1>8 DEF reserveAiUsage, TypeInv, TypeOK, Personal, Pool

LEMMA CheckpointTypes ==
  ASSUME TypeInv, NEW h \in Handlers, checkpointAiUsageResult(h)
  PROVE  TypeInv'
<1> DEFINE k == handler[h].key
           n == handler[h].n
<1>1. k \in Keys /\ n \in Attempts /\ handler[h].cost \in Nat /\ handler[h].guard \in Nat
  BY AtWork DEF checkpointAiUsageResult
<1>2. request[k].n = n
  BY HeldIs DEF checkpointAiUsageResult
<1>3. [[request[k] EXCEPT !.status = "checkpointed"] EXCEPT !.reason = "none"] \in Request
  BY <1>1, OfKey DEF Request
<1>4. request' \in [Keys -> Request] /\ Numbered'
  <2>1. request' = [request EXCEPT ![k] = [[request[k] EXCEPT !.status = "checkpointed"] EXCEPT !.reason = "none"]]
    BY <1>1 DEF checkpointAiUsageResult, TypeInv, TypeOK
  <2>2. request'[k].n = n
    BY <1>1, <1>2, <2>1, OfKey DEF TypeInv, TypeOK, Request
  <2> QED BY <1>1, <1>2, <1>3, <2>1, <2>2 DEF TypeInv, TypeOK, Numbered
<1>5. [attempt[k][n] EXCEPT !.status = "checkpointed"] \in Attempt
  BY <1>1, OfKey DEF Attempt
<1>6. attempt' \in [Keys -> [Attempts -> Attempt]]
  BY <1>1, <1>5 DEF checkpointAiUsageResult, TypeInv, TypeOK
<1>7. saved' \in [Keys -> Checkpoint]
  BY <1>1 DEF checkpointAiUsageResult, CheckpointOf, TypeInv, TypeOK, Checkpoint
<1>8. PICK pc \in {"settle", "failing"} : handler' = [handler EXCEPT ![h].pc = pc]
  BY DEF checkpointAiUsageResult, Goto
<1>9. handler[h].pc \notin {"idle", "read"}
  BY DEF checkpointAiUsageResult
<1> QED BY <1>4, <1>6, <1>7, <1>8, <1>9, Moves DEF checkpointAiUsageResult, TypeInv, TypeOK

\* What settles a saved result has its attempt and a part of the pool in hand.
LEMMA SettleIs ==
  ASSUME NEW k, NEW n, MaySettle(k, n)
  PROVE  request[k].n = n /\ request[k].status = "checkpointed" /\ saved[k].held \in {"reserved", "uncertain"}
BY HeldIs DEF MaySettle, Open

LEMMA SettleTypes ==
  ASSUME TypeInv, NEW h \in Handlers, settleAiUsageProduct(h)
  PROVE  TypeInv'
<1> DEFINE k == handler[h].key
           n == handler[h].n
           held == saved[k].held
<1>1. k \in Keys /\ n \in Attempts /\ saved[k].cost \in Nat
  BY AtWork, OfKey DEF settleAiUsageProduct
<1>2. request[k].n = n /\ held \in {"reserved", "uncertain"}
  BY SettleIs DEF settleAiUsageProduct
<1>3. [request[k] EXCEPT !.status = "completed"] \in Request
  BY <1>1, OfKey DEF Request
<1>4. request' \in [Keys -> Request] /\ Numbered'
  BY <1>1, <1>2, <1>3 DEF settleAiUsageProduct, TypeInv, TypeOK, Numbered
<1>5. attempt' \in [Keys -> [Attempts -> Attempt]] /\ receipt' \in [Keys -> [Attempts -> Receipt]]
  BY <1>1, OneChanged DEF settleAiUsageProduct, TypeInv, TypeOK, Attempt, Receipt
<1>6. personal \in Personal /\ pool \in Pool
  BY DEF TypeInv, TypeOK, Personal, Pool
<1>7. Booked(personal, held, saved[k].cost) \in Personal /\ pool' \in Pool
  BY <1>1, <1>2, <1>6, Books DEF settleAiUsageProduct
<1>8. \A b \in Personal : CountedAgain(b, held) \in Personal
  BY DEF CountedAgain, Personal
<1>9. personal' \in Personal
  BY <1>7, <1>8 DEF settleAiUsageProduct
<1>10. handler' = [handler EXCEPT ![h] = Idle] /\ handler[h].pc \notin {"idle", "read"}
  BY DEF settleAiUsageProduct, Leave
<1>11. product' \in Nat
  BY DEF settleAiUsageProduct, TypeInv, TypeOK
<1> QED BY <1>4, <1>5, <1>7, <1>9, <1>10, <1>11, Moves, ReleasedType DEF settleAiUsageProduct, TypeInv, TypeOK, Pool, Personal

\* How the requests call settleFinalizedAiUsage.
LEMMA Finalizes ==
  ASSUME TypeInv, NEW h \in Handlers, FinalizeTurn(h) \/ FinalizeFailed(h) \/ FinalizeUnsent(h)
  PROVE  /\ handler[h].pc \in {"answered", "failing", "unsent"} /\ handler[h].key \in Keys /\ handler[h].n \in Attempts
         /\ \E cost \in Nat, failed \in BOOLEAN, reason \in {"none", "pre"} :
              /\ settleFinalizedAiUsage(handler[h].key, handler[h].n, cost, failed, reason)
              /\ IF handler[h].pc = "unsent" THEN cost = 0 ELSE cost = handler[h].cost
              /\ reason = "pre" => handler[h].pc = "unsent"
         /\ Leave(h) \/ (handler[h].pc = "answered" /\ Goto(h, "failing"))
<1>1. handler[h].pc # "idle" => handler[h].key \in Keys /\ handler[h].cost \in Nat
  BY AtWork
<1>2. handler[h].pc \in {"answered", "failing", "unsent"}
  BY DEF FinalizeTurn, FinalizeFailed, FinalizeUnsent
<1>3. handler[h].key \in Keys /\ handler[h].n \in Attempts /\ handler[h].cost \in Nat /\ 0 \in Nat
  BY <1>2, AtWork
<1> QED BY <1>2, <1>3 DEF FinalizeTurn, FinalizeFailed, FinalizeUnsent

LEMMA BookingTypes ==
  ASSUME TypeInv, NEW h \in Handlers,
         FinalizeTurn(h) \/ FinalizeFailed(h) \/ FinalizeUnsent(h) \/ FinalizeUnknown(h) \/ FinalizeDeleted(h)
  PROVE  TypeInv'
<1>1. handler[h].pc \notin {"idle", "read"}
  BY DEF FinalizeTurn, FinalizeFailed, FinalizeUnsent, FinalizeUnknown, FinalizeDeleted
<1>2. handler[h].key \in Keys /\ handler[h].n \in Attempts /\ handler[h].n \in 0 .. MaxAttempts /\ handler[h].cost \in Nat
  BY <1>1, AtWork
<1>3. Leave(h) \/ Goto(h, "failing")
  BY DEF FinalizeTurn, FinalizeFailed, FinalizeUnsent, FinalizeUnknown, FinalizeDeleted
<1>4. /\ handler' \in [Handlers -> Handler]
      /\ \A g \in Handlers : handler'[g].pc # "idle" => handler'[g].key \in Keys
      /\ \A g \in Handlers : handler'[g].pc \notin {"idle", "read"} => handler'[g].n \in Attempts
  BY <1>1, <1>3, Moves DEF Leave, Goto
<1>5. CASE FinalizeTurn(h) \/ FinalizeFailed(h) \/ FinalizeUnsent(h)
  <2>1. PICK cost \in Nat, failed \in BOOLEAN, reason \in {"none", "pre"} :
          settleFinalizedAiUsage(handler[h].key, handler[h].n, cost, failed, reason)
    BY <1>5, Finalizes
  <2> QED BY <1>2, <1>4, <2>1, FinalizeTypes DEF TypeInv, TypeOK, Personal, Pool
<1>6. CASE FinalizeUnknown(h)
  BY <1>2, <1>4, <1>6, ContainTypes DEF FinalizeUnknown, TypeInv, TypeOK, Personal, Pool
<1>7. CASE FinalizeDeleted(h)
  <2>1. pool \in Pool
    BY DEF TypeInv, TypeOK, Pool
  <2>2. pool' \in Pool
    BY <1>2, <1>7, <2>1, Books DEF FinalizeDeleted
  <2>3. receipt' \in [Keys -> [Attempts -> Receipt]]
    BY <1>2, <1>7, OneChanged DEF FinalizeDeleted, TypeInv, TypeOK, Receipt
  <2> QED BY <1>4, <1>7, <2>2, <2>3 DEF FinalizeDeleted, TypeInv, TypeOK, Numbered, Pool
<1> QED BY <1>5, <1>6, <1>7

\* What an abandonment writes.
LEMMA AbandonIs ==
  ASSUME NEW k, abandonAiUsage(k)
  PROVE  LET n == request[k].n IN
         \/ /\ request[k].status = "checkpointed" /\ HeldInPool(k, n) # "nothing" /\ Open(k, n)
            /\ receipt' = [receipt EXCEPT ![k][n] = [kind |-> "result", cost |-> saved[k].cost, failed |-> FALSE]]
            /\ pool' = Booked(pool, saved[k].held, saved[k].cost)
         \/ /\ request[k].status = "reserved" /\ HeldInPool(k, n) = "reserved"
            /\ receipt' = [receipt EXCEPT ![k][n].kind = "uncertain"]
            /\ pool' = Contained(pool)
         \/ /\ UNCHANGED <<receipt, pool>>
            /\ ~(request[k].status = "checkpointed" /\ HeldInPool(k, n) # "nothing")
            /\ ~(request[k].status = "reserved" /\ HeldInPool(k, n) = "reserved")
<1> DEFINE n == request[k].n
<1>1. CASE request[k].status = "checkpointed" /\ HeldInPool(k, n) # "nothing"
  <2>1. Open(k, n)
    BY <1>1 DEF abandonAiUsage, MayAbandon, MayAbandonResult, HeldInPool
  <2> QED BY <1>1, <2>1 DEF abandonAiUsage
<1>2. CASE ~(request[k].status = "checkpointed" /\ HeldInPool(k, n) # "nothing")
  BY <1>2 DEF abandonAiUsage
<1> QED BY <1>1, <1>2

LEMMA AbandonTypes ==
  ASSUME TypeInv, NEW k \in Keys, abandonAiUsage(k)
  PROVE  TypeInv'
<1> DEFINE n == request[k].n
<1>1. pool \in Pool /\ account' \in [active : BOOLEAN, ledger : BOOLEAN, abandoned : SUBSET Keys]
  BY DEF abandonAiUsage, TypeInv, TypeOK, Pool
<1>2. receipt' \in [Keys -> [Attempts -> Receipt]] /\ pool' \in Pool
  <2>1. CASE /\ request[k].status = "checkpointed" /\ Open(k, n)
             /\ receipt' = [receipt EXCEPT ![k][n] = [kind |-> "result", cost |-> saved[k].cost, failed |-> FALSE]]
             /\ pool' = Booked(pool, saved[k].held, saved[k].cost)
    <3>1. saved[k].held \in {"reserved", "uncertain"} /\ n \in Attempts /\ saved[k].cost \in Nat
      BY <2>1, HeldIs, OfKey DEF Open
    <3>2. [kind |-> "result", cost |-> saved[k].cost, failed |-> FALSE] \in Receipt
      BY <3>1 DEF Receipt
    <3>3. receipt' \in [Keys -> [Attempts -> Receipt]]
      BY <2>1, <3>1, <3>2 DEF TypeInv, TypeOK
    <3> QED BY <1>1, <2>1, <3>1, <3>3, Books
  <2>2. CASE /\ request[k].status = "reserved" /\ pool' = Contained(pool)
             /\ receipt' = [receipt EXCEPT ![k][n].kind = "uncertain"]
    <3>1. n \in Attempts /\ [receipt[k][n] EXCEPT !.kind = "uncertain"] \in Receipt
      BY <2>2, OfKey DEF Receipt
    <3>2. Contained(pool) \in Pool
      BY <1>1, Books
    <3>3. receipt' \in [Keys -> [Attempts -> Receipt]]
      BY <2>2, <3>1 DEF TypeInv, TypeOK
    <3> QED BY <2>2, <3>2, <3>3
  <2>3. CASE UNCHANGED <<receipt, pool>>
    BY <1>1, <2>3 DEF TypeInv, TypeOK
  <2> QED BY <2>1, <2>2, <2>3, AbandonIs
<1> QED BY <1>1, <1>2 DEF abandonAiUsage, TypeInv, TypeOK, Numbered, Pool

LEMMA TypeStep ==
  ASSUME TypeInv, [Next]_vars
  PROVE  TypeInv'
<1>1. ASSUME NEW h \in Handlers,
             (\E k \in Keys : Read(h, k)) \/ recoverAiUsageResult(h) \/ (\E c \in Costs : Dispatch(h, c))
               \/ NotDispatched(h) \/ Answer(h) \/ NoAnswer(h) \/ Fails(h) \/ Refused(h)
      PROVE  TypeInv'
  BY <1>1, RequestTypes
<1>2. ASSUME NEW h \in Handlers, reserveAiUsage(h) \/ checkpointAiUsageResult(h) \/ settleAiUsageProduct(h) PROVE TypeInv'
  BY <1>2, ReserveTypes, CheckpointTypes, SettleTypes
<1>3. ASSUME NEW h \in Handlers,
             FinalizeTurn(h) \/ FinalizeFailed(h) \/ FinalizeUnsent(h) \/ FinalizeUnknown(h) \/ FinalizeDeleted(h)
      PROVE  TypeInv'
  BY <1>3, BookingTypes
<1>4. ASSUME NEW k \in Keys, reconcileExpiredAiUsage(k) PROVE TypeInv'
  <2>1. request[k].n \in 0 .. MaxAttempts
    BY OfKey
  <2> QED BY <1>4, <2>1, ContainTypes DEF reconcileExpiredAiUsage, TypeInv, TypeOK, Personal, Pool
<1>5. ASSUME NEW k \in Keys, abandonAiUsage(k) PROVE TypeInv'
  BY <1>5, AbandonTypes
<1>6. ASSUME NEW k \in Keys, RemoveRequest(k) PROVE TypeInv'
  BY <1>6, Amounts DEF RemoveRequest, NoRequest, NoAttempt, NoCheckpoint, TypeInv, TypeOK, Numbered, Request, Attempt, Checkpoint
<1>7. CASE LeaseExpires \/ ChangeProduct \/ DeleteAccount \/ RemoveLedger
  <2>1. CASE LeaseExpires
    BY <2>1 DEF LeaseExpires, TypeInv, TypeOK, Numbered
  <2>2. CASE ChangeProduct
    BY <2>2, Amounts DEF ChangeProduct, TypeInv, TypeOK, Numbered
  <2>3. CASE DeleteAccount
    BY <2>3 DEF DeleteAccount, documents, TypeInv, TypeOK, Numbered
  <2>4. CASE RemoveLedger
    <3>1. personal' \in Personal /\ lock' \in [key : Keys \cup {None}, n : 0 .. MaxAttempts, live : BOOLEAN]
      BY <2>4, Amounts DEF RemoveLedger, Free, Personal
    <3>2. account' \in [active : BOOLEAN, ledger : BOOLEAN, abandoned : SUBSET Keys]
      BY <2>4 DEF RemoveLedger, TypeInv, TypeOK
    <3> QED BY <2>4, <3>1, <3>2 DEF RemoveLedger, TypeInv, TypeOK, Numbered, Personal
  <2> QED BY <1>7, <2>1, <2>2, <2>3, <2>4
<1>8. CASE UNCHANGED vars
  BY <1>8 DEF vars, TypeInv, TypeOK, Numbered
<1> QED BY <1>1, <1>2, <1>3, <1>4, <1>5, <1>6, <1>7, <1>8 DEF Next

LEMMA TypeStart ==
  ASSUME Init
  PROVE  TypeInv
BY Amounts DEF Init, NoRequest, NoAttempt, NoCheckpoint, NoReceipt, Free, Idle, TypeInv, TypeOK, Numbered, Request, Attempt, Checkpoint, Receipt, Handler

LEMMA TypeInvariant == Spec => []TypeInv
<1>1. TypeInv /\ [Next]_vars => TypeInv'
  BY TypeStep
<1> QED BY <1>1, TypeStart, PTL DEF Spec

\* Every document, counter and request keeps its type, and the pool's and the
\* user's costs stay natural numbers.
THEOREM UsageTypes == Spec => []TypeOK
<1>1. TypeInv => TypeOK
  BY DEF TypeInv
<1> QED BY <1>1, TypeInvariant, PTL

-----------------------------------------------------------------------------
(* Results are kept *)

\* A key that is booked or contained has no saved result.
LEMMA BookedOnly ==
  ASSUME TypeInv, NEW k \in Keys, NEW j \in Keys, NEW n, NEW cost, NEW failed, NEW reason,
         settleFinalizedAiUsage(j, n, cost, failed, reason) \/ reconcileAiUsageRoot(j, n)
  PROVE  request'[k] = request[k] \/ request[k].status \notin {"checkpointed", "completed"}
<1>1. CASE k = j
  BY <1>1, HeldIs DEF settleFinalizedAiUsage, MayBook, Open, reconcileAiUsageRoot, MayContain
<1>2. CASE k # j
  BY <1>2 DEF settleFinalizedAiUsage, reconcileAiUsageRoot, TypeInv, TypeOK
<1> QED BY <1>1, <1>2

LEMMA DeletingStep ==
  ASSUME TypeInv, Deleting, [Next]_vars
  PROVE  Deleting'
<1>1. ASSUME NEW k \in Keys, abandonAiUsage(k) PROVE Deleting'
  BY <1>1 DEF abandonAiUsage, Deleting, TypeInv, TypeOK
<1>2. CASE DeleteAccount \/ RemoveLedger
  BY <1>2 DEF DeleteAccount, RemoveLedger, Deleting, TypeInv, TypeOK
<1>3. CASE UNCHANGED account
  BY <1>3 DEF Deleting
<1>4. ASSUME NEW h \in Handlers, NEW k \in Keys,
             FinalizeTurn(h) \/ FinalizeFailed(h) \/ FinalizeUnsent(h) \/ FinalizeUnknown(h) \/ reconcileExpiredAiUsage(k)
      PROVE  UNCHANGED account
  BY <1>4 DEF FinalizeTurn, FinalizeFailed, FinalizeUnsent, FinalizeUnknown, reconcileExpiredAiUsage, settleFinalizedAiUsage, reconcileAiUsageRoot
<1>5. ASSUME NEW h \in Handlers,
             \/ (\E k \in Keys : Read(h, k)) \/ reserveAiUsage(h) \/ recoverAiUsageResult(h) \/ (\E c \in Costs : Dispatch(h, c))
             \/ NotDispatched(h) \/ Answer(h) \/ NoAnswer(h) \/ Fails(h) \/ Refused(h)
             \/ checkpointAiUsageResult(h) \/ settleAiUsageProduct(h) \/ FinalizeDeleted(h)
      PROVE  UNCHANGED account
  BY <1>5 DEF Read, reserveAiUsage, recoverAiUsageResult, Dispatch, NotDispatched, Answer, NoAnswer, Fails, Refused,
              checkpointAiUsageResult, settleAiUsageProduct, FinalizeDeleted
<1>6. ASSUME NEW k \in Keys, RemoveRequest(k) PROVE UNCHANGED account
  BY <1>6 DEF RemoveRequest
<1>7. CASE LeaseExpires \/ ChangeProduct \/ UNCHANGED vars
  BY <1>3, <1>7 DEF LeaseExpires, ChangeProduct, vars
<1>8. CASE Next
  <2>1. \/ \E h \in Handlers :
             \/ (\E k \in Keys : Read(h, k)) \/ reserveAiUsage(h) \/ recoverAiUsageResult(h) \/ (\E c \in Costs : Dispatch(h, c))
             \/ NotDispatched(h) \/ Answer(h) \/ NoAnswer(h) \/ Fails(h) \/ Refused(h)
             \/ checkpointAiUsageResult(h) \/ settleAiUsageProduct(h) \/ FinalizeDeleted(h)
             \/ FinalizeTurn(h) \/ FinalizeFailed(h) \/ FinalizeUnsent(h) \/ FinalizeUnknown(h)
        \/ \E k \in Keys : reconcileExpiredAiUsage(k) \/ abandonAiUsage(k) \/ RemoveRequest(k)
        \/ LeaseExpires \/ ChangeProduct \/ DeleteAccount \/ RemoveLedger
    BY <1>8 DEF Next
  <2>2. CASE \E h \in Handlers : FinalizeTurn(h) \/ FinalizeFailed(h) \/ FinalizeUnsent(h) \/ FinalizeUnknown(h)
    <3>1. PICK h \in Handlers : FinalizeTurn(h) \/ FinalizeFailed(h) \/ FinalizeUnsent(h) \/ FinalizeUnknown(h)
      BY <2>2
    <3>2. handler[h].key \in Keys
      BY <3>1, AtWork DEF FinalizeTurn, FinalizeFailed, FinalizeUnsent, FinalizeUnknown
    <3> QED BY <1>3, <1>4, <3>1, <3>2
  <2>3. CASE \E k \in Keys : reconcileExpiredAiUsage(k)
    BY <1>3, <2>3 DEF reconcileExpiredAiUsage, reconcileAiUsageRoot
  <2> QED BY <1>1, <1>2, <1>3, <1>5, <1>6, <1>7, <2>1, <2>2, <2>3
<1> QED BY <1>7, <1>8

\* The disjunct of ResultKept for one key.
Keeps(k) ==
  \/ request'[k] = request[k]
  \/ request[k].status = "checkpointed" /\ request'[k].status = "completed" /\ product = saved[k].guard

LEMMA ResultStep ==
  ASSUME TypeInv, Deleting, [Next]_vars, NEW k \in Keys, request[k].status \in {"checkpointed", "completed"}, account'.active
  PROVE  Keeps(k)
<1>1. ASSUME NEW h \in Handlers,
             \/ (\E j \in Keys : Read(h, j)) \/ recoverAiUsageResult(h) \/ (\E c \in Costs : Dispatch(h, c))
             \/ NotDispatched(h) \/ Answer(h) \/ NoAnswer(h) \/ Fails(h) \/ Refused(h) \/ FinalizeDeleted(h)
      PROVE  Keeps(k)
  BY <1>1 DEF Read, recoverAiUsageResult, Dispatch, NotDispatched, Answer, NoAnswer, Fails, Refused, FinalizeDeleted, documents, Keeps
<1>2. ASSUME NEW h \in Handlers, reserveAiUsage(h) PROVE Keeps(k)
  BY <1>2, AtWork DEF reserveAiUsage, MayReserve, Keeps, TypeInv, TypeOK
<1>3. ASSUME NEW h \in Handlers, checkpointAiUsageResult(h) PROVE Keeps(k)
  <2>1. handler[h].key \in Keys
    BY <1>3, AtWork DEF checkpointAiUsageResult
  <2>2. request[handler[h].key].status \notin {"checkpointed", "completed"}
    BY <1>3, HeldIs DEF checkpointAiUsageResult
  <2> QED BY <1>3, <2>1, <2>2 DEF checkpointAiUsageResult, Keeps, TypeInv, TypeOK
<1>4. ASSUME NEW h \in Handlers, settleAiUsageProduct(h) PROVE Keeps(k)
  <2>1. handler[h].key \in Keys
    BY <1>4, AtWork DEF settleAiUsageProduct
  <2>2. CASE k = handler[h].key
    BY <1>4, <2>2 DEF settleAiUsageProduct, MaySettle, Keeps, TypeInv, TypeOK, Request
  <2>3. CASE k # handler[h].key
    BY <1>4, <2>1, <2>3 DEF settleAiUsageProduct, Keeps, TypeInv, TypeOK
  <2> QED BY <2>2, <2>3
<1>5. ASSUME NEW h \in Handlers, FinalizeTurn(h) \/ FinalizeFailed(h) \/ FinalizeUnsent(h) PROVE Keeps(k)
  BY <1>5, Finalizes, BookedOnly DEF Keeps
<1>6. ASSUME NEW h \in Handlers, FinalizeUnknown(h) PROVE Keeps(k)
  <2>1. handler[h].key \in Keys
    BY <1>6, AtWork DEF FinalizeUnknown
  <2> QED BY <1>6, <2>1, BookedOnly DEF FinalizeUnknown, Keeps
<1>7. ASSUME NEW j \in Keys, reconcileExpiredAiUsage(j) PROVE Keeps(k)
  BY <1>7, BookedOnly DEF reconcileExpiredAiUsage, Keeps
<1>8. ASSUME NEW j \in Keys, abandonAiUsage(j) PROVE Keeps(k)
  BY <1>8 DEF abandonAiUsage, Keeps
<1>9. ASSUME NEW j \in Keys, RemoveRequest(j) PROVE FALSE
  BY <1>9 DEF RemoveRequest, Deleting
<1>10. CASE LeaseExpires \/ ChangeProduct \/ DeleteAccount \/ RemoveLedger \/ UNCHANGED vars
  BY <1>10 DEF LeaseExpires, ChangeProduct, DeleteAccount, RemoveLedger, vars, documents, Keeps
<1> QED BY <1>1, <1>2, <1>3, <1>4, <1>5, <1>6, <1>7, <1>8, <1>9, <1>10 DEF Next

\* A paid result that was saved stays until the product is written with it, or
\* the account goes: nobody books, contains or reserves its key anew.
THEOREM ResultIsKept == Spec => ResultKept
<1> DEFINE Kept == \A k \in Keys : request[k].status \in {"checkpointed", "completed"} /\ account'.active => Keeps(k)
<1>1. Init => TypeInv /\ Deleting
  BY TypeStart DEF Init, Deleting
<1>2. TypeInv /\ Deleting /\ [Next]_vars => TypeInv' /\ Deleting'
  BY TypeStep, DeletingStep
<1>3. TypeInv /\ Deleting /\ [Next]_vars => [Kept]_vars
  BY ResultStep
<1>4. [Kept]_vars <=>
        [\A k \in Keys : request[k].status \in {"checkpointed", "completed"} /\ account'.active =>
           \/ request'[k] = request[k]
           \/ request[k].status = "checkpointed" /\ request'[k].status = "completed" /\ product = saved[k].guard]_vars
  BY DEF Keeps
<1> HIDE DEF Kept
<1> QED BY <1>1, <1>2, <1>3, <1>4, PTL DEF Spec, ResultKept

-----------------------------------------------------------------------------
(* What was spent is kept *)

\* No document and no charge changes, and the requests go on with what they know.
LEMMA Quiet ==
  ASSUME IInv, TypeInv', UNCHANGED <<request, attempt, saved, receipt, spent>>,
         account'.abandoned = account.abandoned, account'.active => account.active,
         \A g \in Handlers :
           \/ handler'[g] = handler[g]
           \/ /\ handler'[g].pc \in Before =>
                   /\ handler[g].pc \in Before /\ handler'[g].key = handler[g].key
                   /\ handler'[g].n = handler[g].n /\ handler'[g].cost = handler[g].cost
              /\ handler'[g].pc = "read" => handler'[g].cost = 0
              /\ handler'[g].pc \in Sent =>
                   /\ handler[g].pc \in Sent /\ handler'[g].key = handler[g].key /\ handler'[g].n = handler[g].n
                   /\ handler'[g].pc # "called" => handler'[g].cost = spent[handler[g].key][handler[g].n]
  PROVE  SpendInv'
<1>1. NothingSent'
  BY DEF IInv, SpendInv, NothingSent
<1>2. WasSent'
  BY DEF IInv, SpendInv, WasSent
<1>3. Roots' /\ Receipted'
  BY DEF IInv, SpendInv, Roots, Receipted
<1>4. SpendKept'
  BY DEF IInv, SpendInv, SpendKept, HeldInPool
<1> QED BY <1>1, <1>2, <1>3, <1>4 DEF SpendInv

LEMMA QuietSteps ==
  ASSUME IInv, TypeInv', NEW h \in Handlers,
         \/ (\E k \in Keys : Read(h, k)) \/ recoverAiUsageResult(h)
         \/ NotDispatched(h) \/ Answer(h) \/ NoAnswer(h) \/ Fails(h) \/ Refused(h)
         \/ LeaseExpires \/ ChangeProduct \/ DeleteAccount \/ RemoveLedger
  PROVE  SpendInv'
<1>1. UNCHANGED <<request, attempt, saved, receipt, spent>> /\ account'.abandoned = account.abandoned /\ (account'.active => account.active)
  BY DEF Read, recoverAiUsageResult, NotDispatched, Answer, NoAnswer, Fails, Refused, LeaseExpires, ChangeProduct,
         DeleteAccount, RemoveLedger, documents, IInv, TypeInv, TypeOK
<1>2. handler \in [Handlers -> Handler]
  BY DEF IInv, TypeInv, TypeOK
<1>3. CASE UNCHANGED handler
  BY <1>1, <1>3, Quiet
<1>4. CASE \/ (\E k \in Keys : Read(h, k)) \/ recoverAiUsageResult(h)
           \/ NotDispatched(h) \/ Answer(h) \/ NoAnswer(h) \/ Fails(h) \/ Refused(h)
  <2>1. \A g \in Handlers : g # h => handler'[g] = handler[g]
    BY <1>2, <1>4 DEF Read, recoverAiUsageResult, NotDispatched, Answer, NoAnswer, Fails, Refused, Goto, Leave
  <2>2. CASE (\E k \in Keys : Read(h, k)) \/ recoverAiUsageResult(h) \/ Refused(h) \/ NoAnswer(h)
    <3>1. handler'[h].pc \notin Before \cup Sent /\ (handler'[h].pc = "read" => handler'[h].cost = 0)
      BY <1>2, <2>2 DEF Read, recoverAiUsageResult, Refused, NoAnswer, Leave, Idle, Goto, Before, Sent, Handler
    <3> QED BY <1>1, <2>1, <3>1, Quiet
  <2>3. CASE NotDispatched(h)
    <3>1. /\ handler[h].pc \in Before /\ handler'[h].pc \notin Sent \cup {"read"} /\ handler'[h].key = handler[h].key
          /\ handler'[h].n = handler[h].n /\ handler'[h].cost = handler[h].cost
      BY <1>2, <2>3 DEF NotDispatched, Goto, Before, Sent, Handler
    <3> QED BY <1>1, <2>1, <3>1, Quiet
  <2>4. CASE Answer(h) \/ Fails(h)
    <3>1. /\ handler[h].pc \in Sent /\ handler'[h].pc \notin Before \cup {"read"}
          /\ handler'[h].key = handler[h].key /\ handler'[h].n = handler[h].n
          /\ handler'[h].cost = spent[handler[h].key][handler[h].n]
      BY <1>2, <2>4 DEF Answer, Fails, Goto, Before, Sent, Handler, IInv, SpendInv, WasSent
    <3> QED BY <1>1, <2>1, <3>1, Quiet
  <2> QED BY <1>4, <2>2, <2>3, <2>4
<1> QED BY <1>3, <1>4 DEF LeaseExpires, ChangeProduct, DeleteAccount, RemoveLedger, documents

\* A call is charged: it is the first under its key, and its attempt is held or in doubt.
LEMMA DispatchKeeps ==
  ASSUME IInv, TypeInv', NEW h \in Handlers, NEW c \in Costs, Dispatch(h, c)
  PROVE  SpendInv'
<1> DEFINE k == handler[h].key
           n == handler[h].n
<1>1. k \in Keys /\ n \in Attempts /\ handler[h].pc = "ready" /\ c # 0 /\ c \in Nat
  BY AtWork, Amounts DEF IInv, Dispatch
<1>2. UNCHANGED <<request, attempt, saved, receipt, account>>
  BY DEF Dispatch, documents
<1>3. /\ spent'[k][n] = c
      /\ \A j \in Keys, m \in Attempts : j # k \/ m # n => spent'[j][m] = spent[j][m]
  BY <1>1 DEF Dispatch, IInv, TypeInv, TypeOK
<1>4. /\ handler'[h].pc = "called" /\ handler'[h].key = k /\ handler'[h].n = n
      /\ \A g \in Handlers : g # h => handler'[g] = handler[g]
  BY <1>1 DEF Dispatch, Goto, IInv, TypeInv, TypeOK, Handler
<1>5. /\ \A m \in Attempts : spent[k][m] = 0
      /\ attempt[k][n].status # "none" \/ receipt[k][n].kind # "none"
      /\ receipt[k][n].kind \in {"none", "uncertain"}
      /\ \/ request[k].status = "none" /\ ~account.active
         \/ /\ request[k].n = n
            /\ request[k].status = "reserved" \/ (request[k].status = "failed" /\ request[k].reason = "unknown")
      /\ \A g \in Handlers : handler[g].pc \in Before /\ handler[g].key = k => g = h
  BY <1>1 DEF IInv, SpendInv, NothingSent, Before
<1>6. NothingSent'
  <2>1. SUFFICES ASSUME NEW g \in Handlers, handler'[g].pc \in Before
                 PROVE  g # h /\ handler'[g] = handler[g] /\ handler[g].key # k /\ handler[g].key \in Keys
    BY <1>2, <1>3, <1>4 DEF IInv, SpendInv, NothingSent
  <2> QED BY <1>4, <1>5, <2>1, AtWork DEF Before, IInv
<1>7. WasSent'
  <2>1. SUFFICES ASSUME NEW g \in Handlers, g # h
                 PROVE  handler[g].pc \in Sent => handler[g].key # k \/ handler[g].n # n
    <3>1. \A g \in Handlers : handler[g].pc \in Sent => handler[g].key \in Keys /\ handler[g].n \in Attempts
      BY AtWork DEF Sent, IInv
    <3> QED BY <1>1, <1>3, <1>4, <2>1, <3>1 DEF IInv, SpendInv, WasSent, Sent
  <2> QED BY <1>1, <1>5, <2>1 DEF IInv, SpendInv, WasSent
<1>8. Roots'
  <2>1. request[k].status # "checkpointed" /\ ~(request[k].status = "none" /\ account.active)
    BY <1>5
  <2>2. request[k].reason # "pre"
    BY <1>1, <1>5 DEF IInv, SpendInv, Roots
  <2>3. \A j \in Keys : request[j].status = "checkpointed" => request[j].n \in Attempts
    BY OfKey DEF IInv
  <2> QED BY <1>2, <1>3, <2>1, <2>2, <2>3 DEF IInv, SpendInv, Roots
<1>9. Receipted'
  BY <1>2 DEF IInv, SpendInv, Receipted
<1>10. SpendKept'
  <2>1. HeldInPool(k, n) # "nothing"
    BY <1>5 DEF HeldInPool
  <2> QED BY <1>1, <1>2, <1>3, <1>5, <2>1 DEF IInv, SpendInv, SpendKept, HeldInPool
<1> QED BY <1>6, <1>7, <1>8, <1>9, <1>10 DEF SpendInv

\* A request either goes on, leaves the stage of a reservation or a paid call,
\* or fails with the answer in hand.
GoesOn(g) ==
  \/ handler'[g] = handler[g]
  \/ handler'[g].pc \notin Before \cup Sent \cup {"read"}
  \/ /\ handler'[g].pc = "failing" /\ handler[g].pc \in Sent \ {"called"}
     /\ handler'[g].key = handler[g].key /\ handler'[g].n = handler[g].n /\ handler'[g].cost = handler[g].cost

LEMMA GoesOnSent ==
  ASSUME IInv, TypeInv', UNCHANGED spent, \A g \in Handlers : GoesOn(g)
  PROVE  WasSent'
BY DEF GoesOn, Before, Sent, IInv, SpendInv, WasSent

\* The documents of a key's last attempt change.
LEMMA Settled ==
  ASSUME IInv, TypeInv', UNCHANGED <<spent, account>>, account.active, \A g \in Handlers : GoesOn(g),
         NEW k \in Keys, NEW n \in Attempts, request[k].n = n, request'[k].n = n,
         request[k].status # "none", request'[k].status \notin {"none", "reserved"},
         \A j \in Keys : j # k => request'[j] = request[j] /\ saved'[j] = saved[j],
         \A j \in Keys, m \in Attempts : j # k \/ m # n => attempt'[j][m] = attempt[j][m] /\ receipt'[j][m] = receipt[j][m],
         attempt'[k][n].status # "none",
         receipt[k][n].kind # "none" => receipt'[k][n].kind # "none",
         spent[k][n] # 0 /\ receipt'[k][n].kind \in {"completion", "result"} => receipt'[k][n].cost = spent[k][n],
         request'[k].status = "checkpointed" => saved'[k].cost = spent[k][n],
         request'[k].reason = "pre" => receipt'[k][n].kind # "none" /\ \A m \in Attempts : spent[k][m] = 0,
         \/ \A g \in Handlers : ~(handler'[g].pc \in Before /\ handler'[g].key = k)
         \/ request'[k].status = "failed" /\ request'[k].reason = "unknown" /\ receipt'[k][n].kind = "uncertain"
  PROVE  SpendInv'
<1>1. WasSent'
  BY GoesOnSent
<1>2. \A g \in Handlers : handler'[g].pc \in Before => handler'[g] = handler[g] /\ handler[g].key \in Keys /\ handler[g].n \in Attempts
  BY AtWork DEF GoesOn, Before, IInv
<1>3. NothingSent'
  <2>1. ASSUME NEW g \in Handlers, handler'[g].pc \in Before, handler[g].key = k
        PROVE  request'[k].status = "failed" /\ request'[k].reason = "unknown" /\ receipt'[k][n].kind = "uncertain" /\ handler[g].n = n
    <3>1. handler'[g] = handler[g] /\ handler[g].pc \in Before
      BY <1>2, <2>1
    <3> QED BY <2>1, <3>1 DEF IInv, SpendInv, NothingSent
  <2>2. ASSUME NEW g \in Handlers, handler'[g].pc \in Before, handler[g].key # k
        PROVE  LET j == handler[g].key
                   m == handler[g].n IN
               request'[j] = request[j] /\ receipt'[j][m] = receipt[j][m] /\ attempt'[j][m] = attempt[j][m]
    BY <1>2, <2>2
  <2> QED BY <1>2, <2>1, <2>2 DEF IInv, SpendInv, NothingSent
<1>4. Roots'
  <2>1. \A j \in Keys : j # k => request'[j] = request[j] /\ saved'[j] = saved[j] /\ \A m \in Attempts : receipt'[j][m] = receipt[j][m]
    OBVIOUS
  <2>2. \A m \in Attempts : m > n => receipt'[k][m] = receipt[k][m]
    BY Amounts
  <2> QED BY <2>1, <2>2 DEF IInv, SpendInv, Roots
<1>5. Receipted'
  <2>1. SUFFICES ASSUME NEW j \in Keys, NEW m \in Attempts, attempt'[j][m].status # "none"
                 PROVE  \/ receipt'[j][m].kind # "none"
                        \/ m = request'[j].n /\ request'[j].status # "none" /\ request'[j].reason # "pre" /\ j \notin account.abandoned
    BY DEF Receipted
  <2>2. CASE j = k /\ m = n
    BY <2>2 DEF IInv, Deleting
  <2>3. CASE ~(j = k /\ m = n)
    BY <2>1, <2>3 DEF IInv, SpendInv, Receipted
  <2> QED BY <2>2, <2>3
<1>6. SpendKept'
  <2>1. receipt'[k][n].kind \in {"none", "uncertain", "completion", "result"}
    BY DEF TypeInv, TypeOK, Receipt
  <2>2. ASSUME NEW j \in Keys, NEW m \in Attempts, spent[j][m] # 0
        PROVE  /\ attempt'[j][m].status # "none" \/ receipt'[j][m].kind # "none"
               /\ HeldInPool(j, m)' = "nothing" => receipt'[j][m].cost = spent[j][m]
    <3>1. CASE j = k /\ m = n
      BY <2>1, <2>2, <3>1 DEF HeldInPool
    <3>2. CASE ~(j = k /\ m = n)
      BY <2>2, <3>2 DEF IInv, SpendInv, SpendKept, HeldInPool
    <3> QED BY <3>1, <3>2
  <2> QED BY <2>2 DEF IInv, SpendInv, SpendKept
<1> QED BY <1>1, <1>3, <1>4, <1>5, <1>6 DEF SpendInv

\* Where something was spent, or a result is saved, no request is still before its call.
LEMMA NoneBefore ==
  ASSUME IInv, NEW k \in Keys, NEW n \in Attempts,
         spent[k][n] # 0 \/ request[k].status = "checkpointed"
  PROVE  \A g \in Handlers : ~(handler[g].pc \in Before /\ handler[g].key = k)
BY DEF IInv, SpendInv, NothingSent

LEMMA CheckpointKeeps ==
  ASSUME IInv, TypeInv', NEW h \in Handlers, checkpointAiUsageResult(h)
  PROVE  SpendInv'
<1> DEFINE k == handler[h].key
           n == handler[h].n
<1>1. k \in Keys /\ n \in Attempts /\ handler[h].pc = "answered"
  BY AtWork DEF checkpointAiUsageResult, IInv
<1>2. request[k].n = n /\ request[k].status \in {"reserved", "failed"}
  BY HeldIs DEF checkpointAiUsageResult
<1>3. spent[k][n] # 0 /\ handler[h].cost = spent[k][n]
  BY <1>1 DEF Sent, IInv, SpendInv, WasSent
<1>4. \A g \in Handlers : GoesOn(g)
  <2>1. PICK pc \in {"settle", "failing"} : handler' = [handler EXCEPT ![h].pc = pc]
    BY DEF checkpointAiUsageResult, Goto
  <2> QED BY <1>1, <2>1 DEF GoesOn, Before, Sent, IInv, TypeInv, TypeOK, Handler
<1>5. \A g \in Handlers : ~(handler'[g].pc \in Before /\ handler'[g].key = k)
  BY <1>1, <1>3, <1>4, NoneBefore DEF GoesOn, Before, Sent
<1>6. /\ request'[k].n = n /\ request'[k].status = "checkpointed" /\ request'[k].reason = "none"
      /\ saved'[k].cost = handler[h].cost
      /\ \A j \in Keys : j # k => request'[j] = request[j] /\ saved'[j] = saved[j]
  BY <1>1, <1>2 DEF checkpointAiUsageResult, CheckpointOf, IInv, TypeInv, TypeOK, Request
<1>7. /\ attempt'[k][n].status = "checkpointed"
      /\ \A j \in Keys, m \in Attempts : j # k \/ m # n => attempt'[j][m] = attempt[j][m]
  <2>1. attempt' = [attempt EXCEPT ![k][n].status = "checkpointed"]
    BY DEF checkpointAiUsageResult
  <2>2. attempt \in [Keys -> [Attempts -> Attempt]] /\ attempt[k] \in [Attempts -> Attempt] /\ attempt[k][n] \in Attempt
    BY <1>1 DEF IInv, TypeInv, TypeOK
  <2> QED BY <1>1, <2>1, <2>2 DEF Attempt
<1>8. UNCHANGED <<spent, account, receipt>> /\ account.active
  BY DEF checkpointAiUsageResult
<1>9. receipt'[k][n].kind \in {"completion", "result"} => receipt'[k][n].cost = spent[k][n]
  BY <1>1, <1>3, <1>8 DEF IInv, SpendInv, SpendKept, HeldInPool
<1> QED BY <1>1, <1>2, <1>3, <1>4, <1>5, <1>6, <1>7, <1>8, <1>9, Settled

LEMMA SettleKeeps ==
  ASSUME IInv, TypeInv', NEW h \in Handlers, settleAiUsageProduct(h)
  PROVE  SpendInv'
<1> DEFINE k == handler[h].key
           n == handler[h].n
<1>1. k \in Keys /\ n \in Attempts /\ handler[h].pc = "settle"
  BY AtWork DEF settleAiUsageProduct, IInv
<1>2. request[k].n = n /\ request[k].status = "checkpointed"
  BY SettleIs DEF settleAiUsageProduct
<1>3. saved[k].cost = spent[k][n]
  BY <1>1, <1>2 DEF IInv, SpendInv, Roots
<1>4. \A g \in Handlers : GoesOn(g)
  BY <1>1, ZenonT(30) DEF settleAiUsageProduct, Leave, Idle, GoesOn, Before, Sent, IInv, TypeInv, TypeOK
<1>5. \A g \in Handlers : ~(handler'[g].pc \in Before /\ handler'[g].key = k)
  BY <1>1, <1>2, <1>4, NoneBefore DEF GoesOn, Before, Sent
<1>6. /\ request'[k].n = n /\ request'[k].status = "completed" /\ request'[k].reason = request[k].reason
      /\ \A j \in Keys : j # k => request'[j] = request[j] /\ saved'[j] = saved[j]
  <2>1. request' = [request EXCEPT ![k].status = "completed"] /\ saved' = saved
    BY DEF settleAiUsageProduct
  <2>2. request \in [Keys -> Request] /\ request[k] \in Request
    BY <1>1 DEF IInv, TypeInv, TypeOK
  <2> QED BY <1>1, <1>2, <2>1, <2>2 DEF Request
<1>7. /\ attempt'[k][n].status = "observed" /\ receipt'[k][n].kind = "result" /\ receipt'[k][n].cost = saved[k].cost
      /\ \A j \in Keys, m \in Attempts : j # k \/ m # n => attempt'[j][m] = attempt[j][m] /\ receipt'[j][m] = receipt[j][m]
  <2>1. /\ attempt' = [attempt EXCEPT ![k][n] = [status |-> "observed", cost |-> saved[k].cost, failed |-> FALSE]]
        /\ receipt' = [receipt EXCEPT ![k][n] = [kind |-> "result", cost |-> saved[k].cost, failed |-> FALSE]]
    BY DEF settleAiUsageProduct
  <2>2. /\ attempt \in [Keys -> [Attempts -> Attempt]] /\ attempt[k] \in [Attempts -> Attempt]
        /\ receipt \in [Keys -> [Attempts -> Receipt]] /\ receipt[k] \in [Attempts -> Receipt]
    BY <1>1 DEF IInv, TypeInv, TypeOK
  <2> QED BY <1>1, <2>1, <2>2
<1>8. UNCHANGED <<spent, account>> /\ account.active
  BY DEF settleAiUsageProduct
<1>9. request[k].reason = "pre" => \A m \in Attempts : spent[k][m] = 0
  BY <1>1 DEF IInv, SpendInv, Roots
<1> QED BY <1>1, <1>2, <1>3, <1>4, <1>5, <1>6, <1>7, <1>8, <1>9, Settled

LEMMA FinalizeKeeps ==
  ASSUME IInv, TypeInv', NEW h \in Handlers, FinalizeTurn(h) \/ FinalizeFailed(h) \/ FinalizeUnsent(h)
  PROVE  SpendInv'
<1> DEFINE k == handler[h].key
           n == handler[h].n
<1>1. k \in Keys /\ n \in Attempts /\ handler[h].pc \in {"answered", "failing", "unsent"}
  BY Finalizes DEF IInv
<1>2. PICK cost \in Nat, failed \in BOOLEAN, reason \in {"none", "pre"} :
        /\ settleFinalizedAiUsage(k, n, cost, failed, reason)
        /\ IF handler[h].pc = "unsent" THEN cost = 0 ELSE cost = handler[h].cost
        /\ reason = "pre" => handler[h].pc = "unsent"
  BY Finalizes DEF IInv
<1>3. /\ request[k].n = n
      /\ request[k].status = "reserved" \/ (request[k].status = "failed" /\ request[k].reason = "unknown")
  BY <1>2, HeldIs DEF settleFinalizedAiUsage, MayBook, Open
<1>4. cost = spent[k][n] /\ (handler[h].pc = "unsent" => \A m \in Attempts : spent[k][m] = 0)
  BY <1>1, <1>2 DEF Before, Sent, IInv, SpendInv, WasSent, NothingSent
<1>5. /\ \A g \in Handlers : GoesOn(g)
      /\ handler[h].pc = "unsent" => handler'[h].pc = "idle"
  <2>1. Leave(h) \/ (handler[h].pc = "answered" /\ Goto(h, "failing"))
    BY Finalizes DEF IInv
  <2> QED BY <1>1, <2>1 DEF Leave, Goto, Idle, GoesOn, Before, Sent, IInv, TypeInv, TypeOK, Handler
<1>6. \A g \in Handlers : ~(handler'[g].pc \in Before /\ handler'[g].key = k)
  <2>1. CASE handler[h].pc = "unsent"
    <3>1. \A g \in Handlers : handler[g].pc \in Before /\ handler[g].key = k => g = h
      BY <2>1 DEF Before, IInv, SpendInv, NothingSent
    <3> QED BY <1>5, <2>1, <3>1 DEF GoesOn, Before, Sent
  <2>2. CASE handler[h].pc # "unsent"
    <3>1. spent[k][n] # 0
      BY <1>1, <2>2 DEF Sent, IInv, SpendInv, WasSent
    <3> QED BY <1>1, <1>5, <3>1, NoneBefore DEF GoesOn, Before, Sent
  <2> QED BY <2>1, <2>2
<1>7. /\ request'[k].n = n /\ request'[k].status \in {"completed", "failed"}
      /\ request'[k].reason = "pre" => handler[h].pc = "unsent"
      /\ \A j \in Keys : j # k => request'[j] = request[j] /\ saved'[j] = saved[j]
  <2>1. request[k].reason # "pre"
    BY <1>1, <1>3 DEF IInv, SpendInv, Roots
  <2>2. request' = [request EXCEPT
            ![k].status = IF Held(k, n) = "reserved" /\ ~failed THEN "completed" ELSE "failed",
            ![k].reason = IF reason = "pre" THEN "pre" ELSE request[k].reason]
    BY <1>2 DEF settleFinalizedAiUsage
  <2>3. saved' = saved /\ request \in [Keys -> Request] /\ request[k] \in Request
    BY <1>1, <1>2 DEF settleFinalizedAiUsage, IInv, TypeInv, TypeOK
  <2> QED BY <1>1, <1>2, <1>3, <2>1, <2>2, <2>3 DEF Request
<1>8. /\ attempt'[k][n].status = "observed" /\ receipt'[k][n].kind = "completion" /\ receipt'[k][n].cost = cost
      /\ \A j \in Keys, m \in Attempts : j # k \/ m # n => attempt'[j][m] = attempt[j][m] /\ receipt'[j][m] = receipt[j][m]
  BY <1>1, <1>2 DEF settleFinalizedAiUsage, IInv, TypeInv, TypeOK
<1>9. UNCHANGED <<spent, account>> /\ account.active
  BY <1>2 DEF settleFinalizedAiUsage
<1> QED BY <1>1, <1>3, <1>4, <1>5, <1>6, <1>7, <1>8, <1>9, Settled

LEMMA ContainKeeps ==
  ASSUME IInv, TypeInv', NEW k \in Keys, NEW n \in 0 .. MaxAttempts, reconcileAiUsageRoot(k, n),
         \A g \in Handlers : handler'[g] = handler[g] \/ handler'[g].pc = "idle"
  PROVE  SpendInv'
<1>1. n \in Attempts
  BY ContainTypes DEF IInv
<1>2. request[k].status = "reserved" /\ request[k].n = n
  BY HeldIs DEF reconcileAiUsageRoot, MayContain, Open
<1>3. /\ request'[k].n = n /\ request'[k].status = "failed" /\ request'[k].reason = "unknown"
      /\ \A j \in Keys : j # k => request'[j] = request[j] /\ saved'[j] = saved[j]
  BY <1>2 DEF reconcileAiUsageRoot, IInv, TypeInv, TypeOK, Request
<1>4. /\ attempt'[k][n].status = "uncertain" /\ receipt'[k][n].kind = "uncertain"
      /\ \A j \in Keys, m \in Attempts : j # k \/ m # n => attempt'[j][m] = attempt[j][m] /\ receipt'[j][m] = receipt[j][m]
  BY <1>1, OfKey DEF reconcileAiUsageRoot, IInv, TypeInv, TypeOK, Attempt, Receipt
<1>5. \A g \in Handlers : GoesOn(g)
  BY DEF GoesOn, Before, Sent
<1>6. UNCHANGED <<spent, account>> /\ account.active
  BY DEF reconcileAiUsageRoot
<1> QED BY <1>1, <1>2, <1>3, <1>4, <1>5, <1>6, Settled

\* A new attempt: nothing was spent under its key, and no request is as far.
LEMMA ReserveKeeps ==
  ASSUME IInv, TypeInv', NEW h \in Handlers, reserveAiUsage(h)
  PROVE  SpendInv'
<1> DEFINE k == handler[h].key
           n == request[k].n + 1
<1>1. k \in Keys /\ n \in Attempts /\ handler[h].pc = "read" /\ account.active /\ MayReserve(k)
  BY AtWork DEF reserveAiUsage, IInv
<1>2. UNCHANGED <<saved, receipt, account, spent>>
  BY DEF reserveAiUsage
<1>3. /\ request'[k] = [status |-> "reserved", reason |-> "none", n |-> n]
      /\ \A j \in Keys : j # k => request'[j] = request[j]
  BY <1>1 DEF reserveAiUsage, IInv, TypeInv, TypeOK
<1>4. /\ attempt'[k][n].status = "reserved"
      /\ \A j \in Keys, m \in Attempts : j # k \/ m # n => attempt'[j][m] = attempt[j][m]
  BY <1>1, SMTT(30) DEF reserveAiUsage, IInv, TypeInv, TypeOK
<1>5. /\ handler'[h].pc = "ready" /\ handler'[h].key = k /\ handler'[h].n = n /\ handler'[h].cost = handler[h].cost
      /\ \A g \in Handlers : g # h => handler'[g] = handler[g]
  <2>1. handler' = [handler EXCEPT ![h].pc = "ready", ![h].n = n]
    BY DEF reserveAiUsage
  <2>2. handler \in [Handlers -> Handler] /\ handler[h] \in Handler
    BY DEF IInv, TypeInv, TypeOK
  <2> QED BY <1>1, <2>1, <2>2 DEF Handler
<1>6. (\A m \in Attempts : spent[k][m] = 0) /\ handler[h].cost = 0 /\ receipt[k][n].kind = "none"
  <2>1. request[k].n \in Nat /\ n > request[k].n
    BY <1>1, OfKey DEF IInv
  <2> QED BY <1>1, <2>1 DEF MayReserve, IInv, SpendInv, Roots, WasSent
<1>7. \A g \in Handlers : ~(handler[g].pc \in Before /\ handler[g].key = k)
  BY <1>1 DEF MayReserve, IInv, SpendInv, NothingSent
<1>8. NothingSent'
  <2>1. ASSUME NEW g \in Handlers, g # h, handler'[g].pc \in Before
        PROVE  handler'[g] = handler[g] /\ handler[g].key # k /\ handler[g].key \in Keys /\ handler[g].n \in Attempts
    BY <1>5, <1>7, <2>1, AtWork DEF Before, IInv
  <2>2. ASSUME NEW g \in Handlers, handler'[g].pc \in Before
        PROVE  LET j == handler'[g].key
                   m == handler'[g].n IN
               /\ \A o \in Attempts : spent[j][o] = 0
               /\ handler'[g].cost = 0
               /\ attempt'[j][m].status # "none" \/ receipt[j][m].kind # "none"
               /\ receipt[j][m].kind \in {"none", "uncertain"}
               /\ \/ request'[j].status = "none" /\ ~account.active
                  \/ /\ request'[j].n = m
                     /\ request'[j].status = "reserved" \/ (request'[j].status = "failed" /\ request'[j].reason = "unknown")
               /\ \A f \in Handlers : handler'[f].pc \in Before /\ handler'[f].key = j => f = g
    <3>1. CASE g = h
      BY <1>3, <1>4, <1>5, <1>6, <2>1, <3>1
    <3>2. CASE g # h
      <4>1. handler'[g] = handler[g] /\ handler[g].key # k /\ handler[g].key \in Keys /\ handler[g].n \in Attempts
        BY <2>1, <2>2, <3>2
      <4>2. \A f \in Handlers : handler'[f].pc \in Before /\ handler'[f].key = handler[g].key => handler[f].pc \in Before /\ f # h
        BY <1>5, <2>1, <4>1
      <4> QED BY <1>3, <1>4, <1>5, <2>2, <4>1, <4>2 DEF IInv, SpendInv, NothingSent
    <3> QED BY <3>1, <3>2
  <2> QED BY <1>2, <2>2 DEF NothingSent
<1>9. WasSent'
  BY <1>2, <1>5 DEF IInv, SpendInv, WasSent, Sent
<1>10. Roots'
  <2>1. \A m \in Attempts : m > n => m > request[k].n
    BY <1>1, OfKey, Amounts DEF IInv
  <2> QED BY <1>1, <1>2, <1>3, <1>6, <2>1 DEF IInv, SpendInv, Roots
<1>11. Receipted'
  <2>1. ASSUME NEW m \in Attempts, m # n, attempt[k][m].status # "none" PROVE receipt[k][m].kind # "none"
    BY <1>1, <2>1 DEF MayReserve, IInv, SpendInv, Receipted
  <2>2. k \notin account.abandoned
    BY <1>1 DEF IInv, Deleting
  <2> QED BY <1>1, <1>2, <1>3, <1>4, <2>1, <2>2 DEF IInv, SpendInv, Receipted
<1>12. SpendKept'
  BY <1>1, <1>2, <1>4, <1>6 DEF IInv, SpendInv, SpendKept, HeldInPool
<1> QED BY <1>8, <1>9, <1>10, <1>11, <1>12 DEF SpendInv

\* Only the receipt of an attempt whose account is being deleted changes.
LEMMA ReceiptKeeps ==
  ASSUME IInv, TypeInv', UNCHANGED <<request, attempt, saved, spent>>, ~account.active, ~account'.active,
         \A g \in Handlers : GoesOn(g), NEW k \in Keys, NEW n \in Attempts,
         \A j \in Keys, m \in Attempts : j # k \/ m # n => receipt'[j][m] = receipt[j][m],
         receipt'[k][n].kind # "none",
         receipt'[k][n].kind \in {"completion", "result"} =>
           /\ spent[k][n] # 0 => receipt'[k][n].cost = spent[k][n]
           /\ \A g \in Handlers : ~(handler'[g].pc \in Before /\ handler'[g].key = k /\ handler'[g].n = n),
         \A j \in account'.abandoned \ account.abandoned, m \in Attempts : attempt[j][m].status # "none" => receipt'[j][m].kind # "none"
  PROVE  SpendInv'
<1>1. receipt'[k][n].kind \in {"uncertain", "completion", "result"}
  BY DEF TypeInv, TypeOK, Receipt
<1>2. WasSent'
  BY GoesOnSent
<1>3. NothingSent'
  <2>1. \A g \in Handlers : handler'[g].pc \in Before => handler'[g] = handler[g] /\ handler[g].key \in Keys /\ handler[g].n \in Attempts
    BY AtWork DEF GoesOn, Before, IInv
  <2>2. ASSUME NEW g \in Handlers, handler'[g].pc \in Before
        PROVE  receipt'[handler[g].key][handler[g].n].kind \in {"none", "uncertain"}
    BY <1>1, <2>1, <2>2 DEF IInv, SpendInv, NothingSent
  <2>3. ASSUME NEW g \in Handlers, handler'[g].pc \in Before
        PROVE  LET j == handler[g].key
                   m == handler[g].n IN
               attempt[j][m].status # "none" \/ receipt'[j][m].kind # "none"
    BY <1>1, <2>1, <2>3 DEF IInv, SpendInv, NothingSent
  <2> QED BY <2>1, <2>2, <2>3 DEF IInv, SpendInv, NothingSent
<1>4. Roots'
  BY DEF IInv, SpendInv, Roots
<1>5. Receipted'
  <2>1. ASSUME NEW j \in Keys, NEW m \in Attempts, attempt[j][m].status # "none"
        PROVE  \/ receipt'[j][m].kind # "none"
               \/ m = request[j].n /\ request[j].status # "none" /\ request[j].reason # "pre" /\ j \notin account'.abandoned
    <3>1. CASE receipt[j][m].kind # "none"
      BY <3>1
    <3>2. CASE receipt[j][m].kind = "none"
      BY <2>1, <3>2 DEF IInv, SpendInv, Receipted
    <3> QED BY <3>1, <3>2
  <2> QED BY <2>1 DEF Receipted
<1>6. SpendKept'
  <2>1. ASSUME NEW j \in Keys, NEW m \in Attempts, spent[j][m] # 0
        PROVE  /\ attempt[j][m].status # "none" \/ receipt'[j][m].kind # "none"
               /\ HeldInPool(j, m)' = "nothing" => receipt'[j][m].cost = spent[j][m]
    <3>1. CASE j = k /\ m = n
      BY <1>1, <2>1, <3>1 DEF HeldInPool
    <3>2. CASE ~(j = k /\ m = n)
      BY <2>1, <3>2 DEF IInv, SpendInv, SpendKept, HeldInPool
    <3> QED BY <3>1, <3>2
  <2> QED BY <2>1 DEF IInv, SpendInv, SpendKept
<1> QED BY <1>2, <1>3, <1>4, <1>5, <1>6 DEF SpendInv

LEMMA FinalizeDeletedKeeps ==
  ASSUME IInv, TypeInv', NEW h \in Handlers, FinalizeDeleted(h)
  PROVE  SpendInv'
<1> DEFINE k == handler[h].key
           n == handler[h].n
<1>1. k \in Keys /\ n \in Attempts /\ handler[h].pc \in {"answered", "failing", "unsent"}
  BY AtWork DEF FinalizeDeleted, IInv
<1>2. UNCHANGED <<request, attempt, saved, spent, account>> /\ ~account.active
  BY DEF FinalizeDeleted
<1>3. /\ \A g \in Handlers : GoesOn(g)
      /\ handler'[h].pc = "idle"
  BY <1>1 DEF FinalizeDeleted, Leave, Idle, GoesOn, Before, Sent, IInv, TypeInv, TypeOK
<1>4. /\ receipt'[k][n].kind = "completion" /\ receipt'[k][n].cost = handler[h].cost
      /\ \A j \in Keys, m \in Attempts : j # k \/ m # n => receipt'[j][m] = receipt[j][m]
  BY <1>1 DEF FinalizeDeleted, IInv, TypeInv, TypeOK
<1>5. spent[k][n] # 0 => handler[h].cost = spent[k][n]
  BY <1>1 DEF Before, Sent, IInv, SpendInv, WasSent, NothingSent
<1>6. \A g \in Handlers : ~(handler'[g].pc \in Before /\ handler'[g].key = k)
  <2>1. CASE handler[h].pc = "unsent"
    <3>1. \A g \in Handlers : handler[g].pc \in Before /\ handler[g].key = k => g = h
      BY <2>1 DEF Before, IInv, SpendInv, NothingSent
    <3> QED BY <1>3, <3>1 DEF GoesOn, Before, Sent
  <2>2. CASE handler[h].pc # "unsent"
    <3>1. spent[k][n] # 0
      BY <1>1, <2>2 DEF Sent, IInv, SpendInv, WasSent
    <3> QED BY <1>1, <1>3, <3>1, NoneBefore DEF GoesOn, Before, Sent
  <2> QED BY <2>1, <2>2
<1> QED BY <1>1, <1>2, <1>3, <1>4, <1>5, <1>6, ReceiptKeeps

\* After an abandonment the attempts of the key have their receipts.
LEMMA AbandonKeeps ==
  ASSUME IInv, TypeInv', NEW k \in Keys, abandonAiUsage(k)
  PROVE  SpendInv'
<1> DEFINE n == request[k].n
<1>1. /\ UNCHANGED <<request, attempt, saved, spent, handler>> /\ ~account.active /\ ~account'.active
      /\ account'.abandoned = account.abandoned \cup {k} /\ MayAbandon(k)
  BY DEF abandonAiUsage, IInv, TypeInv, TypeOK
<1>2. \A g \in Handlers : GoesOn(g)
  BY <1>1 DEF GoesOn
<1>3. ASSUME receipt'[k][n].kind # "none" \/ request[k].status = "none", \A m \in Attempts : m # n => receipt'[k][m] = receipt[k][m]
      PROVE  \A m \in Attempts : attempt[k][m].status # "none" => receipt'[k][m].kind # "none"
  <2>1. \A m \in Attempts : attempt[k][m].status # "none" => receipt[k][m].kind # "none" \/ (m = n /\ request[k].status # "none")
    BY DEF IInv, SpendInv, Receipted
  <2>2. request[k].status = "none" => receipt'[k] = receipt[k]
    BY AbandonIs
  <2> QED BY <1>3, <2>1, <2>2
<1>4. CASE /\ request[k].status = "checkpointed"
           /\ receipt' = [receipt EXCEPT ![k][n] = [kind |-> "result", cost |-> saved[k].cost, failed |-> FALSE]]
  <2>1. n \in Attempts /\ saved[k].cost = spent[k][n]
    BY <1>4, OfKey DEF IInv, SpendInv, Roots
  <2>2. /\ receipt'[k][n].kind = "result" /\ receipt'[k][n].cost = spent[k][n]
        /\ \A j \in Keys, m \in Attempts : j # k \/ m # n => receipt'[j][m] = receipt[j][m]
    BY <1>4, <2>1 DEF IInv, TypeInv, TypeOK
  <2>3. \A g \in Handlers : ~(handler'[g].pc \in Before /\ handler'[g].key = k)
    BY <1>1, <1>4, <2>1, NoneBefore
  <2> QED BY <1>1, <1>2, <1>3, <2>1, <2>2, <2>3, ReceiptKeeps
<1>5. CASE request[k].status = "reserved" /\ receipt' = [receipt EXCEPT ![k][n].kind = "uncertain"]
  <2>1. n \in Attempts
    BY <1>5, OfKey DEF IInv
  <2>2. /\ receipt'[k][n].kind = "uncertain"
        /\ \A j \in Keys, m \in Attempts : j # k \/ m # n => receipt'[j][m] = receipt[j][m]
    BY <1>5, <2>1, OfKey DEF IInv, TypeInv, TypeOK, Receipt
  <2> QED BY <1>1, <1>2, <1>3, <2>1, <2>2, ReceiptKeeps
<1>6. CASE /\ UNCHANGED receipt
           /\ ~(request[k].status = "checkpointed" /\ HeldInPool(k, n) # "nothing")
           /\ ~(request[k].status = "reserved" /\ HeldInPool(k, n) = "reserved")
  <2>1. receipt[k][n].kind # "none" \/ request[k].status = "none"
    <3>1. SUFFICES ASSUME receipt[k][n].kind = "none", request[k].status # "none" PROVE FALSE
      OBVIOUS
    <3>2. HeldInPool(k, n) = "reserved" /\ request[k].status \notin {"reserved", "checkpointed"}
      BY <1>6, <3>1 DEF HeldInPool
    <3>3. ~Open(k, n)
      BY <3>2, HeldIs DEF Open
    <3> QED BY <1>1, <3>1, <3>2, <3>3 DEF MayAbandon, MayAbandonResult
  <2>2. \A m \in Attempts : attempt[k][m].status # "none" => receipt[k][m].kind # "none"
    BY <1>3, <1>6, <2>1
  <2>3. NothingSent'
    BY <1>1, <1>6 DEF IInv, SpendInv, NothingSent
  <2>4. WasSent'
    BY <1>1 DEF IInv, SpendInv, WasSent
  <2>5. Roots'
    BY <1>1, <1>6 DEF IInv, SpendInv, Roots
  <2>6. Receipted'
    BY <1>1, <1>6, <2>2 DEF IInv, SpendInv, Receipted
  <2>7. SpendKept'
    BY <1>1, <1>6 DEF IInv, SpendInv, SpendKept, HeldInPool
  <2> QED BY <2>3, <2>4, <2>5, <2>6, <2>7 DEF SpendInv
<1> QED BY <1>4, <1>5, <1>6, AbandonIs

\* The documents of a key are removed when all its attempts have their receipts.
LEMMA RemoveKeeps ==
  ASSUME IInv, TypeInv', NEW k \in Keys, RemoveRequest(k)
  PROVE  SpendInv'
<1>1. UNCHANGED <<receipt, handler, account, spent>> /\ k \in account.abandoned /\ ~account.active
  BY DEF RemoveRequest, IInv, Deleting
<1>2. /\ request'[k] = NoRequest
      /\ \A j \in Keys : j # k => request'[j] = request[j] /\ attempt'[j] = attempt[j] /\ saved'[j] = saved[j]
      /\ \A m \in Attempts : attempt'[k][m] = NoAttempt
  BY DEF RemoveRequest, IInv, TypeInv, TypeOK
<1>3. \A m \in Attempts : attempt[k][m].status # "none" => receipt[k][m].kind # "none"
  BY <1>1 DEF IInv, SpendInv, Receipted
<1>4. \A g \in Handlers : handler[g].pc \in Before => handler[g].key \in Keys /\ handler[g].n \in Attempts
  BY AtWork DEF Before, IInv
<1>5. NothingSent'
  BY <1>1, <1>2, <1>3, <1>4 DEF IInv, SpendInv, NothingSent, NoRequest
<1>6. WasSent'
  BY <1>1 DEF IInv, SpendInv, WasSent
<1>7. Roots'
  BY <1>1, <1>2 DEF IInv, SpendInv, Roots, NoRequest
<1>8. Receipted'
  BY <1>1, <1>2 DEF IInv, SpendInv, Receipted, NoAttempt
<1>9. SpendKept'
  BY <1>1, <1>2, <1>3 DEF IInv, SpendInv, SpendKept, HeldInPool
<1> QED BY <1>5, <1>6, <1>7, <1>8, <1>9 DEF SpendInv

LEMMA SpendStep ==
  ASSUME IInv, [Next]_vars
  PROVE  IInv'
<1>1. TypeInv' /\ Deleting'
  BY TypeStep, DeletingStep DEF IInv
<1>2. ASSUME NEW h \in Handlers,
             \/ (\E k \in Keys : Read(h, k)) \/ recoverAiUsageResult(h)
             \/ NotDispatched(h) \/ Answer(h) \/ NoAnswer(h) \/ Fails(h) \/ Refused(h)
      PROVE  SpendInv'
  BY <1>1, <1>2, QuietSteps
<1>3. ASSUME NEW h \in Handlers, NEW c \in Costs, Dispatch(h, c) PROVE SpendInv'
  BY <1>1, <1>3, DispatchKeeps
<1>4. ASSUME NEW h \in Handlers, reserveAiUsage(h) \/ checkpointAiUsageResult(h) \/ settleAiUsageProduct(h) PROVE SpendInv'
  BY <1>1, <1>4, ReserveKeeps, CheckpointKeeps, SettleKeeps
<1>5. ASSUME NEW h \in Handlers, FinalizeTurn(h) \/ FinalizeFailed(h) \/ FinalizeUnsent(h) \/ FinalizeDeleted(h) PROVE SpendInv'
  BY <1>1, <1>5, FinalizeKeeps, FinalizeDeletedKeeps
<1>6. ASSUME NEW h \in Handlers, FinalizeUnknown(h) PROVE SpendInv'
  <2>1. handler[h].key \in Keys /\ handler[h].n \in 0 .. MaxAttempts
    BY <1>6, AtWork DEF FinalizeUnknown, IInv
  <2>2. \A g \in Handlers : handler'[g] = handler[g] \/ handler'[g].pc = "idle"
    BY <1>6 DEF FinalizeUnknown, Leave, Idle, IInv, TypeInv, TypeOK
  <2> QED BY <1>1, <1>6, <2>1, <2>2, ContainKeeps DEF FinalizeUnknown
<1>7. ASSUME NEW k \in Keys, reconcileExpiredAiUsage(k) PROVE SpendInv'
  <2>1. request[k].n \in 0 .. MaxAttempts
    BY OfKey DEF IInv
  <2> QED BY <1>1, <1>7, <2>1, ContainKeeps DEF reconcileExpiredAiUsage
<1>8. ASSUME NEW k \in Keys, abandonAiUsage(k) \/ RemoveRequest(k) PROVE SpendInv'
  BY <1>1, <1>8, AbandonKeeps, RemoveKeeps
<1>9. CASE LeaseExpires \/ ChangeProduct \/ DeleteAccount \/ RemoveLedger \/ UNCHANGED vars
  <2>1. /\ UNCHANGED <<request, attempt, saved, receipt, spent>> /\ UNCHANGED handler
        /\ account'.abandoned = account.abandoned
        /\ account'.active => account.active
    BY <1>9 DEF LeaseExpires, ChangeProduct, DeleteAccount, RemoveLedger, documents, vars, IInv, TypeInv, TypeOK
  <2>2. \A g \in Handlers : handler'[g] = handler[g]
    BY <2>1
  <2>3. SpendInv'
    BY <1>1, <2>1, <2>2, Quiet
  <2> QED BY <1>1, <2>3 DEF IInv
<1> QED BY <1>1, <1>2, <1>3, <1>4, <1>5, <1>6, <1>7, <1>8, <1>9 DEF Next, IInv

LEMMA SpendStart ==
  ASSUME Init
  PROVE  IInv
<1>1. TypeInv
  BY TypeStart
<1>2. NothingSent /\ WasSent /\ Deleting
  BY DEF Init, Idle, Before, Sent, NothingSent, WasSent, Deleting
<1>3. Roots /\ Receipted /\ SpendKept
  BY DEF Init, NoRequest, NoAttempt, NoReceipt, Roots, Receipted, SpendKept
<1> QED BY <1>1, <1>2, <1>3 DEF IInv, SpendInv

\* Whatever request dies, is late, or is overtaken by an operator's run or by
\* the deletion of the account, a call that was sent is paid for once under its
\* key, and is held, in doubt, or booked at what it cost.
THEOREM SpendIsKept == Spec => []SpendKept
<1>1. IInv /\ [Next]_vars => IInv'
  BY SpendStep
<1>2. IInv => SpendKept
  BY DEF IInv, SpendInv
<1> QED BY <1>1, <1>2, SpendStart, PTL DEF Spec

-----------------------------------------------------------------------------
(* Sums over a finite set. *)

\* Every set of numbers that has a member has a least one: what a proof by
\* induction needs, said of sets.
LEMMA NatLeast ==
  ASSUME NEW B \in SUBSET Nat, NEW k \in B
  PROVE  \E m \in B : \A n \in B : m <= n
<1> DEFINE R == OpToRel(<, Nat)
<1>1. IsWellFoundedOn(R, Nat)
  BY NatLessThanWellFounded
<1>2. \A x, y \in Nat : <<x, y>> \in R <=> x < y
  BY DEF OpToRel
<1> HIDE DEF R
<1>3. \E m \in B : \A n \in B : ~(<<n, m>> \in R)
  BY <1>1, WFMin
<1>4. PICK m \in B : \A n \in B : ~(<<n, m>> \in R)
  BY <1>3
<1>5. ASSUME NEW n \in B PROVE m <= n
  <2>1. m \in Nat /\ n \in Nat /\ ~(n < m)
    BY <1>2, <1>4
  <2> QED BY <2>1
<1> QED BY <1>5

\* Of the subsets of a finite set with some property one is minimal: no
\* subset of it that lacks an element has the property.
LEMMA SmallestSubset ==
  ASSUME NEW S, IsFiniteSet(S), NEW B \in SUBSET SUBSET S, NEW K \in B
  PROVE  \E M \in B : \A x \in M : M \ {x} \notin B
<1> DEFINE Sizes == {Cardinality(T) : T \in B}
<1>1. \A T \in SUBSET S : IsFiniteSet(T) /\ Cardinality(T) \in Nat
  BY FS_Subset, FS_CardinalityType
<1>2. Sizes \in SUBSET Nat /\ Cardinality(K) \in Sizes
  BY <1>1
<1>3. \E c \in Sizes : \A d \in Sizes : c <= d
  BY <1>2, NatLeast
<1>4. PICK M \in B : \A T \in B : Cardinality(M) <= Cardinality(T)
  BY <1>3
<1>5. ASSUME NEW x \in M, M \ {x} \in B PROVE FALSE
  <2>1. Cardinality(M \ {x}) = Cardinality(M) - 1
    BY <1>1, FS_RemoveElement
  <2>2. Cardinality(M) <= Cardinality(M \ {x})
    BY <1>4, <1>5
  <2> QED BY <1>1, <2>1, <2>2
<1> QED BY <1>5

Pick(T) == CHOOSE x \in T : TRUE

\* The function SumFunctionOnSet recurses through.
Partial(f, S) == CHOOSE g : g = [T \in SUBSET S |-> IF T = {} THEN 0 ELSE f[Pick(T)] + g[T \ {Pick(T)}]]

LEMMA SumIsPartial == ASSUME NEW f, NEW S PROVE SumFunctionOnSet(f, S) = Partial(f, S)[S]
BY Zenon DEF SumFunctionOnSet, FoldFunctionOnSet, MapThenFoldSet, Partial, Pick

LEMMA PickIn == ASSUME NEW T, T # {} PROVE Pick(T) \in T
BY DEF Pick

\* There is such a function.
LEMMA PartialStep ==
  ASSUME NEW f, NEW S, IsFiniteSet(S)
  PROVE  \A T \in SUBSET S :
           Partial(f, S)[T] = IF T = {} THEN 0 ELSE f[Pick(T)] + Partial(f, S)[T \ {Pick(T)}]
<1> DEFINE Rest(g, T) == IF T = {} THEN 0 ELSE f[Pick(T)] + g[T \ {Pick(T)}]
           Good(g, n) == \A T \in SUBSET S : Cardinality(T) <= n => g[T] = Rest(g, T)
           Bad == {n \in Nat : ~ \E g : g = [T \in SUBSET S |-> g[T]] /\ Good(g, n)}
<1>1. \A T \in SUBSET S : /\ IsFiniteSet(T) /\ Cardinality(T) \in Nat
                          /\ T # {} => /\ T \ {Pick(T)} \in SUBSET S
                                       /\ Cardinality(T \ {Pick(T)}) = Cardinality(T) - 1
                          /\ Cardinality(T) = 0 => T = {}
                          /\ Cardinality(T) <= Cardinality(S)
  BY FS_Subset, FS_CardinalityType, FS_RemoveElement, FS_EmptySet, PickIn
<1>2. 0 \notin Bad
  <2> DEFINE z == [T \in SUBSET S |-> 0]
  <2>1. \A T \in SUBSET S : Cardinality(T) <= 0 => T = {}
    <3>1. \A T \in SUBSET S : Cardinality(T) \in Nat /\ (Cardinality(T) = 0 => T = {})
      BY <1>1
    <3> QED BY <3>1
  <2>2. z = [T \in SUBSET S |-> z[T]]
    OBVIOUS
  <2>3. Good(z, 0)
    BY <2>1
  <2> HIDE DEF z, Good
  <2> QED BY <2>2, <2>3
<1>3. ASSUME NEW n \in Nat, n \notin Bad PROVE n + 1 \notin Bad
  <2>1. PICK g : g = [T \in SUBSET S |-> g[T]] /\ Good(g, n)
    BY <1>3
  <2> DEFINE h == [T \in SUBSET S |-> Rest(g, T)]
  <2>2. h = [T \in SUBSET S |-> h[T]]
    OBVIOUS
  <2>3. \A T \in SUBSET S : Cardinality(T) <= n => h[T] = g[T]
    BY <2>1
  <2>4. ASSUME NEW T \in SUBSET S, Cardinality(T) <= n + 1 PROVE h[T] = Rest(h, T)
    <3>1. CASE T = {}
      BY <3>1
    <3>2. CASE T # {}
      <4> DEFINE U == T \ {Pick(T)}
      <4>1. U \in SUBSET S /\ Cardinality(U) <= n
        BY <1>1, <1>3, <2>4, <3>2
      <4>2. h[U] = g[U]
        BY <2>3, <4>1
      <4>3. h[T] = f[Pick(T)] + g[U]
        BY <3>2
      <4> QED BY <3>2, <4>2, <4>3
    <3> QED BY <3>1, <3>2
  <2>5. Good(h, n + 1)
    BY <2>4
  <2> HIDE DEF h, Good
  <2> QED BY <2>2, <2>5
<1>4. Bad = {}
  <2> HIDE DEF Bad
  <2>0. Bad \subseteq Nat
    BY DEF Bad
  <2> SUFFICES ASSUME NEW k \in Bad PROVE FALSE
    OBVIOUS
  <2>1. PICK m \in Bad : \A n \in Bad : m <= n
    BY <2>0, NatLeast
  <2>2. m \in Nat /\ m # 0
    BY <2>0, <2>1, <1>2
  <2>3. m - 1 \in Nat /\ m - 1 \notin Bad /\ (m - 1) + 1 = m
    BY <2>0, <2>1, <2>2
  <2> QED BY <1>3, <2>1, <2>3
<1>5. PICK g : g = [T \in SUBSET S |-> g[T]] /\ Good(g, Cardinality(S))
  BY <1>1, <1>4
<1>6. \A T \in SUBSET S : g[T] = Rest(g, T)
  BY <1>1, <1>5
<1>7. [T \in SUBSET S |-> g[T]] = [T \in SUBSET S |-> Rest(g, T)]
  BY <1>6
<1>8. g = [T \in SUBSET S |-> Rest(g, T)]
  BY <1>5, <1>7
<1>9. \E h : h = [T \in SUBSET S |-> IF T = {} THEN 0 ELSE f[Pick(T)] + h[T \ {Pick(T)}]]
  BY <1>8
<1>10. Partial(f, S) = [T \in SUBSET S |-> IF T = {} THEN 0 ELSE f[Pick(T)] + Partial(f, S)[T \ {Pick(T)}]]
  BY <1>9 DEF Partial
<1> HIDE DEF Rest, Good, Bad
<1> QED BY <1>10

\* Two functions that agree on a set have the same sum over it, and what is
\* summed over a subset does not depend on the set it is a subset of.
LEMMA PartialSame ==
  ASSUME NEW S, IsFiniteSet(S), NEW R, IsFiniteSet(R), NEW T, T \subseteq S, T \subseteq R,
         NEW f, NEW g, \A x \in T : f[x] = g[x]
  PROVE  Partial(f, S)[T] = Partial(g, R)[T]
<1> DEFINE Bad == {U \in SUBSET T : Partial(f, S)[U] # Partial(g, R)[U]}
<1>1. IsFiniteSet(T)
  BY FS_Subset
<1>2. ASSUME NEW U \in SUBSET T, U # {}, U \ {Pick(U)} \notin Bad PROVE U \notin Bad
  <2> DEFINE p == Pick(U)
  <2>0. p \in U
    BY <1>2, PickIn
  <2>1. f[p] = g[p] /\ U \ {p} \in SUBSET T /\ U \in SUBSET S /\ U \in SUBSET R
    BY <2>0
  <2>2. Partial(f, S)[U \ {p}] = Partial(g, R)[U \ {p}]
    BY <1>2, <2>1
  <2>3. Partial(f, S)[U] = f[p] + Partial(f, S)[U \ {p}]
    BY <1>2, <2>1, PartialStep
  <2>4. Partial(g, R)[U] = g[p] + Partial(g, R)[U \ {p}]
    BY <1>2, <2>1, PartialStep
  <2> QED BY <2>1, <2>2, <2>3, <2>4
<1>3. {} \notin Bad
  BY PartialStep
<1>4. T \notin Bad
  <2> HIDE DEF Bad
  <2>0. Bad \in SUBSET SUBSET T
    BY DEF Bad
  <2> SUFFICES ASSUME T \in Bad PROVE FALSE
    OBVIOUS
  <2>1. PICK M \in Bad : \A x \in M : M \ {x} \notin Bad
    BY <1>1, <2>0, SmallestSubset
  <2>2. M # {} /\ M \in SUBSET T
    BY <1>3, <2>0, <2>1
  <2> QED BY <1>2, <2>1, <2>2, PickIn
<1> QED BY <1>4

LEMMA SumSame ==
  ASSUME NEW S, IsFiniteSet(S), NEW f, NEW g, \A x \in S : f[x] = g[x]
  PROVE  SumFunctionOnSet(f, S) = SumFunctionOnSet(g, S)
BY SumIsPartial, PartialSame

LEMMA SumEmpty ==
  ASSUME NEW f PROVE SumFunctionOnSet(f, {}) = 0
BY SumIsPartial, PartialStep, FS_EmptySet

LEMMA SumPick ==
  ASSUME NEW S, IsFiniteSet(S), S # {}, NEW f
  PROVE  /\ Pick(S) \in S
         /\ SumFunctionOnSet(f, S) = f[Pick(S)] + SumFunctionOnSet(f, S \ {Pick(S)})
<1> DEFINE p == Pick(S)
<1>1. p \in S /\ IsFiniteSet(S \ {p}) /\ S \ {p} \subseteq S
  BY PickIn, FS_RemoveElement
<1>2. Partial(f, S)[S] = f[p] + Partial(f, S)[S \ {p}]
  BY PartialStep
<1>3. Partial(f, S)[S \ {p}] = Partial(f, S \ {p})[S \ {p}]
  BY <1>1, PartialSame
<1> QED BY <1>1, <1>2, <1>3, SumIsPartial

LEMMA SumType ==
  ASSUME NEW S, IsFiniteSet(S), NEW f, \A x \in S : f[x] \in Nat
  PROVE  SumFunctionOnSet(f, S) \in Nat
<1> DEFINE Bad == {U \in SUBSET S : SumFunctionOnSet(f, U) \notin Nat}
<1>1. ASSUME NEW U \in SUBSET S, \A x \in U : U \ {x} \notin Bad PROVE U \notin Bad
  <2>1. CASE U = {}
    BY <2>1, SumEmpty
  <2>2. CASE U # {}
    <3> DEFINE p == Pick(U)
    <3>1. p \in U /\ SumFunctionOnSet(f, U) = f[p] + SumFunctionOnSet(f, U \ {p})
      BY <2>2, SumPick, FS_Subset
    <3>2. f[p] \in Nat /\ SumFunctionOnSet(f, U \ {p}) \in Nat
      BY <1>1, <3>1
    <3> QED BY <3>1, <3>2
  <2> QED BY <2>1, <2>2
<1> HIDE DEF Bad
<1>2. Bad \in SUBSET SUBSET S
  BY DEF Bad
<1>3. S \notin Bad
  BY <1>1, <1>2, SmallestSubset
<1> QED BY <1>3 DEF Bad

\* Any member of the set can be taken out first.
LEMMA SumRemove ==
  ASSUME NEW S, IsFiniteSet(S), NEW f, \A x \in S : f[x] \in Nat, NEW x \in S
  PROVE  SumFunctionOnSet(f, S) = f[x] + SumFunctionOnSet(f, S \ {x})
<1> DEFINE Sum(T) == SumFunctionOnSet(f, T)
           Bad == {U \in SUBSET S : \E y \in U : Sum(U) # f[y] + Sum(U \ {y})}
<1>1. \A U \in SUBSET S : IsFiniteSet(U) /\ Sum(U) \in Nat
  BY FS_Subset, SumType
<1>2. ASSUME NEW U \in SUBSET S, \A y \in U : U \ {y} \notin Bad PROVE U \notin Bad
  <2> SUFFICES ASSUME NEW y \in U PROVE Sum(U) = f[y] + Sum(U \ {y})
    OBVIOUS
  <2> DEFINE p == Pick(U)
  <2>1. p \in U /\ Sum(U) = f[p] + Sum(U \ {p})
    BY <1>1, SumPick
  <2>2. CASE p = y
    BY <2>1, <2>2
  <2>3. CASE p # y
    <3>1. y \in U \ {p} /\ p \in U \ {y} /\ U \ {p} \in SUBSET S /\ U \ {y} \in SUBSET S
      BY <2>1, <2>3
    <3>2. Sum(U \ {p}) = f[y] + Sum((U \ {p}) \ {y})
      BY <1>2, <2>1, <3>1
    <3>3. Sum(U \ {y}) = f[p] + Sum((U \ {y}) \ {p})
      BY <1>2, <2>1, <3>1
    <3>4. (U \ {p}) \ {y} = (U \ {y}) \ {p} /\ (U \ {y}) \ {p} \in SUBSET S
      OBVIOUS
    <3>5. f[p] \in Nat /\ f[y] \in Nat /\ Sum((U \ {y}) \ {p}) \in Nat
      BY <1>1, <2>1, <3>4
    <3>6. Sum(U) = f[p] + (f[y] + Sum((U \ {y}) \ {p}))
      BY <2>1, <3>2, <3>4
    <3>7. f[y] + Sum(U \ {y}) = f[y] + (f[p] + Sum((U \ {y}) \ {p}))
      BY <3>3
    <3> HIDE DEF Sum, p
    <3> QED BY <3>5, <3>6, <3>7
  <2> QED BY <2>2, <2>3
<1> HIDE DEF Bad
<1>3. Bad \in SUBSET SUBSET S
  BY DEF Bad
<1>4. S \notin Bad
  BY <1>2, <1>3, SmallestSubset
<1> QED BY <1>4 DEF Bad

LEMMA SumChanged ==
  ASSUME NEW S, IsFiniteSet(S), NEW x \in S, NEW f, NEW g, \A y \in S : f[y] \in Nat /\ g[y] \in Nat,
         \A y \in S : y # x => f[y] = g[y]
  PROVE  SumFunctionOnSet(g, S) = SumFunctionOnSet(f, S) - f[x] + g[x]
<1>1. IsFiniteSet(S \ {x})
  BY FS_RemoveElement
<1>2. SumFunctionOnSet(f, S \ {x}) \in Nat
  BY <1>1, SumType
<1>3. SumFunctionOnSet(g, S \ {x}) = SumFunctionOnSet(f, S \ {x})
  BY <1>1, SumSame
<1>4. /\ SumFunctionOnSet(f, S) = f[x] + SumFunctionOnSet(f, S \ {x})
      /\ SumFunctionOnSet(g, S) = g[x] + SumFunctionOnSet(g, S \ {x})
  BY SumRemove
<1>5. f[x] \in Nat /\ g[x] \in Nat
  OBVIOUS
<1> QED BY <1>2, <1>3, <1>4, <1>5

LEMMA SumAtLeast ==
  ASSUME NEW S, IsFiniteSet(S), NEW x \in S, NEW f, \A y \in S : f[y] \in Nat
  PROVE  f[x] <= SumFunctionOnSet(f, S)
<1>1. SumFunctionOnSet(f, S \ {x}) \in Nat
  BY SumType, FS_RemoveElement
<1>2. SumFunctionOnSet(f, S) = f[x] + SumFunctionOnSet(f, S \ {x}) /\ f[x] \in Nat
  BY SumRemove
<1> QED BY <1>1, <1>2

LEMMA SumZero ==
  ASSUME NEW S, IsFiniteSet(S), NEW f, \A y \in S : f[y] = 0
  PROVE  SumFunctionOnSet(f, S) = 0
<1> DEFINE Bad == {U \in SUBSET S : SumFunctionOnSet(f, U) # 0}
<1>1. ASSUME NEW U \in SUBSET S, \A x \in U : U \ {x} \notin Bad PROVE U \notin Bad
  <2>1. CASE U = {}
    BY <2>1, SumEmpty
  <2>2. CASE U # {}
    <3> DEFINE p == Pick(U)
    <3>1. p \in U /\ SumFunctionOnSet(f, U) = f[p] + SumFunctionOnSet(f, U \ {p})
      BY <2>2, SumPick, FS_Subset
    <3>2. f[p] = 0 /\ SumFunctionOnSet(f, U \ {p}) = 0
      BY <1>1, <3>1
    <3> QED BY <3>1, <3>2
  <2> QED BY <2>1, <2>2
<1> HIDE DEF Bad
<1>2. Bad \in SUBSET SUBSET S
  BY DEF Bad
<1>3. S \notin Bad
  BY <1>1, <1>2, SmallestSubset
<1> QED BY <1>3 DEF Bad

(* Counting the places where a function has a value. *)

Count(f, S, v) == Cardinality({y \in S : f[y] = v})
One(u, v) == IF u = v THEN 1 ELSE 0

LEMMA CountChanged ==
  ASSUME NEW S, IsFiniteSet(S), NEW x \in S, NEW f, NEW g, \A y \in S : y # x => f[y] = g[y], NEW v
  PROVE  /\ Count(f, S, v) \in Nat
         /\ Count(g, S, v) = Count(f, S, v) - One(f[x], v) + One(g[x], v)
<1> DEFINE F == {y \in S : f[y] = v}
           G == {y \in S : g[y] = v}
<1>1. IsFiniteSet(F) /\ IsFiniteSet(G) /\ Cardinality(F) \in Nat /\ Cardinality(G) \in Nat
  BY FS_Subset, FS_CardinalityType
<1>2. /\ Cardinality(F \ {x}) = IF f[x] = v THEN Cardinality(F) - 1 ELSE Cardinality(F)
      /\ Cardinality(G \ {x}) = IF g[x] = v THEN Cardinality(G) - 1 ELSE Cardinality(G)
      /\ Cardinality(F \ {x}) \in Nat
  BY <1>1, FS_RemoveElement, FS_CardinalityType
<1>3. F \ {x} = G \ {x}
  OBVIOUS
<1>4. Cardinality(G) = Cardinality(F) - One(f[x], v) + One(g[x], v)
  <2> DEFINE c == Cardinality(F \ {x})
  <2>0. c = Cardinality(G \ {x})
    BY <1>3
  <2> HIDE DEF c, F, G
  <2>1. Cardinality(F) = c + One(f[x], v)
    BY <1>1, <1>2 DEF One, c
  <2>2. Cardinality(G) = c + One(g[x], v)
    BY <1>1, <1>2, <2>0 DEF One
  <2>3. c \in Nat /\ One(f[x], v) \in Int /\ One(g[x], v) \in Int
    BY <1>2 DEF One, c
  <2> QED BY <2>1, <2>2, <2>3
<1> QED BY <1>1, <1>4 DEF F, G, Count

LEMMA CountSome ==
  ASSUME NEW S, IsFiniteSet(S), NEW x \in S, NEW f
  PROVE  Count(f, S, f[x]) \in Nat /\ Count(f, S, f[x]) >= 1
<1> DEFINE F == {y \in S : f[y] = f[x]}
<1>1. IsFiniteSet(F) /\ Cardinality(F) \in Nat /\ F # {}
  BY FS_Subset, FS_CardinalityType
<1>2. Cardinality(F) # 0
  BY <1>1, FS_EmptySet
<1> QED BY <1>1, <1>2 DEF Count

LEMMA Times ==
  ASSUME NEW r \in Nat, NEW c \in Nat, NEW i \in {0, 1}, NEW j \in {0, 1}
  PROVE  r * (c - i + j) = r * c - r * i + r * j
OBVIOUS

-----------------------------------------------------------------------------
(* A ledger: where each attempt is held, and what was booked for it *)

\* The counters of a ledger are what the places and the costs of the attempts add up to.
Matches(bill, places, costs) ==
  /\ bill.reserved = Reserve * Count(places, Slots, "reserved")
  /\ bill.uncertain = Reserve * Count(places, Slots, "uncertain")
  /\ bill.actual = SumFunctionOnSet(costs, Slots)

LEMMA SlotsFinite == IsFiniteSet(Slots)
<1>1. IsFiniteSet(Attempts)
  BY Amounts, FS_Interval DEF Attempts
<1> QED BY <1>1, FiniteAssumption, FS_Product DEF Slots

\* One attempt changes its place and its cost, and the counters follow.
LEMMA LedgerMoves ==
  ASSUME NEW x \in Slots, NEW p, NEW q, NEW c, NEW d,
         \A a \in Slots : a # x => q[a] = p[a] /\ d[a] = c[a],
         \A a \in Slots : c[a] \in Nat /\ d[a] \in Nat,
         NEW b, NEW e, Matches(b, p, c),
         e.reserved = b.reserved - Reserve * One(p[x], "reserved") + Reserve * One(q[x], "reserved"),
         e.uncertain = b.uncertain - Reserve * One(p[x], "uncertain") + Reserve * One(q[x], "uncertain"),
         e.actual = b.actual - c[x] + d[x]
  PROVE  Matches(e, q, d)
<1>1. ASSUME NEW v, NEW was, NEW is,
             was = Reserve * Count(p, Slots, v),
             is = was - Reserve * One(p[x], v) + Reserve * One(q[x], v)
      PROVE  is = Reserve * Count(q, Slots, v)
  <2> DEFINE m == Count(p, Slots, v)
             n == Count(q, Slots, v)
  <2>1. m \in Nat /\ n = m - One(p[x], v) + One(q[x], v)
    <3>1. IsFiniteSet(Slots) /\ \A y \in Slots : y # x => p[y] = q[y]
      BY SlotsFinite
    <3> QED BY <3>1, CountChanged
  <2>2. One(p[x], v) \in {0, 1} /\ One(q[x], v) \in {0, 1} /\ Reserve \in Nat
    BY Amounts DEF One
  <2> HIDE DEF m, n
  <2>3. Reserve * n = Reserve * m - Reserve * One(p[x], v) + Reserve * One(q[x], v)
    BY <2>1, <2>2, Times
  <2>4. was = Reserve * m
    BY <1>1 DEF m
  <2>5. is = Reserve * n
    BY <1>1, <2>3, <2>4
  <2> QED BY <2>5 DEF n
<1>2. e.reserved = Reserve * Count(q, Slots, "reserved")
  BY <1>1 DEF Matches
<1>3. e.uncertain = Reserve * Count(q, Slots, "uncertain")
  BY <1>1 DEF Matches
<1>4. SumFunctionOnSet(d, Slots) = SumFunctionOnSet(c, Slots) - c[x] + d[x]
  BY SlotsFinite, SumChanged
<1> QED BY <1>2, <1>3, <1>4 DEF Matches

\* What is held for one attempt is in the counter, and so is what was booked for it.
LEMMA LedgerHas ==
  ASSUME NEW x \in Slots, NEW p, NEW c, \A a \in Slots : c[a] \in Nat, NEW b, Matches(b, p, c)
  PROVE  /\ p[x] = "reserved" => b.reserved >= Reserve
         /\ p[x] = "uncertain" => b.uncertain >= Reserve
         /\ b.actual >= c[x]
<1>1. ASSUME NEW v, p[x] = v PROVE Reserve * Count(p, Slots, v) >= Reserve
  <2> DEFINE m == Count(p, Slots, v)
  <2>1. m \in Nat /\ m >= 1
    BY <1>1, SlotsFinite, CountSome
  <2> HIDE DEF m
  <2>2. Reserve * m >= Reserve
    BY <2>1, Amounts
  <2> QED BY <2>2 DEF m
<1>2. c[x] <= SumFunctionOnSet(c, Slots) /\ SumFunctionOnSet(c, Slots) \in Nat /\ c[x] \in Nat
  BY SlotsFinite, SumAtLeast, SumType
<1> QED BY <1>1, <1>2 DEF Matches

-----------------------------------------------------------------------------
(* Request, attempt, checkpoint and receipt agree *)

\* Nothing is booked before an attempt is settled, and what is told of a
\* key's last attempt in its four documents is one story.
AgreeOf(k) ==
  LET n == request[k].n
      own == attempt[k][n]
      known == receipt[k][n]
      same == known.cost = own.cost /\ known.failed = own.failed IN
  /\ \A m \in Attempts :
       /\ attempt[k][m].status # "observed" => attempt[k][m].cost = 0
       /\ receipt[k][m].kind \in {"none", "uncertain"} => receipt[k][m].cost = 0
       /\ m > n => attempt[k][m].status = "none"
  /\ request[k].status = "none" => n = 0
  /\ request[k].status \in {"none", "reserved", "failed"} => saved[k].held = "none"
  /\ request[k].status = "reserved" =>
       own.status = "reserved" /\ (known.kind = "none" \/ (known.kind = "uncertain" /\ ~account.active))
  /\ request[k].status = "failed" =>
       \/ request[k].reason = "unknown" /\ own.status = "uncertain" /\ known.kind = "uncertain"
       \/ own.status = "observed" /\ known.kind = "completion" /\ same
  /\ request[k].status = "checkpointed" =>
       /\ own.status = "checkpointed" /\ saved[k].held \in {"reserved", "uncertain"}
       /\ \/ HeldInPool(k, n) = saved[k].held
          \/ known.kind = "result" /\ known.cost = saved[k].cost /\ ~account.active
  /\ request[k].status = "completed" =>
       own.status = "observed" /\ known.kind = (IF saved[k].held = "none" THEN "completion" ELSE "result") /\ same

Agree == \A k \in Keys : AgreeOf(k)

\* A key whose documents do not change still agrees.
LEMMA AgreeStays ==
  ASSUME NEW k \in Keys, AgreeOf(k), request'[k] = request[k], attempt'[k] = attempt[k], saved'[k] = saved[k],
         receipt'[k] = receipt[k], account'.active => account.active
  PROVE  AgreeOf(k)'
BY DEF AgreeOf, HeldInPool

\* A step that changes the documents of one attempt of one key, the key's last:
\* the other keys still agree, and so do the key's other attempts.
LEMMA AgreeAtLast ==
  ASSUME Agree, TypeInv, TypeInv', account'.active => account.active, NEW k \in Keys, NEW n \in Attempts,
         \A j \in Keys : j # k => request'[j] = request[j] /\ saved'[j] = saved[j],
         \A j \in Keys, m \in Attempts : j # k \/ m # n => attempt'[j][m] = attempt[j][m] /\ receipt'[j][m] = receipt[j][m],
         request[k].n <= n, request'[k].n = n, request'[k].status # "none",
         LET own == attempt'[k][n]
             known == receipt'[k][n]
             same == known.cost = own.cost /\ known.failed = own.failed IN
         /\ own.status # "observed" => own.cost = 0
         /\ known.kind \in {"none", "uncertain"} => known.cost = 0
         /\ request'[k].status \in {"reserved", "failed"} => saved'[k].held = "none"
         /\ request'[k].status = "reserved" =>
              own.status = "reserved" /\ (known.kind = "none" \/ (known.kind = "uncertain" /\ ~account'.active))
         /\ request'[k].status = "failed" =>
              \/ request'[k].reason = "unknown" /\ own.status = "uncertain" /\ known.kind = "uncertain"
              \/ own.status = "observed" /\ known.kind = "completion" /\ same
         /\ request'[k].status = "checkpointed" =>
              /\ own.status = "checkpointed" /\ saved'[k].held \in {"reserved", "uncertain"}
              /\ \/ HeldInPool(k, n)' = saved'[k].held
                 \/ known.kind = "result" /\ known.cost = saved'[k].cost /\ ~account'.active
         /\ request'[k].status = "completed" =>
              own.status = "observed" /\ known.kind = (IF saved'[k].held = "none" THEN "completion" ELSE "result") /\ same
  PROVE  Agree'
<1>1. ASSUME NEW j \in Keys, j # k PROVE AgreeOf(j)'
  <2>1. attempt'[j] = attempt[j] /\ receipt'[j] = receipt[j]
    BY <1>1 DEF TypeInv, TypeOK
  <2> QED BY <1>1, <2>1, AgreeStays DEF Agree
<1>2. AgreeOf(k)'
  <2>1. \A m \in Attempts :
          /\ attempt'[k][m].status # "observed" => attempt'[k][m].cost = 0
          /\ receipt'[k][m].kind \in {"none", "uncertain"} => receipt'[k][m].cost = 0
          /\ m > n => attempt'[k][m].status = "none"
    <3>1. ASSUME NEW m \in Attempts, m # n
          PROVE  /\ attempt'[k][m].status # "observed" => attempt'[k][m].cost = 0
                 /\ receipt'[k][m].kind \in {"none", "uncertain"} => receipt'[k][m].cost = 0
                 /\ m > n => attempt'[k][m].status = "none"
      <4>1. m > n => m > request[k].n
        BY OfKey, Amounts
      <4> QED BY <3>1, <4>1 DEF Agree, AgreeOf
    <3>2. ~(n > n)
      BY Amounts
    <3> QED BY <3>1, <3>2
  <2> QED BY <2>1 DEF AgreeOf
<1> QED BY <1>1, <1>2 DEF Agree

-----------------------------------------------------------------------------
(* The ledgers as places and costs *)

PoolPlace(k, n) ==
  IF attempt[k][n].status = "none" /\ receipt[k][n].kind = "none" THEN "nothing" ELSE HeldInPool(k, n)

PoolPlaces == [a \in Slots |-> PoolPlace(a[1], a[2])]
PoolCosts == [a \in Slots |-> receipt[a[1]][a[2]].cost]
OwnPlaces == [a \in Slots |-> Held(a[1], a[2])]
OwnCosts == [a \in Slots |-> attempt[a[1]][a[2]].cost]
Statuses == [k \in Keys |-> request[k].status]

OwnBalanced ==
  /\ Matches(personal, OwnPlaces, OwnCosts)
  /\ personal.count = Count(Statuses, Keys, "completed") + Count(OwnPlaces, Slots, "reserved")
Balanced == Matches(pool, PoolPlaces, PoolCosts) /\ (account.active => OwnBalanced)

LEMMA BalancedIs ==
  ASSUME TypeInv, Agree
  PROVE  Balanced <=> LedgersMatch
<1>1. ASSUME NEW v \in {"reserved", "uncertain"} PROVE Count(PoolPlaces, Slots, v) = Cardinality(InPool(v))
  <2>1. \A a \in Slots : PoolPlaces[a] = v <=> a \in InPool(v)
    BY <1>1 DEF PoolPlaces, PoolPlace, InPool, Made
  <2>2. {a \in Slots : PoolPlaces[a] = v} = InPool(v)
    BY <2>1 DEF InPool, Made
  <2> QED BY <2>2 DEF Count
<1>2. ASSUME NEW v \in {"reserved", "uncertain"} PROVE Count(OwnPlaces, Slots, v) = Cardinality(Holding(v))
  <2>1. ASSUME NEW k \in Keys, NEW m \in Attempts, Held(k, m) = v PROVE attempt[k][m].status # "none"
    BY <1>2, <2>1, HeldIs DEF Agree, AgreeOf
  <2>2. \A a \in Slots : a[1] \in Keys /\ a[2] \in Attempts
    BY DEF Slots
  <2>3. \A a \in Slots : OwnPlaces[a] = v <=> a \in Holding(v)
    BY <1>2, <2>1, <2>2 DEF OwnPlaces, Holding, Made
  <2>4. {a \in Slots : OwnPlaces[a] = v} = Holding(v)
    BY <2>3 DEF Holding, Made
  <2> QED BY <2>4 DEF Count
<1>3. SumFunctionOnSet(PoolCosts, Slots) = SumFunction([a \in Slots |-> receipt[a[1]][a[2]].cost])
  BY DEF SumFunction, PoolCosts
<1>4. SumFunctionOnSet(OwnCosts, Slots) = SumFunction([a \in Slots |-> attempt[a[1]][a[2]].cost])
  BY DEF SumFunction, OwnCosts
<1>5. Count(Statuses, Keys, "completed") = Cardinality({k \in Keys : request[k].status = "completed"})
  <2>1. {k \in Keys : Statuses[k] = "completed"} = {k \in Keys : request[k].status = "completed"}
    BY DEF Statuses
  <2> QED BY <2>1 DEF Count
<1>6. Count(PoolPlaces, Slots, "reserved") = Cardinality(InPool("reserved")) /\ Count(PoolPlaces, Slots, "uncertain") = Cardinality(InPool("uncertain"))
  BY <1>1
<1>7. Count(OwnPlaces, Slots, "reserved") = Cardinality(Holding("reserved")) /\ Count(OwnPlaces, Slots, "uncertain") = Cardinality(Holding("uncertain"))
  BY <1>2
<1> QED BY <1>3, <1>4, <1>5, <1>6, <1>7 DEF Balanced, OwnBalanced, Matches, LedgersMatch

LEMMA CostsTyped ==
  ASSUME NEW r, r \in [Keys -> [Attempts -> Receipt]] \/ r \in [Keys -> [Attempts -> Attempt]]
  PROVE  \A a \in Slots : r[a[1]][a[2]].cost \in Nat
<1> SUFFICES ASSUME NEW a \in Slots PROVE r[a[1]][a[2]].cost \in Nat
  OBVIOUS
<1>1. a[1] \in Keys /\ a[2] \in Attempts
  BY DEF Slots
<1>2. r[a[1]][a[2]] \in Receipt \/ r[a[1]][a[2]] \in Attempt
  BY <1>1
<1> QED BY <1>2 DEF Receipt, Attempt

\* How the books follow a change of one attempt, the key's last.
Follows(bill, old, new, cost, booked) ==
  /\ bill'.reserved = bill.reserved - Reserve * One(old, "reserved") + Reserve * One(new, "reserved")
  /\ bill'.uncertain = bill.uncertain - Reserve * One(old, "uncertain") + Reserve * One(new, "uncertain")
  /\ bill'.actual = bill.actual - cost + booked

LEMMA PoolAtOne ==
  ASSUME TypeInv, TypeInv', Matches(pool, PoolPlaces, PoolCosts), NEW k \in Keys, NEW n \in Attempts,
         \A j \in Keys, m \in Attempts : j # k \/ m # n => PoolPlace(j, m)' = PoolPlace(j, m) /\ receipt'[j][m].cost = receipt[j][m].cost,
         Follows(pool, PoolPlace(k, n), PoolPlace(k, n)', receipt[k][n].cost, receipt'[k][n].cost)
  PROVE  Matches(pool, PoolPlaces, PoolCosts)'
<1> DEFINE x == <<k, n>>
<1>1. x \in Slots /\ x[1] = k /\ x[2] = n
  BY DEF Slots
<1>2. /\ PoolPlaces[x] = PoolPlace(k, n) /\ PoolPlaces'[x] = PoolPlace(k, n)'
      /\ PoolCosts[x] = receipt[k][n].cost /\ PoolCosts'[x] = receipt'[k][n].cost
  BY <1>1 DEF PoolPlaces, PoolCosts
<1>3. ASSUME NEW a \in Slots, a # x PROVE PoolPlaces'[a] = PoolPlaces[a] /\ PoolCosts'[a] = PoolCosts[a]
  <2>1. a[1] \in Keys /\ a[2] \in Attempts /\ (a[1] # k \/ a[2] # n)
    BY <1>3 DEF Slots
  <2> QED BY <1>3, <2>1 DEF PoolPlaces, PoolCosts
<1>4. \A a \in Slots : PoolCosts[a] \in Nat /\ PoolCosts'[a] \in Nat
  BY CostsTyped DEF PoolCosts, TypeInv, TypeOK
<1> HIDE DEF x
<1>5. /\ pool'.reserved = pool.reserved - Reserve * One(PoolPlaces[x], "reserved") + Reserve * One(PoolPlaces'[x], "reserved")
      /\ pool'.uncertain = pool.uncertain - Reserve * One(PoolPlaces[x], "uncertain") + Reserve * One(PoolPlaces'[x], "uncertain")
      /\ pool'.actual = pool.actual - PoolCosts[x] + PoolCosts'[x]
  BY <1>2 DEF Follows
<1>6. Matches(pool', PoolPlaces', PoolCosts')
  BY <1>1, <1>3, <1>4, <1>5, LedgerMoves
<1> QED BY <1>6 DEF Matches
LEMMA OwnAtOne ==
  ASSUME TypeInv, TypeInv', OwnBalanced, NEW k \in Keys, NEW n \in Attempts,
         \A j \in Keys, m \in Attempts : j # k \/ m # n => Held(j, m)' = Held(j, m) /\ attempt'[j][m].cost = attempt[j][m].cost,
         \A j \in Keys : j # k => request'[j] = request[j],
         Follows(personal, Held(k, n), Held(k, n)', attempt[k][n].cost, attempt'[k][n].cost),
         personal'.count = personal.count - One(request[k].status, "completed") + One(request'[k].status, "completed")
                             - One(Held(k, n), "reserved") + One(Held(k, n)', "reserved")
  PROVE  OwnBalanced'
<1> DEFINE x == <<k, n>>
<1>1. x \in Slots /\ x[1] = k /\ x[2] = n
  BY DEF Slots
<1>2. /\ OwnPlaces[x] = Held(k, n) /\ OwnPlaces'[x] = Held(k, n)'
      /\ OwnCosts[x] = attempt[k][n].cost /\ OwnCosts'[x] = attempt'[k][n].cost
  BY <1>1 DEF OwnPlaces, OwnCosts
<1>3. ASSUME NEW a \in Slots, a # x PROVE OwnPlaces'[a] = OwnPlaces[a] /\ OwnCosts'[a] = OwnCosts[a]
  <2>1. a[1] \in Keys /\ a[2] \in Attempts /\ (a[1] # k \/ a[2] # n)
    BY <1>3 DEF Slots
  <2> QED BY <1>3, <2>1 DEF OwnPlaces, OwnCosts
<1>4. \A a \in Slots : OwnCosts[a] \in Nat /\ OwnCosts'[a] \in Nat
  BY CostsTyped DEF OwnCosts, TypeInv, TypeOK
<1> HIDE DEF x
<1>5. /\ personal'.reserved = personal.reserved - Reserve * One(OwnPlaces[x], "reserved") + Reserve * One(OwnPlaces'[x], "reserved")
      /\ personal'.uncertain = personal.uncertain - Reserve * One(OwnPlaces[x], "uncertain") + Reserve * One(OwnPlaces'[x], "uncertain")
      /\ personal'.actual = personal.actual - OwnCosts[x] + OwnCosts'[x]
  BY <1>2 DEF Follows
<1>6. Matches(personal', OwnPlaces', OwnCosts')
  <2>1. Matches(personal, OwnPlaces, OwnCosts)
    BY DEF OwnBalanced
  <2> QED BY <1>1, <1>3, <1>4, <1>5, <2>1, LedgerMoves
<1>7. /\ Count(Statuses, Keys, "completed") \in Nat
      /\ Count(Statuses', Keys, "completed") = Count(Statuses, Keys, "completed")
           - One(request[k].status, "completed") + One(request'[k].status, "completed")
  <2>1. /\ Statuses[k] = request[k].status /\ Statuses'[k] = request'[k].status
        /\ \A j \in Keys : j # k => Statuses[j] = Statuses'[j]
    BY DEF Statuses
  <2>2. /\ Count(Statuses, Keys, "completed") \in Nat
        /\ Count(Statuses', Keys, "completed") = Count(Statuses, Keys, "completed")
             - One(Statuses[k], "completed") + One(Statuses'[k], "completed")
    BY <2>1, FiniteAssumption, CountChanged, SMTT(30)
  <2> QED BY <2>1, <2>2
<1>8. /\ Count(OwnPlaces, Slots, "reserved") \in Nat
      /\ Count(OwnPlaces', Slots, "reserved") = Count(OwnPlaces, Slots, "reserved")
           - One(Held(k, n), "reserved") + One(Held(k, n)', "reserved")
  <2>1. \A a \in Slots : a # x => OwnPlaces[a] = OwnPlaces'[a]
    BY <1>3
  <2>2. /\ Count(OwnPlaces, Slots, "reserved") \in Nat
        /\ Count(OwnPlaces', Slots, "reserved") = Count(OwnPlaces, Slots, "reserved")
             - One(OwnPlaces[x], "reserved") + One(OwnPlaces'[x], "reserved")
    BY <1>1, <2>1, SlotsFinite, CountChanged, SMTT(30)
  <2> QED BY <1>2, <2>2
<1>9. personal'.count = Count(Statuses', Keys, "completed") + Count(OwnPlaces', Slots, "reserved")
  <2>1. \A u, v : One(u, v) \in Int
    BY DEF One
  <2> DEFINE done == Count(Statuses, Keys, "completed")
             held == Count(OwnPlaces, Slots, "reserved")
  <2>2. personal.count = done + held
    BY DEF OwnBalanced
  <2> HIDE DEF done, held
  <2> QED BY <1>7, <1>8, <2>1, <2>2 DEF done, held
<1>10. (Matches(personal, OwnPlaces, OwnCosts))'
  BY <1>6 DEF Matches
<1>11. (personal.count = Count(Statuses, Keys, "completed") + Count(OwnPlaces, Slots, "reserved"))'
  BY <1>9 DEF Count
<1> QED BY <1>10, <1>11 DEF OwnBalanced

\* What holds of the books when the key's last attempt is the only one to change.
LEMMA BooksAtLast ==
  ASSUME TypeInv, TypeInv', Balanced, account'.active => account.active, NEW k \in Keys, NEW n \in Attempts,
         \A j \in Keys : j # k => request'[j] = request[j] /\ saved'[j] = saved[j],
         \A j \in Keys, m \in Attempts : j # k \/ m # n => attempt'[j][m] = attempt[j][m] /\ receipt'[j][m] = receipt[j][m],
         Follows(pool, PoolPlace(k, n), PoolPlace(k, n)', receipt[k][n].cost, receipt'[k][n].cost),
         account'.active =>
           /\ request[k].n = n \/ MayReserve(k)
           /\ request'[k].n = n
           /\ Follows(personal, Held(k, n), Held(k, n)', attempt[k][n].cost, attempt'[k][n].cost)
           /\ personal'.count = personal.count - One(request[k].status, "completed") + One(request'[k].status, "completed")
                                  - One(Held(k, n), "reserved") + One(Held(k, n)', "reserved")
  PROVE  Balanced'
<1>1. Matches(pool, PoolPlaces, PoolCosts)'
  <2>1. ASSUME NEW j \in Keys, NEW m \in Attempts, j # k \/ m # n
        PROVE  PoolPlace(j, m)' = PoolPlace(j, m) /\ receipt'[j][m].cost = receipt[j][m].cost
    BY <2>1 DEF PoolPlace, HeldInPool
  <2> QED BY <2>1, PoolAtOne DEF Balanced
<1>2. ASSUME account'.active PROVE OwnBalanced'
  <2>1. ASSUME NEW j \in Keys, NEW m \in Attempts, j # k \/ m # n
        PROVE  Held(j, m)' = Held(j, m) /\ attempt'[j][m].cost = attempt[j][m].cost
    <3>1. CASE j # k
      BY <2>1, <3>1 DEF Held
    <3>2. CASE j = k
      <4>1. Held(k, m)' = "nothing"
        BY <1>2, <2>1, <3>2 DEF Held
      <4>2. Held(k, m) = "nothing"
        BY <1>2, <2>1, <3>2 DEF Held, MayReserve
      <4> QED BY <2>1, <3>2, <4>1, <4>2
    <3> QED BY <3>1, <3>2
  <2>2. OwnBalanced
    BY <1>2 DEF Balanced
  <2>3. \A j \in Keys : j # k => request'[j] = request[j]
    OBVIOUS
  <2> QED BY <1>2, <2>1, <2>2, <2>3, OwnAtOne
<1> QED BY <1>1, <1>2 DEF Balanced

-----------------------------------------------------------------------------
(* The steps keep the books *)

BooksInv == IInv /\ Agree /\ Balanced

\* The three ways in which an attempt and its books change.
LEMMA Ones ==
  /\ One("reserved", "reserved") = 1 /\ One("uncertain", "reserved") = 0 /\ One("nothing", "reserved") = 0
  /\ One("reserved", "uncertain") = 0 /\ One("uncertain", "uncertain") = 1 /\ One("nothing", "uncertain") = 0
  /\ Reserve * 1 = Reserve /\ Reserve * 0 = 0
BY Amounts DEF One

LEMMA BillsTyped ==
  ASSUME TypeInv
  PROVE  pool \in Pool /\ personal \in Personal
BY DEF TypeInv, TypeOK, Pool, Personal

LEMMA BookedIs ==
  ASSUME NEW b, b \in Pool \/ b \in Personal, NEW held \in {"reserved", "uncertain"}, NEW cost \in Nat
  PROVE  LET e == Booked(b, held, cost) IN
         /\ e.reserved = b.reserved - Reserve * One(held, "reserved") + Reserve * One("nothing", "reserved")
         /\ e.uncertain = b.uncertain - Reserve * One(held, "uncertain") + Reserve * One("nothing", "uncertain")
         /\ e.actual = b.actual - 0 + cost
         /\ b \in Personal => e.count = b.count
<1>1. b.reserved \in Int /\ b.uncertain \in Int /\ b.actual \in Int /\ Reserve \in Int
  BY Amounts DEF Pool, Personal
<1>2. CASE held = "reserved"
  <2>1. Booked(b, held, cost).reserved = b.reserved - Reserve /\ Booked(b, held, cost).uncertain = b.uncertain
        /\ Booked(b, held, cost).actual = b.actual + cost /\ (b \in Personal => Booked(b, held, cost).count = b.count)
    BY <1>2 DEF Booked, Pool, Personal
  <2> QED BY <1>1, <1>2, <2>1, Ones
<1>3. CASE held = "uncertain"
  <2>1. Booked(b, held, cost).uncertain = b.uncertain - Reserve /\ Booked(b, held, cost).reserved = b.reserved
        /\ Booked(b, held, cost).actual = b.actual + cost /\ (b \in Personal => Booked(b, held, cost).count = b.count)
    BY <1>3 DEF Booked, Pool, Personal
  <2> QED BY <1>1, <1>3, <2>1, Ones
<1> QED BY <1>2, <1>3

LEMMA ContainedIs ==
  ASSUME NEW b, b \in Pool \/ b \in Personal
  PROVE  LET e == Contained(b) IN
         /\ e.reserved = b.reserved - Reserve * One("reserved", "reserved") + Reserve * One("uncertain", "reserved")
         /\ e.uncertain = b.uncertain - Reserve * One("reserved", "uncertain") + Reserve * One("uncertain", "uncertain")
         /\ e.actual = b.actual
         /\ b \in Personal => e.count = b.count
<1>1. b.reserved \in Int /\ b.uncertain \in Int /\ b.actual \in Int /\ Reserve \in Int
  BY Amounts DEF Pool, Personal
<1>2. Contained(b).reserved = b.reserved - Reserve /\ Contained(b).uncertain = b.uncertain + Reserve
      /\ Contained(b).actual = b.actual /\ (b \in Personal => Contained(b).count = b.count)
  BY DEF Contained, Pool, Personal
<1> QED BY <1>1, <1>2, Ones

LEMMA ReserveBooks ==
  ASSUME BooksInv, TypeInv', NEW h \in Handlers, reserveAiUsage(h),
         NEW k \in Keys, NEW n \in Attempts, k = handler[h].key, n = request[k].n + 1
  PROVE  Agree' /\ Balanced'
<1>0. TypeInv /\ IInv /\ Agree /\ Balanced
  BY DEF BooksInv, IInv
<1>1. account.active /\ account' = account /\ MayReserve(k) /\ request[k].n \in Nat
  BY <1>0, OfKey DEF reserveAiUsage
<1>2. /\ request'[k] = [status |-> "reserved", reason |-> "none", n |-> n]
      /\ \A j \in Keys : j # k => request'[j] = request[j] /\ saved'[j] = saved[j]
      /\ saved' = saved /\ receipt' = receipt
  BY <1>0, <1>1 DEF reserveAiUsage, TypeInv, TypeOK
<1>3. /\ attempt'[k][n] = [status |-> "reserved", cost |-> 0, failed |-> FALSE]
      /\ \A j \in Keys, m \in Attempts : j # k \/ m # n => attempt'[j][m] = attempt[j][m] /\ receipt'[j][m] = receipt[j][m]
  BY <1>0, <1>1 DEF reserveAiUsage, TypeInv, TypeOK
<1>4. /\ n > request[k].n /\ request[k].n <= n
      /\ attempt[k][n].status = "none" /\ attempt[k][n].cost = 0
      /\ receipt[k][n].kind = "none" /\ receipt[k][n].cost = 0
  <2>1. n > request[k].n /\ request[k].n <= n
    BY <1>1
  <2> QED BY <1>0, <1>1, <2>1 DEF Agree, AgreeOf, IInv, SpendInv, Roots
<1>5. saved[k].held = "none"
  BY <1>0, <1>1 DEF MayReserve, Agree, AgreeOf
<1>6. Agree'
  <2>1. /\ attempt'[k][n].status = "reserved" /\ attempt'[k][n].cost = 0
        /\ receipt'[k][n].kind = "none" /\ receipt'[k][n].cost = 0
        /\ request'[k].status = "reserved" /\ request'[k].n = n /\ saved'[k].held = "none"
    BY <1>2, <1>3, <1>4, <1>5
  <2> QED BY <1>0, <1>1, <1>2, <1>3, <1>4, <2>1, AgreeAtLast
<1>7. /\ PoolPlace(k, n) = "nothing" /\ PoolPlace(k, n)' = "reserved"
      /\ Held(k, n) = "nothing" /\ Held(k, n)' = "reserved"
  BY <1>1, <1>2, <1>3, <1>4 DEF PoolPlace, HeldInPool, Held
<1>8. /\ pool'.reserved = pool.reserved + Reserve /\ pool'.uncertain = pool.uncertain /\ pool'.actual = pool.actual
      /\ personal'.reserved = personal.reserved + Reserve /\ personal'.uncertain = personal.uncertain
      /\ personal'.actual = personal.actual /\ personal'.count = personal.count + 1
  BY <1>0 DEF reserveAiUsage, TypeInv, TypeOK
<1>9. /\ pool.reserved \in Int /\ pool.uncertain \in Int /\ pool.actual \in Int
      /\ personal.reserved \in Int /\ personal.uncertain \in Int /\ personal.actual \in Int /\ personal.count \in Int
      /\ Reserve \in Int
  BY <1>0, Amounts DEF TypeInv, TypeOK
<1>10. Follows(pool, PoolPlace(k, n), PoolPlace(k, n)', receipt[k][n].cost, receipt'[k][n].cost)
  BY <1>2, <1>4, <1>7, <1>8, <1>9, Ones DEF Follows
<1>11. Follows(personal, Held(k, n), Held(k, n)', attempt[k][n].cost, attempt'[k][n].cost)
  BY <1>3, <1>4, <1>7, <1>8, <1>9, Ones DEF Follows
<1>12. One(request[k].status, "completed") = 0 /\ One(request'[k].status, "completed") = 0
  BY <1>1, <1>2 DEF One, MayReserve
<1>13. personal'.count = personal.count - One(request[k].status, "completed") + One(request'[k].status, "completed")
                           - One(Held(k, n), "reserved") + One(Held(k, n)', "reserved")
  BY <1>7, <1>8, <1>9, <1>12, Ones
<1>14. request'[k].n = n
  BY <1>2
<1>15. Balanced'
  BY <1>0, <1>1, <1>2, <1>3, <1>10, <1>11, <1>13, <1>14, BooksAtLast
<1> QED BY <1>6, <1>15
LEMMA CheckpointBooks ==
  ASSUME BooksInv, TypeInv', NEW h \in Handlers, checkpointAiUsageResult(h),
         NEW k \in Keys, NEW n \in Attempts, k = handler[h].key, n = handler[h].n
  PROVE  Agree' /\ Balanced'
<1>0. TypeInv /\ IInv /\ Agree /\ Balanced
  BY DEF BooksInv, IInv
<1>1. account.active /\ account' = account /\ request[k].status # "checkpointed" /\ Held(k, n) \in {"reserved", "uncertain"}
      /\ UNCHANGED <<receipt, pool, personal>>
  BY DEF checkpointAiUsageResult
<1>2. /\ request[k].n = n
      /\ \/ request[k].status = "reserved" /\ Held(k, n) = "reserved"
         \/ request[k].status = "failed" /\ Held(k, n) = "uncertain"
  BY <1>1, HeldIs
<1>3. /\ request'[k].n = n /\ request'[k].status = "checkpointed"
      /\ saved'[k] = CheckpointOf(k, n, handler[h].cost, handler[h].guard)
      /\ \A j \in Keys : j # k => request'[j] = request[j] /\ saved'[j] = saved[j]
  <2>1. /\ request' = [request EXCEPT ![k].status = "checkpointed", ![k].reason = "none"]
        /\ saved' = [saved EXCEPT ![k] = CheckpointOf(k, n, handler[h].cost, handler[h].guard)]
    BY DEF checkpointAiUsageResult
  <2>2. request \in [Keys -> Request] /\ request[k] \in Request /\ saved \in [Keys -> Checkpoint]
    BY <1>0 DEF TypeInv, TypeOK
  <2> QED BY <1>2, <2>1, <2>2 DEF Request
<1>4. /\ attempt'[k][n].status = "checkpointed" /\ attempt'[k][n].cost = attempt[k][n].cost
      /\ \A j \in Keys, m \in Attempts : j # k \/ m # n => attempt'[j][m] = attempt[j][m] /\ receipt'[j][m] = receipt[j][m]
  <2>1. attempt' = [attempt EXCEPT ![k][n].status = "checkpointed"]
    BY DEF checkpointAiUsageResult
  <2>2. attempt \in [Keys -> [Attempts -> Attempt]] /\ attempt[k] \in [Attempts -> Attempt] /\ attempt[k][n] \in Attempt
    BY <1>0 DEF TypeInv, TypeOK
  <2> QED BY <1>1, <2>1, <2>2 DEF Attempt
<1>5. attempt[k][n].status \in {"reserved", "uncertain"}
  BY <1>1, <1>2 DEF Held
<1>6. saved'[k].held = Held(k, n)
  BY <1>3 DEF CheckpointOf
<1>7. attempt[k][n].cost = 0 /\ HeldInPool(k, n) = Held(k, n) /\ (receipt[k][n].kind \in {"none", "uncertain"} => receipt[k][n].cost = 0)
  <2>1. HeldInPool(k, n) = Held(k, n)
    BY <1>0, <1>1, <1>2, <1>5, SMTT(30) DEF Agree, AgreeOf, HeldInPool
  <2> QED BY <1>0, <1>5, <2>1 DEF Agree, AgreeOf
<1>8. Agree'
  <2>1. HeldInPool(k, n)' = saved'[k].held
    BY <1>1, <1>6, <1>7 DEF HeldInPool
  <2>2. request[k].n <= n
    BY <1>2, Amounts
  <2> QED BY <1>0, <1>1, <1>2, <1>3, <1>4, <1>6, <1>7, <2>1, <2>2, AgreeAtLast
<1>9. PoolPlace(k, n)' = PoolPlace(k, n)
  BY <1>1, <1>4, <1>5 DEF PoolPlace, HeldInPool
<1>10. Held(k, n)' = Held(k, n)
  BY <1>3, <1>4, <1>6 DEF Held
<1>11. /\ pool.reserved \in Int /\ pool.uncertain \in Int /\ pool.actual \in Int
       /\ personal.reserved \in Int /\ personal.uncertain \in Int /\ personal.actual \in Int /\ personal.count \in Int
       /\ receipt[k][n].cost \in Int /\ \A u, v : One(u, v) \in {0, 1}
  BY <1>0, OfKey DEF TypeInv, TypeOK, Receipt, One
<1>12. \A v : Reserve * One(Held(k, n), v) \in Int /\ Reserve * One(PoolPlace(k, n), v) \in Int
  BY <1>11, Amounts
<1>13. Follows(pool, PoolPlace(k, n), PoolPlace(k, n)', receipt[k][n].cost, receipt'[k][n].cost)
  BY <1>1, <1>9, <1>11, <1>12 DEF Follows
<1>14. Follows(personal, Held(k, n), Held(k, n)', attempt[k][n].cost, attempt'[k][n].cost)
  BY <1>1, <1>4, <1>7, <1>10, <1>11, <1>12 DEF Follows
<1>15. personal'.count = personal.count - One(request[k].status, "completed") + One(request'[k].status, "completed")
                           - One(Held(k, n), "reserved") + One(Held(k, n)', "reserved")
  <2>1. One(request[k].status, "completed") = 0 /\ One(request'[k].status, "completed") = 0
    BY <1>2, <1>3 DEF One
  <2> QED BY <1>1, <1>10, <1>11, <2>1
<1>16. Balanced'
  BY <1>0, <1>1, <1>2, <1>3, <1>4, <1>13, <1>14, <1>15, BooksAtLast
<1> QED BY <1>8, <1>16

LEMMA SettleBooks ==
  ASSUME BooksInv, TypeInv', NEW h \in Handlers, settleAiUsageProduct(h),
         NEW k \in Keys, NEW n \in Attempts, k = handler[h].key, n = handler[h].n
  PROVE  Agree' /\ Balanced'
<1> DEFINE held == saved[k].held
           cost == saved[k].cost
<1>0. TypeInv /\ IInv /\ Agree /\ Balanced
  BY DEF BooksInv, IInv
<1>1. account.active /\ account' = account /\ MaySettle(k, n) /\ saved' = saved
  BY DEF settleAiUsageProduct
<1>2. /\ request[k].n = n /\ request[k].status = "checkpointed" /\ held \in {"reserved", "uncertain"}
      /\ Held(k, n) = held /\ HeldInPool(k, n) = held /\ cost \in Nat
  BY <1>0, <1>1, HeldIs, OfKey DEF MaySettle, Open
<1>3. /\ request'[k].n = n /\ request'[k].status = "completed"
      /\ \A j \in Keys : j # k => request'[j] = request[j] /\ saved'[j] = saved[j]
  <2>1. request' = [request EXCEPT ![k].status = "completed"]
    BY DEF settleAiUsageProduct
  <2>2. request \in [Keys -> Request] /\ request[k] \in Request
    BY <1>0 DEF TypeInv, TypeOK
  <2> QED BY <1>1, <1>2, <2>1, <2>2 DEF Request
<1>4. /\ attempt'[k][n] = [status |-> "observed", cost |-> cost, failed |-> FALSE]
      /\ receipt'[k][n] = [kind |-> "result", cost |-> cost, failed |-> FALSE]
      /\ \A j \in Keys, m \in Attempts : j # k \/ m # n => attempt'[j][m] = attempt[j][m] /\ receipt'[j][m] = receipt[j][m]
  <2>1. /\ attempt' = [attempt EXCEPT ![k][n] = [status |-> "observed", cost |-> cost, failed |-> FALSE]]
        /\ receipt' = [receipt EXCEPT ![k][n] = [kind |-> "result", cost |-> cost, failed |-> FALSE]]
    BY DEF settleAiUsageProduct
  <2>2. attempt \in [Keys -> [Attempts -> Attempt]] /\ receipt \in [Keys -> [Attempts -> Receipt]]
    BY <1>0 DEF TypeInv, TypeOK
  <2> QED BY <2>1, <2>2
<1>5. /\ attempt[k][n].status = "checkpointed" /\ attempt[k][n].cost = 0
      /\ receipt[k][n].kind \in {"none", "uncertain"} /\ receipt[k][n].cost = 0
  <2>1. attempt[k][n].status = "checkpointed"
    BY <1>0, <1>2 DEF Agree, AgreeOf
  <2>2. receipt[k][n].kind \in {"none", "uncertain"}
    BY <1>2 DEF HeldInPool
  <2> QED BY <1>0, <2>1, <2>2 DEF Agree, AgreeOf
<1> HIDE DEF held, cost
<1>6. Agree'
  <2>1. request[k].n <= n
    BY <1>2, Amounts
  <2>2. saved'[k].held # "none"
    BY <1>1, <1>2 DEF held
  <2>3. /\ attempt'[k][n].status = "observed" /\ receipt'[k][n].kind = "result"
        /\ receipt'[k][n].cost = attempt'[k][n].cost /\ receipt'[k][n].failed = attempt'[k][n].failed
    BY <1>4
  <2>4. \A j \in Keys, m \in Attempts : j # k \/ m # n => attempt'[j][m] = attempt[j][m] /\ receipt'[j][m] = receipt[j][m]
    BY <1>4
  <2>5. account'.active => account.active
    BY <1>1
  <2> QED BY <1>0, <1>3, <2>1, <2>2, <2>3, <2>4, <2>5, AgreeAtLast, SMTT(60)
<1>7. /\ PoolPlace(k, n) = held /\ PoolPlace(k, n)' = "nothing" /\ Held(k, n)' = "nothing"
  BY <1>2, <1>3, <1>4, <1>5 DEF PoolPlace, HeldInPool, Held
<1>8. pool' = Booked(pool, held, cost) /\ personal' = CountedAgain(Booked(personal, held, cost), held)
  BY DEF settleAiUsageProduct, held, cost
<1>9. Follows(pool, PoolPlace(k, n), PoolPlace(k, n)', receipt[k][n].cost, receipt'[k][n].cost)
  <2>1. receipt[k][n].cost = 0 /\ receipt'[k][n].cost = cost /\ pool \in Pool
    BY <1>0, <1>4, <1>5, BillsTyped
  <2> QED BY <1>2, <1>7, <1>8, <2>1, BookedIs DEF Follows
<1>10. /\ Follows(personal, Held(k, n), Held(k, n)', attempt[k][n].cost, attempt'[k][n].cost)
       /\ personal'.count = IF held = "uncertain" THEN personal.count + 1 ELSE personal.count
  <2> DEFINE bill == Booked(personal, held, cost)
  <2>1. attempt[k][n].cost = 0 /\ attempt'[k][n].cost = cost /\ personal \in Personal /\ bill \in Personal
    BY <1>0, <1>2, <1>4, <1>5, BillsTyped, Books
  <2>2. /\ bill.reserved = personal.reserved - Reserve * One(held, "reserved") + Reserve * One("nothing", "reserved")
        /\ bill.uncertain = personal.uncertain - Reserve * One(held, "uncertain") + Reserve * One("nothing", "uncertain")
        /\ bill.actual = personal.actual - 0 + cost /\ bill.count = personal.count
    BY <1>2, <2>1, BookedIs
  <2> HIDE DEF bill
  <2>3. /\ personal'.reserved = bill.reserved /\ personal'.uncertain = bill.uncertain /\ personal'.actual = bill.actual
        /\ personal'.count = IF held = "uncertain" THEN bill.count + 1 ELSE bill.count
    BY <1>8, <2>1 DEF CountedAgain, Personal, bill
  <2> QED BY <1>2, <1>7, <2>1, <2>2, <2>3 DEF Follows
<1>11. personal'.count = personal.count - One(request[k].status, "completed") + One(request'[k].status, "completed")
                           - One(Held(k, n), "reserved") + One(Held(k, n)', "reserved")
  <2>1. One(request[k].status, "completed") = 0 /\ One(request'[k].status, "completed") = 1 /\ personal.count \in Int
    BY <1>0, <1>2, <1>3 DEF One, TypeInv, TypeOK
  <2> QED BY <1>2, <1>7, <1>10, <2>1, Ones
<1>12. Balanced'
  BY <1>0, <1>1, <1>2, <1>3, <1>4, <1>9, <1>10, <1>11, BooksAtLast
<1> QED BY <1>6, <1>12

LEMMA FinalizeBooks ==
  ASSUME BooksInv, TypeInv', NEW k \in Keys, NEW n \in Attempts, NEW cost \in Nat, NEW failed \in BOOLEAN,
         NEW reason \in {"none", "pre"}, settleFinalizedAiUsage(k, n, cost, failed, reason)
  PROVE  Agree' /\ Balanced'
<1> DEFINE held == Held(k, n)
<1>0. TypeInv /\ IInv /\ Agree /\ Balanced
  BY DEF BooksInv, IInv
<1>1. account.active /\ account' = account /\ saved' = saved /\ request[k].status # "checkpointed"
      /\ Held(k, n) \in {"reserved", "uncertain"} /\ Held(k, n) = HeldInPool(k, n)
  BY DEF settleFinalizedAiUsage, MayBook, Open
<1>2. /\ request[k].n = n
      /\ \/ request[k].status = "reserved" /\ held = "reserved"
         \/ request[k].status = "failed" /\ held = "uncertain"
  BY <1>1, HeldIs
<1>3. /\ request'[k].n = n
      /\ request'[k].status = IF held = "reserved" /\ ~failed THEN "completed" ELSE "failed"
      /\ \A j \in Keys : j # k => request'[j] = request[j] /\ saved'[j] = saved[j]
  <2>1. request' = [request EXCEPT
          ![k].status = IF held = "reserved" /\ ~failed THEN "completed" ELSE "failed",
          ![k].reason = IF reason = "pre" THEN "pre" ELSE request[k].reason]
    BY DEF settleFinalizedAiUsage
  <2>2. request \in [Keys -> Request] /\ request[k] \in Request
    BY <1>0 DEF TypeInv, TypeOK
  <2> HIDE DEF held
  <2> QED BY <1>1, <1>2, <2>1, <2>2 DEF Request
<1>4. /\ attempt'[k][n] = [status |-> "observed", cost |-> cost, failed |-> failed]
      /\ receipt'[k][n] = [kind |-> "completion", cost |-> cost, failed |-> failed]
      /\ \A j \in Keys, m \in Attempts : j # k \/ m # n => attempt'[j][m] = attempt[j][m] /\ receipt'[j][m] = receipt[j][m]
  <2>1. /\ attempt' = [attempt EXCEPT ![k][n] = [status |-> "observed", cost |-> cost, failed |-> failed]]
        /\ receipt' = [receipt EXCEPT ![k][n] = [kind |-> "completion", cost |-> cost, failed |-> failed]]
    BY DEF settleFinalizedAiUsage
  <2>2. attempt \in [Keys -> [Attempts -> Attempt]] /\ receipt \in [Keys -> [Attempts -> Receipt]]
    BY <1>0 DEF TypeInv, TypeOK
  <2> QED BY <2>1, <2>2
<1>5. /\ attempt[k][n].status \in {"reserved", "uncertain"} /\ attempt[k][n].cost = 0
      /\ receipt[k][n].kind \in {"none", "uncertain"} /\ receipt[k][n].cost = 0
  <2>1. attempt[k][n].status \in {"reserved", "uncertain"}
    BY <1>1, <1>2 DEF Held
  <2>2. receipt[k][n].kind \in {"none", "uncertain"}
    BY <1>1 DEF HeldInPool
  <2> QED BY <1>0, <2>1, <2>2 DEF Agree, AgreeOf
<1> HIDE DEF held
<1>6. Agree'
  <2>1. request[k].n <= n
    BY <1>2, Amounts
  <2>2. saved'[k].held = "none"
    BY <1>0, <1>1, <1>2 DEF Agree, AgreeOf
  <2>3. /\ attempt'[k][n].status = "observed" /\ receipt'[k][n].kind = "completion"
        /\ receipt'[k][n].cost = attempt'[k][n].cost /\ receipt'[k][n].failed = attempt'[k][n].failed
    BY <1>4
  <2>4. \A j \in Keys, m \in Attempts : j # k \/ m # n => attempt'[j][m] = attempt[j][m] /\ receipt'[j][m] = receipt[j][m]
    BY <1>4
  <2>5. (account'.active => account.active) /\ request'[k].status \in {"completed", "failed"}
    BY <1>1, <1>3
  <2> QED BY <1>0, <1>3, <2>1, <2>2, <2>3, <2>4, <2>5, AgreeAtLast
<1>7. /\ PoolPlace(k, n) = held /\ PoolPlace(k, n)' = "nothing" /\ Held(k, n)' = "nothing" /\ Held(k, n) = held
      /\ held \in {"reserved", "uncertain"}
  BY <1>1, <1>2, <1>3, <1>4, <1>5 DEF PoolPlace, HeldInPool, Held, held
<1>8. pool' = Booked(pool, held, cost)
  BY DEF settleFinalizedAiUsage, held
<1>9. Follows(pool, PoolPlace(k, n), PoolPlace(k, n)', receipt[k][n].cost, receipt'[k][n].cost)
  <2>1. receipt[k][n].cost = 0 /\ receipt'[k][n].cost = cost /\ pool \in Pool
    BY <1>0, <1>4, <1>5, BillsTyped
  <2> QED BY <1>2, <1>7, <1>8, <2>1, BookedIs DEF Follows
<1>10. /\ Follows(personal, Held(k, n), Held(k, n)', attempt[k][n].cost, attempt'[k][n].cost)
       /\ personal'.count = IF held = "reserved" /\ failed THEN personal.count - 1 ELSE personal.count
  <2> DEFINE bill == Booked(personal, held, cost)
  <2>1. attempt[k][n].cost = 0 /\ attempt'[k][n].cost = cost /\ personal \in Personal /\ bill \in Personal
    BY <1>0, <1>4, <1>5, <1>7, BillsTyped, Books
  <2>2. /\ bill.reserved = personal.reserved - Reserve * One(held, "reserved") + Reserve * One("nothing", "reserved")
        /\ bill.uncertain = personal.uncertain - Reserve * One(held, "uncertain") + Reserve * One("nothing", "uncertain")
        /\ bill.actual = personal.actual - 0 + cost /\ bill.count = personal.count
    BY <1>7, <2>1, BookedIs
  <2>3. personal' = IF held = "reserved" /\ failed THEN [bill EXCEPT !.count = bill.count - 1] ELSE bill
    BY DEF settleFinalizedAiUsage, held
  <2> HIDE DEF bill
  <2>4. /\ personal'.reserved = bill.reserved /\ personal'.uncertain = bill.uncertain /\ personal'.actual = bill.actual
        /\ personal'.count = IF held = "reserved" /\ failed THEN bill.count - 1 ELSE bill.count
    BY <2>1, <2>3 DEF Personal
  <2> QED BY <1>7, <2>1, <2>2, <2>4 DEF Follows
<1>11. personal'.count = personal.count - One(request[k].status, "completed") + One(request'[k].status, "completed")
                           - One(Held(k, n), "reserved") + One(Held(k, n)', "reserved")
  <2>1. One(request[k].status, "completed") = 0 /\ personal.count \in Int
    BY <1>0, <1>2 DEF One, TypeInv, TypeOK
  <2>2. One(request'[k].status, "completed") = IF held = "reserved" /\ ~failed THEN 1 ELSE 0
    BY <1>3 DEF One
  <2> QED BY <1>7, <1>10, <2>1, <2>2, Ones
<1>12. Balanced'
  <2>1. \A j \in Keys, m \in Attempts : j # k \/ m # n => attempt'[j][m] = attempt[j][m] /\ receipt'[j][m] = receipt[j][m]
    BY <1>4
  <2> QED BY <1>0, <1>1, <1>2, <1>3, <2>1, <1>9, <1>10, <1>11, BooksAtLast
<1> QED BY <1>6, <1>12

LEMMA ContainBooks ==
  ASSUME BooksInv, TypeInv', NEW k \in Keys, NEW n \in Attempts, reconcileAiUsageRoot(k, n)
  PROVE  Agree' /\ Balanced'
<1>0. TypeInv /\ IInv /\ Agree /\ Balanced
  BY DEF BooksInv, IInv
<1>1. account.active /\ account' = account /\ saved' = saved /\ request[k].status = "reserved"
      /\ Held(k, n) \in {"reserved", "uncertain"} /\ Held(k, n) = HeldInPool(k, n)
  BY DEF reconcileAiUsageRoot, MayContain, Open
<1>2. request[k].n = n /\ Held(k, n) = "reserved"
  BY <1>1, HeldIs
<1>3. /\ request'[k].n = n /\ request'[k].status = "failed" /\ request'[k].reason = "unknown"
      /\ \A j \in Keys : j # k => request'[j] = request[j] /\ saved'[j] = saved[j]
  <2>1. request' = [request EXCEPT ![k].status = "failed", ![k].reason = "unknown"]
    BY DEF reconcileAiUsageRoot
  <2>2. request \in [Keys -> Request] /\ request[k] \in Request
    BY <1>0 DEF TypeInv, TypeOK
  <2> QED BY <1>1, <1>2, <2>1, <2>2 DEF Request
<1>4. /\ attempt'[k][n].status = "uncertain" /\ attempt'[k][n].cost = attempt[k][n].cost
      /\ receipt'[k][n].kind = "uncertain" /\ receipt'[k][n].cost = receipt[k][n].cost
      /\ \A j \in Keys, m \in Attempts : j # k \/ m # n => attempt'[j][m] = attempt[j][m] /\ receipt'[j][m] = receipt[j][m]
  <2>1. /\ attempt' = [attempt EXCEPT ![k][n].status = "uncertain"]
        /\ receipt' = [receipt EXCEPT ![k][n].kind = "uncertain"]
    BY DEF reconcileAiUsageRoot
  <2>2. attempt \in [Keys -> [Attempts -> Attempt]] /\ receipt \in [Keys -> [Attempts -> Receipt]]
        /\ attempt[k] \in [Attempts -> Attempt] /\ receipt[k] \in [Attempts -> Receipt]
        /\ attempt[k][n] \in Attempt /\ receipt[k][n] \in Receipt
    BY <1>0 DEF TypeInv, TypeOK
  <2> QED BY <2>1, <2>2 DEF Attempt, Receipt
<1>5. /\ attempt[k][n].status = "reserved" /\ attempt[k][n].cost = 0
      /\ receipt[k][n].kind = "none" /\ receipt[k][n].cost = 0
  <2>1. attempt[k][n].status = "reserved"
    BY <1>1, <1>2 DEF Held
  <2>2. receipt[k][n].kind = "none"
    BY <1>1, <1>2 DEF HeldInPool
  <2> QED BY <1>0, <2>1, <2>2 DEF Agree, AgreeOf
<1>6. Agree'
  <2>1. request[k].n <= n
    BY <1>2, Amounts
  <2>2. saved'[k].held = "none"
    BY <1>0, <1>1 DEF Agree, AgreeOf
  <2>3. account'.active => account.active
    BY <1>1
  <2> QED BY <1>0, <1>3, <1>4, <1>5, <2>1, <2>2, <2>3, AgreeAtLast
<1>7. /\ PoolPlace(k, n) = "reserved" /\ PoolPlace(k, n)' = "uncertain" /\ Held(k, n)' = "uncertain" /\ Held(k, n) = "reserved"
  BY <1>1, <1>2, <1>3, <1>4, <1>5 DEF PoolPlace, HeldInPool, Held
<1>8. pool' = Contained(pool) /\ personal' = [Contained(personal) EXCEPT !.count = personal.count - 1]
  BY DEF reconcileAiUsageRoot
<1>9. pool \in Pool /\ personal \in Personal /\ Contained(personal) \in Personal
  BY <1>0, BillsTyped, Books, Amounts
<1>10. Follows(pool, PoolPlace(k, n), PoolPlace(k, n)', receipt[k][n].cost, receipt'[k][n].cost)
  <2>1. pool.actual = pool.actual - 0 + 0
    BY <1>9 DEF Pool
  <2> QED BY <1>4, <1>5, <1>7, <1>8, <1>9, <2>1, ContainedIs DEF Follows
<1>11. /\ Follows(personal, Held(k, n), Held(k, n)', attempt[k][n].cost, attempt'[k][n].cost)
       /\ personal'.count = personal.count - 1
  <2> DEFINE bill == Contained(personal)
  <2>1. /\ bill.reserved = personal.reserved - Reserve * One("reserved", "reserved") + Reserve * One("uncertain", "reserved")
        /\ bill.uncertain = personal.uncertain - Reserve * One("reserved", "uncertain") + Reserve * One("uncertain", "uncertain")
        /\ bill.actual = personal.actual
    BY <1>9, ContainedIs
  <2>2. personal.actual = personal.actual - 0 + 0
    BY <1>9 DEF Personal
  <2> HIDE DEF bill
  <2>3. /\ personal'.reserved = bill.reserved /\ personal'.uncertain = bill.uncertain /\ personal'.actual = bill.actual
        /\ personal'.count = personal.count - 1
    BY <1>8, <1>9 DEF Personal, bill
  <2> QED BY <1>4, <1>5, <1>7, <2>1, <2>2, <2>3 DEF Follows
<1>12. personal'.count = personal.count - One(request[k].status, "completed") + One(request'[k].status, "completed")
                           - One(Held(k, n), "reserved") + One(Held(k, n)', "reserved")
  <2>1. One(request[k].status, "completed") = 0 /\ One(request'[k].status, "completed") = 0 /\ personal.count \in Int
    BY <1>0, <1>1, <1>3 DEF One, TypeInv, TypeOK
  <2> QED BY <1>7, <1>11, <2>1, Ones
<1>13. Balanced'
  <2>1. \A j \in Keys, m \in Attempts : j # k \/ m # n => attempt'[j][m] = attempt[j][m] /\ receipt'[j][m] = receipt[j][m]
    BY <1>4
  <2> QED BY <1>0, <1>1, <1>2, <1>3, <2>1, <1>10, <1>11, <1>12, BooksAtLast
<1> QED BY <1>6, <1>13

\* When only receipts and the pool change, for an account that is gone, the
\* pool's books are all there is to keep.
LEMMA GoneBooks ==
  ASSUME TypeInv, TypeInv', Balanced, ~account'.active, NEW k \in Keys, NEW n \in Attempts, attempt' = attempt,
         \A j \in Keys, m \in Attempts : j # k \/ m # n => receipt'[j][m] = receipt[j][m],
         Follows(pool, PoolPlace(k, n), PoolPlace(k, n)', receipt[k][n].cost, receipt'[k][n].cost)
  PROVE  Balanced'
<1>1. ASSUME NEW j \in Keys, NEW m \in Attempts, j # k \/ m # n
      PROVE  PoolPlace(j, m)' = PoolPlace(j, m) /\ receipt'[j][m].cost = receipt[j][m].cost
  BY <1>1 DEF PoolPlace, HeldInPool
<1>2. Matches(pool, PoolPlaces, PoolCosts)'
  BY <1>1, PoolAtOne DEF Balanced
<1> QED BY <1>2 DEF Balanced

LEMMA FinalizeDeletedBooks ==
  ASSUME BooksInv, TypeInv', NEW h \in Handlers, FinalizeDeleted(h),
         NEW k \in Keys, NEW n \in Attempts, k = handler[h].key, n = handler[h].n
  PROVE  Agree' /\ Balanced'
<1> DEFINE cost == handler[h].cost
<1>0. TypeInv /\ IInv /\ Agree /\ Balanced
  BY DEF BooksInv, IInv
<1>1. ~account.active /\ UNCHANGED <<account, request, attempt, saved>> /\ request[k].status = "none" /\ receipt[k][n].kind = "uncertain"
  BY DEF FinalizeDeleted
<1>2. cost \in Nat /\ pool' = Booked(pool, "uncertain", cost) /\ pool \in Pool
  BY <1>0, AtWork, BillsTyped DEF FinalizeDeleted
<1>3. /\ receipt'[k][n].kind = "completion" /\ receipt'[k][n].cost = cost
      /\ \A j \in Keys, m \in Attempts : j # k \/ m # n => receipt'[j][m] = receipt[j][m]
  <2>1. receipt' = [receipt EXCEPT ![k][n] = [kind |-> "completion", cost |-> cost, failed |-> handler[h].pc # "answered"]]
    BY DEF FinalizeDeleted
  <2>2. receipt \in [Keys -> [Attempts -> Receipt]]
    BY <1>0 DEF TypeInv, TypeOK
  <2> QED BY <2>1, <2>2
<1>4. receipt[k][n].cost = 0
  BY <1>0, <1>1 DEF Agree, AgreeOf
<1> HIDE DEF cost
<1>5. Agree'
  <2>1. ASSUME NEW j \in Keys, j # k PROVE AgreeOf(j)'
    <3>1. receipt'[j] = receipt[j]
      BY <1>0, <1>3, <2>1 DEF TypeInv, TypeOK
    <3> QED BY <1>0, <1>1, <3>1, AgreeStays DEF Agree
  <2>2. AgreeOf(k)'
    <3>1. AgreeOf(k)
      BY <1>0 DEF Agree
    <3>2. request'[k] = request[k] /\ attempt'[k] = attempt[k] /\ saved'[k] = saved[k]
      BY <1>1
    <3>3. \A m \in Attempts : receipt'[k][m].kind \in {"none", "uncertain"} => receipt'[k][m].cost = 0
      BY <1>3, <3>1, SMTT(60) DEF AgreeOf
    <3> QED BY <1>1, <3>1, <3>2, <3>3 DEF AgreeOf
  <2> QED BY <2>1, <2>2 DEF Agree
<1>6. PoolPlace(k, n) = "uncertain" /\ PoolPlace(k, n)' = "nothing"
  BY <1>1, <1>3 DEF PoolPlace, HeldInPool
<1>7. Follows(pool, PoolPlace(k, n), PoolPlace(k, n)', receipt[k][n].cost, receipt'[k][n].cost)
  BY <1>2, <1>3, <1>4, <1>6, BookedIs DEF Follows
<1>8. Balanced'
  BY <1>0, <1>1, <1>3, <1>7, GoneBooks
<1> QED BY <1>5, <1>8

LEMMA AbandonBooks ==
  ASSUME BooksInv, TypeInv', NEW k \in Keys, NEW n, abandonAiUsage(k), n = request[k].n
  PROVE  Agree' /\ Balanced'
<1>0. TypeInv /\ IInv /\ Agree /\ Balanced
  BY DEF BooksInv, IInv
<1>1. ~account.active /\ ~account'.active /\ UNCHANGED <<request, attempt, saved, personal>> /\ pool \in Pool
  BY <1>0, BillsTyped DEF abandonAiUsage, TypeInv, TypeOK
<1>2. ASSUME request[k].status = "checkpointed", HeldInPool(k, n) # "nothing" PROVE Agree' /\ Balanced'
  <2>1. n \in Attempts /\ saved[k].cost \in Nat
    BY <1>0, <1>2, OfKey
  <2>2. /\ receipt' = [receipt EXCEPT ![k][n] = [kind |-> "result", cost |-> saved[k].cost, failed |-> FALSE]]
        /\ pool' = Booked(pool, saved[k].held, saved[k].cost)
    BY <1>2 DEF abandonAiUsage
  <2>3. /\ receipt'[k][n].kind = "result" /\ receipt'[k][n].cost = saved[k].cost
        /\ \A j \in Keys, m \in Attempts : j # k \/ m # n => receipt'[j][m] = receipt[j][m]
    <3>1. receipt \in [Keys -> [Attempts -> Receipt]]
      BY <1>0 DEF TypeInv, TypeOK
    <3> QED BY <2>1, <2>2, <3>1
  <2>4. /\ HeldInPool(k, n) = saved[k].held /\ saved[k].held \in {"reserved", "uncertain"}
        /\ attempt[k][n].status = "checkpointed" /\ attempt[k][n].cost = 0
    <3>1. /\ saved[k].held \in {"reserved", "uncertain"} /\ attempt[k][n].status = "checkpointed"
          /\ HeldInPool(k, n) = saved[k].held \/ receipt[k][n].kind = "result"
      BY <1>0, <1>2 DEF Agree, AgreeOf
    <3>2. receipt[k][n].kind # "result"
      BY <1>2 DEF HeldInPool
    <3> QED BY <1>0, <2>1, <3>1, <3>2 DEF Agree, AgreeOf
  <2>5. receipt[k][n].kind \in {"none", "uncertain"} /\ receipt[k][n].cost = 0
    <3>1. receipt[k][n].kind \in {"none", "uncertain"}
      BY <1>2 DEF HeldInPool
    <3> QED BY <1>0, <2>1, <3>1 DEF Agree, AgreeOf
  <2>6. Agree'
    <3>1. /\ request[k].n <= n /\ request'[k].n = n /\ request'[k].status = "checkpointed"
          /\ \A j \in Keys : request'[j] = request[j] /\ saved'[j] = saved[j] /\ \A m \in Attempts : attempt'[j][m] = attempt[j][m]
      BY <1>1, <1>2, <2>1, Amounts
    <3>2. /\ attempt'[k][n].status = "checkpointed" /\ attempt'[k][n].cost = 0
          /\ saved'[k].held \in {"reserved", "uncertain"} /\ receipt'[k][n].cost = saved'[k].cost
      BY <1>1, <2>3, <2>4
    <3>3. \A j \in Keys, m \in Attempts : j # k \/ m # n => attempt'[j][m] = attempt[j][m] /\ receipt'[j][m] = receipt[j][m]
      BY <2>3, <3>1
    <3> QED BY <1>0, <1>1, <2>1, <2>3, <3>1, <3>2, <3>3, AgreeAtLast
  <2>7. PoolPlace(k, n) = saved[k].held /\ PoolPlace(k, n)' = "nothing"
    BY <1>1, <2>3, <2>4 DEF PoolPlace, HeldInPool
  <2>8. Follows(pool, PoolPlace(k, n), PoolPlace(k, n)', receipt[k][n].cost, receipt'[k][n].cost)
    BY <1>1, <2>1, <2>2, <2>3, <2>4, <2>5, <2>7, BookedIs DEF Follows
  <2> QED BY <1>0, <1>1, <2>1, <2>3, <2>6, <2>8, GoneBooks
<1>3. ASSUME request[k].status = "reserved", HeldInPool(k, n) = "reserved" PROVE Agree' /\ Balanced'
  <2>1. n \in Attempts
    BY <1>0, <1>3, OfKey
  <2>2. /\ receipt' = [receipt EXCEPT ![k][n].kind = "uncertain"]
        /\ pool' = Contained(pool)
    BY <1>3 DEF abandonAiUsage
  <2>3. /\ receipt'[k][n].kind = "uncertain" /\ receipt'[k][n].cost = receipt[k][n].cost
        /\ \A j \in Keys, m \in Attempts : j # k \/ m # n => receipt'[j][m] = receipt[j][m]
    <3>1. receipt \in [Keys -> [Attempts -> Receipt]] /\ receipt[k] \in [Attempts -> Receipt] /\ receipt[k][n] \in Receipt
      BY <1>0, <2>1 DEF TypeInv, TypeOK
    <3> QED BY <2>1, <2>2, <3>1 DEF Receipt
  <2>4. attempt[k][n].status = "reserved" /\ receipt[k][n].kind = "none" /\ attempt[k][n].cost = 0 /\ receipt[k][n].cost = 0
    <3>1. receipt[k][n].kind = "none"
      BY <1>3 DEF HeldInPool
    <3>2. attempt[k][n].status = "reserved"
      BY <1>0, <1>3 DEF Agree, AgreeOf
    <3> QED BY <1>0, <2>1, <3>1, <3>2 DEF Agree, AgreeOf
  <2>5. Agree'
    <3>1. /\ request[k].n <= n /\ request'[k].n = n /\ request'[k].status = "reserved" /\ saved'[k].held = "none"
          /\ \A j \in Keys : request'[j] = request[j] /\ saved'[j] = saved[j] /\ \A m \in Attempts : attempt'[j][m] = attempt[j][m]
      BY <1>0, <1>1, <1>3, <2>1, Amounts DEF Agree, AgreeOf
    <3>2. attempt'[k][n].status = "reserved" /\ attempt'[k][n].cost = 0 /\ receipt'[k][n].cost = 0
      BY <1>1, <2>3, <2>4
    <3>3. \A j \in Keys, m \in Attempts : j # k \/ m # n => attempt'[j][m] = attempt[j][m] /\ receipt'[j][m] = receipt[j][m]
      BY <2>3, <3>1
    <3> QED BY <1>0, <1>1, <2>1, <2>3, <3>1, <3>2, <3>3, AgreeAtLast
  <2>6. PoolPlace(k, n) = "reserved" /\ PoolPlace(k, n)' = "uncertain"
    BY <1>1, <2>3, <2>4 DEF PoolPlace, HeldInPool
  <2>7. Follows(pool, PoolPlace(k, n), PoolPlace(k, n)', receipt[k][n].cost, receipt'[k][n].cost)
    <3>1. pool.actual = pool.actual - 0 + 0
      BY <1>1 DEF Pool
    <3> QED BY <1>1, <2>2, <2>3, <2>4, <2>6, <3>1, ContainedIs DEF Follows
  <2> QED BY <1>0, <1>1, <2>1, <2>3, <2>5, <2>7, GoneBooks
<1>4. ASSUME ~(request[k].status = "checkpointed" /\ HeldInPool(k, n) # "nothing"),
             ~(request[k].status = "reserved" /\ HeldInPool(k, n) = "reserved")
      PROVE  Agree' /\ Balanced'
  <2>1. UNCHANGED <<receipt, pool>>
    BY <1>4 DEF abandonAiUsage
  <2>2. Agree'
    <3>1. ASSUME NEW j \in Keys PROVE AgreeOf(j)'
      BY <1>0, <1>1, <2>1, AgreeStays DEF Agree
    <3> QED BY <3>1 DEF Agree
  <2>3. Balanced'
    BY <1>0, <1>1, <2>1 DEF Balanced, Matches, PoolPlaces, PoolPlace, PoolCosts, HeldInPool
  <2> QED BY <2>2, <2>3
<1> QED BY <1>2, <1>3, <1>4

LEMMA RemoveBooks ==
  ASSUME BooksInv, TypeInv', NEW k \in Keys, RemoveRequest(k)
  PROVE  Agree' /\ Balanced'
<1>0. TypeInv /\ IInv /\ Agree /\ Balanced
  BY DEF BooksInv, IInv
<1>1. ~account.active /\ k \in account.abandoned /\ UNCHANGED <<receipt, pool, account>>
  BY <1>0 DEF RemoveRequest, IInv, Deleting
<1>2. /\ request'[k] = NoRequest /\ saved'[k] = NoCheckpoint /\ attempt'[k] = [n \in Attempts |-> NoAttempt]
      /\ \A j \in Keys : j # k => request'[j] = request[j] /\ saved'[j] = saved[j] /\ attempt'[j] = attempt[j]
  BY <1>0 DEF RemoveRequest, TypeInv, TypeOK
<1>3. Agree'
  <2>1. ASSUME NEW j \in Keys, j # k PROVE AgreeOf(j)'
    BY <1>0, <1>1, <1>2, <2>1, AgreeStays DEF Agree
  <2>2. AgreeOf(k)'
    <3>1. \A m \in Attempts : receipt'[k][m].kind \in {"none", "uncertain"} => receipt'[k][m].cost = 0
      BY <1>0, <1>1 DEF Agree, AgreeOf
    <3>2. \A m \in Attempts : attempt'[k][m].cost = 0 /\ attempt'[k][m].status = "none"
      BY <1>2 DEF NoAttempt
    <3>3. request'[k].status = "none" /\ request'[k].n = 0 /\ saved'[k].held = "none"
      BY <1>2 DEF NoRequest, NoCheckpoint
    <3> QED BY <3>1, <3>2, <3>3 DEF AgreeOf
  <2> QED BY <2>1, <2>2 DEF Agree
<1>4. ASSUME NEW j \in Keys, NEW m \in Attempts PROVE PoolPlace(j, m)' = PoolPlace(j, m)
  <2>1. CASE j # k
    BY <1>1, <1>2, <2>1 DEF PoolPlace, HeldInPool
  <2>2. CASE j = k
    <3>1. attempt'[k][m].status = "none"
      BY <1>2 DEF NoAttempt
    <3>2. attempt[k][m].status # "none" => receipt[k][m].kind # "none"
      BY <1>0, <1>1 DEF IInv, SpendInv, Receipted
    <3> QED BY <1>1, <2>2, <3>1, <3>2 DEF PoolPlace, HeldInPool
  <2> QED BY <2>1, <2>2
<1>5. PoolPlaces' = PoolPlaces /\ PoolCosts' = PoolCosts
  <2>1. \A a \in Slots : PoolPlace(a[1], a[2])' = PoolPlace(a[1], a[2])
    BY <1>4 DEF Slots
  <2> QED BY <1>1, <2>1 DEF PoolPlaces, PoolCosts
<1>6. Balanced'
  BY <1>0, <1>1, <1>5 DEF Balanced, Matches
<1> QED BY <1>3, <1>6

\* A step that writes neither a request's documents nor a ledger.
LEMMA QuietBooks ==
  ASSUME TypeInv, Agree, Balanced, UNCHANGED <<request, attempt, saved, receipt, pool, personal>>,
         account'.active => account.active
  PROVE  Agree' /\ Balanced'
<1>1. Agree'
  <2>1. ASSUME NEW j \in Keys PROVE AgreeOf(j)'
    BY AgreeStays DEF Agree
  <2> QED BY <2>1 DEF Agree
<1>2. Matches(pool, PoolPlaces, PoolCosts)'
  BY DEF Balanced, Matches, PoolPlaces, PoolPlace, PoolCosts, HeldInPool
<1>3. OwnBalanced => OwnBalanced'
  BY DEF OwnBalanced, Matches, OwnPlaces, OwnCosts, Statuses, Held
<1> QED BY <1>1, <1>2, <1>3 DEF Balanced

LEMMA ZeroMatches ==
  ASSUME NEW b, b.reserved = 0, b.uncertain = 0, b.actual = 0, NEW p, NEW c,
         \A a \in Slots : p[a] = "nothing" /\ c[a] = 0
  PROVE  Matches(b, p, c) /\ Count(p, Slots, "reserved") = 0
<1>1. ASSUME NEW v \in {"reserved", "uncertain"} PROVE Count(p, Slots, v) = 0
  <2>1. {a \in Slots : p[a] = v} = {}
    BY <1>1
  <2> QED BY <2>1, FS_EmptySet DEF Count
<1>2. SumFunctionOnSet(c, Slots) = 0
  BY SlotsFinite, SumZero
<1> QED BY <1>1, <1>2, Ones DEF Matches

LEMMA ZeroOwn ==
  ASSUME personal = [count |-> 0, reserved |-> 0, uncertain |-> 0, actual |-> 0],
         \A k \in Keys : request[k].status = "none" /\ \A n \in Attempts : attempt[k][n].cost = 0
  PROVE  OwnBalanced
<1>1. ASSUME NEW a \in Slots PROVE OwnPlaces[a] = "nothing" /\ OwnCosts[a] = 0
  <2>1. a[1] \in Keys /\ a[2] \in Attempts
    BY DEF Slots
  <2>2. Held(a[1], a[2]) = "nothing"
    BY <2>1 DEF Held
  <2> QED BY <2>1, <2>2 DEF OwnPlaces, OwnCosts
<1>2. Matches(personal, OwnPlaces, OwnCosts) /\ Count(OwnPlaces, Slots, "reserved") = 0
  BY <1>1, ZeroMatches
<1>3. Count(Statuses, Keys, "completed") = 0
  <2>1. {k \in Keys : Statuses[k] = "completed"} = {}
    BY DEF Statuses
  <2> QED BY <2>1, FS_EmptySet DEF Count
<1> QED BY <1>2, <1>3 DEF OwnBalanced

LEMMA BooksStart ==
  ASSUME Init
  PROVE  BooksInv
<1>1. IInv
  BY SpendStart
<1>2. Agree
  BY DEF Init, NoRequest, NoAttempt, NoReceipt, NoCheckpoint, Agree, AgreeOf
<1>3. Matches(pool, PoolPlaces, PoolCosts)
  <2>1. ASSUME NEW a \in Slots PROVE PoolPlaces[a] = "nothing" /\ PoolCosts[a] = 0
    <3>1. a[1] \in Keys /\ a[2] \in Attempts
      BY DEF Slots
    <3>2. PoolPlace(a[1], a[2]) = "nothing"
      BY <3>1 DEF PoolPlace, Init, NoAttempt, NoReceipt
    <3> QED BY <3>1, <3>2 DEF PoolPlaces, PoolCosts, Init, NoReceipt
  <2>2. pool.reserved = 0 /\ pool.uncertain = 0 /\ pool.actual = 0
    BY DEF Init
  <2> QED BY <2>1, <2>2, ZeroMatches
<1>4. OwnBalanced
  BY ZeroOwn DEF Init, NoRequest, NoAttempt
<1> QED BY <1>1, <1>2, <1>3, <1>4 DEF BooksInv, Balanced

LEMMA RemoveLedgerBooks ==
  ASSUME BooksInv, TypeInv', RemoveLedger
  PROVE  Agree' /\ Balanced'
<1>0. TypeInv /\ Agree /\ Balanced /\ Deleting
  BY DEF BooksInv, IInv
<1>1. UNCHANGED <<request, attempt, saved, receipt, pool>> /\ account'.active = account.active
      /\ personal' = [count |-> 0, reserved |-> 0, uncertain |-> 0, actual |-> 0]
      /\ (account.active => Keys = {})
  BY <1>0 DEF RemoveLedger, Deleting, TypeInv, TypeOK
<1>2. Agree'
  <2>1. ASSUME NEW j \in Keys PROVE AgreeOf(j)'
    BY <1>0, <1>1, AgreeStays DEF Agree
  <2> QED BY <2>1 DEF Agree
<1>3. Matches(pool, PoolPlaces, PoolCosts)'
  BY <1>0, <1>1 DEF Balanced, Matches, PoolPlaces, PoolPlace, PoolCosts, HeldInPool
<1>4. ASSUME account'.active PROVE OwnBalanced'
  <2>1. Keys = {}
    BY <1>1, <1>4
  <2>2. Slots = {}
    BY <2>1 DEF Slots
  <2>3. personal'.reserved = 0 /\ personal'.uncertain = 0 /\ personal'.actual = 0 /\ personal'.count = 0
    BY <1>1
  <2>4. Matches(personal', OwnPlaces', OwnCosts') /\ Count(OwnPlaces', Slots, "reserved") = 0
    BY <2>2, <2>3, ZeroMatches
  <2>5. Count(Statuses', Keys, "completed") = 0
    <3>1. {k \in Keys : Statuses'[k] = "completed"} = {}
      BY <2>1
    <3> QED BY <3>1, FS_EmptySet DEF Count
  <2>6. (Matches(personal, OwnPlaces, OwnCosts))'
    BY <2>4 DEF Matches
  <2>7. (personal.count = Count(Statuses, Keys, "completed") + Count(OwnPlaces, Slots, "reserved"))'
    BY <2>3, <2>4, <2>5 DEF Count
  <2> QED BY <2>6, <2>7 DEF OwnBalanced
<1> QED BY <1>2, <1>3, <1>4 DEF Balanced

LEMMA BooksStep ==
  ASSUME BooksInv, [Next]_vars
  PROVE  BooksInv'
<1>1. IInv' /\ TypeInv' /\ TypeInv /\ Agree /\ Balanced /\ IInv
  BY SpendStep DEF BooksInv, IInv
<1> SUFFICES Agree' /\ Balanced'
  BY <1>1 DEF BooksInv
<1>2. ASSUME NEW h \in Handlers,
             \/ (\E k \in Keys : Read(h, k)) \/ recoverAiUsageResult(h) \/ (\E c \in Costs : Dispatch(h, c))
             \/ NotDispatched(h) \/ Answer(h) \/ NoAnswer(h) \/ Fails(h) \/ Refused(h)
      PROVE  Agree' /\ Balanced'
  <2>1. UNCHANGED <<request, attempt, saved, receipt, pool, personal>> /\ UNCHANGED account
    BY <1>2 DEF Read, recoverAiUsageResult, Dispatch, NotDispatched, Answer, NoAnswer, Fails, Refused, documents
  <2> QED BY <1>1, <2>1, QuietBooks
<1>3. ASSUME NEW h \in Handlers, reserveAiUsage(h) PROVE Agree' /\ Balanced'
  <2>1. handler[h].key \in Keys /\ request[handler[h].key].n + 1 \in Attempts
    BY <1>1, <1>3, AtWork DEF reserveAiUsage
  <2> QED BY <1>1, <1>3, <2>1, ReserveBooks
<1>4. ASSUME NEW h \in Handlers, handler[h].pc \notin {"idle", "read"}
      PROVE  handler[h].key \in Keys /\ handler[h].n \in Attempts /\ handler[h].cost \in Nat
  BY <1>1, <1>4, AtWork
<1>5. ASSUME NEW h \in Handlers, checkpointAiUsageResult(h) \/ settleAiUsageProduct(h) \/ FinalizeDeleted(h)
      PROVE  Agree' /\ Balanced'
  <2>1. handler[h].key \in Keys /\ handler[h].n \in Attempts
    BY <1>4, <1>5 DEF checkpointAiUsageResult, settleAiUsageProduct, FinalizeDeleted
  <2> QED BY <1>1, <1>5, <2>1, CheckpointBooks, SettleBooks, FinalizeDeletedBooks
<1>6. ASSUME NEW h \in Handlers, FinalizeTurn(h) \/ FinalizeFailed(h) \/ FinalizeUnsent(h)
      PROVE  Agree' /\ Balanced'
  <2>1. handler[h].key \in Keys /\ handler[h].n \in Attempts /\ handler[h].cost \in Nat /\ 0 \in Nat
    BY <1>4, <1>6 DEF FinalizeTurn, FinalizeFailed, FinalizeUnsent
  <2>2. PICK c \in Nat, f \in BOOLEAN, r \in {"none", "pre"} : settleFinalizedAiUsage(handler[h].key, handler[h].n, c, f, r)
    BY <1>6, <2>1 DEF FinalizeTurn, FinalizeFailed, FinalizeUnsent
  <2> QED BY <1>1, <2>1, <2>2, FinalizeBooks
<1>7. ASSUME NEW h \in Handlers, FinalizeUnknown(h) PROVE Agree' /\ Balanced'
  <2>1. handler[h].key \in Keys /\ handler[h].n \in Attempts
    BY <1>4, <1>7 DEF FinalizeUnknown
  <2> QED BY <1>1, <1>7, <2>1, ContainBooks DEF FinalizeUnknown
<1>8. ASSUME NEW k \in Keys, reconcileExpiredAiUsage(k) PROVE Agree' /\ Balanced'
  <2>1. request[k].n \in Attempts
    BY <1>1, <1>8, OfKey DEF reconcileExpiredAiUsage, reconcileAiUsageRoot, MayContain
  <2> QED BY <1>1, <1>8, <2>1, ContainBooks DEF reconcileExpiredAiUsage
<1>9. ASSUME NEW k \in Keys, abandonAiUsage(k) \/ RemoveRequest(k) PROVE Agree' /\ Balanced'
  BY <1>1, <1>9, AbandonBooks, RemoveBooks
<1>10. CASE RemoveLedger
  BY <1>1, <1>10, RemoveLedgerBooks
<1>11. CASE LeaseExpires \/ ChangeProduct \/ DeleteAccount \/ UNCHANGED vars
  <2>1. UNCHANGED <<request, attempt, saved, receipt, pool, personal>> /\ (account'.active => account.active)
    BY <1>1, <1>11 DEF LeaseExpires, ChangeProduct, DeleteAccount, documents, vars, TypeInv, TypeOK
  <2> QED BY <1>1, <2>1, QuietBooks
<1> QED BY <1>2, <1>3, <1>5, <1>6, <1>7, <1>8, <1>9, <1>10, <1>11 DEF Next

LEMMA BooksAlways == Spec => []BooksInv
<1>1. BooksInv /\ [Next]_vars => BooksInv'
  BY BooksStep
<1> QED BY <1>1, BooksStart, PTL DEF Spec

\* The counters that admit or refuse paid work are never off: the pool's are
\* what the receipts add up to, the user's what the attempts add up to, and the
\* allowance counts the requests that run or were served.
THEOREM LedgersAlwaysMatch == Spec => []LedgersMatch
<1>1. BooksInv => LedgersMatch
  BY BalancedIs DEF BooksInv, IInv
<1> QED BY <1>1, BooksAlways, PTL

-----------------------------------------------------------------------------
(* The strict checks never refuse what the code itself wrote *)

LEMMA PoolHas ==
  ASSUME TypeInv, Balanced, NEW k \in Keys, NEW n \in Attempts
  PROVE  /\ PoolPlace(k, n) \in {"reserved", "uncertain"} => Enough(pool, PoolPlace(k, n))
         /\ pool.actual >= receipt[k][n].cost
<1> DEFINE x == <<k, n>>
<1>1. x \in Slots /\ PoolPlaces[x] = PoolPlace(k, n) /\ PoolCosts[x] = receipt[k][n].cost
  BY DEF Slots, PoolPlaces, PoolCosts
<1>2. \A a \in Slots : PoolCosts[a] \in Nat
  BY CostsTyped DEF PoolCosts, TypeInv, TypeOK
<1>3. Matches(pool, PoolPlaces, PoolCosts)
  BY DEF Balanced
<1> HIDE DEF x
<1>4. /\ PoolPlaces[x] = "reserved" => pool.reserved >= Reserve
      /\ PoolPlaces[x] = "uncertain" => pool.uncertain >= Reserve
      /\ pool.actual >= PoolCosts[x]
  BY <1>1, <1>2, <1>3, LedgerHas
<1> QED BY <1>1, <1>4 DEF Enough

LEMMA OwnHas ==
  ASSUME TypeInv, OwnBalanced, NEW k \in Keys, NEW n \in Attempts
  PROVE  /\ Held(k, n) \in {"reserved", "uncertain"} => Enough(personal, Held(k, n))
         /\ Held(k, n) = "reserved" => personal.count >= 1
<1> DEFINE x == <<k, n>>
<1>1. x \in Slots /\ OwnPlaces[x] = Held(k, n)
  BY DEF Slots, OwnPlaces
<1>2. \A a \in Slots : OwnCosts[a] \in Nat
  BY CostsTyped DEF OwnCosts, TypeInv, TypeOK
<1>3. Matches(personal, OwnPlaces, OwnCosts) /\ personal.count = Count(Statuses, Keys, "completed") + Count(OwnPlaces, Slots, "reserved")
  BY DEF OwnBalanced
<1> HIDE DEF x
<1>4. /\ OwnPlaces[x] = "reserved" => personal.reserved >= Reserve
      /\ OwnPlaces[x] = "uncertain" => personal.uncertain >= Reserve
  BY <1>1, <1>2, <1>3, LedgerHas
<1>5. Count(OwnPlaces, Slots, OwnPlaces[x]) \in Nat /\ Count(OwnPlaces, Slots, OwnPlaces[x]) >= 1
  BY <1>1, SlotsFinite, CountSome
<1>6. Count(Statuses, Keys, "completed") \in Nat
  BY FiniteAssumption, FS_Subset, FS_CardinalityType DEF Count
<1> QED BY <1>1, <1>3, <1>4, <1>5, <1>6 DEF Enough

LEMMA NotBlocked ==
  ASSUME BooksInv
  PROVE  NeverBlocked
<1>0. TypeInv /\ Agree /\ Balanced
  BY DEF BooksInv, IInv
<1> SUFFICES ASSUME NEW k \in Keys
             PROVE  /\ account.active /\ request[k].status = "reserved" => MayContain(k, request[k].n)
                    /\ account.active /\ request[k].status = "checkpointed" => MaySettle(k, request[k].n)
                    /\ MayAbandon(k)
  BY DEF NeverBlocked
<1> DEFINE n == request[k].n
           known == receipt[k][n]
<1>1. request[k].status \in {"none", "reserved", "checkpointed", "completed", "failed"} /\ (request[k].status # "none" => n \in Attempts)
  BY <1>0, OfKey DEF Request
<1>2. AgreeOf(k)
  BY <1>0 DEF Agree
<1>3. ASSUME n \in Attempts, attempt[k][n].status # "none" \/ receipt[k][n].kind # "none"
      PROVE  /\ HeldInPool(k, n) \in {"reserved", "uncertain"} => Enough(pool, HeldInPool(k, n))
             /\ pool.actual >= known.cost
  BY <1>0, <1>3, PoolHas DEF PoolPlace
<1>4. ASSUME n \in Attempts, account.active
      PROVE  /\ Held(k, n) \in {"reserved", "uncertain"} => Enough(personal, Held(k, n))
             /\ Held(k, n) = "reserved" => personal.count >= 1
  BY <1>0, <1>4, OwnHas DEF Balanced
<1>5. ASSUME request[k].status = "reserved"
      PROVE  (account.active => MayContain(k, n)) /\ MayAbandon(k)
  <2>1. attempt[k][n].status = "reserved" /\ (known.kind = "none" \/ (known.kind = "uncertain" /\ ~account.active))
    BY <1>2, <1>5 DEF AgreeOf
  <2>2. Held(k, n) = "reserved"
    BY <1>5, <2>1 DEF Held
  <2>3. HeldInPool(k, n) \in {"reserved", "uncertain"} /\ (account.active => HeldInPool(k, n) = "reserved")
    BY <2>1 DEF HeldInPool
  <2>4. Enough(pool, HeldInPool(k, n)) /\ HeldInPool(k, n) # "nothing"
    BY <1>1, <1>3, <1>5, <2>1, <2>3
  <2>5. account.active => MayContain(k, n)
    BY <1>1, <1>4, <1>5, <2>2, <2>3, <2>4 DEF MayContain, Open
  <2> QED BY <1>5, <2>2, <2>4, <2>5 DEF MayAbandon
<1>6. ASSUME request[k].status = "checkpointed"
      PROVE  (account.active => MaySettle(k, n)) /\ MayAbandon(k)
  <2>1. /\ attempt[k][n].status = "checkpointed" /\ saved[k].held \in {"reserved", "uncertain"}
        /\ \/ HeldInPool(k, n) = saved[k].held
           \/ known.kind = "result" /\ known.cost = saved[k].cost /\ ~account.active
    BY <1>2, <1>6 DEF AgreeOf
  <2>2. Held(k, n) = saved[k].held
    BY <1>6, <2>1 DEF Held
  <2>3. pool.actual >= known.cost /\ (HeldInPool(k, n) = saved[k].held => Enough(pool, saved[k].held))
    BY <1>1, <1>3, <1>6, <2>1
  <2>4. account.active => MaySettle(k, n)
    BY <1>1, <1>4, <1>6, <2>1, <2>2, <2>3 DEF MaySettle, Open
  <2>5. MayAbandonResult(k)
    BY <1>6, <2>1, <2>2, <2>3 DEF MayAbandonResult, Open
  <2> QED BY <2>4, <2>5 DEF MayAbandon
<1>7. ASSUME request[k].status \in {"completed", "failed"}
      PROVE  MayAbandon(k)
  <2>1. CASE attempt[k][n].status = "observed"
    <3>1. /\ known.kind = (IF saved[k].held = "none" THEN "completion" ELSE "result")
          /\ known.cost = attempt[k][n].cost /\ known.failed = attempt[k][n].failed
      BY <1>2, <1>7, <2>1 DEF AgreeOf
    <3>2. pool.actual >= known.cost
      BY <1>1, <1>3, <1>7, <2>1
    <3> QED BY <1>7, <2>1, <3>1, <3>2 DEF MayAbandon
  <2>2. CASE attempt[k][n].status # "observed"
    <3>1. request[k].status = "failed" /\ request[k].reason = "unknown" /\ attempt[k][n].status = "uncertain" /\ known.kind = "uncertain"
      BY <1>2, <1>7, <2>2 DEF AgreeOf
    <3>2. Held(k, n) = "uncertain" /\ HeldInPool(k, n) = "uncertain"
      BY <3>1 DEF Held, HeldInPool
    <3>3. Enough(pool, "uncertain")
      BY <1>1, <1>3, <1>7, <3>1, <3>2
    <3> QED BY <3>1, <3>2, <3>3 DEF MayAbandon, Open
  <2> QED BY <2>1, <2>2
<1>8. CASE request[k].status = "none"
  BY <1>8 DEF MayAbandon
<1> QED BY <1>1, <1>5, <1>6, <1>7, <1>8

\* The strict checks of receipt, request, attempt and counters never refuse
\* what the code itself wrote: a reservation can be contained, a saved result
\* settled, and a deletion goes on, and is repeated, without a manual review.
THEOREM NeverIsBlocked == Spec => []NeverBlocked
BY BooksAlways, NotBlocked, PTL
=============================================================================
