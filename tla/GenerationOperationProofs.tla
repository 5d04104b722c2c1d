---------------------- MODULE GenerationOperationProofs ----------------------
(***************************************************************************)
(* Proofs about generation operations for any operations, calls and locks, *)
(* any reserve, costs and limits.                                          *)
(***************************************************************************)
EXTENDS GenerationOperation, FiniteSetTheorems, WellFoundedInduction, TLAPS

Open(o) == op[o].status \in {"running", "pending"}

\* What links the provider call c of operation o to its intent and its charge.
CallFacts(o, c) ==
  /\ sent[o][c] = IF Claimable(o, c) THEN 0 ELSE 1
  /\ exec[o][c].phase # "idle" => ~Claimable(o, c) /\ op[o].status # "none"
  /\ exec[o][c].phase = "recorded" => calls[o][c].status # "in_flight"
  /\ exec[o][c].phase \in {"sent", "answered"} /\ (Open(o) \/ op[o].status = "completed") =>
       op[o].status = "running" /\ op[o].token = exec[o][c].token /\ c \in op[o].pending
  /\ op[o].status = "none" => calls[o][c].status = "none"
  /\ Open(o) /\ calls[o][c].status = "in_flight" => c \in op[o].pending
  /\ Open(o) /\ active => calls[o][c].status # "uncertain"
  /\ Terminal(o) => calls[o][c].status # "in_flight"
  /\ op[o].status = "completed" =>
       calls[o][c].status # "uncertain" /\ (calls[o][c].status = "observed" <=> c \in accounted[o])

\* What links an operation to its receipt, its claim and its key.
OpFacts(o) ==
  /\ op[o].fresh => Open(o)
  /\ o \in denied => op[o].status = "none"
  /\ Terminal(o) => receipt[o].remaining = 0
  /\ op[o].status = "none" => claim[o] = "none"
  /\ IsCourse(o) =>
       /\ Open(o) => claim[o] = "reserved"
       /\ op[o].status = "completed" => claim[o] = "completed"
       /\ op[o].status = "failed" => claim[o] = "released"

\* A lease is worth its lock.
LockFacts ==
  \A o \in Ops : op[o].status = "running" /\ op[o].fresh =>
    lock[Key[o]] = [op |-> o, token |-> op[o].token, live |-> TRUE]

IInv ==
  /\ TypeOK
  /\ \A o \in Ops : OpFacts(o)
  /\ \A o \in Ops, c \in Calls : CallFacts(o, c)
  /\ LockFacts

USE DEF Open, Terminal

LEMMA Typed ==
  ASSUME TypeOK, NEW o \in Ops, NEW c \in Calls
  PROVE /\ op[o] \in Operation /\ receipt[o] \in Receipt /\ lock[Key[o]] \in Lock
        /\ calls[o][c] \in UsageCall /\ exec[o][c] \in Execution
        /\ stage[o][c] \in Stages /\ sent[o][c] \in Nat /\ Key[o] \in Keys
BY KeyAssumption DEF TypeOK

LEMMA OpTyped ==
  ASSUME TypeOK, NEW o \in Ops
  PROVE op[o] \in Operation /\ receipt[o] \in Receipt /\ lock[Key[o]] \in Lock /\ Key[o] \in Keys
BY KeyAssumption DEF TypeOK

\* Only the operation o becomes r.
LEMMA Replaced ==
  ASSUME TypeOK, NEW o \in Ops, NEW r \in Operation, op' = [op EXCEPT ![o] = r]
  PROVE op' \in [Ops -> Operation] /\ op'[o] = r /\ \A u \in Ops : u # o => op'[u] = op[u]
BY DEF TypeOK

\* What no step touched of an operation still holds of it.
LEMMA Untouched ==
  ASSUME IInv, NEW o \in Ops, op'[o] = op[o], receipt'[o] = receipt[o], calls'[o] = calls[o],
         accounted'[o] = accounted[o], exec'[o] = exec[o], sent'[o] = sent[o], stage'[o] = stage[o],
         claim'[o] = claim[o], o \in denied' => o \in denied, active' => active
  PROVE OpFacts(o)' /\ \A c \in Calls : CallFacts(o, c)'
<1>1. OpFacts(o)'
  BY DEF IInv, OpFacts
<1>2. ASSUME NEW c \in Calls PROVE CallFacts(o, c)'
  BY DEF IInv, CallFacts, Claimable
<1> QED BY <1>1, <1>2

\* The locks do not depend on operations that do not run.
LEMMA LocksKept ==
  ASSUME LockFacts, lock' = lock,
         \A o \in Ops : op'[o].status = "running" /\ op'[o].fresh =>
           op[o].status = "running" /\ op[o].fresh /\ op'[o].token = op[o].token
  PROVE LockFacts'
BY DEF LockFacts

\* A new attempt owns its lock, and no other attempt lost one.
LEMMA AttemptLocks ==
  ASSUME IInv, NEW o \in Ops, Attempt(o), NoConflict(Key[o])
  PROVE /\ op' \in [Ops -> Operation] /\ lock' \in [Keys -> Lock]
        /\ op'[o].status = "running" /\ op'[o].fresh /\ op'[o].pending = op[o].pending
        /\ \A u \in Ops : u # o => op'[u] = op[u]
        /\ LockFacts'
<1> DEFINE token == op[o].token + 1
           r == [op[o] EXCEPT !.status = "running", !.token = token, !.fresh = TRUE]
           l == [op |-> o, token |-> token, live |-> TRUE]
<1>1. TypeOK /\ LockFacts /\ op[o] \in Operation /\ Key[o] \in Keys
  BY OpTyped DEF IInv
<1>2. op' = [op EXCEPT ![o] = r] /\ lock' = [lock EXCEPT ![Key[o]] = l]
  BY DEF Attempt
<1>3. token \in Nat
  BY <1>1 DEF Operation
<1>4. l \in Lock
  BY <1>3 DEF Lock
<1> HIDE DEF token
<1>5. r \in Operation /\ r.status = "running" /\ r.fresh /\ r.token = token /\ r.pending = op[o].pending
  BY <1>1, <1>3 DEF Operation
<1>6. /\ lock' \in [Keys -> Lock]
      /\ \A k \in Keys : lock'[k] = IF k = Key[o] THEN l ELSE lock[k]
  BY <1>1, <1>2, <1>4 DEF TypeOK
<1> HIDE DEF r
<1>7. op' \in [Ops -> Operation] /\ op'[o] = r /\ \A u \in Ops : u # o => op'[u] = op[u]
  BY <1>1, <1>2, <1>5, Replaced
<1>8. ASSUME NEW u \in Ops, op'[u].status = "running", op'[u].fresh
      PROVE lock'[Key[u]] = [op |-> u, token |-> op'[u].token, live |-> TRUE]
  <2>1. CASE u = o
    BY <1>5, <1>6, <1>7, <1>1, <2>1
  <2>2. CASE u # o
    <3>1. lock[Key[u]] = [op |-> u, token |-> op[u].token, live |-> TRUE] /\ Key[u] \in Keys
      BY <1>1, <1>7, <1>8, <2>2, OpTyped DEF LockFacts
    <3>2. Key[u] # Key[o]
      BY <1>1, <3>1 DEF NoConflict
    <3> QED BY <1>6, <1>7, <2>2, <3>1, <3>2
  <2> QED BY <2>1, <2>2
<1>9. LockFacts'
  BY <1>8 DEF LockFacts
<1> QED BY <1>5, <1>6, <1>7, <1>9

LEMMA BeginKeeps ==
  ASSUME IInv, NEW o \in Ops, Begin(o) PROVE IInv'
<1>1. Attempt(o) /\ NoConflict(Key[o]) /\ op[o].status = "none" /\ o \notin denied
  BY DEF Begin, Unused
<1>2. /\ op' \in [Ops -> Operation] /\ lock' \in [Keys -> Lock]
      /\ op'[o].status = "running" /\ op'[o].fresh /\ op'[o].pending = op[o].pending
      /\ \A u \in Ops : u # o => op'[u] = op[u]
      /\ LockFacts'
  BY <1>1, AttemptLocks
<1>3. /\ credits' \in Nat
      /\ claim' \in [Ops -> {"none", "reserved", "completed", "released"}]
      /\ IsCourse(o) => claim'[o] = "reserved"
      /\ \A u \in Ops : u # o => claim'[u] = claim[u]
  BY DEF IInv, TypeOK, Begin
<1>4. receipt' \in [Ops -> Receipt] /\ \A u \in Ops : u # o => receipt'[u] = receipt[u]
  <2> DEFINE r == [receipt[o] EXCEPT !.remaining = Reserve]
  <2>1. receipt \in [Ops -> Receipt] /\ receipt[o] \in Receipt
    BY DEF IInv, TypeOK
  <2>2. r \in Receipt
    BY <2>1, AmountsAssumption DEF Receipt
  <2>3. receipt' = [receipt EXCEPT ![o] = r]
    BY DEF Begin
  <2> HIDE DEF r
  <2> QED BY <2>1, <2>2, <2>3
<1>5. UNCHANGED <<denied, stage, calls, accounted, exec, sent, active>>
  BY DEF Begin
<1>6. TypeOK'
  BY <1>2, <1>3, <1>4, <1>5 DEF IInv, TypeOK
<1>7. ASSUME NEW u \in Ops, u # o PROVE OpFacts(u)' /\ \A c \in Calls : CallFacts(u, c)'
  BY <1>2, <1>3, <1>4, <1>5, <1>7, Untouched
<1>8. OpFacts(o)'
  BY <1>1, <1>2, <1>3, <1>5 DEF OpFacts, IsCourse
<1>9. ASSUME NEW c \in Calls PROVE CallFacts(o, c)'
  BY <1>1, <1>2, <1>5 DEF IInv, CallFacts, Claimable
<1> QED BY <1>2, <1>6, <1>7, <1>8, <1>9 DEF IInv

LEMMA ResumeKeeps ==
  ASSUME IInv, NEW o \in Ops, Resume(o) PROVE IInv'
<1>1. Attempt(o) /\ NoConflict(Key[o]) /\ Open(o) /\ op[o].pending = {}
  BY DEF Resume, Resumable
<1>2. /\ op' \in [Ops -> Operation] /\ lock' \in [Keys -> Lock]
      /\ op'[o].status = "running" /\ op'[o].fresh /\ op'[o].pending = op[o].pending
      /\ \A u \in Ops : u # o => op'[u] = op[u]
      /\ LockFacts'
  BY <1>1, AttemptLocks
<1>3. UNCHANGED <<denied, stage, receipt, calls, accounted, credits, claim, exec, sent, active>>
  BY DEF Resume
<1>4. TypeOK'
  BY <1>2, <1>3 DEF IInv, TypeOK
<1>5. ASSUME NEW u \in Ops, u # o PROVE OpFacts(u)' /\ \A c \in Calls : CallFacts(u, c)'
  BY <1>2, <1>3, <1>5, Untouched
<1>6. OpFacts(o)'
  BY <1>1, <1>2, <1>3 DEF IInv, OpFacts, IsCourse
<1>7. ASSUME NEW c \in Calls PROVE CallFacts(o, c)'
  BY <1>1, <1>2, <1>3 DEF IInv, CallFacts, Claimable
<1> QED BY <1>2, <1>4, <1>5, <1>6, <1>7 DEF IInv

LEMMA DenyKeeps ==
  ASSUME IInv, NEW o \in Ops, Deny(o) PROVE IInv'
<1>1. UNCHANGED <<op, stage, receipt, calls, accounted, lock, credits, claim, exec, sent, active>>
  BY DEF Deny
<1>2. TypeOK'
  BY <1>1 DEF Deny, IInv, TypeOK
<1>3. ASSUME NEW u \in Ops PROVE OpFacts(u)'
  BY <1>1 DEF Deny, IInv, OpFacts
<1>4. ASSUME NEW u \in Ops, NEW c \in Calls PROVE CallFacts(u, c)'
  BY <1>1 DEF IInv, CallFacts, Claimable
<1>5. LockFacts'
  BY <1>1 DEF IInv, LockFacts
<1> QED BY <1>2, <1>3, <1>4, <1>5 DEF IInv

\* Only the entry of call c of operation o becomes v.
LEMMA CallReplaced ==
  ASSUME NEW S, NEW f \in [Ops -> [Calls -> S]], NEW o \in Ops, NEW c \in Calls, NEW v \in S,
         NEW g, g = [f EXCEPT ![o][c] = v]
  PROVE /\ g \in [Ops -> [Calls -> S]] /\ g[o][c] = v
        /\ \A u \in Ops : u # o => g[u] = f[u]
        /\ \A d \in Calls : d # c => g[o][d] = f[o][d]
OBVIOUS

\* The same for the intents, which hold more of an operation.
LEMMA PendingReplaced ==
  ASSUME TypeOK, NEW o \in Ops, NEW P \in SUBSET Calls, op' = [op EXCEPT ![o].pending = P]
  PROVE /\ op' \in [Ops -> Operation]
        /\ \A u \in Ops : /\ op'[u].status = op[u].status /\ op'[u].token = op[u].token
                          /\ op'[u].fresh = op[u].fresh
                          /\ u # o => op'[u] = op[u]
        /\ op'[o].pending = P
<1> DEFINE r == [op[o] EXCEPT !.pending = P]
<1>1. op[o] \in Operation
  BY OpTyped
<1>2. r \in Operation /\ r.status = op[o].status /\ r.token = op[o].token /\ r.fresh = op[o].fresh /\ r.pending = P
  BY <1>1 DEF Operation
<1>3. op' = [op EXCEPT ![o] = r]
  OBVIOUS
<1> HIDE DEF r
<1> QED BY <1>2, <1>3, Replaced

LEMMA ClaimKeeps ==
  ASSUME IInv, NEW o \in Ops, NEW c \in Calls, Claim(o, c) PROVE IInv'
<1>1. /\ Owns(o, op[o].token) /\ Claimable(o, c)
      /\ UNCHANGED <<denied, receipt, accounted, lock, credits, claim, active>>
  BY DEF Claim
<1>2. /\ op' \in [Ops -> Operation]
      /\ \A u \in Ops : /\ op'[u].status = op[u].status /\ op'[u].token = op[u].token
                        /\ op'[u].fresh = op[u].fresh
                        /\ u # o => op'[u] = op[u]
      /\ op'[o].pending = op[o].pending \cup {c}
  <2>1. op[o].pending \cup {c} \in SUBSET Calls
    BY OpTyped DEF IInv, Operation
  <2>2. op' = [op EXCEPT ![o].pending = op[o].pending \cup {c}]
    BY DEF Claim, IInv, TypeOK
  <2> QED BY <2>1, <2>2, PendingReplaced DEF IInv
<1>3. /\ stage' \in [Ops -> [Calls -> Stages]] /\ stage'[o][c] = "in_flight"
      /\ \A u \in Ops : u # o => stage'[u] = stage[u]
      /\ \A d \in Calls : d # c => stage'[o][d] = stage[o][d]
  <2>1. "in_flight" \in Stages
    BY DEF Stages
  <2> QED BY <2>1, CallReplaced DEF Claim, IInv, TypeOK
<1>4. /\ calls' \in [Ops -> [Calls -> UsageCall]] /\ calls'[o][c].status = "in_flight"
      /\ \A u \in Ops : u # o => calls'[u] = calls[u]
      /\ \A d \in Calls : d # c => calls'[o][d] = calls[o][d]
  <2> DEFINE v == [NoCall EXCEPT !.status = "in_flight"]
  <2>1. v \in UsageCall /\ v.status = "in_flight"
    BY DEF UsageCall, NoCall
  <2>2. calls' = [calls EXCEPT ![o][c] = v] /\ calls \in [Ops -> [Calls -> UsageCall]]
    BY DEF Claim, IInv, TypeOK
  <2> HIDE DEF v
  <2> QED BY <2>1, <2>2, CallReplaced
<1>5. /\ exec' \in [Ops -> [Calls -> Execution]]
      /\ exec'[o][c].phase = "sent" /\ exec'[o][c].token = op[o].token
      /\ \A u \in Ops : u # o => exec'[u] = exec[u]
      /\ \A d \in Calls : d # c => exec'[o][d] = exec[o][d]
  <2> DEFINE v == [Idle EXCEPT !.phase = "sent", !.token = op[o].token]
  <2>1. op[o].token \in Nat
    BY OpTyped DEF IInv, Operation
  <2>2. v \in Execution /\ v.phase = "sent" /\ v.token = op[o].token
    BY <2>1 DEF Execution, Idle
  <2>3. exec' = [exec EXCEPT ![o][c] = v] /\ exec \in [Ops -> [Calls -> Execution]]
    BY DEF Claim, IInv, TypeOK
  <2> HIDE DEF v
  <2> QED BY <2>2, <2>3, CallReplaced
<1>6. /\ sent' \in [Ops -> [Calls -> Nat]] /\ sent'[o][c] = 1
      /\ \A u \in Ops : u # o => sent'[u] = sent[u]
      /\ \A d \in Calls : d # c => sent'[o][d] = sent[o][d]
  <2>1. sent[o][c] = 0
    BY <1>1 DEF IInv, CallFacts
  <2>2. sent' = [sent EXCEPT ![o][c] = 1] /\ sent \in [Ops -> [Calls -> Nat]]
    BY <2>1 DEF Claim, IInv, TypeOK
  <2> QED BY <2>2, CallReplaced
<1>7. TypeOK'
  BY <1>1, <1>2, <1>3, <1>4, <1>5, <1>6 DEF IInv, TypeOK
<1>8. ASSUME NEW u \in Ops, u # o PROVE OpFacts(u)' /\ \A d \in Calls : CallFacts(u, d)'
  BY <1>1, <1>2, <1>3, <1>4, <1>5, <1>6, <1>8, Untouched
<1>9. OpFacts(o)'
  BY <1>1, <1>2 DEF IInv, OpFacts, IsCourse
<1>10. ASSUME NEW d \in Calls PROVE CallFacts(o, d)'
  <2>1. CASE d = c
    BY <1>1, <1>2, <1>3, <1>4, <1>5, <1>6, <2>1 DEF IInv, CallFacts, Claimable, Owns
  <2>2. CASE d # c
    <3>1. CallFacts(o, d)
      BY DEF IInv
    <3>2. /\ stage'[o][d] = stage[o][d] /\ calls'[o][d] = calls[o][d] /\ exec'[o][d] = exec[o][d]
          /\ sent'[o][d] = sent[o][d] /\ (d \in op'[o].pending <=> d \in op[o].pending)
      BY <1>2, <1>3, <1>4, <1>5, <1>6, <2>2
    <3> QED BY <1>1, <1>2, <3>1, <3>2 DEF CallFacts, Claimable
  <2> QED BY <2>1, <2>2
<1>11. LockFacts'
  BY <1>1, <1>2, LocksKept DEF IInv
<1> QED BY <1>7, <1>8, <1>9, <1>10, <1>11 DEF IInv

\* A step of the server that runs a call, which the store does not see.
LEMMA ExecKeeps ==
  ASSUME IInv, NEW o \in Ops, NEW c \in Calls, NEW e \in Execution, Execute(o, c, e),
         exec[o][c].phase # "idle",
         e.phase = "recorded" => calls[o][c].status # "in_flight",
         e.phase \in {"sent", "answered"} => exec[o][c].phase = "sent" /\ e.token = exec[o][c].token,
         UNCHANGED <<op, denied, stage, receipt, calls, accounted, lock, credits, claim, sent, active>>
  PROVE IInv'
<1>1. /\ exec' \in [Ops -> [Calls -> Execution]] /\ exec'[o][c] = e
      /\ \A u \in Ops : u # o => exec'[u] = exec[u]
      /\ \A d \in Calls : d # c => exec'[o][d] = exec[o][d]
  BY CallReplaced DEF Execute, IInv, TypeOK
<1>2. TypeOK'
  BY <1>1 DEF IInv, TypeOK
<1>3. ASSUME NEW u \in Ops PROVE OpFacts(u)'
  BY DEF IInv, OpFacts
<1>4. ASSUME NEW u \in Ops, NEW d \in Calls PROVE CallFacts(u, d)'
  <2>1. CASE u = o /\ d = c
    BY <1>1, <2>1 DEF IInv, CallFacts, Claimable
  <2>2. CASE u # o \/ d # c
    <3>1. exec'[u][d] = exec[u][d]
      BY <1>1, <2>2
    <3> QED BY <3>1 DEF IInv, CallFacts, Claimable
  <2> QED BY <2>1, <2>2
<1>5. LockFacts'
  BY DEF IInv, LockFacts
<1> QED BY <1>2, <1>3, <1>4, <1>5 DEF IInv

LEMMA AnswerKeeps ==
  ASSUME IInv, NEW o \in Ops, NEW c \in Calls, NEW ok \in BOOLEAN, NEW cost \in Costs \cup {0},
         Answer(o, c, ok, cost)
  PROVE IInv'
<1> DEFINE e == [exec[o][c] EXCEPT !.phase = "answered", !.ok = ok, !.cost = cost]
<1>1. exec[o][c] \in Execution /\ cost \in Nat
  <2>1. exec[o][c] \in Execution
    BY Typed DEF IInv
  <2>2. cost \in Nat
    BY AmountsAssumption
  <2> QED BY <2>1, <2>2
<1>2. e \in Execution /\ e.phase = "answered" /\ e.token = exec[o][c].token
  BY <1>1 DEF Execution
<1>3. /\ Execute(o, c, e) /\ exec[o][c].phase = "sent"
      /\ UNCHANGED <<op, denied, stage, receipt, calls, accounted, lock, credits, claim, sent, active>>
  BY DEF Answer, personalVars
<1> HIDE DEF e
<1> QED BY <1>2, <1>3, ExecKeeps

LEMMA LoseKeeps ==
  ASSUME IInv, NEW o \in Ops, NEW c \in Calls, Lose(o, c) PROVE IInv'
<1>1. Idle \in Execution /\ Idle.phase = "idle"
  BY DEF Idle, Execution
<1>2. /\ Execute(o, c, Idle) /\ exec[o][c].phase # "idle"
      /\ UNCHANGED <<op, denied, stage, receipt, calls, accounted, lock, credits, claim, sent, active>>
  BY DEF Lose, personalVars
<1> QED BY <1>1, <1>2, ExecKeeps

LEMMA RefuseKeeps ==
  ASSUME IInv, NEW o \in Ops, NEW c \in Calls, Refuse(o, c) PROVE IInv'
<1>1. /\ stage[o][c] = "in_flight" /\ exec[o][c].phase = "sent" /\ Owns(o, exec[o][c].token)
      /\ UNCHANGED <<denied, receipt, accounted, lock, credits, claim, active>>
  BY DEF Refuse
<1>2. /\ op' \in [Ops -> Operation]
      /\ \A u \in Ops : /\ op'[u].status = op[u].status /\ op'[u].token = op[u].token
                        /\ op'[u].fresh = op[u].fresh
                        /\ u # o => op'[u] = op[u]
      /\ op'[o].pending = op[o].pending \ {c}
  <2>1. op[o].pending \ {c} \in SUBSET Calls
    BY OpTyped DEF IInv, Operation
  <2>2. op' = [op EXCEPT ![o].pending = op[o].pending \ {c}]
    BY DEF Refuse, IInv, TypeOK
  <2> QED BY <2>1, <2>2, PendingReplaced DEF IInv
<1>3. /\ stage' \in [Ops -> [Calls -> Stages]] /\ stage'[o][c] = "not_started"
      /\ \A u \in Ops : u # o => stage'[u] = stage[u]
      /\ \A d \in Calls : d # c => stage'[o][d] = stage[o][d]
  <2>1. "not_started" \in Stages
    BY DEF Stages
  <2> QED BY <2>1, CallReplaced DEF Refuse, IInv, TypeOK
<1>4. /\ calls' \in [Ops -> [Calls -> UsageCall]] /\ calls'[o][c].status = "none"
      /\ \A u \in Ops : u # o => calls'[u] = calls[u]
      /\ \A d \in Calls : d # c => calls'[o][d] = calls[o][d]
  <2>1. NoCall \in UsageCall /\ NoCall.status = "none"
    BY DEF UsageCall, NoCall
  <2> QED BY <2>1, CallReplaced DEF Refuse, IInv, TypeOK
<1>5. /\ exec' \in [Ops -> [Calls -> Execution]] /\ exec'[o][c].phase = "idle"
      /\ \A u \in Ops : u # o => exec'[u] = exec[u]
      /\ \A d \in Calls : d # c => exec'[o][d] = exec[o][d]
  <2>1. Idle \in Execution /\ Idle.phase = "idle"
    BY DEF Idle, Execution
  <2> QED BY <2>1, CallReplaced DEF Refuse, Execute, IInv, TypeOK
<1>6. /\ sent' \in [Ops -> [Calls -> Nat]] /\ sent'[o][c] = 0
      /\ \A u \in Ops : u # o => sent'[u] = sent[u]
      /\ \A d \in Calls : d # c => sent'[o][d] = sent[o][d]
  <2>1. sent[o][c] = 1
    BY <1>1 DEF IInv, CallFacts, Claimable
  <2>2. sent' = [sent EXCEPT ![o][c] = 0] /\ sent \in [Ops -> [Calls -> Nat]]
    BY <2>1 DEF Refuse, IInv, TypeOK
  <2> QED BY <2>2, CallReplaced
<1>7. TypeOK'
  BY <1>1, <1>2, <1>3, <1>4, <1>5, <1>6 DEF IInv, TypeOK
<1>8. ASSUME NEW u \in Ops, u # o PROVE OpFacts(u)' /\ \A d \in Calls : CallFacts(u, d)'
  BY <1>1, <1>2, <1>3, <1>4, <1>5, <1>6, <1>8, Untouched
<1>9. OpFacts(o)'
  BY <1>1, <1>2 DEF IInv, OpFacts, IsCourse
<1>10. ASSUME NEW d \in Calls PROVE CallFacts(o, d)'
  <2>1. CASE d = c
    BY <1>1, <1>2, <1>3, <1>4, <1>5, <1>6, <2>1 DEF IInv, CallFacts, Claimable, Owns
  <2>2. CASE d # c
    <3>1. CallFacts(o, d)
      BY DEF IInv
    <3>2. /\ stage'[o][d] = stage[o][d] /\ calls'[o][d] = calls[o][d] /\ exec'[o][d] = exec[o][d]
          /\ sent'[o][d] = sent[o][d] /\ (d \in op'[o].pending <=> d \in op[o].pending)
      BY <1>2, <1>3, <1>4, <1>5, <1>6, <2>2
    <3> QED BY <1>1, <1>2, <3>1, <3>2 DEF CallFacts, Claimable
  <2> QED BY <2>1, <2>2
<1>11. LockFacts'
  BY <1>1, <1>2, LocksKept DEF IInv
<1> QED BY <1>7, <1>8, <1>9, <1>10, <1>11 DEF IInv

LEMMA RecordKeeps ==
  ASSUME IInv, NEW o \in Ops, NEW c \in Calls, Record(o, c) PROVE IInv'
<1> DEFINE e == [exec[o][c] EXCEPT !.phase = "recorded"]
           cost == exec[o][c].cost
           released == Least(receipt[o].remaining, cost)
           left == receipt[o].remaining - released
<1>1. /\ exec[o][c] \in Execution /\ calls[o][c] \in UsageCall /\ receipt[o] \in Receipt
      /\ cost \in Nat /\ calls[o][c].est \in Int
  <2>1. exec[o][c] \in Execution /\ calls[o][c] \in UsageCall /\ receipt[o] \in Receipt
    BY Typed DEF IInv
  <2> QED BY <2>1 DEF Execution, UsageCall
<1>2. e \in Execution /\ e.phase = "recorded"
  BY <1>1 DEF Execution
<1>3. /\ exec[o][c].phase = "answered" /\ Execute(o, c, e)
      /\ UNCHANGED <<op, denied, stage, accounted, lock, credits, claim, sent, active>>
  BY DEF Record, personalVars
<1>4. CASE calls[o][c].status \in {"none", "observed"}
  <2>1. UNCHANGED <<receipt, calls>>
    BY <1>4 DEF Record
  <2> HIDE DEF e
  <2> QED BY <1>2, <1>3, <1>4, <2>1, ExecKeeps
<1>5. CASE calls[o][c].status \notin {"none", "observed"}
  <2>1. left \in Nat /\ (receipt[o].remaining = 0 => left = 0)
    BY <1>1 DEF Least, Receipt
  <2>2. /\ receipt' \in [Ops -> Receipt] /\ receipt'[o].remaining = left
        /\ \A u \in Ops : u # o => receipt'[u] = receipt[u]
    <3> DEFINE uncertain == Less(receipt[o].uncertain, calls[o][c].est)
               r == [remaining |-> left, actual |-> receipt[o].actual + cost, uncertain |-> uncertain]
    <3>1. uncertain \in Nat
      BY <1>1 DEF Less, Receipt
    <3>2. receipt[o].actual + cost \in Nat
      BY <1>1 DEF Receipt
    <3>3. receipt' = [receipt EXCEPT ![o] = r]
      BY <1>5 DEF Record, Estimate, IInv, TypeOK
    <3> HIDE DEF left, uncertain, cost
    <3>4. r \in Receipt /\ r.remaining = left
      BY <2>1, <3>1, <3>2 DEF Receipt
    <3> HIDE DEF r
    <3> QED BY <3>3, <3>4 DEF IInv, TypeOK
  <2>3. /\ calls' \in [Ops -> [Calls -> UsageCall]] /\ calls'[o][c].status = "observed"
        /\ \A u \in Ops : u # o => calls'[u] = calls[u]
        /\ \A d \in Calls : d # c => calls'[o][d] = calls[o][d]
    <3> DEFINE v == [calls[o][c] EXCEPT !.status = "observed", !.cost = cost]
    <3>1. v \in UsageCall /\ v.status = "observed"
      BY <1>1 DEF UsageCall
    <3>2. calls' = [calls EXCEPT ![o][c] = v] /\ calls \in [Ops -> [Calls -> UsageCall]]
      BY <1>5, ZenonT(60) DEF Record, IInv, TypeOK
    <3> HIDE DEF v
    <3> QED BY <3>1, <3>2, CallReplaced
  <2>4. /\ exec' \in [Ops -> [Calls -> Execution]] /\ exec'[o][c].phase = "recorded"
        /\ \A u \in Ops : u # o => exec'[u] = exec[u]
        /\ \A d \in Calls : d # c => exec'[o][d] = exec[o][d]
    <3> HIDE DEF e
    <3> QED BY <1>2, <1>3, CallReplaced DEF Execute, IInv, TypeOK
  <2> HIDE DEF e, left, cost, released
  <2>5. TypeOK'
    BY <1>3, <2>2, <2>3, <2>4 DEF IInv, TypeOK
  <2>6. ASSUME NEW u \in Ops, u # o PROVE OpFacts(u)' /\ \A d \in Calls : CallFacts(u, d)'
    BY <1>3, <2>2, <2>3, <2>4, <2>6, Untouched
  <2>7. OpFacts(o)'
    BY <1>3, <2>1, <2>2 DEF IInv, OpFacts, IsCourse
  <2>8. ASSUME NEW d \in Calls PROVE CallFacts(o, d)'
    <3>1. CallFacts(o, d)
      BY DEF IInv
    <3>2. CASE d = c
      <4>1. calls[o][c].status \in {"in_flight", "uncertain"}
        BY <1>1, <1>5 DEF UsageCall
      <4> QED BY <1>3, <2>3, <2>4, <3>1, <3>2, <4>1 DEF CallFacts, Claimable
    <3>3. CASE d # c
      <4>1. calls'[o][d] = calls[o][d] /\ exec'[o][d] = exec[o][d]
        BY <2>3, <2>4, <3>3
      <4> QED BY <1>3, <3>1, <4>1 DEF CallFacts, Claimable
    <3> QED BY <3>2, <3>3
  <2>9. LockFacts'
    BY <1>3 DEF IInv, LockFacts
  <2> QED BY <2>5, <2>6, <2>7, <2>8, <2>9 DEF IInv
<1> QED BY <1>4, <1>5

LEMMA SaveStageKeeps ==
  ASSUME IInv, NEW o \in Ops, NEW c \in Calls, SaveStage(o, c) PROVE IInv'
<1> DEFINE owner == Owns(o, exec[o][c].token) /\ (exec[o][c].ok \/ stage[o][c] = "in_flight")
           s == IF exec[o][c].ok THEN "completed" ELSE "rejected"
<1>1. /\ exec[o][c].phase = "recorded" /\ Execute(o, c, Idle)
      /\ UNCHANGED <<denied, receipt, calls, accounted, lock, credits, claim, sent, active>>
  BY DEF SaveStage
<1>2. Idle \in Execution /\ Idle.phase = "idle"
  BY DEF Idle, Execution
<1>3. CASE ~owner
  <2>1. UNCHANGED <<stage, op>>
    BY <1>3 DEF SaveStage
  <2> QED BY <1>1, <1>2, <2>1, ExecKeeps
<1>4. CASE owner
  <2>1. /\ op' \in [Ops -> Operation]
        /\ \A u \in Ops : /\ op'[u].status = op[u].status /\ op'[u].token = op[u].token
                          /\ op'[u].fresh = op[u].fresh
                          /\ u # o => op'[u] = op[u]
        /\ op'[o].pending = op[o].pending \ {c}
    <3>1. op[o].pending \ {c} \in SUBSET Calls
      BY OpTyped DEF IInv, Operation
    <3>2. op' = [op EXCEPT ![o].pending = op[o].pending \ {c}]
      BY <1>4 DEF SaveStage, IInv, TypeOK
    <3> QED BY <3>1, <3>2, PendingReplaced DEF IInv
  <2>2. /\ stage' \in [Ops -> [Calls -> Stages]] /\ stage'[o][c] = s
        /\ \A u \in Ops : u # o => stage'[u] = stage[u]
        /\ \A d \in Calls : d # c => stage'[o][d] = stage[o][d]
    <3>1. s \in Stages
      BY DEF Stages
    <3>2. stage' = [stage EXCEPT ![o][c] = s] /\ stage \in [Ops -> [Calls -> Stages]]
      BY <1>4 DEF SaveStage, IInv, TypeOK
    <3> HIDE DEF s
    <3> QED BY <3>1, <3>2, CallReplaced
  <2>3. /\ exec' \in [Ops -> [Calls -> Execution]] /\ exec'[o][c].phase = "idle"
        /\ \A u \in Ops : u # o => exec'[u] = exec[u]
        /\ \A d \in Calls : d # c => exec'[o][d] = exec[o][d]
    BY <1>1, <1>2, CallReplaced DEF Execute, IInv, TypeOK
  <2>4. TypeOK'
    BY <1>1, <2>1, <2>2, <2>3 DEF IInv, TypeOK
  <2>5. ASSUME NEW u \in Ops, u # o PROVE OpFacts(u)' /\ \A d \in Calls : CallFacts(u, d)'
    BY <1>1, <2>1, <2>2, <2>3, <2>5, Untouched
  <2>6. OpFacts(o)'
    BY <1>1, <2>1 DEF IInv, OpFacts, IsCourse
  <2>7. ASSUME NEW d \in Calls PROVE CallFacts(o, d)'
    <3>1. CallFacts(o, d) /\ op[o].status = "running"
      BY <1>4 DEF IInv, Owns
    <3>2. CASE d = c
      <4>1. s \notin {"none", "not_started"} /\ ~Claimable(o, c)
        BY <1>1, <3>1, <3>2 DEF CallFacts
      <4> QED BY <1>1, <2>1, <2>2, <2>3, <3>1, <3>2, <4>1 DEF CallFacts, Claimable
    <3>3. CASE d # c
      <4>1. stage'[o][d] = stage[o][d] /\ exec'[o][d] = exec[o][d] /\ (d \in op'[o].pending <=> d \in op[o].pending)
        BY <2>1, <2>2, <2>3, <3>3
      <4> QED BY <1>1, <2>1, <3>1, <4>1 DEF CallFacts, Claimable
    <3> QED BY <3>2, <3>3
  <2>8. LockFacts'
    BY <1>1, <2>1, LocksKept DEF IInv
  <2> QED BY <2>4, <2>5, <2>6, <2>7, <2>8 DEF IInv
<1> QED BY <1>3, <1>4

\* Who stops running frees its own lock, and no other attempt loses one.
LEMMA ReleaseLocks ==
  ASSUME IInv, NEW o \in Ops, ReleaseLock(o), op'[o].status # "running",
         \A u \in Ops : u # o => op'[u] = op[u]
  PROVE lock' \in [Keys -> Lock] /\ LockFacts'
<1>1. Key[o] \in Keys /\ lock \in [Keys -> Lock] /\ LockFacts
  BY KeyAssumption DEF IInv, TypeOK
<1>2. NoLock \in Lock /\ ~NoLock.live
  BY DEF NoLock, Lock
<1>3. CASE ~(lock[Key[o]].op = o /\ lock[Key[o]].token = op[o].token)
  <2>1. lock' = lock
    BY <1>3 DEF ReleaseLock
  <2>2. LockFacts'
    BY <1>1, <2>1, LocksKept
  <2> QED BY <1>1, <2>1, <2>2
<1>4. CASE lock[Key[o]].op = o /\ lock[Key[o]].token = op[o].token
  <2>1. lock' = [lock EXCEPT ![Key[o]] = NoLock]
    BY <1>4 DEF ReleaseLock
  <2>2. lock' \in [Keys -> Lock] /\ \A k \in Keys : lock'[k] = IF k = Key[o] THEN NoLock ELSE lock[k]
    BY <1>1, <1>2, <2>1
  <2>3. ASSUME NEW u \in Ops, op'[u].status = "running", op'[u].fresh
        PROVE lock'[Key[u]] = [op |-> u, token |-> op'[u].token, live |-> TRUE]
    <3>1. u # o /\ op'[u] = op[u] /\ Key[u] \in Keys
      BY <2>3, KeyAssumption
    <3>2. lock[Key[u]] = [op |-> u, token |-> op[u].token, live |-> TRUE]
      BY <1>1, <2>3, <3>1 DEF LockFacts
    <3> QED BY <1>4, <2>2, <3>1, <3>2
  <2> QED BY <2>2, <2>3 DEF LockFacts
<1> QED BY <1>3, <1>4

LEMMA PauseKeeps ==
  ASSUME IInv, NEW o \in Ops, Pause(o) PROVE IInv'
<1> DEFINE r == [op[o] EXCEPT !.status = "pending", !.fresh = TRUE]
<1>1. /\ op[o].status = "running" /\ op[o].pending = {} /\ ReleaseLock(o)
      /\ UNCHANGED <<denied, stage, receipt, calls, accounted, credits, claim, exec, sent, active>>
  BY DEF Pause, Owns
<1>2. op[o] \in Operation /\ TypeOK
  BY OpTyped DEF IInv
<1>3. r \in Operation /\ r.status = "pending" /\ r.fresh /\ r.pending = {}
  BY <1>1, <1>2 DEF Operation
<1>4. op' = [op EXCEPT ![o] = r]
  BY <1>2 DEF Pause, TypeOK
<1> HIDE DEF r
<1>5. op' \in [Ops -> Operation] /\ op'[o] = r /\ \A u \in Ops : u # o => op'[u] = op[u]
  BY <1>2, <1>3, <1>4, Replaced
<1>6. lock' \in [Keys -> Lock] /\ LockFacts'
  BY <1>1, <1>3, <1>5, ReleaseLocks
<1>7. TypeOK'
  BY <1>1, <1>5, <1>6 DEF IInv, TypeOK
<1>8. ASSUME NEW u \in Ops, u # o PROVE OpFacts(u)' /\ \A d \in Calls : CallFacts(u, d)'
  BY <1>1, <1>5, <1>8, Untouched
<1>9. OpFacts(o)'
  BY <1>1, <1>3, <1>5 DEF IInv, OpFacts, IsCourse
<1>10. ASSUME NEW d \in Calls PROVE CallFacts(o, d)'
  BY <1>1, <1>3, <1>5 DEF IInv, CallFacts, Claimable
<1> QED BY <1>6, <1>7, <1>8, <1>9, <1>10 DEF IInv

\* Every call of an operation has some share of what is left of its reserve.
LEMMA ShareType ==
  ASSUME TypeOK, NEW o \in Ops, NEW last \in Calls, With(o, "in_flight") # {}, NEW c \in Calls
  PROVE Share(o, last, c) \in Int
<1> DEFINE n == Cardinality(With(o, "in_flight"))
           left == receipt[o].remaining
<1>1. IsFiniteSet(With(o, "in_flight"))
  BY FiniteAssumption, FS_Subset DEF With
<1>2. n \in Nat /\ n # 0
  BY <1>1, FS_CardinalityType, FS_EmptySet
<1>3. left \in Nat
  BY OpTyped DEF Receipt
<1>4. Share(o, last, c) = IF c = last THEN left - (n - 1) * (left \div n) ELSE left \div n
  BY DEF Share
<1> HIDE DEF n, left
<1>5. left \div n \in Int
  BY <1>2, <1>3
<1> DEFINE part == left \div n
<1> HIDE DEF part
<1>6. left - (n - 1) * part \in Int
  <2>1. part \in Int
    BY <1>5 DEF part
  <2>2. n - 1 \in Int
    BY <1>2
  <2>3. (n - 1) * part \in Int
    BY <2>1, <2>2
  <2> QED BY <1>3, <2>3
<1> QED BY <1>4, <1>5, <1>6 DEF part

\* A closed receipt holds no reserve, and no call in flight.
LEMMA Closed ==
  ASSUME TypeOK, NEW o \in Ops, NEW last \in Calls, CloseReceipt(o, last)
  PROVE /\ receipt' \in [Ops -> Receipt] /\ receipt'[o].remaining = 0
        /\ calls' \in [Ops -> [Calls -> UsageCall]]
        /\ \A u \in Ops : u # o => receipt'[u] = receipt[u] /\ calls'[u] = calls[u]
        /\ \A c \in Calls : IF calls[o][c].status = "in_flight"
                            THEN calls'[o][c].status = "uncertain" ELSE calls'[o][c] = calls[o][c]
<1> DEFINE v == [c \in Calls |-> IF calls[o][c].status = "in_flight"
                                 THEN [status |-> "uncertain", est |-> Share(o, last, c), cost |-> 0]
                                 ELSE calls[o][c]]
           r == [receipt[o] EXCEPT !.remaining = 0, !.uncertain = receipt[o].uncertain + Unsettled(o)]
<1>1. receipt[o] \in Receipt /\ receipt[o].remaining \in Nat /\ receipt[o].uncertain \in Nat
  BY OpTyped DEF Receipt
<1>2. Unsettled(o) \in Nat
  BY <1>1 DEF Unsettled
<1>3. receipt[o].uncertain + Unsettled(o) \in Nat
  BY <1>1, <1>2
<1>4. r \in Receipt /\ r.remaining = 0
  BY <1>1, <1>3 DEF Receipt
<1>5. receipt' = [receipt EXCEPT ![o] = r]
  BY DEF CloseReceipt, TypeOK
<1>6. ASSUME NEW c \in Calls
      PROVE /\ v[c] \in UsageCall
            /\ IF calls[o][c].status = "in_flight" THEN v[c].status = "uncertain" ELSE v[c] = calls[o][c]
  <2>1. CASE calls[o][c].status = "in_flight"
    <3>1. Share(o, last, c) \in Int
      BY <2>1, ShareType DEF With
    <3> QED BY <2>1, <3>1 DEF UsageCall
  <2>2. CASE calls[o][c].status # "in_flight"
    BY <2>2, Typed
  <2> QED BY <2>1, <2>2
<1>7. calls' = [calls EXCEPT ![o] = v]
  BY DEF CloseReceipt
<1>8. v \in [Calls -> UsageCall]
  BY <1>6
<1> HIDE DEF v, r
<1>9. receipt' \in [Ops -> Receipt] /\ receipt'[o] = r /\ \A u \in Ops : u # o => receipt'[u] = receipt[u]
  BY <1>4, <1>5 DEF TypeOK
<1>10. calls' \in [Ops -> [Calls -> UsageCall]] /\ calls'[o] = v /\ \A u \in Ops : u # o => calls'[u] = calls[u]
  BY <1>7, <1>8 DEF TypeOK
<1> QED BY <1>4, <1>6, <1>9, <1>10

\* The end of an open operation; a success is confirmed by the store.
LEMMA EndKeeps ==
  ASSUME IInv, NEW o \in Ops, NEW failed \in BOOLEAN, NEW last \in Calls,
         Open(o), Settle(o, failed), CloseReceipt(o, last),
         failed \/ op[o].pending = {}, active, UNCHANGED <<denied, stage, exec, sent, active>>
  PROVE IInv'
<1> DEFINE s == IF failed THEN "failed" ELSE "completed"
           r == [op[o] EXCEPT !.status = s, !.fresh = FALSE]
<1>1. op[o] \in Operation /\ TypeOK /\ s \in {"failed", "completed"}
  BY OpTyped DEF IInv
<1>2. r \in Operation /\ r.status = s /\ ~r.fresh
  BY <1>1 DEF Operation
<1>3. op' = [op EXCEPT ![o] = r]
  BY <1>1 DEF Settle, TypeOK
<1> HIDE DEF r
<1>4. op' \in [Ops -> Operation] /\ op'[o] = r /\ \A u \in Ops : u # o => op'[u] = op[u]
  BY <1>1, <1>2, <1>3, Replaced
<1>5. /\ receipt' \in [Ops -> Receipt] /\ receipt'[o].remaining = 0
      /\ calls' \in [Ops -> [Calls -> UsageCall]]
      /\ \A u \in Ops : u # o => receipt'[u] = receipt[u] /\ calls'[u] = calls[u]
      /\ \A c \in Calls : IF calls[o][c].status = "in_flight"
                          THEN calls'[o][c].status = "uncertain" ELSE calls'[o][c] = calls[o][c]
  BY <1>1, Closed
<1>6. lock' \in [Keys -> Lock] /\ LockFacts'
  BY <1>1, <1>2, <1>4, ReleaseLocks DEF Settle
<1>7. /\ accounted' \in [Ops -> SUBSET Calls] /\ accounted'[o] = With(o, "observed")
      /\ \A u \in Ops : u # o => accounted'[u] = accounted[u]
  <2>1. With(o, "observed") \in SUBSET Calls
    BY DEF With
  <2> QED BY <1>1, <2>1 DEF Settle, TypeOK
<1>8. /\ claim' \in [Ops -> {"none", "reserved", "completed", "released"}] /\ credits' \in Nat
      /\ IF claim[o] = "reserved" THEN claim'[o] = (IF failed THEN "released" ELSE "completed")
         ELSE claim'[o] = claim[o]
      /\ \A u \in Ops : u # o => claim'[u] = claim[u]
  <2>1. SettleCredit(o, failed) /\ credits \in Nat
    BY <1>1 DEF Settle, TypeOK
  <2>2. claim \in [Ops -> {"none", "reserved", "completed", "released"}]
    BY <1>1 DEF TypeOK
  <2>3. CASE claim[o] = "reserved"
    <3> DEFINE settled == IF failed THEN "released" ELSE "completed"
    <3>1. /\ claim' = [claim EXCEPT ![o] = settled]
          /\ credits' = IF failed THEN credits + 1 ELSE credits
      BY <2>1, <2>3 DEF SettleCredit
    <3>2. settled \in {"completed", "released"}
      OBVIOUS
    <3> HIDE DEF settled
    <3>3. claim'[o] = settled /\ credits' \in Nat
      BY <2>1, <2>2, <3>1
    <3> QED BY <2>2, <2>3, <3>1, <3>2, <3>3 DEF settled
  <2>4. CASE claim[o] # "reserved"
    BY <2>1, <2>2, <2>4 DEF SettleCredit
  <2> QED BY <2>3, <2>4
<1>9. TypeOK'
  BY <1>4, <1>5, <1>6, <1>7, <1>8 DEF IInv, TypeOK
<1>10. ASSUME NEW u \in Ops, u # o PROVE OpFacts(u)' /\ \A d \in Calls : CallFacts(u, d)'
  BY <1>4, <1>5, <1>7, <1>8, <1>10, Untouched
<1>11. OpFacts(o)'
  BY <1>2, <1>4, <1>5, <1>8 DEF IInv, OpFacts, IsCourse
<1>12. ASSUME NEW c \in Calls PROVE CallFacts(o, c)'
  <2>1. CallFacts(o, c) /\ (c \in accounted'[o] <=> calls[o][c].status = "observed")
    BY <1>7 DEF IInv, With
  <2>2. IF calls[o][c].status = "in_flight"
        THEN calls'[o][c].status = "uncertain" ELSE calls'[o][c] = calls[o][c]
    BY <1>5
  <2>3. CASE failed
    BY <1>2, <1>4, <2>1, <2>2, <2>3 DEF CallFacts, Claimable
  <2>4. CASE ~failed
    BY <1>2, <1>4, <2>1, <2>2, <2>4 DEF CallFacts, Claimable
  <2> QED BY <2>3, <2>4
<1> QED BY <1>6, <1>9, <1>10, <1>11, <1>12 DEF IInv

LEMMA CompleteKeeps ==
  ASSUME IInv, NEW o \in Ops, Complete(o) PROVE IInv'
<1>1. PICK last \in Calls : CloseReceipt(o, last)
  BY DEF Complete
<1>2. /\ Settle(o, FALSE) /\ op[o].pending = {} /\ active /\ Open(o)
      /\ UNCHANGED <<denied, stage, exec, sent, active>>
  BY DEF Complete, Confirmed, Owns
<1> QED BY <1>1, <1>2, EndKeeps

LEMMA FailKeeps ==
  ASSUME IInv, NEW o \in Ops, Fail(o) PROVE IInv'
<1>1. PICK last \in Calls : CloseReceipt(o, last)
  BY DEF Fail
<1>2. Settle(o, TRUE) /\ active /\ Open(o) /\ UNCHANGED <<denied, stage, exec, sent, active>>
  BY DEF Fail, Owns
<1> QED BY <1>1, <1>2, EndKeeps

LEMMA FailReconcileKeeps ==
  ASSUME IInv, NEW o \in Ops, Reconcile(o) \/ Abandon(o) PROVE IInv'
<1>1. FailReconcile(o) /\ Open(o)
  BY DEF Reconcile, Abandon
<1>2. PICK last \in Calls : CloseReceipt(o, last)
  BY <1>1 DEF FailReconcile
<1>3. Settle(o, TRUE) /\ active /\ UNCHANGED <<denied, stage, exec, sent, active>>
  BY <1>1 DEF FailReconcile
<1> QED BY <1>1, <1>2, <1>3, EndKeeps

LEMMA AccountLateKeeps ==
  ASSUME IInv, NEW o \in Ops, AccountLate(o) PROVE IInv'
<1>1. /\ op[o].status = "failed"
      /\ UNCHANGED <<op, denied, stage, receipt, calls, lock, credits, claim, exec, sent, active>>
  BY DEF AccountLate
<1>2. accounted' \in [Ops -> SUBSET Calls] /\ \A u \in Ops : u # o => accounted'[u] = accounted[u]
  <2>1. Late(o) \in SUBSET Calls /\ accounted[o] \in SUBSET Calls
    BY DEF Late, With, IInv, TypeOK
  <2> QED BY <2>1 DEF AccountLate, IInv, TypeOK
<1>3. TypeOK'
  BY <1>1, <1>2 DEF IInv, TypeOK
<1>4. ASSUME NEW u \in Ops PROVE OpFacts(u)'
  BY <1>1 DEF IInv, OpFacts, IsCourse
<1>5. ASSUME NEW u \in Ops, NEW c \in Calls PROVE CallFacts(u, c)'
  BY <1>1, <1>2 DEF IInv, CallFacts, Claimable
<1>6. LockFacts'
  BY <1>1 DEF IInv, LockFacts
<1> QED BY <1>3, <1>4, <1>5, <1>6 DEF IInv

LEMMA ExpireKeeps ==
  ASSUME IInv, NEW o \in Ops, Expire(o) PROVE IInv'
<1> DEFINE r == [op[o] EXCEPT !.fresh = FALSE]
           l == [lock[Key[o]] EXCEPT !.live = FALSE]
<1>1. op[o].fresh /\ UNCHANGED <<denied, stage, receipt, calls, accounted, credits, claim, exec, sent, active>>
  BY DEF Expire
<1>2. TypeOK /\ LockFacts /\ op[o] \in Operation /\ lock[Key[o]] \in Lock /\ Key[o] \in Keys
  BY OpTyped DEF IInv
<1>3. r \in Operation /\ ~r.fresh /\ r.status = op[o].status /\ r.token = op[o].token /\ r.pending = op[o].pending
  BY <1>2 DEF Operation
<1>4. op' = [op EXCEPT ![o] = r]
  BY <1>2 DEF Expire, TypeOK
<1> HIDE DEF r
<1>5. op' \in [Ops -> Operation] /\ op'[o] = r /\ \A u \in Ops : u # o => op'[u] = op[u]
  BY <1>2, <1>3, <1>4, Replaced
<1>6. l \in Lock /\ ~l.live
  BY <1>2 DEF Lock
<1>7. lock' \in [Keys -> Lock] /\ LockFacts'
  <2>1. CASE op[o].status = "running" /\ lock[Key[o]].op = o
    <3>1. lock' = [lock EXCEPT ![Key[o]] = l]
      BY <1>2, <2>1 DEF Expire, TypeOK
    <3> HIDE DEF l
    <3>2. lock' \in [Keys -> Lock] /\ \A k \in Keys : lock'[k] = IF k = Key[o] THEN l ELSE lock[k]
      BY <1>2, <1>6, <3>1 DEF TypeOK
    <3>3. ASSUME NEW u \in Ops, op'[u].status = "running", op'[u].fresh
          PROVE lock'[Key[u]] = [op |-> u, token |-> op'[u].token, live |-> TRUE]
      <4>1. u # o /\ op'[u] = op[u] /\ Key[u] \in Keys
        BY <1>3, <1>5, <3>3, KeyAssumption
      <4>2. lock[Key[u]] = [op |-> u, token |-> op[u].token, live |-> TRUE]
        BY <1>2, <3>3, <4>1 DEF LockFacts
      <4> QED BY <2>1, <3>2, <4>1, <4>2
    <3> QED BY <3>2, <3>3 DEF LockFacts
  <2>2. CASE ~(op[o].status = "running" /\ lock[Key[o]].op = o)
    <3>1. lock' = lock
      BY <2>2 DEF Expire
    <3>2. LockFacts'
      BY <1>2, <1>3, <1>5, <3>1, LocksKept
    <3> QED BY <1>2, <3>1, <3>2 DEF TypeOK
  <2> QED BY <2>1, <2>2
<1>8. TypeOK'
  BY <1>1, <1>5, <1>7 DEF IInv, TypeOK
<1>9. ASSUME NEW u \in Ops, u # o PROVE OpFacts(u)' /\ \A d \in Calls : CallFacts(u, d)'
  BY <1>1, <1>5, <1>9, Untouched
<1>10. OpFacts(o)'
  BY <1>1, <1>3, <1>5 DEF IInv, OpFacts, IsCourse
<1>11. ASSUME NEW d \in Calls PROVE CallFacts(o, d)'
  BY <1>1, <1>3, <1>5 DEF IInv, CallFacts, Claimable
<1> QED BY <1>7, <1>8, <1>9, <1>10, <1>11 DEF IInv

LEMMA DeleteAccountKeeps ==
  ASSUME IInv, DeleteAccount PROVE IInv'
<1>1. /\ active' = FALSE
      /\ UNCHANGED <<op, denied, stage, receipt, calls, accounted, lock, credits, claim, exec, sent>>
  BY DEF DeleteAccount, personalVars
<1>2. TypeOK'
  BY <1>1 DEF IInv, TypeOK
<1>3. ASSUME NEW u \in Ops PROVE OpFacts(u)' /\ \A d \in Calls : CallFacts(u, d)'
  BY <1>1, Untouched
<1>4. LockFacts'
  BY <1>1 DEF IInv, LockFacts
<1> QED BY <1>2, <1>3, <1>4 DEF IInv

LEMMA AbandonUsageKeeps ==
  ASSUME IInv, NEW o \in Ops, AbandonUsage(o) PROVE IInv'
<1>1. ~active /\ UNCHANGED <<op, denied, stage, accounted, lock, credits, claim, exec, sent, active>>
  BY DEF AbandonUsage, personalVars
<1>2. PICK last \in Calls : CloseReceipt(o, last)
  BY DEF AbandonUsage
<1>3. /\ receipt' \in [Ops -> Receipt] /\ receipt'[o].remaining = 0
      /\ calls' \in [Ops -> [Calls -> UsageCall]]
      /\ \A u \in Ops : u # o => receipt'[u] = receipt[u] /\ calls'[u] = calls[u]
      /\ \A c \in Calls : IF calls[o][c].status = "in_flight"
                          THEN calls'[o][c].status = "uncertain" ELSE calls'[o][c] = calls[o][c]
  BY <1>2, Closed DEF IInv
<1>4. TypeOK'
  BY <1>1, <1>3 DEF IInv, TypeOK
<1>5. ASSUME NEW u \in Ops, u # o PROVE OpFacts(u)' /\ \A d \in Calls : CallFacts(u, d)'
  BY <1>1, <1>3, <1>5, Untouched
<1>6. OpFacts(o)'
  BY <1>1, <1>3 DEF IInv, OpFacts, IsCourse
<1>7. ASSUME NEW c \in Calls PROVE CallFacts(o, c)'
  <2>1. /\ CallFacts(o, c)
        /\ IF calls[o][c].status = "in_flight"
           THEN calls'[o][c].status = "uncertain" ELSE calls'[o][c] = calls[o][c]
    BY <1>3 DEF IInv
  <2> QED BY <1>1, <2>1 DEF CallFacts, Claimable
<1>8. LockFacts'
  BY <1>1 DEF IInv, LockFacts
<1> QED BY <1>4, <1>5, <1>6, <1>7, <1>8 DEF IInv

LEMMA RemoveRecordsKeeps ==
  ASSUME IInv, NEW o \in Ops, RemoveRecords(o) PROVE IInv'
<1> DEFINE r == [op[o] EXCEPT !.status = "removed", !.fresh = FALSE, !.pending = {}]
<1>1. /\ op[o].status # "none"
      /\ UNCHANGED <<denied, stage, receipt, calls, accounted, lock, credits, claim, exec, sent, active>>
  BY DEF RemoveRecords
<1>2. op[o] \in Operation /\ TypeOK
  BY OpTyped DEF IInv
<1>3. r \in Operation /\ r.status = "removed" /\ ~r.fresh
  BY <1>2 DEF Operation
<1>4. op' = [op EXCEPT ![o] = r]
  BY <1>2 DEF RemoveRecords, TypeOK
<1> HIDE DEF r
<1>5. op' \in [Ops -> Operation] /\ op'[o] = r /\ \A u \in Ops : u # o => op'[u] = op[u]
  BY <1>2, <1>3, <1>4, Replaced
<1>6. TypeOK'
  BY <1>1, <1>5 DEF IInv, TypeOK
<1>7. ASSUME NEW u \in Ops, u # o PROVE OpFacts(u)' /\ \A d \in Calls : CallFacts(u, d)'
  BY <1>1, <1>5, <1>7, Untouched
<1>8. OpFacts(o)'
  BY <1>1, <1>3, <1>5 DEF IInv, OpFacts, IsCourse
<1>9. ASSUME NEW d \in Calls PROVE CallFacts(o, d)'
  BY <1>1, <1>3, <1>5 DEF IInv, CallFacts, Claimable
<1>10. LockFacts'
  BY <1>1, <1>3, <1>5, LocksKept DEF IInv
<1> QED BY <1>6, <1>7, <1>8, <1>9, <1>10 DEF IInv

LEMMA InitIInv == Init => IInv
<1> SUFFICES ASSUME Init PROVE IInv
  OBVIOUS
<1>1. /\ NoCall \in UsageCall /\ NoCall.status = "none"
      /\ NoLock \in Lock /\ ~NoLock.live /\ Idle \in Execution /\ Idle.phase = "idle"
  BY DEF NoCall, UsageCall, NoLock, Lock, Idle, Execution
<1>2. "none" \in Stages /\ [remaining |-> 0, actual |-> 0, uncertain |-> 0] \in Receipt
  BY DEF Stages, Receipt
<1>3. [status |-> "none", token |-> 0, fresh |-> FALSE, pending |-> {}] \in Operation
  BY DEF Operation
<1>4. Balance \in Nat
  BY LimitsAssumption
<1>5. TypeOK
  BY <1>1, <1>2, <1>3, <1>4 DEF Init, TypeOK
<1>6. ASSUME NEW o \in Ops PROVE OpFacts(o)
  BY DEF Init, OpFacts
<1>7. ASSUME NEW o \in Ops, NEW c \in Calls PROVE CallFacts(o, c)
  BY <1>1 DEF Init, CallFacts, Claimable
<1>8. LockFacts
  BY <1>1 DEF Init, LockFacts
<1> QED BY <1>5, <1>6, <1>7, <1>8 DEF IInv

\* Every step keeps the invariant.
LEMMA NextIInv == IInv /\ [Next]_vars => IInv'
<1> SUFFICES ASSUME IInv, [Next]_vars PROVE IInv'
  OBVIOUS
<1>1. CASE DeleteAccount
  BY <1>1, DeleteAccountKeeps
<1>2. ASSUME NEW o \in Ops,
             \/ Begin(o) \/ Resume(o) \/ Deny(o)
             \/ Pause(o) \/ Complete(o) \/ Fail(o) \/ Reconcile(o) \/ Abandon(o) \/ AccountLate(o)
             \/ Expire(o) \/ AbandonUsage(o) \/ RemoveRecords(o)
      PROVE IInv'
  BY <1>2, BeginKeeps, ResumeKeeps, DenyKeeps, PauseKeeps, CompleteKeeps, FailKeeps, FailReconcileKeeps,
     AccountLateKeeps, ExpireKeeps, AbandonUsageKeeps, RemoveRecordsKeeps
<1>3. ASSUME NEW o \in Ops, NEW c \in Calls, Claim(o, c) \/ Refuse(o, c) \/ Lose(o, c) \/ Work(o, c)
      PROVE IInv'
  BY <1>3, ClaimKeeps, RefuseKeeps, LoseKeeps, RecordKeeps, SaveStageKeeps DEF Work
<1>4. ASSUME NEW o \in Ops, NEW c \in Calls, NEW ok \in BOOLEAN, NEW cost \in Costs \cup {0},
             Answer(o, c, ok, cost)
      PROVE IInv'
  BY <1>4, AnswerKeeps
<1>5. CASE UNCHANGED vars
  <2>1. UNCHANGED <<op, denied, stage, receipt, calls, accounted, lock, credits, claim, exec, sent, active>>
    BY <1>5 DEF vars
  <2>2. TypeOK'
    BY <2>1 DEF IInv, TypeOK
  <2>3. ASSUME NEW o \in Ops PROVE OpFacts(o)' /\ \A c \in Calls : CallFacts(o, c)'
    BY <2>1, Untouched
  <2>4. LockFacts'
    BY <2>1 DEF IInv, LockFacts
  <2> QED BY <2>2, <2>3, <2>4 DEF IInv
<1> QED BY <1>1, <1>2, <1>3, <1>4, <1>5 DEF Next

LEMMA IInvHolds == Spec => []IInv
BY InitIInv, NextIInv, PTL DEF Spec

\* The state has its type in every reachable state: no credit or receipt goes
\* below zero, whatever releases and late answers overlap.
THEOREM TypeCorrect == Spec => []TypeOK
<1>1. IInv => TypeOK
  BY DEF IInv
<1> QED BY <1>1, IInvHolds, PTL

\* While an attempt may write it holds the lock of its target, and no other
\* attempt with that lock may (aiUsageConflictingUntil, aiUsageReleaseLock), for
\* any number of operations, locks and attempts.
THEOREM OwnersAreAlone == Spec => []OneOwner
<1>1. IInv => OneOwner
  <2> SUFFICES ASSUME IInv, NEW o \in Ops, op[o].status = "running", op[o].fresh
               PROVE /\ lock[Key[o]] = [op |-> o, token |-> op[o].token, live |-> TRUE]
                     /\ \A u \in Ops \ {o} : op[u].status = "running" /\ op[u].fresh => Key[u] # Key[o]
    BY DEF OneOwner
  <2>1. lock[Key[o]] = [op |-> o, token |-> op[o].token, live |-> TRUE]
    BY DEF IInv, LockFacts
  <2>2. ASSUME NEW u \in Ops \ {o}, op[u].status = "running", op[u].fresh
        PROVE Key[u] # Key[o]
    <3>1. lock[Key[u]] = [op |-> u, token |-> op[u].token, live |-> TRUE]
      BY <2>2 DEF IInv, LockFacts
    <3> QED BY <2>1, <3>1
  <2> QED BY <2>1, <2>2
<1> QED BY <1>1, IInvHolds, PTL

\* A provider call is paid at most once (runGenerationProviderCall), however
\* often an operation is paused, resumed, expired or retried.
THEOREM CallsArePaidOnce == Spec => []PaidOnce
<1>1. IInv => PaidOnce
  BY DEF IInv, CallFacts, PaidOnce
<1> QED BY <1>1, IInvHolds, PTL

\* An operation that ended left nothing reserved and no cost unaccounted for
\* (finishGenerationOperation).
THEOREM BooksAreClosed == Spec => []ClosedBooks
<1>1. IInv => ClosedBooks
  BY DEF IInv, TypeOK, OpFacts, CallFacts, ClosedBooks, With
<1> QED BY <1>1, IInvHolds, PTL

\* A key is closed or admitted, never both (denyGenerationAdmission).
THEOREM KeysStayClosed == Spec => []ClosedKeysStayUnused
<1>1. IInv => ClosedKeysStayUnused
  BY DEF IInv, TypeOK, OpFacts, ClosedKeysStayUnused
<1> QED BY <1>1, IInvHolds, PTL

\* No attempt takes an operation over while a call of it runs at the provider.
THEOREM CallsKeepTheirOwner == Spec => []NoTakeoverDuringCall
<1>1. IInv => NoTakeoverDuringCall
  BY DEF IInv, CallFacts, NoTakeoverDuringCall
<1> QED BY <1>1, IInvHolds, PTL

Same(o) == /\ op'[o] = op[o] /\ stage'[o] = stage[o] /\ claim'[o] = claim[o]
           /\ receipt'[o] = receipt[o] /\ calls'[o] = calls[o]

\* A step of one operation leaves the others as they are.
LEMMA OtherOperationsSame ==
  ASSUME TypeOK, NEW o \in Ops, NEW u \in Ops, u # o,
         \/ Begin(u) \/ Resume(u) \/ Deny(u)
         \/ Pause(u) \/ Complete(u) \/ Fail(u) \/ Reconcile(u) \/ Abandon(u) \/ AccountLate(u)
         \/ Expire(u) \/ AbandonUsage(u) \/ RemoveRecords(u)
  PROVE Same(o)
<1>1. CASE Begin(u) \/ Resume(u) \/ Deny(u)
  BY <1>1 DEF Begin, Resume, Deny, Attempt, Same, TypeOK
<1>2. CASE Pause(u) \/ AccountLate(u) \/ Expire(u) \/ RemoveRecords(u)
  BY <1>2 DEF Pause, AccountLate, Expire, RemoveRecords, Same, TypeOK
<1>3. CASE Complete(u) \/ Fail(u) \/ Reconcile(u) \/ Abandon(u)
  <2>1. PICK failed \in BOOLEAN, last \in Calls : Settle(u, failed) /\ CloseReceipt(u, last) /\ stage' = stage
    BY <1>3 DEF Complete, Fail, Reconcile, Abandon, FailReconcile
  <2>2. op'[o] = op[o] /\ claim'[o] = claim[o]
    BY <2>1 DEF Settle, SettleCredit, TypeOK
  <2> QED BY <2>1, <2>2 DEF CloseReceipt, Same, TypeOK
<1>4. CASE AbandonUsage(u)
  BY <1>4 DEF AbandonUsage, personalVars, CloseReceipt, Same, TypeOK
<1> QED BY <1>1, <1>2, <1>3, <1>4

LEMMA OtherCallsSame ==
  ASSUME TypeOK, NEW o \in Ops, NEW u \in Ops, u # o, NEW c \in Calls,
         \/ Claim(u, c) \/ Refuse(u, c) \/ Lose(u, c) \/ Record(u, c) \/ SaveStage(u, c)
         \/ \E ok \in BOOLEAN, cost \in Costs \cup {0} : Answer(u, c, ok, cost)
  PROVE Same(o)
<1>1. CASE Claim(u, c) \/ Refuse(u, c) \/ SaveStage(u, c)
  BY <1>1 DEF Claim, Refuse, SaveStage, Same, TypeOK
<1>2. CASE Lose(u, c) \/ \E ok \in BOOLEAN, cost \in Costs \cup {0} : Answer(u, c, ok, cost)
  BY <1>2 DEF Lose, Answer, personalVars, Same
<1>3. CASE Record(u, c)
  BY <1>3 DEF Record, personalVars, Same, TypeOK
<1> QED BY <1>1, <1>2, <1>3

\* What was decided, saved and settled at the end of an operation stays
\* (assertOwner, finishGenerationOperation), until its account is removed.
THEOREM EndsAreFinal == Spec => EndIsFinal
<1> DEFINE Final(o) == /\ op'[o] = op[o] /\ stage'[o] = stage[o] /\ claim'[o] = claim[o]
                       /\ receipt'[o].remaining = 0
                       /\ op[o].status = "completed" => calls'[o] = calls[o] /\ receipt'[o] = receipt[o]
           Ends == \A o \in Ops : Terminal(o) /\ op'[o].status # "removed" => Final(o)
<1>1. IInv /\ [Next]_vars => [Ends]_vars
  <2> SUFFICES ASSUME IInv, Next, NEW o \in Ops, Terminal(o), op'[o].status # "removed" PROVE Final(o)
    OBVIOUS
  <2>1. TypeOK /\ OpFacts(o) /\ receipt[o].remaining = 0 /\ ~op[o].fresh /\ \A c \in Calls : CallFacts(o, c)
    BY DEF IInv, OpFacts
  <2>2. Same(o) => Final(o)
    BY <2>1 DEF Same
  <2>3. CASE DeleteAccount
    BY <2>2, <2>3 DEF DeleteAccount, personalVars, Same
  <2>4. ASSUME NEW u \in Ops,
               \/ Begin(u) \/ Resume(u) \/ Deny(u)
               \/ Pause(u) \/ Complete(u) \/ Fail(u) \/ Reconcile(u) \/ Abandon(u) \/ AccountLate(u)
               \/ Expire(u) \/ AbandonUsage(u) \/ RemoveRecords(u)
        PROVE Final(o)
    <3>1. CASE u = o
      <4>1. Deny(u) \/ AccountLate(u)
        <5>1. ~(Begin(o) \/ Resume(o) \/ Pause(o) \/ Complete(o) \/ Fail(o) \/ Expire(o))
          BY <2>1 DEF Begin, Unused, Resume, Resumable, Pause, Complete, Fail, Owns, Expire
        <5>2. ~(Reconcile(o) \/ Abandon(o) \/ AbandonUsage(o))
          BY <2>1 DEF Reconcile, Abandon, AbandonUsage, TypeOK
        <5>3. ASSUME RemoveRecords(o) PROVE op'[o].status = "removed"
          <6>1. op[o] \in Operation /\ op \in [Ops -> Operation]
            BY <2>1 DEF TypeOK
          <6> QED BY <5>3, <6>1 DEF RemoveRecords, Operation
        <5> QED BY <2>4, <3>1, <5>1, <5>2, <5>3
      <4> QED BY <2>2, <4>1 DEF Deny, AccountLate, Same
    <3>2. CASE u # o
      BY <2>1, <2>2, <2>4, <3>2, OtherOperationsSame
    <3> QED BY <3>1, <3>2
  <2>5. ASSUME NEW u \in Ops, NEW c \in Calls,
               \/ Claim(u, c) \/ Refuse(u, c) \/ Lose(u, c) \/ Record(u, c) \/ SaveStage(u, c)
               \/ \E ok \in BOOLEAN, cost \in Costs \cup {0} : Answer(u, c, ok, cost)
        PROVE Final(o)
    <3>1. CASE u # o
      BY <2>1, <2>2, <2>5, <3>1, OtherCallsSame
    <3>2. CASE u = o /\ Record(u, c)
      <4>1. CASE calls[o][c].status \in {"none", "observed"}
        BY <2>2, <3>2, <4>1 DEF Record, personalVars, Same
      <4>2. CASE calls[o][c].status \notin {"none", "observed"}
        <5>1. calls[o][c].status = "uncertain" /\ op[o].status = "failed"
          BY <2>1, <4>2, Typed DEF CallFacts, UsageCall
        <5>2. exec[o][c].cost \in Nat /\ receipt[o] \in Receipt
          BY <2>1, Typed DEF Execution
        <5>3. receipt'[o].remaining = 0
          BY <2>1, <3>2, <4>2, <5>2 DEF Record, Least, TypeOK
        <5> QED BY <3>2, <5>1, <5>3 DEF Record, personalVars
      <4> QED BY <4>1, <4>2
    <3>3. CASE u = o /\ ~Record(u, c)
      <4>1. ~(Claim(o, c) \/ Refuse(o, c))
        BY DEF Claim, Refuse, Owns
      <4>2. CASE SaveStage(o, c)
        BY <2>2, <4>2 DEF SaveStage, Owns, Same
      <4>3. CASE Lose(o, c) \/ \E ok \in BOOLEAN, cost \in Costs \cup {0} : Answer(o, c, ok, cost)
        BY <2>2, <4>3 DEF Lose, Answer, personalVars, Same
      <4> QED BY <2>5, <3>3, <4>1, <4>2, <4>3
    <3> QED BY <3>1, <3>2, <3>3
  <2> QED BY <2>3, <2>4, <2>5 DEF Next, Work
<1> QED BY <1>1, IInvHolds, PTL DEF Spec, EndIsFinal

\* The credits that left the balance.
Held == {o \in Ops : claim[o] \in {"reserved", "completed"}}
CreditsBalance == credits + Cardinality(Held) = Balance

LEMMA HeldFinite == IsFiniteSet(Held) /\ Cardinality(Held) \in Nat
BY FiniteAssumption, FS_Subset, FS_CardinalityType DEF Held

\* The end of an operation redeems its credit or gives it back.
LEMMA SettleBalance ==
  ASSUME TypeOK, CreditsBalance, NEW o \in Ops, NEW failed \in BOOLEAN, SettleCredit(o, failed)
  PROVE CreditsBalance'
<1>1. credits \in Nat /\ claim \in [Ops -> {"none", "reserved", "completed", "released"}]
  BY DEF TypeOK
<1>2. CASE claim[o] # "reserved"
  BY <1>2 DEF SettleCredit, CreditsBalance, Held
<1>3. CASE claim[o] = "reserved" /\ failed
  <2>1. claim' = [claim EXCEPT ![o] = "released"] /\ credits' = credits + 1
    BY <1>3 DEF SettleCredit
  <2>2. Held' = Held \ {o} /\ o \in Held
    BY <1>1, <1>3, <2>1 DEF Held
  <2>3. Cardinality(Held') = Cardinality(Held) - 1
    BY <2>2, HeldFinite, FS_RemoveElement
  <2> QED BY <1>1, <2>1, <2>3, HeldFinite DEF CreditsBalance
<1>4. CASE claim[o] = "reserved" /\ ~failed
  <2>1. claim' = [claim EXCEPT ![o] = "completed"] /\ credits' = credits
    BY <1>4 DEF SettleCredit
  <2>2. Held' = Held
    BY <1>1, <1>4, <2>1 DEF Held
  <2> QED BY <2>1, <2>2 DEF CreditsBalance
<1> QED BY <1>2, <1>3, <1>4

LEMMA BalanceKept == IInv /\ CreditsBalance /\ [Next]_vars => CreditsBalance'
<1> SUFFICES ASSUME IInv, CreditsBalance, [Next]_vars PROVE CreditsBalance'
  OBVIOUS
<1>1. TypeOK
  BY DEF IInv
<1>2. ASSUME UNCHANGED <<credits, claim>> PROVE CreditsBalance'
  BY <1>2 DEF CreditsBalance, Held
<1>3. CASE DeleteAccount \/ UNCHANGED vars
  BY <1>2, <1>3 DEF DeleteAccount, personalVars, vars
<1>4. ASSUME NEW o \in Ops, Begin(o) PROVE CreditsBalance'
  <2>1. CASE IsCourse(o)
    <3>1. claim' = [claim EXCEPT ![o] = "reserved"] /\ credits' = credits - 1 /\ credits \in Nat
      BY <1>1, <1>4, <2>1 DEF Begin, TypeOK
    <3>2. claim[o] = "none" /\ claim \in [Ops -> {"none", "reserved", "completed", "released"}]
      BY <1>1, <1>4 DEF IInv, OpFacts, Begin, Unused, TypeOK
    <3>3. Held' = Held \cup {o} /\ o \notin Held
      BY <3>1, <3>2 DEF Held
    <3>4. Cardinality(Held') = Cardinality(Held) + 1
      BY <3>3, HeldFinite, FS_AddElement
    <3> QED BY <3>1, <3>4, HeldFinite DEF CreditsBalance
  <2>2. CASE ~IsCourse(o)
    BY <1>2, <1>4, <2>2 DEF Begin
  <2> QED BY <2>1, <2>2
<1>5. ASSUME NEW o \in Ops, Complete(o) \/ Fail(o) \/ Reconcile(o) \/ Abandon(o) PROVE CreditsBalance'
  <2>1. \E failed \in BOOLEAN : SettleCredit(o, failed)
    BY <1>5 DEF Complete, Fail, Reconcile, Abandon, FailReconcile, Settle
  <2> QED BY <1>1, <2>1, SettleBalance
<1>6. ASSUME NEW o \in Ops,
             Resume(o) \/ Deny(o) \/ Pause(o) \/ AccountLate(o) \/ Expire(o) \/ AbandonUsage(o) \/ RemoveRecords(o)
      PROVE CreditsBalance'
  BY <1>2, <1>6 DEF Resume, Deny, Pause, AccountLate, Expire, AbandonUsage, RemoveRecords, personalVars
<1>7. ASSUME NEW o \in Ops, NEW c \in Calls,
             \/ Claim(o, c) \/ Refuse(o, c) \/ Lose(o, c) \/ Record(o, c) \/ SaveStage(o, c)
             \/ \E ok \in BOOLEAN, cost \in Costs \cup {0} : Answer(o, c, ok, cost)
      PROVE CreditsBalance'
  BY <1>2, <1>7 DEF Claim, Refuse, Lose, Record, SaveStage, Answer, personalVars
<1> QED BY <1>3, <1>4, <1>5, <1>6, <1>7 DEF Next, Work

\* No course credit is lost or given twice (generationCreditReservationWrites,
\* generationCreditSettlementWrites), for any number of courses and failures.
THEOREM CreditsAreConserved == Spec => []CreditsConserved
<1>1. Init => CreditsBalance
  <2> SUFFICES ASSUME Init PROVE CreditsBalance
    OBVIOUS
  <2>1. Held = {}
    BY DEF Init, Held
  <2> QED BY <2>1, FS_EmptySet, LimitsAssumption DEF Init, CreditsBalance
<1>2. IInv /\ CreditsBalance => CreditsConserved
  BY DEF IInv, OpFacts, CreditsBalance, Held, CreditsConserved
<1> QED BY <1>1, <1>2, IInvHolds, BalanceKept, PTL DEF Spec

-----------------------------------------------------------------------------
(* Sums over a finite set. *)

\* Every set of numbers that has a member has a least one: what a proof by
\* induction needs, said of sets.
LEMMA NatLeast ==
  ASSUME NEW B \in SUBSET Nat, NEW k \in B
  PROVE  \E m \in B : \A n \in B : m <= n
<1> DEFINE R == OpToRel(<, Nat)
<1>1. IsWellFoundedOn(R, Nat)
  BY NatLessThanWellFounded
<1>2. \A x, y \in Nat : <<x, y>> \in R <=> x < y
  BY DEF OpToRel
<1> HIDE DEF R
<1>3. \E m \in B : \A n \in B : ~(<<n, m>> \in R)
  BY <1>1, WFMin
<1>4. PICK m \in B : \A n \in B : ~(<<n, m>> \in R)
  BY <1>3
<1>5. ASSUME NEW n \in B PROVE m <= n
  <2>1. m \in Nat /\ n \in Nat /\ ~(n < m)
    BY <1>2, <1>4
  <2> QED BY <2>1
<1> QED BY <1>5

\* Of the subsets of a finite set with some property one is minimal: no
\* subset of it that lacks an element has the property.
LEMMA SmallestSubset ==
  ASSUME NEW S, IsFiniteSet(S), NEW B \in SUBSET SUBSET S, NEW K \in B
  PROVE  \E M \in B : \A x \in M : M \ {x} \notin B
<1> DEFINE Sizes == {Cardinality(T) : T \in B}
<1>1. \A T \in SUBSET S : IsFiniteSet(T) /\ Cardinality(T) \in Nat
  BY FS_Subset, FS_CardinalityType
<1>2. Sizes \in SUBSET Nat /\ Cardinality(K) \in Sizes
  BY <1>1
<1>3. \E c \in Sizes : \A d \in Sizes : c <= d
  BY <1>2, NatLeast
<1>4. PICK M \in B : \A T \in B : Cardinality(M) <= Cardinality(T)
  BY <1>3
<1>5. ASSUME NEW x \in M, M \ {x} \in B PROVE FALSE
  <2>1. Cardinality(M \ {x}) = Cardinality(M) - 1
    BY <1>1, FS_RemoveElement
  <2>2. Cardinality(M) <= Cardinality(M \ {x})
    BY <1>4, <1>5
  <2> QED BY <1>1, <2>1, <2>2
<1> QED BY <1>5

Pick(T) == CHOOSE x \in T : TRUE

\* The function SumFunctionOnSet recurses through.
Partial(f, S) == CHOOSE g : g = [T \in SUBSET S |-> IF T = {} THEN 0 ELSE f[Pick(T)] + g[T \ {Pick(T)}]]

LEMMA SumIsPartial == ASSUME NEW f, NEW S PROVE SumFunctionOnSet(f, S) = Partial(f, S)[S]
BY Zenon DEF SumFunctionOnSet, FoldFunctionOnSet, MapThenFoldSet, Partial, Pick

LEMMA PickIn == ASSUME NEW T, T # {} PROVE Pick(T) \in T
BY DEF Pick

\* There is such a function.
LEMMA PartialStep ==
  ASSUME NEW f, NEW S, IsFiniteSet(S)
  PROVE  \A T \in SUBSET S :
           Partial(f, S)[T] = IF T = {} THEN 0 ELSE f[Pick(T)] + Partial(f, S)[T \ {Pick(T)}]
<1> DEFINE Rest(g, T) == IF T = {} THEN 0 ELSE f[Pick(T)] + g[T \ {Pick(T)}]
           Good(g, n) == \A T \in SUBSET S : Cardinality(T) <= n => g[T] = Rest(g, T)
           Bad == {n \in Nat : ~ \E g : g = [T \in SUBSET S |-> g[T]] /\ Good(g, n)}
<1>1. \A T \in SUBSET S : /\ IsFiniteSet(T) /\ Cardinality(T) \in Nat
                          /\ T # {} => /\ T \ {Pick(T)} \in SUBSET S
                                       /\ Cardinality(T \ {Pick(T)}) = Cardinality(T) - 1
                          /\ Cardinality(T) = 0 => T = {}
                          /\ Cardinality(T) <= Cardinality(S)
  BY FS_Subset, FS_CardinalityType, FS_RemoveElement, FS_EmptySet, PickIn
<1>2. 0 \notin Bad
  <2> DEFINE z == [T \in SUBSET S |-> 0]
  <2>1. \A T \in SUBSET S : Cardinality(T) <= 0 => T = {}
    <3>1. \A T \in SUBSET S : Cardinality(T) \in Nat /\ (Cardinality(T) = 0 => T = {})
      BY <1>1
    <3> QED BY <3>1
  <2>2. z = [T \in SUBSET S |-> z[T]]
    OBVIOUS
  <2>3. Good(z, 0)
    BY <2>1
  <2> HIDE DEF z, Good
  <2> QED BY <2>2, <2>3
<1>3. ASSUME NEW n \in Nat, n \notin Bad PROVE n + 1 \notin Bad
  <2>1. PICK g : g = [T \in SUBSET S |-> g[T]] /\ Good(g, n)
    BY <1>3
  <2> DEFINE h == [T \in SUBSET S |-> Rest(g, T)]
  <2>2. h = [T \in SUBSET S |-> h[T]]
    OBVIOUS
  <2>3. \A T \in SUBSET S : Cardinality(T) <= n => h[T] = g[T]
    BY <2>1
  <2>4. ASSUME NEW T \in SUBSET S, Cardinality(T) <= n + 1 PROVE h[T] = Rest(h, T)
    <3>1. CASE T = {}
      BY <3>1
    <3>2. CASE T # {}
      <4> DEFINE U == T \ {Pick(T)}
      <4>1. U \in SUBSET S /\ Cardinality(U) <= n
        BY <1>1, <1>3, <2>4, <3>2
      <4>2. h[U] = g[U]
        BY <2>3, <4>1
      <4>3. h[T] = f[Pick(T)] + g[U]
        BY <3>2
      <4> QED BY <3>2, <4>2, <4>3
    <3> QED BY <3>1, <3>2
  <2>5. Good(h, n + 1)
    BY <2>4
  <2> HIDE DEF h, Good
  <2> QED BY <2>2, <2>5
<1>4. Bad = {}
  <2> HIDE DEF Bad
  <2>0. Bad \subseteq Nat
    BY DEF Bad
  <2> SUFFICES ASSUME NEW k \in Bad PROVE FALSE
    OBVIOUS
  <2>1. PICK m \in Bad : \A n \in Bad : m <= n
    BY <2>0, NatLeast
  <2>2. m \in Nat /\ m # 0
    BY <2>0, <2>1, <1>2
  <2>3. m - 1 \in Nat /\ m - 1 \notin Bad /\ (m - 1) + 1 = m
    BY <2>0, <2>1, <2>2
  <2> QED BY <1>3, <2>1, <2>3
<1>5. PICK g : g = [T \in SUBSET S |-> g[T]] /\ Good(g, Cardinality(S))
  BY <1>1, <1>4
<1>6. \A T \in SUBSET S : g[T] = Rest(g, T)
  BY <1>1, <1>5
<1>7. [T \in SUBSET S |-> g[T]] = [T \in SUBSET S |-> Rest(g, T)]
  BY <1>6
<1>8. g = [T \in SUBSET S |-> Rest(g, T)]
  BY <1>5, <1>7
<1>9. \E h : h = [T \in SUBSET S |-> IF T = {} THEN 0 ELSE f[Pick(T)] + h[T \ {Pick(T)}]]
  BY <1>8
<1>10. Partial(f, S) = [T \in SUBSET S |-> IF T = {} THEN 0 ELSE f[Pick(T)] + Partial(f, S)[T \ {Pick(T)}]]
  BY <1>9 DEF Partial
<1> HIDE DEF Rest, Good, Bad
<1> QED BY <1>10

\* Two functions that agree on a set have the same sum over it, and what is
\* summed over a subset does not depend on the set it is a subset of.
LEMMA PartialSame ==
  ASSUME NEW S, IsFiniteSet(S), NEW R, IsFiniteSet(R), NEW T, T \subseteq S, T \subseteq R,
         NEW f, NEW g, \A x \in T : f[x] = g[x]
  PROVE  Partial(f, S)[T] = Partial(g, R)[T]
<1> DEFINE Bad == {U \in SUBSET T : Partial(f, S)[U] # Partial(g, R)[U]}
<1>1. IsFiniteSet(T)
  BY FS_Subset
<1>2. ASSUME NEW U \in SUBSET T, U # {}, U \ {Pick(U)} \notin Bad PROVE U \notin Bad
  <2> DEFINE p == Pick(U)
  <2>0. p \in U
    BY <1>2, PickIn
  <2>1. f[p] = g[p] /\ U \ {p} \in SUBSET T /\ U \in SUBSET S /\ U \in SUBSET R
    BY <2>0
  <2>2. Partial(f, S)[U \ {p}] = Partial(g, R)[U \ {p}]
    BY <1>2, <2>1
  <2>3. Partial(f, S)[U] = f[p] + Partial(f, S)[U \ {p}]
    BY <1>2, <2>1, PartialStep
  <2>4. Partial(g, R)[U] = g[p] + Partial(g, R)[U \ {p}]
    BY <1>2, <2>1, PartialStep
  <2> QED BY <2>1, <2>2, <2>3, <2>4
<1>3. {} \notin Bad
  BY PartialStep
<1>4. T \notin Bad
  <2> HIDE DEF Bad
  <2>0. Bad \in SUBSET SUBSET T
    BY DEF Bad
  <2> SUFFICES ASSUME T \in Bad PROVE FALSE
    OBVIOUS
  <2>1. PICK M \in Bad : \A x \in M : M \ {x} \notin Bad
    BY <1>1, <2>0, SmallestSubset
  <2>2. M # {} /\ M \in SUBSET T
    BY <1>3, <2>0, <2>1
  <2> QED BY <1>2, <2>1, <2>2, PickIn
<1> QED BY <1>4

LEMMA SumSame ==
  ASSUME NEW S, IsFiniteSet(S), NEW f, NEW g, \A x \in S : f[x] = g[x]
  PROVE  SumFunctionOnSet(f, S) = SumFunctionOnSet(g, S)
BY SumIsPartial, PartialSame

LEMMA SumEmpty ==
  ASSUME NEW f PROVE SumFunctionOnSet(f, {}) = 0
BY SumIsPartial, PartialStep, FS_EmptySet

LEMMA SumPick ==
  ASSUME NEW S, IsFiniteSet(S), S # {}, NEW f
  PROVE  /\ Pick(S) \in S
         /\ SumFunctionOnSet(f, S) = f[Pick(S)] + SumFunctionOnSet(f, S \ {Pick(S)})
<1> DEFINE p == Pick(S)
<1>1. p \in S /\ IsFiniteSet(S \ {p}) /\ S \ {p} \subseteq S
  BY PickIn, FS_RemoveElement
<1>2. Partial(f, S)[S] = f[p] + Partial(f, S)[S \ {p}]
  BY PartialStep
<1>3. Partial(f, S)[S \ {p}] = Partial(f, S \ {p})[S \ {p}]
  BY <1>1, PartialSame
<1> QED BY <1>1, <1>2, <1>3, SumIsPartial

LEMMA SumType ==
  ASSUME NEW S, IsFiniteSet(S), NEW f, \A x \in S : f[x] \in Nat
  PROVE  SumFunctionOnSet(f, S) \in Nat
<1> DEFINE Bad == {U \in SUBSET S : SumFunctionOnSet(f, U) \notin Nat}
<1>1. ASSUME NEW U \in SUBSET S, \A x \in U : U \ {x} \notin Bad PROVE U \notin Bad
  <2>1. CASE U = {}
    BY <2>1, SumEmpty
  <2>2. CASE U # {}
    <3> DEFINE p == Pick(U)
    <3>1. p \in U /\ SumFunctionOnSet(f, U) = f[p] + SumFunctionOnSet(f, U \ {p})
      BY <2>2, SumPick, FS_Subset
    <3>2. f[p] \in Nat /\ SumFunctionOnSet(f, U \ {p}) \in Nat
      BY <1>1, <3>1
    <3> QED BY <3>1, <3>2
  <2> QED BY <2>1, <2>2
<1> HIDE DEF Bad
<1>2. Bad \in SUBSET SUBSET S
  BY DEF Bad
<1>3. S \notin Bad
  BY <1>1, <1>2, SmallestSubset
<1> QED BY <1>3 DEF Bad

\* Any member of the set can be taken out first.
LEMMA SumRemove ==
  ASSUME NEW S, IsFiniteSet(S), NEW f, \A x \in S : f[x] \in Nat, NEW x \in S
  PROVE  SumFunctionOnSet(f, S) = f[x] + SumFunctionOnSet(f, S \ {x})
<1> DEFINE Sum(T) == SumFunctionOnSet(f, T)
           Bad == {U \in SUBSET S : \E y \in U : Sum(U) # f[y] + Sum(U \ {y})}
<1>1. \A U \in SUBSET S : IsFiniteSet(U) /\ Sum(U) \in Nat
  BY FS_Subset, SumType
<1>2. ASSUME NEW U \in SUBSET S, \A y \in U : U \ {y} \notin Bad PROVE U \notin Bad
  <2> SUFFICES ASSUME NEW y \in U PROVE Sum(U) = f[y] + Sum(U \ {y})
    OBVIOUS
  <2> DEFINE p == Pick(U)
  <2>1. p \in U /\ Sum(U) = f[p] + Sum(U \ {p})
    BY <1>1, SumPick
  <2>2. CASE p = y
    BY <2>1, <2>2
  <2>3. CASE p # y
    <3>1. y \in U \ {p} /\ p \in U \ {y} /\ U \ {p} \in SUBSET S /\ U \ {y} \in SUBSET S
      BY <2>1, <2>3
    <3>2. Sum(U \ {p}) = f[y] + Sum((U \ {p}) \ {y})
      BY <1>2, <2>1, <3>1
    <3>3. Sum(U \ {y}) = f[p] + Sum((U \ {y}) \ {p})
      BY <1>2, <2>1, <3>1
    <3>4. (U \ {p}) \ {y} = (U \ {y}) \ {p} /\ (U \ {y}) \ {p} \in SUBSET S
      OBVIOUS
    <3>5. f[p] \in Nat /\ f[y] \in Nat /\ Sum((U \ {y}) \ {p}) \in Nat
      BY <1>1, <2>1, <3>4
    <3>6. Sum(U) = f[p] + (f[y] + Sum((U \ {y}) \ {p}))
      BY <2>1, <3>2, <3>4
    <3>7. f[y] + Sum(U \ {y}) = f[y] + (f[p] + Sum((U \ {y}) \ {p}))
      BY <3>3
    <3> HIDE DEF Sum, p
    <3> QED BY <3>5, <3>6, <3>7
  <2> QED BY <2>2, <2>3
<1> HIDE DEF Bad
<1>3. Bad \in SUBSET SUBSET S
  BY DEF Bad
<1>4. S \notin Bad
  BY <1>2, <1>3, SmallestSubset
<1> QED BY <1>4 DEF Bad

LEMMA SumChanged ==
  ASSUME NEW S, IsFiniteSet(S), NEW x \in S, NEW f, NEW g, \A y \in S : f[y] \in Nat /\ g[y] \in Nat,
         \A y \in S : y # x => f[y] = g[y]
  PROVE  SumFunctionOnSet(g, S) = SumFunctionOnSet(f, S) - f[x] + g[x]
<1>1. IsFiniteSet(S \ {x})
  BY FS_RemoveElement
<1>2. SumFunctionOnSet(f, S \ {x}) \in Nat
  BY <1>1, SumType
<1>3. SumFunctionOnSet(g, S \ {x}) = SumFunctionOnSet(f, S \ {x})
  BY <1>1, SumSame
<1>4. /\ SumFunctionOnSet(f, S) = f[x] + SumFunctionOnSet(f, S \ {x})
      /\ SumFunctionOnSet(g, S) = g[x] + SumFunctionOnSet(g, S \ {x})
  BY SumRemove
<1>5. f[x] \in Nat /\ g[x] \in Nat
  OBVIOUS
<1> QED BY <1>2, <1>3, <1>4, <1>5

LEMMA SumAtLeast ==
  ASSUME NEW S, IsFiniteSet(S), NEW x \in S, NEW f, \A y \in S : f[y] \in Nat
  PROVE  f[x] <= SumFunctionOnSet(f, S)
<1>1. SumFunctionOnSet(f, S \ {x}) \in Nat
  BY SumType, FS_RemoveElement
<1>2. SumFunctionOnSet(f, S) = f[x] + SumFunctionOnSet(f, S \ {x}) /\ f[x] \in Nat
  BY SumRemove
<1> QED BY <1>1, <1>2

LEMMA SumZero ==
  ASSUME NEW S, IsFiniteSet(S), NEW f, \A y \in S : f[y] = 0
  PROVE  SumFunctionOnSet(f, S) = 0
<1> DEFINE Bad == {U \in SUBSET S : SumFunctionOnSet(f, U) # 0}
<1>1. ASSUME NEW U \in SUBSET S, \A x \in U : U \ {x} \notin Bad PROVE U \notin Bad
  <2>1. CASE U = {}
    BY <2>1, SumEmpty
  <2>2. CASE U # {}
    <3> DEFINE p == Pick(U)
    <3>1. p \in U /\ SumFunctionOnSet(f, U) = f[p] + SumFunctionOnSet(f, U \ {p})
      BY <2>2, SumPick, FS_Subset
    <3>2. f[p] = 0 /\ SumFunctionOnSet(f, U \ {p}) = 0
      BY <1>1, <3>1
    <3> QED BY <3>1, <3>2
  <2> QED BY <2>1, <2>2
<1> HIDE DEF Bad
<1>2. Bad \in SUBSET SUBSET S
  BY DEF Bad
<1>3. S \notin Bad
  BY <1>1, <1>2, SmallestSubset
<1> QED BY <1>3 DEF Bad

(* Counting the places where a function has a value. *)

Count(f, S, v) == Cardinality({y \in S : f[y] = v})
One(u, v) == IF u = v THEN 1 ELSE 0

LEMMA CountChanged ==
  ASSUME NEW S, IsFiniteSet(S), NEW x \in S, NEW f, NEW g, \A y \in S : y # x => f[y] = g[y], NEW v
  PROVE  /\ Count(f, S, v) \in Nat
         /\ Count(g, S, v) = Count(f, S, v) - One(f[x], v) + One(g[x], v)
<1> DEFINE F == {y \in S : f[y] = v}
           G == {y \in S : g[y] = v}
<1>1. IsFiniteSet(F) /\ IsFiniteSet(G) /\ Cardinality(F) \in Nat /\ Cardinality(G) \in Nat
  BY FS_Subset, FS_CardinalityType
<1>2. /\ Cardinality(F \ {x}) = IF f[x] = v THEN Cardinality(F) - 1 ELSE Cardinality(F)
      /\ Cardinality(G \ {x}) = IF g[x] = v THEN Cardinality(G) - 1 ELSE Cardinality(G)
      /\ Cardinality(F \ {x}) \in Nat
  BY <1>1, FS_RemoveElement, FS_CardinalityType
<1>3. F \ {x} = G \ {x}
  OBVIOUS
<1>4. Cardinality(G) = Cardinality(F) - One(f[x], v) + One(g[x], v)
  <2> DEFINE c == Cardinality(F \ {x})
  <2>0. c = Cardinality(G \ {x})
    BY <1>3
  <2> HIDE DEF c, F, G
  <2>1. Cardinality(F) = c + One(f[x], v)
    BY <1>1, <1>2 DEF One, c
  <2>2. Cardinality(G) = c + One(g[x], v)
    BY <1>1, <1>2, <2>0 DEF One
  <2>3. c \in Nat /\ One(f[x], v) \in Int /\ One(g[x], v) \in Int
    BY <1>2 DEF One, c
  <2> QED BY <2>1, <2>2, <2>3
<1> QED BY <1>1, <1>4 DEF F, G, Count

LEMMA CountSome ==
  ASSUME NEW S, IsFiniteSet(S), NEW x \in S, NEW f
  PROVE  Count(f, S, f[x]) \in Nat /\ Count(f, S, f[x]) >= 1
<1> DEFINE F == {y \in S : f[y] = f[x]}
<1>1. IsFiniteSet(F) /\ Cardinality(F) \in Nat /\ F # {}
  BY FS_Subset, FS_CardinalityType
<1>2. Cardinality(F) # 0
  BY <1>1, FS_EmptySet
<1> QED BY <1>1, <1>2 DEF Count

\* The sum over two sets that have nothing in common.
LEMMA SumUnion ==
  ASSUME NEW A, IsFiniteSet(A), NEW B, IsFiniteSet(B), A \cap B = {}, NEW f, \A x \in A \cup B : f[x] \in Nat
  PROVE  SumFunctionOnSet(f, A \cup B) = SumFunctionOnSet(f, A) + SumFunctionOnSet(f, B)
<1> DEFINE Sum(T) == SumFunctionOnSet(f, T)
           Bad == {U \in SUBSET B : Sum(A \cup U) # Sum(A) + Sum(U)}
<1>1. ASSUME NEW U \in SUBSET B, \A y \in U : U \ {y} \notin Bad PROVE U \notin Bad
  <2>0. IsFiniteSet(U) /\ IsFiniteSet(A \cup U) /\ Sum(A) \in Nat /\ A \cup U \subseteq A \cup B
    <3>1. IsFiniteSet(U) /\ A \cup U \subseteq A \cup B
      BY FS_Subset
    <3>2. IsFiniteSet(A \cup U)
      BY <3>1, FS_Union
    <3>3. Sum(A) \in Nat
      BY SumType
    <3> QED BY <3>1, <3>2, <3>3
  <2>1. CASE U = {}
    <3>1. A \cup U = A
      BY <2>1
    <3>2. Sum(U) = 0
      BY <2>1, SumEmpty
    <3>3. Sum(A \cup U) = Sum(A)
      BY <3>1
    <3> HIDE DEF Sum
    <3>4. Sum(A \cup U) = Sum(A) + Sum(U)
      BY <2>0, <3>2, <3>3
    <3> QED BY <3>4
  <2>2. CASE U # {}
    <3>1. PICK x \in U : TRUE
      BY <2>2
    <3>2. (A \cup U) \ {x} = A \cup (U \ {x}) /\ x \in A \cup U
      BY <3>1
    <3>3. Sum(A \cup U) = f[x] + Sum(A \cup (U \ {x}))
      <4>1. \A y \in A \cup U : f[y] \in Nat
        BY <2>0
      <4>2. Sum(A \cup U) = f[x] + Sum((A \cup U) \ {x})
        BY <2>0, <3>2, <4>1, SumRemove
      <4> QED BY <3>2, <4>2
    <3>4. Sum(U) = f[x] + Sum(U \ {x})
      <4>1. \A y \in U : f[y] \in Nat
        OBVIOUS
      <4> QED BY <2>0, <3>1, <4>1, SumRemove
    <3>5. Sum(A \cup (U \ {x})) = Sum(A) + Sum(U \ {x})
      BY <1>1, <3>1
    <3>6. f[x] \in Nat /\ Sum(U \ {x}) \in Nat
      <4>1. IsFiniteSet(U \ {x}) /\ \A y \in U \ {x} : f[y] \in Nat
        BY <2>0, FS_RemoveElement
      <4> QED BY <3>1, <4>1, SumType
    <3> HIDE DEF Sum
    <3> QED BY <2>0, <3>3, <3>4, <3>5, <3>6
  <2> QED BY <2>1, <2>2
<1> HIDE DEF Bad
<1>2. Bad \in SUBSET SUBSET B
  BY DEF Bad
<1>3. B \notin Bad
  BY <1>1, <1>2, SmallestSubset
<1> QED BY <1>3 DEF Bad

LEMMA Times ==
  ASSUME NEW r \in Nat, NEW c \in Nat, NEW i \in {0, 1}, NEW j \in {0, 1}
  PROVE  r * (c - i + j) = r * c - r * i + r * j
OBVIOUS

LEMMA OneMore == ASSUME NEW n \in Nat, NEW p \in Nat PROVE n * p = p + (n - 1) * p
OBVIOUS

\* The sum of as many equal numbers.
LEMMA SumEqual ==
  ASSUME NEW S, IsFiniteSet(S), NEW f, NEW p \in Nat, \A x \in S : f[x] = p
  PROVE  SumFunctionOnSet(f, S) = Cardinality(S) * p
<1> DEFINE Bad == {U \in SUBSET S : SumFunctionOnSet(f, U) # Cardinality(U) * p}
<1>1. ASSUME NEW U \in SUBSET S, \A x \in U : U \ {x} \notin Bad PROVE U \notin Bad
  <2>1. CASE U = {}
    BY <2>1, SumEmpty, FS_EmptySet
  <2>2. CASE U # {}
    <3> DEFINE x == Pick(U)
    <3>1. x \in U /\ SumFunctionOnSet(f, U) = f[x] + SumFunctionOnSet(f, U \ {x})
      BY <2>2, SumPick, FS_Subset
    <3>2. SumFunctionOnSet(f, U \ {x}) = Cardinality(U \ {x}) * p
      BY <1>1, <3>1
    <3>3. Cardinality(U \ {x}) = Cardinality(U) - 1 /\ Cardinality(U) \in Nat
      BY <3>1, FS_Subset, FS_RemoveElement, FS_CardinalityType
    <3>4. SumFunctionOnSet(f, U) = p + (Cardinality(U) - 1) * p
      BY <3>1, <3>2, <3>3
    <3> QED BY <3>3, <3>4, OneMore
  <2> QED BY <2>1, <2>2
<1> HIDE DEF Bad
<1>2. Bad \in SUBSET SUBSET S
  BY DEF Bad
<1>3. S \notin Bad
  BY <1>1, <1>2, SmallestSubset
<1> QED BY <1>3 DEF Bad

\* What a division shares out is not more than there is.
LEMMA Division ==
  ASSUME NEW r \in Nat, NEW n \in Nat, n # 0
  PROVE  r \div n \in Nat /\ n * (r \div n) <= r /\ (n - 1) * (r \div n) <= r /\ (n - 1) * (r \div n) \in Nat
<1>1. r \div n \in Nat /\ n * (r \div n) <= r
  OBVIOUS
<1> DEFINE p == r \div n
<1>2. p \in Nat /\ n * p <= r
  BY <1>1
<1> HIDE DEF p
<1>3. (n - 1) * p \in Nat /\ n * p = p + (n - 1) * p
  BY <1>2, OneMore
<1>4. (n - 1) * p <= r
  BY <1>2, <1>3
<1> QED BY <1>2, <1>3, <1>4 DEF p

-----------------------------------------------------------------------------
(* What an operation's calls add to the ledgers *)

\* What the sums of costs and estimates need of a call.
CallBooks(o, c) ==
  /\ calls[o][c].est \in Nat
  /\ calls[o][c].status \in {"none", "in_flight"} => calls[o][c].est = 0 /\ calls[o][c].cost = 0
  /\ c \in accounted[o] => calls[o][c].status = "observed"
  /\ Claimable(o, c) => calls[o][c].status = "none"

OpBooks(o) ==
  /\ op[o].status = "none" => receipt[o].remaining = 0
  /\ op[o].status = "none" \/ Open(o) => accounted[o] = {}
  /\ op[o].status = "removed" => ~active

Entries == \A o \in Ops : OpBooks(o) /\ \A c \in Calls : CallBooks(o, c)

Seen(o) == CostOf(o, With(o, "observed"))
Doubted(o) == EstimateOf(o, With(o, "uncertain"))
Charged(o) == CostOf(o, accounted[o])

LEMMA CallsFinite == ASSUME NEW C, C \subseteq Calls PROVE IsFiniteSet(C)
BY FiniteAssumption, FS_Subset

LEMMA WithIn == ASSUME NEW o, NEW s PROVE With(o, s) \subseteq Calls
BY DEF With

\* Only the entries of a set matter for its sums.
LEMMA SameSums ==
  ASSUME NEW C, C \subseteq Calls, NEW f, NEW g, \A c \in C : f[c] = g[c]
  PROVE  SumFunctionOnSet(f, C) = SumFunctionOnSet(g, C)
BY CallsFinite, SumSame

LEMMA AmountsTyped ==
  ASSUME TypeOK, Entries, NEW o \in Ops, NEW C, C \subseteq Calls
  PROVE  CostOf(o, C) \in Nat /\ EstimateOf(o, C) \in Nat
<1>1. \A c \in Calls : calls[o][c].cost \in Nat /\ calls[o][c].est \in Nat
  BY Typed DEF UsageCall, Entries, CallBooks
<1>2. IsFiniteSet(C)
  BY CallsFinite
<1>3. \A c \in C : [d \in Calls |-> calls[o][d].cost][c] \in Nat /\ [d \in Calls |-> calls[o][d].est][c] \in Nat
  BY <1>1
<1>4. CostOf(o, C) \in Nat
  BY <1>2, <1>3, SumType DEF CostOf
<1>5. EstimateOf(o, C) \in Nat
  BY <1>2, <1>3, SumType DEF EstimateOf
<1> QED BY <1>4, <1>5

LEMMA BooksTyped ==
  ASSUME TypeOK, Entries, NEW o \in Ops
  PROVE  /\ receipt[o].remaining \in Nat /\ Seen(o) \in Nat /\ Doubted(o) \in Nat
         /\ Charged(o) \in Nat /\ Owed(o) \in Nat
<1>1. receipt[o].remaining \in Nat /\ accounted[o] \subseteq Calls
  BY OpTyped DEF Receipt, TypeOK
<1>2. /\ With(o, "observed") \subseteq Calls /\ With(o, "uncertain") \subseteq Calls
      /\ (With(o, "uncertain") \cup With(o, "observed")) \ accounted[o] \subseteq Calls
  BY WithIn
<1> QED BY <1>1, <1>2, AmountsTyped DEF Seen, Doubted, Charged, Owed

-----------------------------------------------------------------------------
(* The ledgers as sums over the operations *)

Lefts == [o \in Ops |-> receipt[o].remaining]
Seens == [o \in Ops |-> Seen(o)]
Doubts == [o \in Ops |-> Doubted(o)]
Charges == [o \in Ops |-> Charged(o)]
Owes == [o \in Ops |-> Owed(o)]
InReserve(o) == IF Open(o) THEN "in" ELSE "out"
InCount(o) == IF Open(o) \/ op[o].status = "completed" THEN "in" ELSE "out"
Opens == [o \in Ops |-> InReserve(o)]
Counts == [o \in Ops |-> InCount(o)]

PoolBalanced ==
  /\ global.reserved = SumFunctionOnSet(Lefts, Ops)
  /\ global.actual = SumFunctionOnSet(Seens, Ops)
  /\ global.uncertain = SumFunctionOnSet(Doubts, Ops)

OwnBalanced ==
  /\ personal.reserved = Reserve * Count(Opens, Ops, "in")
  /\ personal.count = Count(Counts, Ops, "in")
  /\ personal.actual = SumFunctionOnSet(Charges, Ops)
  /\ personal.uncertain = SumFunctionOnSet(Owes, Ops)

LedgerTypes ==
  /\ global \in [reserved : Int, actual : Int, uncertain : Int]
  /\ personal \in [reserved : Int, actual : Int, uncertain : Int, count : Int]

Balanced == LedgerTypes /\ PoolBalanced /\ (active => OwnBalanced)

LEMMA BalancedIs ==
  ASSUME Balanced
  PROVE  PoolMatchesReceipts /\ LedgerMatchesOperations
<1>1. PoolMatchesReceipts
  BY DEF Balanced, PoolBalanced, PoolMatchesReceipts, Lefts, Seens, Doubts, Seen, Doubted, SumFunction
<1>2. Count(Opens, Ops, "in") = Cardinality({o \in Ops : op[o].status \in {"running", "pending"}})
  <2>1. {o \in Ops : Opens[o] = "in"} = {o \in Ops : op[o].status \in {"running", "pending"}}
    BY DEF Opens, InReserve
  <2> QED BY <2>1 DEF Count
<1>3. Count(Counts, Ops, "in") = Cardinality({o \in Ops : op[o].status \in {"running", "pending", "completed"}})
  <2>1. {o \in Ops : Counts[o] = "in"} = {o \in Ops : op[o].status \in {"running", "pending", "completed"}}
    BY DEF Counts, InCount
  <2> QED BY <2>1 DEF Count
<1>4. /\ SumFunctionOnSet(Charges, Ops) = SumFunction([o \in Ops |-> CostOf(o, accounted[o])])
      /\ SumFunctionOnSet(Owes, Ops) = SumFunction([o \in Ops |-> Owed(o)])
  BY DEF Charges, Charged, Owes, SumFunction
<1>5. LedgerMatchesOperations
  BY <1>2, <1>3, <1>4 DEF Balanced, OwnBalanced, LedgerMatchesOperations
<1> QED BY <1>1, <1>5

\* One term of a sum changes, and the sum follows.
LEMMA SumAtOne ==
  ASSUME NEW o \in Ops, NEW f, NEW g, \A u \in Ops : f[u] \in Nat /\ g[u] \in Nat, \A u \in Ops : u # o => f[u] = g[u],
         NEW was, NEW is, was = SumFunctionOnSet(f, Ops), is = was - f[o] + g[o]
  PROVE  is = SumFunctionOnSet(g, Ops)
BY FiniteAssumption, SumChanged

LEMMA CountAtOne ==
  ASSUME NEW o \in Ops, NEW f, NEW g, \A u \in Ops : u # o => f[u] = g[u],
         NEW r \in Nat, NEW was, NEW is, was = r * Count(f, Ops, "in"), is = was - r * One(f[o], "in") + r * One(g[o], "in")
  PROVE  is = r * Count(g, Ops, "in")
<1> DEFINE m == Count(f, Ops, "in")
           n == Count(g, Ops, "in")
<1>1. m \in Nat /\ n = m - One(f[o], "in") + One(g[o], "in")
  BY FiniteAssumption, CountChanged
<1>2. One(f[o], "in") \in {0, 1} /\ One(g[o], "in") \in {0, 1}
  BY DEF One
<1> HIDE DEF m, n
<1>3. r * n = r * m - r * One(f[o], "in") + r * One(g[o], "in")
  BY <1>1, <1>2, Times
<1>4. was = r * m
  BY DEF m
<1>5. is = r * n
  BY <1>3, <1>4
<1> QED BY <1>5 DEF n

\* How the ledgers follow a change of one operation, the others staying as they are.
Unmoved(u) ==
  /\ receipt'[u] = receipt[u] /\ calls'[u] = calls[u] /\ accounted'[u] = accounted[u]
  /\ op'[u].status = op[u].status

PoolFollows(o) ==
  /\ global'.reserved = global.reserved - receipt[o].remaining + receipt'[o].remaining
  /\ global'.actual = global.actual - Seen(o) + Seen(o)'
  /\ global'.uncertain = global.uncertain - Doubted(o) + Doubted(o)'

OwnFollows(o) ==
  /\ personal'.reserved = personal.reserved - Reserve * One(InReserve(o), "in") + Reserve * One(InReserve(o)', "in")
  /\ personal'.count = personal.count - One(InCount(o), "in") + One(InCount(o)', "in")
  /\ personal'.actual = personal.actual - Charged(o) + Charged(o)'
  /\ personal'.uncertain = personal.uncertain - Owed(o) + Owed(o)'

LEMMA UnmovedIs ==
  ASSUME NEW u, Unmoved(u)
  PROVE  /\ receipt'[u].remaining = receipt[u].remaining /\ Seen(u)' = Seen(u) /\ Doubted(u)' = Doubted(u)
         /\ Charged(u)' = Charged(u) /\ Owed(u)' = Owed(u)
         /\ InReserve(u)' = InReserve(u) /\ InCount(u)' = InCount(u)
<1>1. Seen(u)' = Seen(u) /\ Doubted(u)' = Doubted(u) /\ Charged(u)' = Charged(u)
  BY DEF Unmoved, Seen, Doubted, Charged, CostOf, EstimateOf, With
<1>2. Owed(u)' = Owed(u)
  BY DEF Unmoved, Owed, EstimateOf, With
<1> QED BY <1>1, <1>2 DEF Unmoved, InReserve, InCount

LEMMA BooksTypedNext ==
  ASSUME TypeOK', Entries'
  PROVE  \A o \in Ops : /\ receipt'[o].remaining \in Nat /\ Seen(o)' \in Nat /\ Doubted(o)' \in Nat
                        /\ Charged(o)' \in Nat /\ Owed(o)' \in Nat
<1> SUFFICES ASSUME NEW o \in Ops
             PROVE  /\ receipt'[o].remaining \in Nat /\ Seen(o)' \in Nat /\ Doubted(o)' \in Nat
                    /\ Charged(o)' \in Nat /\ Owed(o)' \in Nat
  OBVIOUS
<1> DEFINE Cost == [c \in Calls |-> calls'[o][c].cost]
           Est == [c \in Calls |-> calls'[o][c].est]
<1>1. receipt'[o].remaining \in Nat /\ accounted'[o] \subseteq Calls
  BY DEF TypeOK, Receipt
<1>2. \A c \in Calls : Cost[c] \in Nat /\ Est[c] \in Nat
  <2>1. calls' \in [Ops -> [Calls -> UsageCall]]
    BY DEF TypeOK
  <2>2. \A c \in Calls : calls'[o][c].cost \in Nat
    BY <2>1 DEF UsageCall
  <2>3. \A c \in Calls : calls'[o][c].est \in Nat
    BY DEF Entries, CallBooks
  <2> QED BY <2>2, <2>3
<1> HIDE DEF Cost, Est
<1>3. ASSUME NEW C, C \subseteq Calls PROVE SumFunctionOnSet(Cost, C) \in Nat /\ SumFunctionOnSet(Est, C) \in Nat
  <2>1. IsFiniteSet(C)
    BY <1>3, CallsFinite
  <2>2. \A c \in C : Cost[c] \in Nat /\ Est[c] \in Nat
    BY <1>2, <1>3
  <2> QED BY <2>1, <2>2, SumType
<1> DEFINE Watched == {c \in Calls : calls'[o][c].status = "observed"}
           Unknown == {c \in Calls : calls'[o][c].status = "uncertain"}
<1>4. Seen(o)' = SumFunctionOnSet(Cost, Watched) /\ Doubted(o)' = SumFunctionOnSet(Est, Unknown)
  BY DEF Seen, Doubted, CostOf, EstimateOf, With, Cost, Est
<1>5. Charged(o)' = SumFunctionOnSet(Cost, accounted'[o])
  BY DEF Charged, CostOf, Cost
<1>6. Owed(o)' = SumFunctionOnSet(Est, (Unknown \cup Watched) \ accounted'[o]) \/ Owed(o)' = 0
  BY DEF Owed, EstimateOf, With, Est
<1>7. Watched \subseteq Calls /\ Unknown \subseteq Calls /\ (Unknown \cup Watched) \ accounted'[o] \subseteq Calls
  OBVIOUS
<1> HIDE DEF Watched, Unknown
<1> QED BY <1>1, <1>3, <1>4, <1>5, <1>6, <1>7

LEMMA PoolAtOne ==
  ASSUME TypeOK, TypeOK', Entries, Entries', NEW o \in Ops, \A u \in Ops : u # o => Unmoved(u),
         PoolBalanced, PoolFollows(o)
  PROVE  PoolBalanced'
<1>1. /\ \A u \in Ops : Lefts[u] \in Nat /\ Seens[u] \in Nat /\ Doubts[u] \in Nat
      /\ \A u \in Ops : Lefts'[u] \in Nat /\ Seens'[u] \in Nat /\ Doubts'[u] \in Nat
  BY BooksTyped, BooksTypedNext DEF Lefts, Seens, Doubts
<1>2. \A u \in Ops : u # o => Lefts[u] = Lefts'[u] /\ Seens[u] = Seens'[u] /\ Doubts[u] = Doubts'[u]
  BY UnmovedIs DEF Lefts, Seens, Doubts
<1>3. /\ global'.reserved = global.reserved - Lefts[o] + Lefts'[o]
      /\ global'.actual = global.actual - Seens[o] + Seens'[o]
      /\ global'.uncertain = global.uncertain - Doubts[o] + Doubts'[o]
  BY DEF PoolFollows, Lefts, Seens, Doubts
<1>4. /\ global.reserved = SumFunctionOnSet(Lefts, Ops)
      /\ global.actual = SumFunctionOnSet(Seens, Ops)
      /\ global.uncertain = SumFunctionOnSet(Doubts, Ops)
  BY DEF PoolBalanced
<1>5. global'.reserved = SumFunctionOnSet(Lefts', Ops)
  BY <1>1, <1>2, <1>3, <1>4, SumAtOne
<1>6. global'.actual = SumFunctionOnSet(Seens', Ops)
  BY <1>1, <1>2, <1>3, <1>4, SumAtOne
<1>7. global'.uncertain = SumFunctionOnSet(Doubts', Ops)
  BY <1>1, <1>2, <1>3, <1>4, SumAtOne
<1> QED BY <1>5, <1>6, <1>7 DEF PoolBalanced

LEMMA OwnAtOne ==
  ASSUME TypeOK, TypeOK', Entries, Entries', NEW o \in Ops, \A u \in Ops : u # o => Unmoved(u),
         LedgerTypes, OwnBalanced, OwnFollows(o)
  PROVE  OwnBalanced'
<1>1. /\ \A u \in Ops : Charges[u] \in Nat /\ Owes[u] \in Nat
      /\ \A u \in Ops : Charges'[u] \in Nat /\ Owes'[u] \in Nat
  BY BooksTyped, BooksTypedNext DEF Charges, Owes
<1>2. \A u \in Ops : u # o => /\ Charges[u] = Charges'[u] /\ Owes[u] = Owes'[u]
                              /\ Opens[u] = Opens'[u] /\ Counts[u] = Counts'[u]
  BY UnmovedIs DEF Charges, Owes, Opens, Counts
<1>3. /\ personal'.actual = personal.actual - Charges[o] + Charges'[o]
      /\ personal'.uncertain = personal.uncertain - Owes[o] + Owes'[o]
      /\ personal'.reserved = personal.reserved - Reserve * One(Opens[o], "in") + Reserve * One(Opens'[o], "in")
      /\ personal'.count = personal.count - One(Counts[o], "in") + One(Counts'[o], "in")
  BY DEF OwnFollows, Charges, Owes, Opens, Counts
<1>4. /\ personal.actual = SumFunctionOnSet(Charges, Ops)
      /\ personal.uncertain = SumFunctionOnSet(Owes, Ops)
      /\ personal.reserved = Reserve * Count(Opens, Ops, "in")
      /\ personal.count = Count(Counts, Ops, "in")
  BY DEF OwnBalanced
<1>5. personal'.actual = SumFunctionOnSet(Charges', Ops)
  BY <1>1, <1>2, <1>3, <1>4, SumAtOne
<1>6. personal'.uncertain = SumFunctionOnSet(Owes', Ops)
  BY <1>1, <1>2, <1>3, <1>4, SumAtOne
<1>7. personal'.reserved = Reserve * Count(Opens', Ops, "in")
  BY <1>2, <1>3, <1>4, AmountsAssumption, CountAtOne
<1>8. personal'.count = Count(Counts', Ops, "in")
  BY <1>2, <1>3, <1>4, FiniteAssumption, CountChanged
<1>9. (personal.reserved = Reserve * Count(Opens, Ops, "in"))' /\ (personal.count = Count(Counts, Ops, "in"))'
  BY <1>7, <1>8 DEF Count
<1> QED BY <1>5, <1>6, <1>9 DEF OwnBalanced

\* A step that moves one operation, and the ledgers with it.
LEMMA BooksAtOne ==
  ASSUME IInv, TypeOK', Entries, Entries', Balanced, LedgerTypes', active' => active,
         NEW o \in Ops, \A u \in Ops : u # o => Unmoved(u), PoolFollows(o), active' => OwnFollows(o)
  PROVE  Balanced'
<1>1. TypeOK /\ PoolBalanced /\ LedgerTypes /\ (active => OwnBalanced)
  BY DEF IInv, Balanced
<1>2. PoolBalanced'
  BY <1>1, PoolAtOne
<1>3. active' => OwnBalanced'
  BY <1>1, OwnAtOne
<1> QED BY <1>2, <1>3 DEF Balanced

\* A step that moves nothing but an operation among the open ones.
LEMMA BooksQuiet ==
  ASSUME Balanced, UNCHANGED <<receipt, calls, accounted, personal, global>>, active' => active,
         active' => \A u \in Ops : op'[u].status = op[u].status \/ (Open(u) /\ Open(u)')
  PROVE  Balanced'
<1>1. PoolBalanced' /\ LedgerTypes'
  BY DEF Balanced, PoolBalanced, LedgerTypes, Lefts, Seens, Doubts, Seen, Doubted, CostOf, EstimateOf, With
<1>2. ASSUME active' PROVE OwnBalanced'
  <2>1. \A u \in Ops : InReserve(u)' = InReserve(u) /\ InCount(u)' = InCount(u) /\ Terminal(u)' = Terminal(u)
    BY <1>2 DEF InReserve, InCount
  <2>2. \A u \in Ops : Charged(u)' = Charged(u) /\ Owed(u)' = Owed(u)
    BY <2>1 DEF Charged, Owed, CostOf, EstimateOf, With
  <2>3. Opens' = Opens /\ Counts' = Counts /\ Charges' = Charges /\ Owes' = Owes
    BY <2>1, <2>2 DEF Opens, Counts, Charges, Owes
  <2>4. OwnBalanced
    BY <1>2 DEF Balanced
  <2> QED BY <2>3, <2>4 DEF OwnBalanced, Count
<1> QED BY <1>1, <1>2 DEF Balanced

LEMMA EntriesAtOne ==
  ASSUME Entries, NEW o \in Ops, \A u \in Ops : u # o => Unmoved(u) /\ stage'[u] = stage[u], active' => active,
         OpBooks(o)', \A c \in Calls : CallBooks(o, c)'
  PROVE  Entries'
<1>1. ASSUME NEW u \in Ops, u # o PROVE OpBooks(u)' /\ \A c \in Calls : CallBooks(u, c)'
  <2>1. /\ receipt'[u] = receipt[u] /\ calls'[u] = calls[u] /\ accounted'[u] = accounted[u]
        /\ op'[u].status = op[u].status /\ stage'[u] = stage[u]
    BY <1>1 DEF Unmoved
  <2>2. OpBooks(u)'
    BY <2>1 DEF Entries, OpBooks
  <2>3. \A c \in Calls : CallBooks(u, c)'
    BY <2>1 DEF Entries, CallBooks, Claimable
  <2> QED BY <2>2, <2>3
<1> QED BY <1>1 DEF Entries

LEMMA EntriesQuiet ==
  ASSUME Entries, UNCHANGED <<receipt, calls, accounted>>, active' => active,
         \A u \in Ops : \/ op'[u].status = op[u].status
                        \/ Open(u) /\ Open(u)'
                        \/ op'[u].status = "removed" /\ ~active',
         \A u \in Ops, c \in Calls : Claimable(u, c)' => Claimable(u, c)
  PROVE  Entries'
<1>1. ASSUME NEW u \in Ops PROVE OpBooks(u)'
  BY DEF Entries, OpBooks
<1>2. ASSUME NEW u \in Ops, NEW c \in Calls PROVE CallBooks(u, c)'
  BY DEF Entries, CallBooks
<1> QED BY <1>1, <1>2 DEF Entries

\* The entries and the ledgers, as what the steps below keep.
Books == Entries /\ Balanced

LEMMA BeginBooks ==
  ASSUME IInv, TypeOK', Books, NEW o \in Ops, Begin(o) PROVE Books'
<1>1. TypeOK /\ Entries /\ Balanced /\ LedgerTypes
  BY DEF IInv, Books, Balanced
<1>2. /\ op[o].status = "none" /\ op'[o].status = "running" /\ \A u \in Ops : u # o => op'[u] = op[u]
  BY AttemptLocks DEF Begin, Unused
<1>3. UNCHANGED <<stage, calls, accounted, active>>
  BY DEF Begin
<1>4. receipt[o].remaining = 0 /\ receipt'[o].remaining = Reserve /\ \A u \in Ops : u # o => receipt'[u] = receipt[u]
  <2>1. receipt[o] \in Receipt /\ receipt \in [Ops -> Receipt]
    BY <1>1 DEF TypeOK
  <2>2. receipt'[o].remaining = Reserve
    BY <2>1 DEF Begin, Receipt
  <2>3. receipt[o].remaining = 0
    BY <1>1, <1>2 DEF Entries, OpBooks
  <2> QED BY <2>1, <2>2, <2>3 DEF Begin
<1>5. \A u \in Ops : u # o => Unmoved(u) /\ stage'[u] = stage[u]
  BY <1>2, <1>3, <1>4 DEF Unmoved
<1>6. Entries'
  <2>1. OpBooks(o)'
    BY <1>1, <1>2, <1>3 DEF Entries, OpBooks
  <2>2. \A c \in Calls : CallBooks(o, c)'
    BY <1>1, <1>3 DEF Entries, CallBooks, Claimable
  <2> QED BY <1>1, <1>3, <1>5, <2>1, <2>2, EntriesAtOne
<1>7. /\ global' = [global EXCEPT !.reserved = @ + Reserve]
      /\ personal' = [personal EXCEPT !.reserved = @ + Reserve, !.count = @ + 1]
      /\ Reserve \in Nat
  BY AmountsAssumption DEF Begin
<1>8. /\ global.reserved \in Int /\ global.actual \in Int /\ global.uncertain \in Int
      /\ global' = [reserved |-> global.reserved + Reserve, actual |-> global.actual, uncertain |-> global.uncertain]
      /\ personal.reserved \in Int /\ personal.actual \in Int /\ personal.uncertain \in Int /\ personal.count \in Int
      /\ personal' = [reserved |-> personal.reserved + Reserve, actual |-> personal.actual,
                      uncertain |-> personal.uncertain, count |-> personal.count + 1]
  BY <1>1, <1>7 DEF LedgerTypes
<1>9. LedgerTypes'
  <2>1. global.reserved + Reserve \in Int /\ personal.reserved + Reserve \in Int /\ personal.count + 1 \in Int
    BY <1>7, <1>8
  <2> QED BY <1>8, <2>1 DEF LedgerTypes
<1>10. Seen(o)' = Seen(o) /\ Doubted(o)' = Doubted(o) /\ Charged(o)' = Charged(o)
  BY <1>3 DEF Seen, Doubted, Charged, CostOf, EstimateOf, With
<1>11. Owed(o) = 0 /\ Owed(o)' = 0
  BY <1>2 DEF Owed
<1>12. Seen(o) \in Nat /\ Doubted(o) \in Nat /\ Charged(o) \in Nat
  BY <1>1, BooksTyped
<1>13. PoolFollows(o)
  BY <1>4, <1>7, <1>8, <1>10, <1>12 DEF PoolFollows
<1>14. One(InReserve(o), "in") = 0 /\ One(InReserve(o)', "in") = 1 /\ One(InCount(o), "in") = 0 /\ One(InCount(o)', "in") = 1
  BY <1>2 DEF One, InReserve, InCount
<1>15. Reserve * One(InReserve(o), "in") = 0 /\ Reserve * One(InReserve(o)', "in") = Reserve
  BY <1>7, <1>14
<1>16. OwnFollows(o)
  BY <1>7, <1>8, <1>10, <1>11, <1>12, <1>14, <1>15 DEF OwnFollows
<1>17. Balanced'
  BY <1>1, <1>3, <1>5, <1>6, <1>9, <1>13, <1>16, BooksAtOne
<1> QED BY <1>6, <1>17 DEF Books

\* The steps that move nothing of the books.
LEMMA QuietBooks ==
  ASSUME Books, UNCHANGED <<receipt, calls, accounted, personal, global>>, active' => active,
         \A u \in Ops : \/ op'[u].status = op[u].status
                        \/ Open(u) /\ Open(u)'
                        \/ op'[u].status = "removed" /\ ~active',
         \A u \in Ops, c \in Calls : Claimable(u, c)' => Claimable(u, c)
  PROVE  Books'
<1>1. Entries'
  BY EntriesQuiet DEF Books
<1>2. Balanced'
  BY BooksQuiet DEF Books
<1> QED BY <1>1, <1>2 DEF Books

LEMMA ResumeBooks ==
  ASSUME IInv, Books, NEW o \in Ops, Resume(o) \/ Deny(o) \/ Pause(o) \/ Expire(o) \/ RemoveRecords(o) PROVE Books'
<1>1. UNCHANGED <<stage, receipt, calls, accounted, personal, global, active>>
  BY DEF Resume, Deny, Pause, Expire, RemoveRecords
<1>2. op \in [Ops -> Operation]
  BY DEF IInv, TypeOK
<1>3. ASSUME NEW u \in Ops
      PROVE op'[u].status = op[u].status \/ (Open(u) /\ Open(u)') \/ (op'[u].status = "removed" /\ ~active')
  <2>1. CASE Resume(o)
    <3>1. Open(o) /\ op'[o].status = "running" /\ (u # o => op'[u] = op[u])
      BY <2>1, AttemptLocks DEF Resume, Resumable
    <3> QED BY <3>1
  <2>2. CASE Deny(o)
    BY <2>2 DEF Deny
  <2>3. CASE Pause(o)
    BY <1>2, <2>3 DEF Pause, Owns, Operation
  <2>4. CASE Expire(o)
    BY <1>2, <2>4 DEF Expire, Operation
  <2>5. CASE RemoveRecords(o)
    BY <1>2, <2>5 DEF RemoveRecords, Operation
  <2> QED BY <2>1, <2>2, <2>3, <2>4, <2>5
<1>4. \A u \in Ops, c \in Calls : Claimable(u, c)' => Claimable(u, c)
  BY <1>1 DEF Claimable
<1> QED BY <1>1, <1>3, <1>4, QuietBooks

LEMMA ServerBooks ==
  ASSUME IInv, Books, NEW o \in Ops, NEW c \in Calls,
         \/ Lose(o, c) \/ SaveStage(o, c)
         \/ \E ok \in BOOLEAN, cost \in Costs \cup {0} : Answer(o, c, ok, cost)
  PROVE  Books'
<1>1. UNCHANGED <<receipt, calls, accounted, personal, global, active>>
  BY DEF Lose, SaveStage, Answer, personalVars
<1>2. op \in [Ops -> Operation] /\ stage \in [Ops -> [Calls -> Stages]]
  BY DEF IInv, TypeOK
<1>3. /\ \A u \in Ops : op'[u].status = op[u].status
      /\ \A u \in Ops, d \in Calls : stage'[u][d] = stage[u][d] \/ stage'[u][d] \in {"completed", "rejected"}
  <2>1. CASE op' = op /\ stage' = stage
    BY <2>1
  <2>2. CASE ~(op' = op /\ stage' = stage)
    <3> DEFINE done == IF exec[o][c].ok THEN "completed" ELSE "rejected"
    <3>1. stage' = [stage EXCEPT ![o][c] = done] /\ op' = [op EXCEPT ![o].pending = @ \ {c}]
      BY <2>2 DEF Lose, SaveStage, Answer, personalVars
    <3>2. done \in {"completed", "rejected"}
      OBVIOUS
    <3> HIDE DEF done
    <3>3. \A u \in Ops : op'[u].status = op[u].status
      BY <1>2, <3>1 DEF Operation
    <3>4. \A u \in Ops, d \in Calls : stage'[u][d] = stage[u][d] \/ stage'[u][d] \in {"completed", "rejected"}
      BY <1>2, <3>1, <3>2
    <3> QED BY <3>3, <3>4
  <2> QED BY <2>1, <2>2
<1>4. \A u \in Ops, d \in Calls : Claimable(u, d)' => Claimable(u, d)
  BY <1>3 DEF Claimable
<1> QED BY <1>1, <1>3, <1>4, QuietBooks

\* An intent that comes or goes costs nothing yet.
LEMMA IntentBooks ==
  ASSUME IInv, TypeOK', Books, NEW o \in Ops, NEW c \in Calls, Claim(o, c) \/ Refuse(o, c) PROVE Books'
<1>1. TypeOK /\ Entries /\ Balanced /\ LedgerTypes
  BY DEF IInv, Books, Balanced
<1>2. UNCHANGED <<receipt, accounted, personal, global, active>> /\ op[o].status = "running"
  BY DEF Claim, Refuse, Owns
<1>3. /\ \A u \in Ops : op'[u].status = op[u].status
      /\ \A u \in Ops : u # o => stage'[u] = stage[u]
      /\ \A d \in Calls : d # c => stage'[o][d] = stage[o][d]
      /\ Claimable(o, c)' => calls'[o][c].status = "none"
  <2>1. op \in [Ops -> Operation] /\ stage \in [Ops -> [Calls -> Stages]] /\ calls \in [Ops -> [Calls -> UsageCall]]
    BY <1>1 DEF TypeOK
  <2>2. \A u \in Ops : op'[u].status = op[u].status
    <3>1. PICK P : op' = [op EXCEPT ![o].pending = P]
      BY <2>1 DEF Claim, Refuse
    <3> QED BY <2>1, <3>1 DEF Operation
  <2>3. CASE Claim(o, c)
    <3>1. stage' = [stage EXCEPT ![o][c] = "in_flight"]
      BY <2>3 DEF Claim
    <3> QED BY <2>1, <2>2, <3>1 DEF Claimable
  <2>4. CASE Refuse(o, c)
    <3>1. stage' = [stage EXCEPT ![o][c] = "not_started"] /\ calls' = [calls EXCEPT ![o][c] = NoCall]
      BY <2>4 DEF Refuse
    <3>2. \A u \in Ops : u # o => stage'[u] = stage[u]
      BY <2>1, <3>1
    <3>3. \A d \in Calls : d # c => stage'[o][d] = stage[o][d]
      BY <2>1, <3>1
    <3>4. calls'[o][c].status = "none"
      BY <2>1, <3>1 DEF NoCall
    <3> QED BY <2>2, <3>2, <3>3, <3>4
  <2> QED BY <2>2, <2>3, <2>4
<1>4. calls[o][c].status \in {"none", "in_flight"} /\ c \notin accounted[o] /\ calls[o][c].cost = 0 /\ calls[o][c].est = 0
  <2>1. CallBooks(o, c)
    BY <1>1 DEF Entries
  <2>2. calls[o][c].status \in {"none", "in_flight"}
    BY <2>1 DEF Claim, Refuse, CallBooks
  <2> QED BY <2>1, <2>2 DEF CallBooks
<1>5. /\ calls'[o][c].status \in {"none", "in_flight"} /\ calls'[o][c].cost = 0 /\ calls'[o][c].est = 0
      /\ \A u \in Ops : u # o => calls'[u] = calls[u]
      /\ \A d \in Calls : d # c => calls'[o][d] = calls[o][d]
  <2>1. PICK v \in {NoCall, [NoCall EXCEPT !.status = "in_flight"]} : calls' = [calls EXCEPT ![o][c] = v]
    BY DEF Claim, Refuse
  <2>2. v \in UsageCall /\ v.status \in {"none", "in_flight"} /\ v.cost = 0 /\ v.est = 0
    BY DEF NoCall, UsageCall
  <2>3. calls \in [Ops -> [Calls -> UsageCall]]
    BY <1>1 DEF TypeOK
  <2> QED BY <2>1, <2>2, <2>3, CallReplaced
<1>6. \A u \in Ops : u # o => Unmoved(u) /\ stage'[u] = stage[u]
  BY <1>2, <1>3, <1>5 DEF Unmoved
<1>7. Entries'
  <2>1. OpBooks(o)'
    BY <1>1, <1>2, <1>3 DEF Entries, OpBooks
  <2>2. CallBooks(o, c)'
    BY <1>2, <1>3, <1>4, <1>5 DEF CallBooks
  <2>3. \A d \in Calls : d # c => CallBooks(o, d)'
    BY <1>1, <1>2, <1>3, <1>5 DEF Entries, CallBooks, Claimable
  <2> QED BY <1>1, <1>2, <1>6, <2>1, <2>2, <2>3, EntriesAtOne
<1>8. /\ [d \in Calls |-> calls'[o][d].cost] = [d \in Calls |-> calls[o][d].cost]
      /\ [d \in Calls |-> calls'[o][d].est] = [d \in Calls |-> calls[o][d].est]
  <2>1. \A d \in Calls : calls'[o][d].cost = calls[o][d].cost /\ calls'[o][d].est = calls[o][d].est
    BY <1>4, <1>5
  <2> QED BY <2>1
<1>9. With(o, "observed")' = With(o, "observed") /\ With(o, "uncertain")' = With(o, "uncertain")
  BY <1>4, <1>5 DEF With
<1>10. Seen(o)' = Seen(o) /\ Doubted(o)' = Doubted(o) /\ Charged(o)' = Charged(o)
  BY <1>2, <1>8, <1>9 DEF Seen, Doubted, Charged, CostOf, EstimateOf
<1>11. Owed(o) = 0 /\ Owed(o)' = 0 /\ InReserve(o)' = InReserve(o) /\ InCount(o)' = InCount(o)
  BY <1>2, <1>3 DEF Owed, InReserve, InCount
<1>12. Seen(o) \in Nat /\ Doubted(o) \in Nat /\ Charged(o) \in Nat /\ receipt[o].remaining \in Nat
  BY <1>1, BooksTyped
<1>13. /\ global.reserved \in Int /\ global.actual \in Int /\ global.uncertain \in Int
       /\ personal.reserved \in Int /\ personal.actual \in Int /\ personal.uncertain \in Int /\ personal.count \in Int
  BY <1>1 DEF LedgerTypes
<1>14. PoolFollows(o)
  BY <1>2, <1>10, <1>12, <1>13 DEF PoolFollows
<1>15. OwnFollows(o)
  <2>1. One(InReserve(o), "in") \in {0, 1} /\ One(InCount(o), "in") \in {0, 1} /\ Reserve \in Nat
    BY AmountsAssumption DEF One
  <2>2. Reserve * One(InReserve(o), "in") \in Int
    BY <2>1
  <2> QED BY <1>2, <1>10, <1>11, <1>12, <1>13, <2>1, <2>2 DEF OwnFollows
<1>16. Balanced'
  <2>1. LedgerTypes'
    BY <1>1, <1>2 DEF LedgerTypes
  <2> QED BY <1>1, <1>2, <1>6, <1>7, <1>14, <1>15, <2>1, BooksAtOne
<1> QED BY <1>7, <1>16 DEF Books

\* What the pool holds of one operation is not more than what it holds.
LEMMA PoolAtLeast ==
  ASSUME TypeOK, Entries, Balanced, NEW o \in Ops
  PROVE  receipt[o].remaining <= global.reserved /\ Doubted(o) <= global.uncertain
<1>1. \A u \in Ops : Lefts[u] \in Nat /\ Doubts[u] \in Nat
  BY BooksTyped DEF Lefts, Doubts
<1>2. Lefts[o] <= SumFunctionOnSet(Lefts, Ops) /\ Doubts[o] <= SumFunctionOnSet(Doubts, Ops)
  BY <1>1, FiniteAssumption, SumAtLeast
<1> QED BY <1>2 DEF Balanced, PoolBalanced, Lefts, Doubts

\* A sum with one more place.
LEMMA SumAdd ==
  ASSUME NEW S, IsFiniteSet(S), NEW x, x \notin S, NEW f, \A y \in S \cup {x} : f[y] \in Nat
  PROVE  SumFunctionOnSet(f, S \cup {x}) = f[x] + SumFunctionOnSet(f, S)
<1>1. IsFiniteSet(S \cup {x}) /\ x \in S \cup {x} /\ (S \cup {x}) \ {x} = S
  BY FS_AddElement
<1>2. SumFunctionOnSet(f, S \cup {x}) = f[x] + SumFunctionOnSet(f, (S \cup {x}) \ {x})
  BY <1>1, SumRemove
<1> QED BY <1>1, <1>2

\* A usage report moves its cost out of the reserve and its estimate out of
\* what is uncertain, in the receipt and in the pool alike.
LEMMA RecordBooks ==
  ASSUME IInv, TypeOK', Books, NEW o \in Ops, NEW c \in Calls, Record(o, c) PROVE Books'
<1>1. TypeOK /\ Entries /\ Balanced /\ LedgerTypes
  BY DEF IInv, Books, Balanced
<1>2. UNCHANGED <<op, stage, accounted, personal, active>>
  BY DEF Record, personalVars
<1>3. CASE calls[o][c].status \in {"none", "observed"}
  <2>1. UNCHANGED <<receipt, calls, global>>
    BY <1>3 DEF Record
  <2>2. \A u \in Ops, d \in Calls : Claimable(u, d)' => Claimable(u, d)
    BY <1>2 DEF Claimable
  <2> QED BY <1>2, <2>1, <2>2, QuietBooks
<1>4. CASE calls[o][c].status \notin {"none", "observed"}
  <2> DEFINE cost == exec[o][c].cost
             left == receipt[o].remaining
             released == Least(left, cost)
             est == calls[o][c].est
             v == [calls[o][c] EXCEPT !.status = "observed", !.cost = cost]
  <2>1. /\ cost \in Nat /\ left \in Nat /\ calls[o][c] \in UsageCall /\ receipt[o] \in Receipt
        /\ calls[o][c].status \in {"in_flight", "uncertain"}
    <3>1. exec[o][c] \in Execution /\ calls[o][c] \in UsageCall /\ receipt[o] \in Receipt
      BY <1>1, Typed
    <3> QED BY <1>4, <3>1 DEF Execution, UsageCall, Receipt
  <2>2. est \in Nat /\ (calls[o][c].status = "in_flight" => est = 0) /\ c \notin accounted[o] /\ ~Claimable(o, c)
    <3>1. CallBooks(o, c)
      BY <1>1 DEF Entries
    <3> QED BY <2>1, <3>1 DEF CallBooks
  <2>3. released \in Nat /\ released <= left
    BY <2>1 DEF Least
  <2>4. /\ calls' = [calls EXCEPT ![o][c] = v]
        /\ receipt' = [receipt EXCEPT ![o] = [remaining |-> left - released, actual |-> receipt[o].actual + cost,
                                              uncertain |-> Less(receipt[o].uncertain, est)]]
        /\ global' = [reserved |-> Less(global.reserved, released), actual |-> global.actual + cost,
                      uncertain |-> Less(global.uncertain, est)]
    <3>1. calls' = [calls EXCEPT ![o][c] = v]
      BY <1>4, ZenonT(60) DEF Record
    <3>2. /\ receipt' = [receipt EXCEPT ![o] = [remaining |-> left - released, actual |-> receipt[o].actual + cost,
                                                uncertain |-> Less(receipt[o].uncertain, est)]]
          /\ global' = [reserved |-> Less(global.reserved, released), actual |-> global.actual + cost,
                        uncertain |-> Less(global.uncertain, est)]
      BY <1>1, <1>4 DEF Record, Estimate, TypeOK
    <3> QED BY <3>1, <3>2
  <2>5. v \in UsageCall /\ v.status = "observed" /\ v.cost = cost /\ v.est = est
    BY <2>1 DEF UsageCall
  <2> HIDE DEF v, released, left, cost, est
  <2>6. /\ calls'[o][c] = v
        /\ \A u \in Ops : u # o => calls'[u] = calls[u]
        /\ \A d \in Calls : d # c => calls'[o][d] = calls[o][d]
    BY <1>1, <2>4, <2>5, CallReplaced DEF TypeOK
  <2>7. /\ receipt'[o].remaining = left - released /\ receipt[o].remaining = left
        /\ \A u \in Ops : u # o => receipt'[u] = receipt[u]
    BY <1>1, <2>4 DEF TypeOK, left
  <2>8. \A u \in Ops : u # o => Unmoved(u) /\ stage'[u] = stage[u]
    BY <1>2, <2>6, <2>7 DEF Unmoved
  <2>9. op[o].status # "none" /\ (Terminal(o) => calls[o][c].status = "uncertain")
    <3>1. CallFacts(o, c)
      BY DEF IInv
    <3> QED BY <2>1, <3>1 DEF CallFacts
  <2>10. Entries'
    <3>1. OpBooks(o)'
      BY <1>1, <1>2, <2>9 DEF Entries, OpBooks
    <3>2. CallBooks(o, c)'
      BY <1>2, <2>2, <2>5, <2>6 DEF CallBooks, Claimable
    <3>3. \A d \in Calls : d # c => CallBooks(o, d)'
      BY <1>1, <1>2, <2>6 DEF Entries, CallBooks, Claimable
    <3> QED BY <1>1, <1>2, <2>8, <3>1, <3>2, <3>3, EntriesAtOne
  <2> DEFINE Cost == [d \in Calls |-> calls[o][d].cost]
             Est == [d \in Calls |-> calls[o][d].est]
             Cost2 == [d \in Calls |-> calls'[o][d].cost]
             Est2 == [d \in Calls |-> calls'[o][d].est]
             A == With(o, "observed")
             U == With(o, "uncertain")
  <2>11. /\ \A d \in Calls : d # c => Cost2[d] = Cost[d]
         /\ Est2 = Est /\ Cost2[c] = cost /\ Est[c] = est
         /\ \A d \in Calls : Cost[d] \in Nat /\ Cost2[d] \in Nat /\ Est[d] \in Nat
    <3>1. \A d \in Calls : calls'[o][d].est = calls[o][d].est
      BY <2>5, <2>6 DEF est
    <3>2. \A d \in Calls : calls[o][d].est \in Nat
      BY <1>1 DEF Entries, CallBooks
    <3>3. \A d \in Calls : calls[o][d].cost \in Nat
      BY <1>1, Typed DEF UsageCall
    <3>4. calls'[o][c].cost = cost /\ \A d \in Calls : d # c => calls'[o][d].cost = calls[o][d].cost
      BY <2>5, <2>6
    <3> QED BY <2>1, <3>1, <3>2, <3>3, <3>4 DEF cost, est
  <2>12. /\ A \subseteq Calls /\ U \subseteq Calls /\ c \notin A /\ IsFiniteSet(A) /\ IsFiniteSet(U)
         /\ With(o, "observed")' = A \cup {c} /\ With(o, "uncertain")' = U \ {c}
         /\ (c \in U <=> calls[o][c].status = "uncertain")
    <3>1. A \subseteq Calls /\ U \subseteq Calls /\ c \notin A /\ (c \in U <=> calls[o][c].status = "uncertain")
      BY <2>1 DEF With
    <3>2. With(o, "observed")' = A \cup {c} /\ With(o, "uncertain")' = U \ {c}
      BY <2>5, <2>6 DEF With
    <3> QED BY <3>1, <3>2, CallsFinite
  <2>13. /\ Seen(o) = SumFunctionOnSet(Cost, A) /\ Seen(o)' = SumFunctionOnSet(Cost2, A \cup {c})
         /\ Doubted(o) = SumFunctionOnSet(Est, U) /\ Doubted(o)' = SumFunctionOnSet(Est2, U \ {c})
         /\ Charged(o) = SumFunctionOnSet(Cost, accounted[o]) /\ Charged(o)' = SumFunctionOnSet(Cost2, accounted[o])
    BY <1>2, <2>12 DEF Seen, Doubted, Charged, CostOf, EstimateOf
  <2>14. Owed(o)' = Owed(o)
    <3>1. CASE Terminal(o)
      <4>1. (With(o, "uncertain")' \cup With(o, "observed")') = (With(o, "uncertain") \cup With(o, "observed"))
        BY <2>9, <2>12, <3>1
      <4>2. Terminal(o)' /\ accounted'[o] = accounted[o]
        BY <1>2, <3>1
      <4>3. /\ Owed(o) = SumFunctionOnSet(Est, (With(o, "uncertain") \cup With(o, "observed")) \ accounted[o])
            /\ Owed(o)' = SumFunctionOnSet(Est2, (With(o, "uncertain")' \cup With(o, "observed")') \ accounted'[o])
        BY <3>1, <4>2 DEF Owed, EstimateOf
      <4> HIDE DEF Est, Est2
      <4> QED BY <2>11, <4>1, <4>2, <4>3
    <3>2. CASE ~Terminal(o)
      BY <1>2, <3>2 DEF Owed
    <3> QED BY <3>1, <3>2
  <2> HIDE DEF Cost, Est, Cost2, Est2, A, U
  <2>15. Seen(o)' = cost + Seen(o)
    <3>1. SumFunctionOnSet(Cost2, A \cup {c}) = cost + SumFunctionOnSet(Cost2, A)
      <4>1. \A d \in A \cup {c} : Cost2[d] \in Nat
        BY <2>11, <2>12
      <4> QED BY <2>11, <2>12, <4>1, SumAdd
    <3>2. SumFunctionOnSet(Cost2, A) = SumFunctionOnSet(Cost, A)
      BY <2>11, <2>12, SameSums
    <3> QED BY <2>13, <3>1, <3>2
  <2>16. Doubted(o)' = Doubted(o) - est
    <3>1. SumFunctionOnSet(Est, U) \in Nat
      <4>1. \A d \in U : Est[d] \in Nat
        BY <2>11, <2>12
      <4> QED BY <2>12, <4>1, SumType
    <3>2. CASE c \in U
      <4>1. \A d \in U : Est[d] \in Nat
        BY <2>11, <2>12
      <4>2. SumFunctionOnSet(Est, U) = est + SumFunctionOnSet(Est, U \ {c})
        BY <2>11, <2>12, <3>2, <4>1, SumRemove
      <4>3. IsFiniteSet(U \ {c}) /\ \A d \in U \ {c} : Est[d] \in Nat
        BY <2>12, <4>1, FS_RemoveElement
      <4>4. SumFunctionOnSet(Est, U \ {c}) \in Nat
        BY <4>3, SumType
      <4> QED BY <2>2, <2>11, <2>13, <4>2, <4>4
    <3>3. CASE c \notin U
      <4>1. U \ {c} = U /\ est = 0
        BY <2>1, <2>2, <2>12, <3>3
      <4>2. Est2 = Est /\ Doubted(o) \in Nat
        BY <2>11, <2>13, <3>1
      <4>3. Doubted(o)' = Doubted(o)
        BY <2>13, <4>1, <4>2
      <4> QED BY <4>1, <4>2, <4>3
    <3> QED BY <3>2, <3>3
  <2>17. Charged(o)' = Charged(o)
    <3>1. accounted[o] \subseteq Calls
      BY <1>1 DEF TypeOK
    <3>2. \A d \in accounted[o] : Cost2[d] = Cost[d]
      BY <2>2, <2>11, <3>1
    <3> QED BY <2>13, <3>1, <3>2, SameSums
  <2>18. /\ left <= global.reserved /\ Doubted(o) <= global.uncertain
         /\ Seen(o) \in Nat /\ Doubted(o) \in Nat /\ Charged(o) \in Nat /\ Owed(o) \in Nat
    BY <1>1, <2>7, PoolAtLeast, BooksTyped
  <2>19. /\ global.reserved \in Int /\ global.actual \in Int /\ global.uncertain \in Int
         /\ personal.reserved \in Int /\ personal.actual \in Int /\ personal.uncertain \in Int /\ personal.count \in Int
    BY <1>1 DEF LedgerTypes
  <2>20. est <= Doubted(o)
    <3>1. Doubted(o)' \in Nat
      BY <2>10, BooksTypedNext
    <3> QED BY <2>2, <2>16, <2>18, <3>1
  <2>21. /\ Less(global.reserved, released) = global.reserved - released
         /\ Less(global.uncertain, est) = global.uncertain - est
    BY <2>1, <2>2, <2>3, <2>18, <2>19, <2>20 DEF Less
  <2>22. /\ global'.reserved = global.reserved - released /\ global'.actual = global.actual + cost
         /\ global'.uncertain = global.uncertain - est
    BY <2>4, <2>21
  <2>23. PoolFollows(o)
    BY <2>1, <2>2, <2>3, <2>7, <2>15, <2>16, <2>18, <2>19, <2>22 DEF PoolFollows
  <2>24. OwnFollows(o)
    <3>1. InReserve(o)' = InReserve(o) /\ InCount(o)' = InCount(o)
      BY <1>2 DEF InReserve, InCount
    <3>2. One(InReserve(o), "in") \in {0, 1} /\ One(InCount(o), "in") \in {0, 1} /\ Reserve \in Nat
      BY AmountsAssumption DEF One
    <3>3. Reserve * One(InReserve(o), "in") \in Int
      BY <3>2
    <3> QED BY <1>2, <2>14, <2>17, <2>18, <2>19, <3>1, <3>2, <3>3 DEF OwnFollows
  <2>25. LedgerTypes'
    <3>1. global.reserved - released \in Int /\ global.actual + cost \in Int /\ global.uncertain - est \in Int
      BY <2>1, <2>2, <2>3, <2>19
    <3> QED BY <1>1, <1>2, <2>4, <2>21, <3>1 DEF LedgerTypes
  <2>26. Balanced'
    BY <1>1, <1>2, <2>8, <2>10, <2>23, <2>24, <2>25, BooksAtOne
  <2> QED BY <2>10, <2>26 DEF Books
<1> QED BY <1>3, <1>4

\* What is left of a reserve is shared out whole among the calls in flight.
LEMMA SharesAddUp ==
  ASSUME TypeOK, NEW o \in Ops, NEW last \in With(o, "in_flight"),
         NEW f, \A c \in With(o, "in_flight") : f[c] = Share(o, last, c)
  PROVE  /\ \A c \in With(o, "in_flight") : f[c] \in Nat
         /\ SumFunctionOnSet(f, With(o, "in_flight")) = receipt[o].remaining
<1> DEFINE F == With(o, "in_flight")
           n == Cardinality(F)
           r == receipt[o].remaining
           part == r \div n
           rest == (n - 1) * part
<1>1. IsFiniteSet(F) /\ n \in Nat /\ n # 0 /\ r \in Nat
  <2>1. IsFiniteSet(F)
    BY WithIn, CallsFinite
  <2>2. n \in Nat /\ n # 0
    BY <2>1, FS_CardinalityType, FS_EmptySet
  <2> QED BY <2>1, <2>2, OpTyped DEF Receipt
<1>2. \A c \in F : f[c] = IF c = last THEN r - rest ELSE part
  BY DEF Share
<1>3. last \in F
  OBVIOUS
<1>4. IsFiniteSet(F \ {last}) /\ Cardinality(F \ {last}) = n - 1
  BY <1>1, <1>3, FS_RemoveElement
<1> HIDE DEF F, n, r
<1>5. part \in Nat /\ rest \in Nat /\ rest <= r
  BY <1>1, Division
<1> HIDE DEF part, rest
<1>6. \A c \in F : f[c] \in Nat
  BY <1>1, <1>2, <1>5
<1>7. SumFunctionOnSet(f, F \ {last}) = rest
  <2>1. \A c \in F \ {last} : f[c] = part
    BY <1>2
  <2> QED BY <1>4, <1>5, <2>1, SumEqual DEF rest
<1>8. SumFunctionOnSet(f, F) = f[last] + SumFunctionOnSet(f, F \ {last})
  BY <1>1, <1>3, <1>6, SumRemove
<1>9. SumFunctionOnSet(f, F) = r
  BY <1>1, <1>2, <1>3, <1>5, <1>7, <1>8
<1> QED BY <1>6, <1>9 DEF F, r

\* A receipt that closes turns what is left into what is uncertain, call by
\* call, and the pool follows.
LEMMA CloseBooks ==
  ASSUME TypeOK, Entries, Balanced, NEW o \in Ops, NEW last \in Calls, CloseReceipt(o, last)
  PROVE  /\ \A c \in Calls : calls'[o][c].est \in Nat /\ calls'[o][c].cost = calls[o][c].cost
         /\ \A c \in Calls : calls'[o][c].status \notin {"none", "in_flight"} \/ calls'[o][c] = calls[o][c]
         /\ With(o, "observed")' = With(o, "observed")
         /\ Doubted(o)' = Doubted(o) + Unsettled(o) /\ Unsettled(o) \in Nat
         /\ receipt'[o].remaining = 0
         /\ \A u \in Ops : u # o => receipt'[u] = receipt[u] /\ calls'[u] = calls[u]
         /\ global' \in [reserved : Int, actual : Int, uncertain : Int]
         /\ PoolFollows(o)
<1>1. /\ receipt'[o].remaining = 0 /\ \A u \in Ops : u # o => receipt'[u] = receipt[u] /\ calls'[u] = calls[u]
      /\ \A c \in Calls : IF calls[o][c].status = "in_flight"
                          THEN calls'[o][c].status = "uncertain" ELSE calls'[o][c] = calls[o][c]
  BY Closed
<1>2. \A c \in Calls : calls[o][c].status = "in_flight" =>
        calls'[o][c] = [status |-> "uncertain", est |-> Share(o, last, c), cost |-> 0]
  BY DEF CloseReceipt, TypeOK
<1>3. \A c \in Calls : /\ calls[o][c].est \in Nat /\ calls[o][c].cost \in Nat
                       /\ calls[o][c].status = "in_flight" => calls[o][c].est = 0 /\ calls[o][c].cost = 0
  BY Typed DEF Entries, CallBooks, UsageCall
<1> DEFINE F == With(o, "in_flight")
           U == With(o, "uncertain")
           A == With(o, "observed")
           Est == [c \in Calls |-> calls[o][c].est]
           Est2 == [c \in Calls |-> calls'[o][c].est]
           Cost == [c \in Calls |-> calls[o][c].cost]
           Cost2 == [c \in Calls |-> calls'[o][c].cost]
<1>4. /\ With(o, "observed")' = A /\ With(o, "uncertain")' = U \cup F /\ U \cap F = {}
      /\ F \subseteq Calls /\ U \subseteq Calls /\ A \subseteq Calls
  BY <1>1 DEF With
<1>5. ASSUME NEW c \in Calls PROVE calls'[o][c].cost = calls[o][c].cost
  <2>1. CASE calls[o][c].status = "in_flight"
    <3>1. calls'[o][c].cost = 0
      <4>1. calls'[o][c] = [status |-> "uncertain", est |-> Share(o, last, c), cost |-> 0]
        BY <1>2, <2>1
      <4> QED BY <4>1
    <3> QED BY <1>3, <2>1, <3>1
  <2>2. CASE calls[o][c].status # "in_flight"
    BY <1>1, <2>2
  <2> QED BY <2>1, <2>2
<1>6. F # {} => last \in F
  BY DEF CloseReceipt
<1>7. ASSUME NEW c \in F PROVE Est2[c] = Share(o, last, c)
  <2>1. c \in Calls /\ calls[o][c].status = "in_flight"
    BY DEF With
  <2>2. calls'[o][c] = [status |-> "uncertain", est |-> Share(o, last, c), cost |-> 0]
    BY <1>2, <2>1
  <2>3. calls'[o][c].est = Share(o, last, c)
    BY <2>2
  <2> QED BY <2>1, <2>3
<1>8. \A c \in Calls : c \notin F => calls'[o][c] = calls[o][c]
  BY <1>1 DEF With
<1>9. Unsettled(o) = SumFunctionOnSet(Est2, F) /\ Unsettled(o) \in Nat /\ \A c \in F : Est2[c] \in Nat
  <2>1. CASE F = {}
    <3>1. Unsettled(o) = 0 /\ SumFunctionOnSet(Est2, F) = 0
      BY <2>1, SumEmpty DEF Unsettled
    <3> QED BY <2>1, <3>1
  <2>2. CASE F # {}
    <3>1. /\ \A c \in F : Est2[c] \in Nat
          /\ SumFunctionOnSet(Est2, F) = receipt[o].remaining
      <4> HIDE DEF Est2
      <4> QED BY <1>6, <1>7, <2>2, SharesAddUp
    <3>2. Unsettled(o) = receipt[o].remaining
      BY <2>2 DEF Unsettled
    <3> QED BY <3>1, <3>2, OpTyped DEF Receipt
  <2> QED BY <2>1, <2>2
<1>10. \A c \in Calls : calls'[o][c].est \in Nat
  BY <1>3, <1>8, <1>9
<1>11. Doubted(o) = SumFunctionOnSet(Est, U) /\ Doubted(o)' = SumFunctionOnSet(Est2, U \cup F)
  BY <1>4 DEF Doubted, EstimateOf
<1>12. Seen(o)' = Seen(o)
  <2>1. Cost2 = Cost
    BY <1>5
  <2> QED BY <1>4, <2>1 DEF Seen, CostOf
<1>13. \A c \in Calls : Est2[c] \in Nat
  BY <1>10
<1>14. \A c \in U : Est2[c] = Est[c]
  BY <1>4, <1>8
<1> HIDE DEF F, U, A, Est, Est2, Cost, Cost2
<1>15. Doubted(o)' = Doubted(o) + Unsettled(o)
  <2>1. IsFiniteSet(U) /\ IsFiniteSet(F) /\ \A c \in U \cup F : Est2[c] \in Nat
    BY <1>4, <1>13, CallsFinite
  <2>2. SumFunctionOnSet(Est2, U \cup F) = SumFunctionOnSet(Est2, U) + SumFunctionOnSet(Est2, F)
    BY <1>4, <2>1, SumUnion
  <2>3. SumFunctionOnSet(Est2, U) = SumFunctionOnSet(Est, U)
    BY <1>4, <1>14, SameSums
  <2> QED BY <1>9, <1>11, <2>2, <2>3
<1>16. /\ receipt[o].remaining \in Nat /\ receipt[o].remaining <= global.reserved
       /\ Seen(o) \in Nat /\ Doubted(o) \in Nat
  BY BooksTyped, PoolAtLeast
<1>17. /\ global.reserved \in Int /\ global.actual \in Int /\ global.uncertain \in Int
       /\ global' = [reserved |-> Less(global.reserved, receipt[o].remaining), actual |-> global.actual,
                     uncertain |-> global.uncertain + Unsettled(o)]
  BY DEF Balanced, LedgerTypes, CloseReceipt
<1>18. Less(global.reserved, receipt[o].remaining) = global.reserved - receipt[o].remaining
  BY <1>16, <1>17 DEF Less
<1>19. /\ global' \in [reserved : Int, actual : Int, uncertain : Int]
       /\ global'.reserved = global.reserved - receipt[o].remaining /\ global'.actual = global.actual
       /\ global'.uncertain = global.uncertain + Unsettled(o)
  <2>1. global.reserved - receipt[o].remaining \in Int /\ global.uncertain + Unsettled(o) \in Int
    BY <1>9, <1>16, <1>17
  <2> QED BY <1>17, <1>18, <2>1
<1>20. PoolFollows(o)
  BY <1>1, <1>9, <1>12, <1>15, <1>16, <1>17, <1>19 DEF PoolFollows
<1>21. \A c \in Calls : calls'[o][c].status \notin {"none", "in_flight"} \/ calls'[o][c] = calls[o][c]
  BY <1>1
<1> QED BY <1>1, <1>4, <1>5, <1>9, <1>10, <1>15, <1>19, <1>20, <1>21 DEF A

\* abandonGenerationUsage: only the pool's side is still there.
LEMMA AbandonBooks ==
  ASSUME IInv, TypeOK', Books, NEW o \in Ops, AbandonUsage(o) PROVE Books'
<1>1. TypeOK /\ Entries /\ Balanced /\ LedgerTypes
  BY DEF IInv, Books, Balanced
<1>2. UNCHANGED <<op, stage, accounted, personal, active>> /\ ~active
  BY DEF AbandonUsage, personalVars
<1>3. PICK last \in Calls : CloseReceipt(o, last)
  BY DEF AbandonUsage
<1>4. /\ \A c \in Calls : calls'[o][c].est \in Nat /\ calls'[o][c].cost = calls[o][c].cost
      /\ \A c \in Calls : calls'[o][c].status \notin {"none", "in_flight"} \/ calls'[o][c] = calls[o][c]
      /\ With(o, "observed")' = With(o, "observed")
      /\ receipt'[o].remaining = 0
      /\ \A u \in Ops : u # o => receipt'[u] = receipt[u] /\ calls'[u] = calls[u]
      /\ global' \in [reserved : Int, actual : Int, uncertain : Int]
      /\ PoolFollows(o)
  BY <1>1, <1>3, CloseBooks
<1>5. \A u \in Ops : u # o => Unmoved(u) /\ stage'[u] = stage[u]
  BY <1>2, <1>4 DEF Unmoved
<1>6. Entries'
  <2>1. OpBooks(o)'
    BY <1>1, <1>2, <1>4 DEF Entries, OpBooks
  <2>2. ASSUME NEW c \in Calls PROVE CallBooks(o, c)'
    <3>1. CallBooks(o, c) /\ (c \in With(o, "observed")' <=> c \in With(o, "observed"))
      BY <1>1, <1>4 DEF Entries
    <3>2. calls'[o][c].status = "observed" <=> calls[o][c].status = "observed"
      BY <3>1 DEF With
    <3>3. Claimable(o, c)' => calls'[o][c].status = "none"
      <4>1. IF calls[o][c].status = "in_flight"
            THEN calls'[o][c].status = "uncertain" ELSE calls'[o][c] = calls[o][c]
        BY <1>1, <1>3, Closed
      <4> QED BY <1>2, <3>1, <4>1 DEF CallBooks, Claimable
    <3> QED BY <1>2, <1>4, <3>1, <3>2, <3>3 DEF CallBooks
  <2> QED BY <1>1, <1>2, <1>5, <2>1, <2>2, EntriesAtOne
<1>7. Balanced'
  <2>1. LedgerTypes'
    BY <1>1, <1>2, <1>4 DEF LedgerTypes
  <2> QED BY <1>1, <1>2, <1>4, <1>5, <1>6, <2>1, BooksAtOne
<1> QED BY <1>6, <1>7 DEF Books

LEMMA TimesSome == ASSUME NEW r \in Nat, NEW n \in Nat, n >= 1 PROVE r * n \in Nat /\ r <= r * n
OBVIOUS

\* The user's ledger holds the reserve and the count of every open operation,
\* and what every operation still owes.
LEMMA OwnAtLeast ==
  ASSUME TypeOK, Entries, Balanced, active, NEW o \in Ops
  PROVE  /\ Open(o) => Reserve <= personal.reserved /\ 1 <= personal.count
         /\ Owed(o) <= personal.uncertain
<1>1. OwnBalanced
  BY DEF Balanced
<1>2. Reserve \in Nat /\ IsFiniteSet(Ops)
  BY AmountsAssumption, FiniteAssumption
<1>3. Open(o) => Reserve <= personal.reserved /\ 1 <= personal.count
  <2> SUFFICES ASSUME Open(o) PROVE Reserve <= personal.reserved /\ 1 <= personal.count
    OBVIOUS
  <2>1. Opens[o] = "in" /\ Counts[o] = "in"
    BY DEF Opens, Counts, InReserve, InCount
  <2>2. Count(Opens, Ops, "in") \in Nat /\ Count(Opens, Ops, "in") >= 1
    <3>1. Count(Opens, Ops, Opens[o]) \in Nat /\ Count(Opens, Ops, Opens[o]) >= 1
      BY <1>2, CountSome
    <3> QED BY <2>1, <3>1
  <2>3. Count(Counts, Ops, "in") \in Nat /\ Count(Counts, Ops, "in") >= 1
    <3>1. Count(Counts, Ops, Counts[o]) \in Nat /\ Count(Counts, Ops, Counts[o]) >= 1
      BY <1>2, CountSome
    <3> QED BY <2>1, <3>1
  <2>4. Reserve <= Reserve * Count(Opens, Ops, "in")
    BY <1>2, <2>2, TimesSome
  <2>5. personal.reserved = Reserve * Count(Opens, Ops, "in") /\ personal.count = Count(Counts, Ops, "in")
    BY <1>1 DEF OwnBalanced
  <2> QED BY <2>3, <2>4, <2>5
<1>4. Owed(o) <= personal.uncertain
  <2>1. \A u \in Ops : Owes[u] \in Nat
    BY BooksTyped DEF Owes
  <2>2. Owes[o] <= SumFunctionOnSet(Owes, Ops)
    BY <1>2, <2>1, SumAtLeast
  <2> QED BY <1>1, <2>2 DEF OwnBalanced, Owes
<1> QED BY <1>3, <1>4

\* The end of an open operation: its reserve and, if it failed, its count are
\* given back, what is known is charged, and the rest is owed.
LEMMA EndBooks ==
  ASSUME IInv, TypeOK', Books, NEW o \in Ops, NEW failed \in BOOLEAN, NEW last \in Calls,
         Open(o), Settle(o, failed), CloseReceipt(o, last), active, UNCHANGED <<stage, active>>
  PROVE  Books'
<1>1. TypeOK /\ Entries /\ Balanced /\ LedgerTypes
  BY DEF IInv, Books, Balanced
<1>2. /\ \A c \in Calls : calls'[o][c].est \in Nat /\ calls'[o][c].cost = calls[o][c].cost
      /\ \A c \in Calls : calls'[o][c].status \notin {"none", "in_flight"} \/ calls'[o][c] = calls[o][c]
      /\ With(o, "observed")' = With(o, "observed")
      /\ Doubted(o)' = Doubted(o) + Unsettled(o) /\ Unsettled(o) \in Nat
      /\ receipt'[o].remaining = 0
      /\ \A u \in Ops : u # o => receipt'[u] = receipt[u] /\ calls'[u] = calls[u]
      /\ global' \in [reserved : Int, actual : Int, uncertain : Int]
      /\ PoolFollows(o)
  BY <1>1, CloseBooks
<1>3. /\ op'[o].status = IF failed THEN "failed" ELSE "completed"
      /\ \A u \in Ops : u # o => op'[u] = op[u]
  BY <1>1 DEF Settle, TypeOK, Operation
<1>4. accounted'[o] = With(o, "observed") /\ \A u \in Ops : u # o => accounted'[u] = accounted[u]
  BY <1>1 DEF Settle, TypeOK
<1>5. \A u \in Ops : u # o => Unmoved(u) /\ stage'[u] = stage[u]
  BY <1>2, <1>3, <1>4 DEF Unmoved
<1>6. Entries'
  <2>1. OpBooks(o)'
    BY <1>3 DEF OpBooks
  <2>2. ASSUME NEW c \in Calls PROVE CallBooks(o, c)'
    <3>1. CallBooks(o, c) /\ (c \in With(o, "observed")' <=> c \in With(o, "observed"))
      BY <1>1, <1>2 DEF Entries
    <3>2. calls'[o][c].status = "observed" <=> c \in accounted'[o]
      BY <1>2, <1>4 DEF With
    <3>3. IF calls[o][c].status = "in_flight"
          THEN calls'[o][c].status = "uncertain" ELSE calls'[o][c] = calls[o][c]
      BY <1>1, Closed
    <3>4. Claimable(o, c)' => calls'[o][c].status = "none"
      BY <3>1, <3>3 DEF CallBooks, Claimable
    <3> QED BY <1>2, <3>1, <3>2, <3>4 DEF CallBooks
  <2> QED BY <1>1, <1>5, <2>1, <2>2, EntriesAtOne
<1>7. Charged(o) = 0 /\ Charged(o)' = CostOf(o, With(o, "observed")) /\ Charged(o)' \in Nat
  <2>1. accounted[o] = {}
    BY <1>1 DEF Entries, OpBooks
  <2>2. Charged(o) = 0
    BY <2>1, SumEmpty DEF Charged, CostOf
  <2>3. [c \in Calls |-> calls'[o][c].cost] = [c \in Calls |-> calls[o][c].cost]
    BY <1>2
  <2>4. Charged(o)' = CostOf(o, With(o, "observed"))
    BY <1>4, <2>3 DEF Charged, CostOf
  <2> QED BY <1>6, <2>2, <2>4, BooksTypedNext
<1>8. Owed(o) = 0 /\ Owed(o)' = Unsettled(o)
  <2>1. With(o, "uncertain") = {}
    BY DEF IInv, CallFacts, With
  <2>2. Doubted(o) = 0
    BY <2>1, SumEmpty DEF Doubted, EstimateOf
  <2>3. (With(o, "uncertain")' \cup With(o, "observed")') \ accounted'[o] = With(o, "uncertain")'
    BY <1>2, <1>4 DEF With
  <2>4. Owed(o)' = Doubted(o)'
    BY <1>3, <2>3 DEF Owed, Doubted, EstimateOf
  <2>5. Owed(o) = 0
    BY DEF Owed
  <2> QED BY <1>2, <2>2, <2>4, <2>5
<1>9. Reserve \in Nat /\ Reserve <= personal.reserved /\ 1 <= personal.count
  BY <1>1, OwnAtLeast, AmountsAssumption
<1> DEFINE spent == CostOf(o, With(o, "observed"))
           owed == Unsettled(o)
<1>10. /\ personal.reserved \in Int /\ personal.actual \in Int /\ personal.uncertain \in Int /\ personal.count \in Int
       /\ personal' = [reserved |-> Less(personal.reserved, Reserve), actual |-> personal.actual + spent,
                       uncertain |-> personal.uncertain + owed,
                       count |-> IF failed THEN Less(personal.count, 1) ELSE personal.count]
  BY <1>1 DEF LedgerTypes, Settle
<1>11. spent \in Nat /\ owed \in Nat /\ Charged(o)' = spent /\ Owed(o)' = owed
  BY <1>2, <1>7, <1>8
<1> HIDE DEF spent, owed
<1>12. Less(personal.reserved, Reserve) = personal.reserved - Reserve /\ Less(personal.count, 1) = personal.count - 1
  BY <1>9, <1>10 DEF Less
<1>13. /\ personal'.reserved = personal.reserved - Reserve /\ personal'.actual = personal.actual + spent
       /\ personal'.uncertain = personal.uncertain + owed
       /\ personal'.count = IF failed THEN personal.count - 1 ELSE personal.count
       /\ personal' \in [reserved : Int, actual : Int, uncertain : Int, count : Int]
  <2>1. /\ personal.reserved - Reserve \in Int /\ personal.actual + spent \in Int
        /\ personal.uncertain + owed \in Int /\ personal.count - 1 \in Int
    BY <1>9, <1>10, <1>11
  <2> QED BY <1>10, <1>12, <2>1
<1>14. /\ One(InReserve(o), "in") = 1 /\ One(InReserve(o)', "in") = 0
       /\ One(InCount(o), "in") = 1 /\ One(InCount(o)', "in") = IF failed THEN 0 ELSE 1
  BY <1>3 DEF One, InReserve, InCount
<1>15. Reserve * One(InReserve(o), "in") = Reserve /\ Reserve * One(InReserve(o)', "in") = 0
  BY <1>9, <1>14
<1>16. OwnFollows(o)
  BY <1>7, <1>8, <1>9, <1>10, <1>11, <1>13, <1>14, <1>15 DEF OwnFollows
<1>17. LedgerTypes'
  BY <1>2, <1>13 DEF LedgerTypes
<1>18. Balanced'
  BY <1>1, <1>2, <1>5, <1>6, <1>16, <1>17, BooksAtOne
<1> QED BY <1>6, <1>18 DEF Books

LEMMA EndsBooks ==
  ASSUME IInv, TypeOK', Books, NEW o \in Ops, Complete(o) \/ Fail(o) \/ Reconcile(o) \/ Abandon(o) PROVE Books'
<1>1. PICK failed \in BOOLEAN, last \in Calls : Settle(o, failed) /\ CloseReceipt(o, last)
  BY DEF Complete, Fail, Reconcile, Abandon, FailReconcile
<1>2. Open(o) /\ active /\ UNCHANGED <<stage, active>>
  BY DEF Complete, Fail, Reconcile, Abandon, FailReconcile, Owns
<1> QED BY <1>1, <1>2, EndBooks

\* Late answers replace their estimates in the user's ledger, each once.
LEMMA LateBooks ==
  ASSUME IInv, TypeOK', Books, NEW o \in Ops, AccountLate(o) PROVE Books'
<1>1. TypeOK /\ Entries /\ Balanced /\ LedgerTypes /\ accounted[o] \subseteq Calls
  BY DEF IInv, Books, Balanced, TypeOK
<1>2. UNCHANGED <<op, stage, receipt, calls, global, active>> /\ active /\ op[o].status = "failed"
  BY DEF AccountLate
<1> DEFINE acc == accounted[o]
           L == Late(o)
           UA == With(o, "uncertain") \cup With(o, "observed")
           Cost == [c \in Calls |-> calls[o][c].cost]
           Est == [c \in Calls |-> calls[o][c].est]
<1>3. accounted'[o] = acc \cup L /\ \A u \in Ops : u # o => accounted'[u] = accounted[u]
  BY <1>1 DEF AccountLate, TypeOK
<1>4. /\ acc \subseteq Calls /\ L \subseteq Calls /\ UA \ (acc \cup L) \subseteq Calls
      /\ acc \cap L = {} /\ L \cap (UA \ (acc \cup L)) = {}
      /\ UA \ acc = L \cup (UA \ (acc \cup L))
  BY <1>1 DEF Late, With
<1>5. /\ Charged(o) = SumFunctionOnSet(Cost, acc) /\ Charged(o)' = SumFunctionOnSet(Cost, acc \cup L)
      /\ CostOf(o, L) = SumFunctionOnSet(Cost, L)
  BY <1>2, <1>3 DEF Charged, CostOf
<1>6. /\ Owed(o) = SumFunctionOnSet(Est, UA \ acc) /\ Owed(o)' = SumFunctionOnSet(Est, UA \ (acc \cup L))
      /\ EstimateOf(o, L) = SumFunctionOnSet(Est, L)
  BY <1>2, <1>3 DEF Owed, EstimateOf, With
<1>7. \A c \in Calls : Cost[c] \in Nat /\ Est[c] \in Nat
  <2>1. \A c \in Calls : calls[o][c].cost \in Nat /\ calls[o][c].est \in Nat
    BY <1>1, Typed DEF UsageCall, Entries, CallBooks
  <2> QED BY <2>1
<1>8. \A u \in Ops : u # o => Unmoved(u) /\ stage'[u] = stage[u]
  BY <1>2, <1>3 DEF Unmoved
<1>9. Entries'
  <2>1. OpBooks(o)'
    BY <1>2 DEF OpBooks
  <2>2. ASSUME NEW c \in Calls PROVE CallBooks(o, c)'
    <3>1. c \in accounted'[o] => calls[o][c].status = "observed"
      BY <1>1, <1>3 DEF Entries, CallBooks, Late, With
    <3> QED BY <1>1, <1>2, <3>1 DEF Entries, CallBooks, Claimable
  <2> QED BY <1>1, <1>2, <1>8, <2>1, <2>2, EntriesAtOne
<1>10. Seen(o)' = Seen(o) /\ Doubted(o)' = Doubted(o) /\ InReserve(o)' = InReserve(o) /\ InCount(o)' = InCount(o)
  BY <1>2 DEF Seen, Doubted, CostOf, EstimateOf, With, InReserve, InCount
<1> DEFINE spent == CostOf(o, L)
           freed == EstimateOf(o, L)
<1>11. personal' = [personal EXCEPT !.actual = @ + spent, !.uncertain = Less(@, freed)]
  BY DEF AccountLate
<1> HIDE DEF Cost, Est, acc, L, UA
<1>12. /\ Charged(o)' = Charged(o) + spent /\ spent \in Nat
       /\ Owed(o) = freed + Owed(o)' /\ freed \in Nat /\ Owed(o)' \in Nat
  <2>1. IsFiniteSet(acc) /\ IsFiniteSet(L) /\ IsFiniteSet(UA \ (acc \cup L))
    BY <1>4, CallsFinite
  <2>2. \A c \in acc \cup L : Cost[c] \in Nat
    BY <1>4, <1>7
  <2>3. \A c \in L \cup (UA \ (acc \cup L)) : Est[c] \in Nat
    BY <1>4, <1>7
  <2>4. SumFunctionOnSet(Cost, acc \cup L) = SumFunctionOnSet(Cost, acc) + SumFunctionOnSet(Cost, L)
    BY <1>4, <2>1, <2>2, SumUnion
  <2>5. SumFunctionOnSet(Est, L \cup (UA \ (acc \cup L)))
          = SumFunctionOnSet(Est, L) + SumFunctionOnSet(Est, UA \ (acc \cup L))
    BY <1>4, <2>1, <2>3, SumUnion
  <2>6. SumFunctionOnSet(Cost, L) \in Nat
    BY <2>1, <2>2, SumType
  <2>7. SumFunctionOnSet(Est, L) \in Nat
    BY <2>1, <2>3, SumType
  <2>8. Owed(o)' \in Nat
    BY <1>9, BooksTypedNext
  <2> QED BY <1>4, <1>5, <1>6, <2>4, <2>5, <2>6, <2>7, <2>8
<1> HIDE DEF spent, freed
<1>13. /\ Owed(o) <= personal.uncertain /\ Charged(o) \in Nat /\ Seen(o) \in Nat /\ Doubted(o) \in Nat
       /\ receipt[o].remaining \in Nat
  BY <1>1, <1>2, OwnAtLeast, BooksTyped
<1>14. /\ personal.reserved \in Int /\ personal.actual \in Int /\ personal.uncertain \in Int /\ personal.count \in Int
       /\ global.reserved \in Int /\ global.actual \in Int /\ global.uncertain \in Int
       /\ personal' = [reserved |-> personal.reserved, actual |-> personal.actual + spent,
                       uncertain |-> Less(personal.uncertain, freed), count |-> personal.count]
  BY <1>1, <1>11 DEF LedgerTypes
<1>15. Less(personal.uncertain, freed) = personal.uncertain - freed
  BY <1>12, <1>13, <1>14 DEF Less
<1>16. LedgerTypes'
  <2>1. personal.actual + spent \in Int /\ personal.uncertain - freed \in Int
    BY <1>12, <1>14
  <2> QED BY <1>1, <1>2, <1>14, <1>15, <2>1 DEF LedgerTypes
<1>17. PoolFollows(o)
  BY <1>2, <1>10, <1>13, <1>14 DEF PoolFollows
<1>18. OwnFollows(o)
  <2>1. One(InReserve(o), "in") \in {0, 1} /\ One(InCount(o), "in") \in {0, 1} /\ Reserve \in Nat
    BY AmountsAssumption DEF One
  <2>2. Reserve * One(InReserve(o), "in") \in Int
    BY <2>1
  <2>3. /\ personal'.reserved = personal.reserved /\ personal'.count = personal.count
        /\ personal'.actual = personal.actual + spent /\ personal'.uncertain = personal.uncertain - freed
    BY <1>14, <1>15
  <2> QED BY <1>10, <1>12, <1>13, <1>14, <2>1, <2>2, <2>3 DEF OwnFollows
<1>19. Balanced'
  BY <1>1, <1>2, <1>8, <1>9, <1>16, <1>17, <1>18, BooksAtOne
<1> QED BY <1>9, <1>19 DEF Books

LEMMA InitBooks == Init => Books
<1> SUFFICES ASSUME Init PROVE Books
  OBVIOUS
<1>1. TypeOK
  BY InitIInv DEF IInv
<1>2. Entries
  <2>1. \A o \in Ops : OpBooks(o)
    BY DEF Init, OpBooks
  <2>2. \A o \in Ops, c \in Calls : CallBooks(o, c)
    BY DEF Init, CallBooks, NoCall
  <2> QED BY <2>1, <2>2 DEF Entries
<1>3. LedgerTypes
  BY DEF Init, LedgerTypes
<1>4. \A o \in Ops : /\ With(o, "observed") = {} /\ With(o, "uncertain") = {} /\ accounted[o] = {}
                     /\ receipt[o].remaining = 0 /\ op[o].status = "none"
  BY DEF Init, With, NoCall
<1>5. \A o \in Ops : Seen(o) = 0 /\ Doubted(o) = 0 /\ Charged(o) = 0 /\ Owed(o) = 0
  BY <1>4, SumEmpty DEF Seen, Doubted, Charged, CostOf, EstimateOf, Owed
<1>6. /\ \A o \in Ops : Lefts[o] = 0 /\ Seens[o] = 0 /\ Doubts[o] = 0 /\ Charges[o] = 0 /\ Owes[o] = 0
      /\ {o \in Ops : Opens[o] = "in"} = {} /\ {o \in Ops : Counts[o] = "in"} = {}
  BY <1>4, <1>5 DEF Lefts, Seens, Doubts, Charges, Owes, Opens, Counts, InReserve, InCount
<1>7. /\ SumFunctionOnSet(Lefts, Ops) = 0 /\ SumFunctionOnSet(Seens, Ops) = 0 /\ SumFunctionOnSet(Doubts, Ops) = 0
      /\ SumFunctionOnSet(Charges, Ops) = 0 /\ SumFunctionOnSet(Owes, Ops) = 0
  BY <1>6, FiniteAssumption, SumZero
<1>8. Count(Opens, Ops, "in") = 0 /\ Count(Counts, Ops, "in") = 0
  BY <1>6, FS_EmptySet DEF Count
<1>9. Reserve * Count(Opens, Ops, "in") = 0
  BY <1>8, AmountsAssumption
<1>10. Balanced
  BY <1>3, <1>7, <1>8, <1>9 DEF Balanced, PoolBalanced, OwnBalanced, Init
<1> QED BY <1>2, <1>10 DEF Books

LEMMA NextBooks == IInv /\ IInv' /\ Books /\ [Next]_vars => Books'
<1> SUFFICES ASSUME IInv, IInv', Books, [Next]_vars PROVE Books'
  OBVIOUS
<1>1. TypeOK'
  BY DEF IInv
<1>2. CASE DeleteAccount \/ UNCHANGED vars
  <2>1. UNCHANGED <<op, stage, receipt, calls, accounted, personal, global>> /\ (active' => active)
    BY <1>2 DEF DeleteAccount, personalVars, vars
  <2>2. \A u \in Ops, c \in Calls : Claimable(u, c)' => Claimable(u, c)
    BY <2>1 DEF Claimable
  <2> QED BY <2>1, <2>2, QuietBooks
<1>3. ASSUME NEW o \in Ops,
             \/ Begin(o) \/ Resume(o) \/ Deny(o)
             \/ Pause(o) \/ Complete(o) \/ Fail(o) \/ Reconcile(o) \/ Abandon(o) \/ AccountLate(o)
             \/ Expire(o) \/ AbandonUsage(o) \/ RemoveRecords(o)
      PROVE Books'
  BY <1>1, <1>3, BeginBooks, ResumeBooks, EndsBooks, LateBooks, AbandonBooks
<1>4. ASSUME NEW o \in Ops, NEW c \in Calls,
             \/ Claim(o, c) \/ Refuse(o, c) \/ Lose(o, c) \/ Work(o, c)
             \/ \E ok \in BOOLEAN, cost \in Costs \cup {0} : Answer(o, c, ok, cost)
      PROVE Books'
  BY <1>1, <1>4, IntentBooks, RecordBooks, ServerBooks DEF Work
<1> QED BY <1>2, <1>3, <1>4 DEF Next

LEMMA BooksHold == Spec => [](IInv /\ Books)
BY InitIInv, InitBooks, NextIInv, NextBooks, PTL DEF Spec

\* What the pool holds is what the receipts hold (recordProviderUsage,
\* finishGenerationOperation, abandonGenerationUsage), for any number of
\* operations and calls, any reserve and any costs.
THEOREM PoolAlwaysMatches == Spec => []PoolMatchesReceipts
<1>1. Books => PoolMatchesReceipts
  BY BalancedIs DEF Books
<1> QED BY <1>1, BooksHold, PTL

\* What the user's ledger holds is what the operations hold, and what the late
\* answers of failed ones have not replaced yet
\* (reconcileGenerationPersonalUsage).
THEOREM LedgerAlwaysMatches == Spec => []LedgerMatchesOperations
<1>1. Books => LedgerMatchesOperations
  BY BalancedIs DEF Books
<1> QED BY <1>1, BooksHold, PTL
=============================================================================
