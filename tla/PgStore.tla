------------------------------- MODULE PgStore -------------------------------
(***************************************************************************)
(* The pessimistic backend (src/lib/postgres-document-store.ts) under the  *)
(* same retry loop of runStoredDocumentTransaction.                        *)
(*                                                                         *)
(* A transaction takes an advisory lock on each path it will read, absent  *)
(* ones included, one statement at a time in sorted order; then one SELECT *)
(* ... FOR UPDATE reads the documents.  The locks are held until COMMIT or *)
(* ROLLBACK, or until a timer rolls an abandoned transaction back.  There  *)
(* are no versions and no conflicts: waiting replaces retrying.            *)
(***************************************************************************)
EXTENDS Naturals, FiniteSets

CONSTANTS Paths,     \* document paths, by their rank in sort order
          Data,      \* document contents
          NoData,    \* the content of an absent document
          Txns,      \* concurrent callers, each on a connection of its own
          NoTxn,     \* the holder of a free lock
          MaxTries   \* passes of the retry loop (code: 16)

ASSUME PathsAssumption == Paths \subseteq Nat /\ IsFiniteSet(Paths)
ASSUME NoTxnAssumption == NoTxn \notin Txns /\ NoData \notin Data
ASSUME MaxTriesAssumption == MaxTries \in Nat \ {0}

VARIABLES rows,    \* path -> content
          holder,  \* path -> the transaction holding its advisory lock
          pc,      \* caller -> where it is
          wanted,  \* caller -> readPaths
          seen,    \* caller -> path -> what FOR UPDATE returned
          tries    \* caller -> passes of the loop begun by this call

vars == <<rows, holder, pc, wanted, seen, tries>>

Content == Data \cup {NoData}
Ended == {"idle", "done", "failed"}

TypeOK ==
  /\ rows \in [Paths -> Content]
  /\ holder \in [Paths -> Txns \cup {NoTxn}]
  /\ pc \in [Txns -> Ended \cup {"locking", "deciding", "expired"}]
  /\ wanted \in [Txns -> SUBSET Paths]
  /\ seen \in [Txns -> [Paths -> Content]]
  /\ tries \in [Txns -> Nat]

Init ==
  /\ rows \in [Paths -> Content]
  /\ holder = [p \in Paths |-> NoTxn]
  /\ pc = [t \in Txns |-> "idle"]
  /\ wanted = [t \in Txns |-> {}]
  /\ seen = [t \in Txns |-> [p \in Paths |-> NoData]]
  /\ tries = [t \in Txns |-> 0]

-----------------------------------------------------------------------------
Held(t) == {p \in Paths : holder[p] = t}

\* COMMIT and ROLLBACK free every lock of the transaction.
Release(t) ==
  /\ holder' = [p \in Paths |-> IF holder[p] = t THEN NoTxn ELSE holder[p]]
  /\ seen' = [seen EXCEPT ![t] = [p \in Paths |-> NoData]]

\* Mutant: the call ends and leaves its transaction open.
RollbackHolding(t) ==
  /\ pc' = [pc EXCEPT ![t] = "failed"]
  /\ UNCHANGED <<rows, holder, wanted, seen, tries>>

\* The call ends with the database untouched: a failed connection, lock wait
\* or query discards the connection, and the server rolls back.
Rollback(t) ==
  /\ pc' = [pc EXCEPT ![t] = "failed"]
  /\ Release(t)
  /\ UNCHANGED <<rows, wanted, tries>>

\* A caller enters runStoredDocumentTransaction.
Start(t, S) ==
  /\ pc[t] \in Ended
  /\ pc' = [pc EXCEPT ![t] = "locking"]
  /\ wanted' = [wanted EXCEPT ![t] = S]
  /\ tries' = [tries EXCEPT ![t] = 1]
  /\ UNCHANGED <<rows, holder, seen>>

\* Mutant: the locks are taken in any order.
AsksUnsorted(t, p) ==
  /\ pc[t] = "locking"
  /\ p \in wanted[t] \ Held(t)

\* The path whose lock the transaction asks for next.
Asks(t, p) ==
  /\ pc[t] = "locking"
  /\ p \in wanted[t] \ Held(t)
  /\ \A q \in wanted[t] \ Held(t) : p <= q

\* pg_advisory_xact_lock: granted once nobody holds it.
Lock(t, p) ==
  /\ Asks(t, p)
  /\ holder[p] = NoTxn
  /\ holder' = [holder EXCEPT ![p] = t]
  /\ UNCHANGED <<rows, pc, wanted, seen, tries>>

\* SELECT ... FOR UPDATE, one statement for all the documents.
Select(t) ==
  /\ pc[t] = "locking"
  /\ wanted[t] \subseteq Held(t)
  /\ seen' = [seen EXCEPT ![t] = [p \in Paths |-> IF p \in wanted[t] THEN rows[p] ELSE NoData]]
  /\ pc' = [pc EXCEPT ![t] = "deciding"]
  /\ UNCHANGED <<rows, holder, wanted, tries>>

ConnectionLost(t) ==
  /\ pc[t] = "locking"
  /\ Rollback(t)

\* The mutation needs more paths: roll back, start the next pass with them.
Expand(t, S) ==
  /\ pc[t] = "deciding"
  /\ wanted[t] \subseteq S /\ S # wanted[t]
  /\ wanted' = [wanted EXCEPT ![t] = S]
  /\ tries' = [tries EXCEPT ![t] = @ + 1]
  /\ pc' = [pc EXCEPT ![t] = IF tries[t] < MaxTries THEN "locking" ELSE "failed"]
  /\ Release(t)
  /\ UNCHANGED rows

\* The callback or the account fence refuses, or the commit fails.
Refuse(t) ==
  /\ pc[t] = "deciding"
  /\ Rollback(t)

\* applyWrites and COMMIT; the reply may be lost.
Commit(t, wr, del) ==
  /\ pc[t] = "deciding"
  /\ del \cap DOMAIN wr = {}
  /\ rows' = [p \in Paths |-> IF p \in DOMAIN wr THEN wr[p] ELSE IF p \in del THEN NoData ELSE rows[p]]
  /\ \E outcome \in {"done", "failed"} : pc' = [pc EXCEPT ![t] = outcome]
  /\ Release(t)
  /\ UNCHANGED <<wanted, tries>>

\* Mutant: the timer frees the connection, the registry keeps the transaction.
ExpireUnnoticed(t) ==
  /\ pc[t] = "deciding"
  /\ Release(t)
  /\ UNCHANGED <<rows, pc, wanted, tries>>

\* The 30 second timer takes the transaction out of the registry and rolls
\* it back; the callback's commit then finds nothing.
Expire(t) ==
  /\ pc[t] = "deciding"
  /\ pc' = [pc EXCEPT ![t] = "expired"]
  /\ Release(t)
  /\ UNCHANGED <<rows, wanted, tries>>

CommitExpired(t) ==
  /\ pc[t] = "expired"
  /\ pc' = [pc EXCEPT ![t] = "failed"]
  /\ UNCHANGED <<rows, holder, wanted, seen, tries>>

Decide(t) ==
  \/ \E S \in SUBSET Paths : Expand(t, S)
  \/ Refuse(t)
  \/ \E W \in SUBSET wanted[t] : \E wr \in [W -> Data], del \in SUBSET wanted[t] : Commit(t, wr, del)

Next ==
  \E t \in Txns :
    \/ \E S \in SUBSET Paths \ {{}} : Start(t, S)
    \/ \E p \in Paths : Lock(t, p)
    \/ Select(t)
    \/ ConnectionLost(t)
    \/ Decide(t)
    \/ Expire(t)
    \/ CommitExpired(t)

Spec == Init /\ [][Next]_vars

\* PostgreSQL queues the waiters of a lock, so a lock that is freed again and
\* again reaches each of them: strong fairness.  The rest never waits.
Fairness ==
  \A t \in Txns :
    /\ \A p \in Paths : SF_vars(Lock(t, p))
    /\ WF_vars(Select(t) \/ Decide(t) \/ CommitExpired(t))
FairSpec == Spec /\ Fairness

-----------------------------------------------------------------------------
Abstract == INSTANCE DocumentStore WITH
  store <- rows,
  view  <- seen,
  shown <- [t \in Txns |-> IF pc[t] = "deciding" THEN wanted[t] ELSE {}],
  open  <- {t \in Txns : pc[t] \in {"locking", "deciding"}}

\* The backend keeps the promise of the store, deletions included: nothing
\* that was read under the locks changes before the commit.
ImplementsDocumentStore == Abstract!Spec

\* Locks and progress agree: a call that ended or expired holds no lock, and
\* one that decides holds exactly those of the documents it was shown.
LocksMatch ==
  /\ TypeOK
  /\ \A t \in Txns : /\ pc[t] \in Ended \cup {"expired"} => Held(t) = {}
                     /\ pc[t] = "deciding" => Held(t) = wanted[t]

\* Sorted acquisition: in every state with waiting callers there is one who
\* waits for no other, although callers come with any sets of paths and
\* widen them by releasing everything and starting over.
SomeoneCanMove ==
  (\E t \in Txns : pc[t] \notin Ended) =>
  \E t \in Txns : pc[t] \notin Ended /\ \A p \in Paths : Asks(t, p) => holder[p] = NoTxn

\* A caller who waits for locks gets an answer in the end.
CallEnds == \A t \in Txns : pc[t] = "locking" ~> pc[t] \in {"done", "failed"}
==============================================================================
