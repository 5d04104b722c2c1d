------------------------------- MODULE D1Store -------------------------------
(***************************************************************************)
(* The optimistic backend (src/lib/d1-document-store.ts) under the retry   *)
(* loop of runStoredDocumentTransaction (src/lib/document-store.ts).       *)
(*                                                                         *)
(* A transaction reads its documents one statement at a time and remembers *)
(* the version of each, or that it was absent.  Its commit is one atomic   *)
(* batch that first asserts the whole read set and then writes.  A failed  *)
(* assertion is a conflict, and the caller starts over.                    *)
(*                                                                         *)
(* A row is its version and its data; version 0 stands for "no row", so an *)
(* INSERT (version 1) and an UPDATE (version + 1) are one expression, and  *)
(* asserting an absence is asserting version 0.  Contents are written by   *)
(* a pure callback that saw only the read set; what it decides is data,    *)
(* so any mutation of the paths it read is allowed.                        *)
(***************************************************************************)
EXTENDS Naturals

CONSTANTS Paths,         \* document paths, by their rank in sort order
          Data,          \* document contents
          NoData,        \* the content of an absent document
          Txns,          \* concurrent callers
          Permanent,     \* the paths no caller ever deletes
          MaxConflicts,  \* conflicts after which a caller gives up (code: 5)
          MaxTries,      \* passes of the retry loop (code: 16)
          MaxVersion     \* bound: a row is not updated beyond this version

ASSUME PathsAssumption == Paths \subseteq Nat
ASSUME DataAssumption == NoData \notin Data
ASSUME PermanentAssumption == Permanent \subseteq Paths
ASSUME BoundsAssumption == /\ MaxConflicts \in Nat \ {0}
                           /\ MaxTries \in Nat \ {0}
                           /\ MaxVersion \in Nat

VARIABLES rows,       \* path -> [version, data]
          pc,         \* caller -> where it is in the retry loop
          wanted,     \* caller -> readPaths
          read,       \* caller -> the part of wanted already selected
          seen,       \* caller -> path -> the row it selected
          conflicts,  \* caller -> conflicts met by this call
          tries       \* caller -> passes of the loop begun by this call

vars == <<rows, pc, wanted, read, seen, conflicts, tries>>

Absent == [version |-> 0, data |-> NoData]
Rows == {Absent} \cup [version : Nat \ {0}, data : Data]
Ended == {"idle", "done", "failed"}

TypeOK ==
  /\ rows \in [Paths -> Rows]
  /\ pc \in [Txns -> Ended \cup {"reading", "deciding", "expired"}]
  /\ wanted \in [Txns -> SUBSET Paths]
  /\ read \in [Txns -> SUBSET Paths]
  /\ seen \in [Txns -> [Paths -> Rows]]
  /\ conflicts \in [Txns -> Nat]
  /\ tries \in [Txns -> Nat]

Init ==
  /\ rows \in [Paths -> {Absent} \cup [version : {1}, data : Data]]
  /\ pc = [t \in Txns |-> "idle"]
  /\ wanted = [t \in Txns |-> {}]
  /\ read = [t \in Txns |-> {}]
  /\ seen = [t \in Txns |-> [p \in Paths |-> Absent]]
  /\ conflicts = [t \in Txns |-> 0]
  /\ tries = [t \in Txns |-> 0]

-----------------------------------------------------------------------------
\* What is kept of a pass is dropped when the pass is over.
Forget(t) ==
  /\ read' = [read EXCEPT ![t] = {}]
  /\ seen' = [seen EXCEPT ![t] = [p \in Paths |-> Absent]]

\* A caller enters runStoredDocumentTransaction.
Start(t, S) ==
  /\ pc[t] \in Ended
  /\ pc' = [pc EXCEPT ![t] = "reading"]
  /\ wanted' = [wanted EXCEPT ![t] = S]
  /\ conflicts' = [conflicts EXCEPT ![t] = 0]
  /\ tries' = [tries EXCEPT ![t] = 1]
  /\ Forget(t)
  /\ UNCHANGED rows

\* One SELECT of beginTransaction, in sorted order.  The last one registers
\* the transaction and hands the documents to the callback.
ReadRow(t, p) ==
  /\ pc[t] = "reading"
  /\ p \in wanted[t] \ read[t]
  /\ \A q \in wanted[t] \ read[t] : p <= q
  /\ read' = [read EXCEPT ![t] = @ \cup {p}]
  /\ seen' = [seen EXCEPT ![t][p] = rows[p]]
  /\ pc' = [pc EXCEPT ![t] = IF wanted[t] \ read[t] = {p} THEN "deciding" ELSE "reading"]
  /\ UNCHANGED <<rows, wanted, conflicts, tries>>

\* The next pass of the loop, with the paths it will read; or its end.
Again(t, S) ==
  /\ wanted' = [wanted EXCEPT ![t] = S]
  /\ tries' = [tries EXCEPT ![t] = @ + 1]
  /\ pc' = [pc EXCEPT ![t] = IF tries[t] < MaxTries THEN "reading" ELSE "failed"]
  /\ Forget(t)

\* The mutation needs paths outside the read set: roll back, read them too.
Expand(t, S) ==
  /\ pc[t] = "deciding"
  /\ wanted[t] \subseteq S /\ S # wanted[t]
  /\ Again(t, S)
  /\ UNCHANGED <<rows, conflicts>>

\* The callback refuses, the account fence refuses, or the database fails
\* with an error that is not a conflict: nothing is written.
Refuse(t) ==
  /\ pc[t] = "deciding"
  /\ pc' = [pc EXCEPT ![t] = "failed"]
  /\ Forget(t)
  /\ UNCHANGED <<rows, wanted, conflicts, tries>>

\* Mutant: absence is not part of the read set.
ReadSetHoldsFound(t) == \A p \in read[t] : seen[t][p] # Absent => rows[p].version = seen[t][p].version

\* The assertions at the head of the commit batch.
ReadSetHolds(t) == \A p \in read[t] : rows[p].version = seen[t][p].version

\* Mutant: an UPDATE that forgets the version, an INSERT without one.
AfterNoBump(p, wr, del) ==
  IF p \in DOMAIN wr THEN [version |-> rows[p].version, data |-> wr[p]]
  ELSE IF p \in del THEN Absent
  ELSE rows[p]

\* The row a mutation leaves: wr is the function from the written paths to
\* their new contents, del the deleted ones.
After(p, wr, del) ==
  IF p \in DOMAIN wr THEN [version |-> rows[p].version + 1, data |-> wr[p]]
  ELSE IF p \in del THEN Absent
  ELSE rows[p]

\* The whole batch applies.  When the reply is lost the caller sees an error
\* that is no conflict, and does not retry what was applied.
Commit(t, wr, del) ==
  /\ pc[t] = "deciding"
  /\ ReadSetHolds(t)
  /\ del \cap (Permanent \cup DOMAIN wr) = {}
  /\ \A p \in DOMAIN wr : rows[p].version < MaxVersion
  /\ rows' = [p \in Paths |-> After(p, wr, del)]
  /\ \E outcome \in {"done", "failed"} : pc' = [pc EXCEPT ![t] = outcome]
  /\ Forget(t)
  /\ UNCHANGED <<wanted, conflicts, tries>>

\* Mutant: a conflict is retried and not counted.
ConflictUncounted(t) ==
  /\ pc[t] = "deciding"
  /\ ~ReadSetHolds(t)
  /\ pc' = [pc EXCEPT ![t] = "reading"]
  /\ Forget(t)
  /\ UNCHANGED <<rows, wanted, conflicts, tries>>

\* A 409: counted, and retried until there were MaxConflicts of them.
Conflict(t) ==
  /\ pc[t] = "deciding"
  /\ ~ReadSetHolds(t)
  /\ conflicts' = [conflicts EXCEPT ![t] = @ + 1]
  /\ IF conflicts[t] + 1 >= MaxConflicts
       THEN /\ pc' = [pc EXCEPT ![t] = "failed"]
            /\ Forget(t)
            /\ UNCHANGED <<wanted, tries>>
       ELSE Again(t, wanted[t])
  /\ UNCHANGED rows

\* The 30 second timer drops the transaction; its commit then finds nothing.
Expire(t) ==
  /\ pc[t] = "deciding"
  /\ pc' = [pc EXCEPT ![t] = "expired"]
  /\ Forget(t)
  /\ UNCHANGED <<rows, wanted, conflicts, tries>>

CommitExpired(t) ==
  /\ pc[t] = "expired"
  /\ pc' = [pc EXCEPT ![t] = "failed"]
  /\ UNCHANGED <<rows, wanted, read, seen, conflicts, tries>>

Decide(t) ==
  \/ \E S \in SUBSET Paths : Expand(t, S)
  \/ Refuse(t)
  \/ \E W \in SUBSET read[t] : \E wr \in [W -> Data], del \in SUBSET read[t] : Commit(t, wr, del)
  \/ Conflict(t)

Next ==
  \E t \in Txns :
    \/ \E S \in SUBSET Paths \ {{}} : Start(t, S)
    \/ \E p \in Paths : ReadRow(t, p)
    \/ Decide(t)
    \/ Expire(t)
    \/ CommitExpired(t)

Spec == Init /\ [][Next]_vars

\* A caller keeps running: no step of it waits for anybody.
Fairness == \A t \in Txns : WF_vars((\E p \in Paths : ReadRow(t, p)) \/ Decide(t) \/ CommitExpired(t))
FairSpec == Spec /\ Fairness

-----------------------------------------------------------------------------
\* The abstract store as this backend holds it: the documents that are never
\* deleted.  Deletion drops a row with its version, so the promise cannot be
\* made of the others.
Contents == [p \in Permanent |-> rows[p].data]
Shown == [t \in Txns |-> [p \in Permanent |-> seen[t][p].data]]
ShownPaths == [t \in Txns |-> read[t] \cap Permanent]
Open == {t \in Txns : pc[t] \in {"reading", "deciding"}}

Abstract == INSTANCE DocumentStore
  WITH Paths <- Permanent, store <- Contents, view <- Shown, shown <- ShownPaths, open <- Open

\* The backend keeps the promise of the store for documents that are never
\* deleted: a commit rests on the present contents of all it was shown, although
\* the rows were selected one by one, nothing was locked, and the same
\* transactions delete and create others.
ImplementsDocumentStore == Abstract!Spec

\* The rows a caller will commit on, for the paths in S.
CommitsCurrent(S) ==
  \A t \in Txns : pc[t] = "deciding" /\ ReadSetHolds(t) => \A p \in read[t] \cap S : seen[t][p] = rows[p]

\* If the batch's assertions hold, then every document read is still the one
\* that was read, provided it is of the kind that is never deleted; writes,
\* conflicts and deletions of other documents do not weaken this.
PermanentReadsCurrent == CommitsCurrent(Permanent)

\* However often it loses to others, a call ends: the loop is bounded by the
\* conflicts it tolerates and by its passes.
CallEnds == \A t \in Txns : pc[t] = "reading" ~> pc[t] \in {"done", "failed"}
==============================================================================
