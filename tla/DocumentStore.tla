---------------------------- MODULE DocumentStore ----------------------------
(***************************************************************************)
(* The contract of runStoredDocumentTransaction: whatever backend serves   *)
(* it, a transaction that commits was shown the documents as they are at   *)
(* the instant it commits, and its writes and deletes take effect at that  *)
(* instant or not at all.  Nothing here knows of versions, locks, batches  *)
(* or retries: the two backends are shown to implement this module.        *)
(***************************************************************************)
CONSTANTS Paths,    \* document paths
          Data,     \* document contents
          NoData,   \* the content of a path that holds no document
          Txns      \* callers of runStoredDocumentTransaction

VARIABLES store,    \* path -> content
          view,     \* transaction -> path -> what the callback is shown
          shown,    \* transaction -> the paths it has read so far
          open      \* the transactions between their first read and their end

vars == <<store, view, shown, open>>

Content == Data \cup {NoData}

TypeOK ==
  /\ store \in [Paths -> Content]
  /\ view \in [Txns -> [Paths -> Content]]
  /\ shown \in [Txns -> SUBSET Paths]
  /\ open \subseteq Txns

Init ==
  /\ store \in [Paths -> Content]
  /\ view = [t \in Txns |-> [p \in Paths |-> NoData]]
  /\ shown = [t \in Txns |-> {}]
  /\ open = {}

\* A caller starts, or starts over after a conflict, with nothing shown.
Begin(t) ==
  /\ open' = open \cup {t}
  /\ shown' = [shown EXCEPT ![t] = {}]
  /\ view' = [view EXCEPT ![t] = [p \in Paths |-> NoData]]
  /\ UNCHANGED store

\* Some documents are read; the callback is shown their present contents.
Read(t, S) ==
  /\ t \in open
  /\ view' = [view EXCEPT ![t] = [p \in Paths |-> IF p \in S THEN store[p] ELSE view[t][p]]]
  /\ shown' = [shown EXCEPT ![t] = @ \cup S]
  /\ UNCHANGED <<store, open>>

\* The view of t is the present state of every document it was shown.
Current(t) == \A p \in shown[t] : view[t][p] = store[p]

\* The promise: a commit happens on a current view, and changes only
\* documents the transaction was shown.
Commit(t, next) ==
  /\ t \in open
  /\ Current(t)
  /\ \A p \in Paths \ shown[t] : next[p] = store[p]
  /\ store' = next
  /\ open' = open \ {t}
  /\ shown' = [shown EXCEPT ![t] = {}]
  /\ view' = [view EXCEPT ![t] = [p \in Paths |-> NoData]]

\* A refusal, an expiry or the last conflict leaves the documents alone.
Abandon(t) ==
  /\ t \in open
  /\ open' = open \ {t}
  /\ shown' = [shown EXCEPT ![t] = {}]
  /\ view' = [view EXCEPT ![t] = [p \in Paths |-> NoData]]
  /\ UNCHANGED store

Next ==
  \E t \in Txns :
    \/ Begin(t)
    \/ \E S \in SUBSET Paths : Read(t, S)
    \/ \E next \in [Paths -> Content] : Commit(t, next)
    \/ Abandon(t)

Spec == Init /\ [][Next]_vars
==============================================================================
