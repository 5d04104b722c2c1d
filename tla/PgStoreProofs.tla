---------------------------- MODULE PgStoreProofs ----------------------------
(***************************************************************************)
(* Proofs about PgStore: the locks match the progress of their holders, a  *)
(* deadlock is impossible, and the backend implements DocumentStore.       *)
(*                                                                         *)
(* Two facts make the invariant inductive.  Sorted: whoever still locks    *)
(* has taken the least of the paths it wants, so each path it waits for is *)
(* greater than all that it holds; the holder of the greatest locked path  *)
(* therefore waits for nobody.  Fresh: what FOR UPDATE returned stays true *)
(* as long as the locks are held, because only their holder writes.        *)
(***************************************************************************)
EXTENDS PgStore, FiniteSetTheorems, WellFoundedInduction, TLAPS

Sorted ==
  \A t \in Txns : pc[t] = "locking" =>
    /\ Held(t) \subseteq wanted[t]
    /\ \A p \in Held(t), q \in wanted[t] \ Held(t) : p < q

Fresh ==
  \A t \in Txns : IF pc[t] = "deciding"
                  THEN \A p \in wanted[t] : seen[t][p] = rows[p]
                  ELSE seen[t] = [p \in Paths |-> NoData]

IInv == LocksMatch /\ Sorted /\ Fresh

-----------------------------------------------------------------------------
(* The greatest member of a finite set of numbers. *)

LEMMA NatLeast ==
  ASSUME NEW S \in SUBSET Nat, NEW k \in S
  PROVE  \E m \in S : \A n \in S : m <= n
<1> DEFINE R == OpToRel(<, Nat)
<1>1. IsWellFoundedOn(R, Nat)
  BY NatLessThanWellFounded
<1>2. \A x, y \in Nat : <<x, y>> \in R <=> x < y
  BY DEF OpToRel
<1> HIDE DEF R
<1>3. \E m \in S : \A n \in S : ~(<<n, m>> \in R)
  BY <1>1, WFMin
<1>4. PICK m \in S : \A n \in S : ~(<<n, m>> \in R)
  BY <1>3
<1>5. ASSUME NEW n \in S PROVE m <= n
  <2>1. m \in Nat /\ n \in Nat /\ ~(n < m)
    BY <1>2, <1>4
  <2> QED BY <2>1
<1> QED BY <1>5

LEMMA NatGreatest ==
  ASSUME NEW S \in SUBSET Nat, IsFiniteSet(S), NEW k \in S
  PROVE  \E m \in S : \A n \in S : n <= m
<1> DEFINE Above(p) == {q \in S : p <= q}
           Sizes == {Cardinality(Above(p)) : p \in S}
<1>1. \A p \in S : IsFiniteSet(Above(p)) /\ Cardinality(Above(p)) \in Nat
  BY FS_Subset, FS_CardinalityType
<1>2. Sizes \in SUBSET Nat /\ Cardinality(Above(k)) \in Sizes
  BY <1>1
<1> HIDE DEF Above
<1>3. \E c \in Sizes : \A d \in Sizes : c <= d
  BY <1>2, NatLeast
<1>4. PICK m \in S : \A n \in S : Cardinality(Above(m)) <= Cardinality(Above(n))
  BY <1>3
<1>5. ASSUME NEW n \in S, m < n PROVE FALSE
  <2>1. Above(n) \subseteq Above(m) /\ Above(n) # Above(m)
    <3>1. n \in Nat /\ m \in Nat /\ \A q \in S : q \in Nat
      OBVIOUS
    <3>2. m \in Above(m) /\ m \notin Above(n)
      BY <1>5, <3>1 DEF Above
    <3>3. \A q \in S : n <= q => m <= q
      BY <1>5, <3>1
    <3> QED BY <3>2, <3>3 DEF Above
  <2>2. Cardinality(Above(n)) < Cardinality(Above(m))
    BY <1>1, <2>1, FS_Subset
  <2> QED BY <1>1, <1>4, <2>2
<1> QED BY <1>5

-----------------------------------------------------------------------------
(* What the steps do to the locks. *)

LEMMA InitIInv == Init => IInv
BY NoTxnAssumption DEF Init, IInv, LocksMatch, TypeOK, Sorted, Fresh, Held, Content, Ended

\* COMMIT and ROLLBACK change the locks and the view of one transaction.
LEMMA ReleaseFrees ==
  ASSUME TypeOK, NEW t \in Txns, Release(t)
  PROVE /\ Held(t)' = {}
        /\ \A u \in Txns \ {t} : Held(u)' = Held(u) /\ seen'[u] = seen[u]
        /\ seen'[t] = [p \in Paths |-> NoData]
        /\ holder' \in [Paths -> Txns \cup {NoTxn}]
        /\ seen' \in [Txns -> [Paths -> Content]]
BY NoTxnAssumption DEF Release, Held, TypeOK, Content

\* A step that frees the locks of t and leaves the rows to the others.
LEMMA ReleaseKeeps ==
  ASSUME IInv, NEW t \in Txns, Release(t),
         rows' \in [Paths -> Content],
         \A u \in Txns \ {t} : \A p \in Held(u) : rows'[p] = rows[p],
         NEW next \in Ended \cup {"locking", "expired"}, pc' = [pc EXCEPT ![t] = next],
         wanted' \in [Txns -> SUBSET Paths], \A u \in Txns \ {t} : wanted'[u] = wanted[u],
         tries' \in [Txns -> Nat]
  PROVE IInv'
<1> USE DEF IInv
<1>1. /\ Held(t)' = {} /\ seen'[t] = [p \in Paths |-> NoData]
      /\ \A u \in Txns \ {t} : Held(u)' = Held(u) /\ seen'[u] = seen[u]
  BY ReleaseFrees DEF LocksMatch
<1>2. TypeOK'
  BY ReleaseFrees DEF LocksMatch, TypeOK, Ended
<1>3. pc'[t] = next /\ next # "deciding" /\ \A u \in Txns \ {t} : pc'[u] = pc[u]
  BY DEF LocksMatch, TypeOK, Ended
<1>4. LocksMatch'
  BY <1>1, <1>2, <1>3 DEF LocksMatch, Ended
<1>5. Sorted'
  <2>1. Sorted
    OBVIOUS
  <2> HIDE DEF IInv
  <2>2. ASSUME NEW u \in Txns, pc'[u] = "locking"
        PROVE /\ Held(u)' \subseteq wanted'[u]
              /\ \A p \in Held(u)', q \in wanted'[u] \ Held(u)' : p < q
    <3>1. CASE u = t
      BY <1>1, <3>1
    <3>2. CASE u # t
      BY <1>1, <1>3, <2>1, <2>2, <3>2 DEF Sorted
    <3> QED BY <3>1, <3>2
  <2> QED BY <2>2 DEF Sorted
<1>6. Fresh'
  <2>1. ASSUME NEW u \in Txns \ {t}, pc'[u] = "deciding"
        PROVE \A p \in wanted'[u] : seen'[u][p] = rows'[p]
    <3>1. pc[u] = "deciding" /\ wanted'[u] = wanted[u] /\ seen'[u] = seen[u] /\ Held(u) = wanted[u]
      BY <1>1, <1>3, <2>1 DEF LocksMatch
    <3>2. \A p \in wanted[u] : seen[u][p] = rows[p]
      BY <3>1 DEF Fresh
    <3> QED BY <3>1, <3>2
  <2>2. ASSUME NEW u \in Txns, pc'[u] # "deciding"
        PROVE seen'[u] = [p \in Paths |-> NoData]
    BY <1>1, <1>3, <2>2 DEF Fresh
  <2> QED BY <1>3, <2>1, <2>2 DEF Fresh
<1> QED BY <1>4, <1>5, <1>6

LEMMA NextIInv == IInv /\ [Next]_vars => IInv'
<1> SUFFICES ASSUME IInv, Next PROVE IInv'
  <2>1. CASE UNCHANGED vars
    BY <2>1 DEF vars, IInv, LocksMatch, TypeOK, Sorted, Fresh, Held
  <2> QED BY <2>1
<1> USE DEF IInv
<1>0. TypeOK
  BY DEF LocksMatch
<1>1. ASSUME NEW t \in Txns, NEW S \in SUBSET Paths, Start(t, S) PROVE IInv'
  <2>1. \A u \in Txns : Held(u)' = Held(u)
    BY <1>1 DEF Start, Held
  <2>2. Held(t) = {} /\ seen[t] = [p \in Paths |-> NoData]
    BY <1>1 DEF Start, LocksMatch, Fresh, Ended
  <2>3. LocksMatch'
    BY <1>0, <1>1, <2>1 DEF Start, LocksMatch, TypeOK, Ended
  <2>4. Sorted'
    BY <1>0, <1>1, <2>1, <2>2 DEF Start, Sorted, TypeOK
  <2>5. Fresh'
    BY <1>0, <1>1, <2>2 DEF Start, Fresh, TypeOK
  <2> QED BY <2>3, <2>4, <2>5
<1>2. ASSUME NEW t \in Txns, NEW p \in Paths, Lock(t, p) PROVE IInv'
  <2>1. Held(t)' = Held(t) \cup {p}
    BY <1>0, <1>2, NoTxnAssumption DEF Lock, Held, TypeOK
  <2>2. \A u \in Txns \ {t} : Held(u)' = Held(u)
    BY <1>0, <1>2, NoTxnAssumption DEF Lock, Held, TypeOK
  <2>3. pc[t] = "locking" /\ p \in wanted[t] \ Held(t) /\ \A q \in wanted[t] \ Held(t) : p <= q
    BY <1>2 DEF Lock, Asks
  <2>4. UNCHANGED <<rows, pc, wanted, seen, tries>>
    BY <1>2 DEF Lock
  <2>5. TypeOK'
    BY <1>0, <1>2 DEF Lock, TypeOK
  <2>6. LocksMatch'
    BY <2>2, <2>3, <2>4, <2>5 DEF LocksMatch, Ended
  <2>7. Sorted'
    <3>1. Held(t)' \subseteq wanted'[t]
      BY <2>1, <2>3, <2>4 DEF Sorted
    <3>2. ASSUME NEW a \in Held(t)', NEW b \in wanted'[t] \ Held(t)' PROVE a < b
      <4>1. b \in wanted[t] \ Held(t) /\ b # p
        BY <2>1, <2>4, <3>2
      <4>2. CASE a = p
        <5>1. p \in Nat /\ b \in Nat
          BY <1>0, <4>1, PathsAssumption DEF TypeOK
        <5> QED BY <2>3, <4>1, <4>2, <5>1
      <4>3. CASE a \in Held(t)
        BY <2>3, <4>1, <4>3 DEF Sorted
      <4> QED BY <2>1, <4>2, <4>3
    <3>3. ASSUME NEW u \in Txns \ {t}, pc'[u] = "locking"
          PROVE /\ Held(u)' \subseteq wanted'[u]
                /\ \A a \in Held(u)', b \in wanted'[u] \ Held(u)' : a < b
      BY <2>2, <2>4, <3>3 DEF Sorted
    <3> QED BY <3>1, <3>2, <3>3 DEF Sorted
  <2>8. Fresh'
    BY <2>4 DEF Fresh
  <2> QED BY <2>6, <2>7, <2>8
<1>3. ASSUME NEW t \in Txns, Select(t) PROVE IInv'
  <2>1. \A u \in Txns : Held(u)' = Held(u) /\ wanted'[u] = wanted[u]
    BY <1>3 DEF Select, Held
  <2>2. pc' = [pc EXCEPT ![t] = "deciding"] /\ Held(t) = wanted[t]
    BY <1>3 DEF Select, Sorted
  <2>3. TypeOK'
    BY <1>0, <1>3 DEF Select, TypeOK, Content
  <2>4. LocksMatch'
    BY <1>0, <2>1, <2>2, <2>3 DEF LocksMatch, TypeOK, Ended
  <2>5. Sorted'
    BY <1>0, <2>1, <2>2 DEF Sorted, TypeOK
  <2>6. Fresh'
    BY <1>0, <1>3 DEF Select, Fresh, TypeOK
  <2> QED BY <2>4, <2>5, <2>6
<1>4. ASSUME NEW t \in Txns, Rollback(t) PROVE IInv'
  BY <1>0, <1>4, ReleaseKeeps DEF Rollback, TypeOK, Ended
<1>5. ASSUME NEW t \in Txns, NEW S \in SUBSET Paths, Expand(t, S) PROVE IInv'
  <2> DEFINE next == IF tries[t] < MaxTries THEN "locking" ELSE "failed"
  <2>1. next \in Ended \cup {"locking", "expired"}
    BY DEF Ended
  <2>2. Release(t) /\ rows' = rows /\ pc' = [pc EXCEPT ![t] = next]
    BY <1>5 DEF Expand
  <2>3. /\ wanted' \in [Txns -> SUBSET Paths] /\ tries' \in [Txns -> Nat]
        /\ \A u \in Txns \ {t} : wanted'[u] = wanted[u]
    BY <1>0, <1>5 DEF Expand, TypeOK
  <2>4. rows' \in [Paths -> Content]
    BY <1>0, <2>2 DEF TypeOK
  <2> HIDE DEF next
  <2> QED BY <2>1, <2>2, <2>3, <2>4, ReleaseKeeps
<1>6. ASSUME NEW t \in Txns, NEW W \in SUBSET wanted[t], NEW wr \in [W -> Data],
             NEW del \in SUBSET wanted[t], Commit(t, wr, del)
      PROVE IInv'
  <2>1. PICK outcome \in {"done", "failed"} : pc' = [pc EXCEPT ![t] = outcome]
    BY <1>6 DEF Commit
  <2>2. Held(t) = wanted[t]
    BY <1>6 DEF Commit, LocksMatch
  <2>3. rows' \in [Paths -> Content]
    BY <1>0, <1>6 DEF Commit, TypeOK, Content
  <2>4. ASSUME NEW u \in Txns \ {t}, NEW p \in Held(u) PROVE rows'[p] = rows[p]
    <3>1. p \in Paths /\ p \notin wanted[t]
      BY <2>2 DEF Held
    <3> QED BY <1>6, <3>1 DEF Commit
  <2>5. Release(t) /\ wanted' = wanted /\ tries' = tries
    BY <1>6 DEF Commit
  <2>6. outcome \in Ended \cup {"locking", "expired"}
    BY DEF Ended
  <2>7. wanted' \in [Txns -> SUBSET Paths] /\ tries' \in [Txns -> Nat]
    BY <1>0, <2>5 DEF TypeOK
  <2> QED BY <2>1, <2>3, <2>4, <2>5, <2>6, <2>7, ReleaseKeeps
<1>7. ASSUME NEW t \in Txns, Expire(t) PROVE IInv'
  BY <1>0, <1>7, ReleaseKeeps DEF Expire, TypeOK, Ended
<1>8. ASSUME NEW t \in Txns, CommitExpired(t) PROVE IInv'
  <2>1. \A u \in Txns : Held(u)' = Held(u)
    BY <1>8 DEF CommitExpired, Held
  <2>2. LocksMatch'
    BY <1>0, <1>8, <2>1 DEF CommitExpired, LocksMatch, TypeOK, Ended
  <2>3. Sorted'
    BY <1>0, <1>8, <2>1 DEF CommitExpired, Sorted, TypeOK
  <2>4. Fresh'
    BY <1>0, <1>8 DEF CommitExpired, Fresh, TypeOK
  <2> QED BY <2>2, <2>3, <2>4
<1> QED BY <1>1, <1>2, <1>3, <1>4, <1>5, <1>6, <1>7, <1>8 DEF Next, Decide, ConnectionLost, Refuse

-----------------------------------------------------------------------------
\* A call that ended or expired holds no lock, and one that decides holds
\* exactly those of the documents it was shown, for any number of callers
\* and documents and however often a call widens its set.
THEOREM LocksAlwaysMatch == Spec => []LocksMatch
<1>1. IInv => LocksMatch
  BY DEF IInv
<1> QED BY <1>1, InitIInv, NextIInv, PTL DEF Spec

\* The holder of the greatest locked path waits for nobody.
LEMMA GreatestMoves == IInv => SomeoneCanMove
<1> SUFFICES ASSUME IInv, NEW s \in Txns, pc[s] \notin Ended,
                    \A t \in Txns : pc[t] \notin Ended => \E p \in Paths : Asks(t, p) /\ holder[p] # NoTxn
             PROVE FALSE
  BY DEF SomeoneCanMove
<1> DEFINE Locked == {p \in Paths : holder[p] # NoTxn}
<1>1. PICK k \in Locked : TRUE
  OBVIOUS
<1>2. Locked \in SUBSET Nat /\ IsFiniteSet(Locked)
  BY PathsAssumption, FS_Subset
<1>3. PICK m \in Locked : \A n \in Locked : n <= m
  BY <1>2, NatGreatest
<1>4. PICK t \in Txns : t = holder[m]
  BY DEF IInv, LocksMatch, TypeOK
<1>5. m \in Held(t) /\ pc[t] \notin Ended
  BY <1>4 DEF IInv, LocksMatch, Held
<1>6. PICK p \in Paths : Asks(t, p) /\ p \in Locked
  BY <1>5
<1>7. m < p
  BY <1>5, <1>6 DEF Asks, IInv, Sorted
<1>8. p <= m /\ p \in Nat /\ m \in Nat
  BY <1>2, <1>3, <1>6
<1> QED BY <1>7, <1>8

\* There is no deadlock: in every reachable state with calls under way one of
\* them waits for no other.
THEOREM NoDeadlock == Spec => []SomeoneCanMove
<1> QED BY GreatestMoves, InitIInv, NextIInv, PTL DEF Spec

-----------------------------------------------------------------------------
(* The refinement. *)

Open == {t \in Txns : pc[t] \in {"locking", "deciding"}}
ShownPaths == [t \in Txns |-> IF pc[t] = "deciding" THEN wanted[t] ELSE {}]

\* Freeing the locks ends what the callback was shown.
LEMMA ReleaseHides ==
  ASSUME TypeOK, NEW t \in Txns, Release(t),
         \A u \in Txns \ {t} : wanted'[u] = wanted[u],
         NEW next, next # "deciding", pc' = [pc EXCEPT ![t] = next]
  PROVE /\ seen' = [seen EXCEPT ![t] = [p \in Paths |-> NoData]]
        /\ ShownPaths' = [ShownPaths EXCEPT ![t] = {}]
        /\ next = "locking" => Open' = Open \cup {t}
        /\ next \notin {"locking", "deciding"} => Open' = Open \ {t}
<1>1. \A u \in Txns : pc'[u] = IF u = t THEN next ELSE pc[u]
  BY DEF TypeOK
<1>2. ShownPaths' = [ShownPaths EXCEPT ![t] = {}]
  BY <1>1 DEF ShownPaths
<1> QED BY <1>1, <1>2 DEF Release, Open

\* A call that ends without a commit is an Abandon.
LEMMA CallAbandons ==
  ASSUME TypeOK, NEW t \in Open, Release(t), rows' = rows,
         \A u \in Txns \ {t} : wanted'[u] = wanted[u],
         NEW next \in {"failed", "expired"}, pc' = [pc EXCEPT ![t] = next]
  PROVE Abstract!Abandon(t)
<1>1. t \in Txns
  BY DEF Open
<1>2. /\ seen' = [seen EXCEPT ![t] = [p \in Paths |-> NoData]]
      /\ ShownPaths' = [ShownPaths EXCEPT ![t] = {}] /\ Open' = Open \ {t}
  BY <1>1, ReleaseHides
<1> QED BY <1>2 DEF Abstract!Abandon, ShownPaths, Open

LEMMA NextMaps ==
  ASSUME IInv, [Next]_vars
  PROVE [Abstract!Next]_Abstract!vars
<1>0. TypeOK
  BY DEF IInv, LocksMatch
<1> SUFFICES ASSUME Next PROVE Abstract!Next \/ UNCHANGED Abstract!vars
  <2>1. CASE UNCHANGED vars
    BY <2>1 DEF vars, Abstract!vars
  <2> QED BY <2>1
<1>1. ASSUME NEW t \in Txns, NEW S \in SUBSET Paths, Start(t, S) PROVE Abstract!Next
  <2>1. seen[t] = [p \in Paths |-> NoData] /\ seen' = seen
    BY <1>1 DEF Start, IInv, Fresh, Ended
  <2>2. seen' = [seen EXCEPT ![t] = [p \in Paths |-> NoData]]
    BY <1>0, <2>1 DEF TypeOK
  <2>3. \A u \in Txns : pc'[u] = IF u = t THEN "locking" ELSE pc[u]
    BY <1>0, <1>1 DEF Start, TypeOK
  <2>4. \A u \in Txns \ {t} : wanted'[u] = wanted[u]
    BY <1>0, <1>1 DEF Start, TypeOK
  <2>5. Open' = Open \cup {t}
    BY <2>3 DEF Open
  <2>6. ShownPaths' = [ShownPaths EXCEPT ![t] = {}]
    BY <2>3, <2>4 DEF ShownPaths
  <2>7. Abstract!Begin(t)
    BY <1>1, <2>2, <2>5, <2>6 DEF Start, Abstract!Begin, Open, ShownPaths
  <2> QED BY <2>7 DEF Abstract!Next
<1>2. ASSUME NEW t \in Txns, NEW p \in Paths, Lock(t, p) PROVE UNCHANGED Abstract!vars
  BY <1>2 DEF Lock, Abstract!vars
<1>3. ASSUME NEW t \in Txns, Select(t) PROVE Abstract!Next
  <2>1. seen[t] = [p \in Paths |-> NoData]
    BY <1>3 DEF Select, IInv, Fresh
  <2>2. seen' = [seen EXCEPT ![t] = [p \in Paths |-> IF p \in wanted[t] THEN rows[p] ELSE seen[t][p]]]
    BY <1>3, <2>1 DEF Select
  <2>3. \A u \in Txns : pc'[u] = IF u = t THEN "deciding" ELSE pc[u]
    BY <1>0, <1>3 DEF Select, TypeOK
  <2>4. pc[t] = "locking" /\ wanted' = wanted /\ rows' = rows
    BY <1>3 DEF Select
  <2>5. Open' = Open /\ t \in Open
    BY <2>3, <2>4 DEF Open
  <2>6. ShownPaths' = [ShownPaths EXCEPT ![t] = @ \cup wanted[t]]
    BY <2>3, <2>4 DEF ShownPaths
  <2>7. Abstract!Read(t, wanted[t])
    BY <2>2, <2>4, <2>5, <2>6 DEF Abstract!Read, Open, ShownPaths
  <2>8. wanted[t] \in SUBSET Paths
    BY <1>0 DEF TypeOK
  <2>9. \E S \in SUBSET Paths : Abstract!Read(t, S)
    BY <2>7, <2>8 DEF Abstract!Read
  <2> QED BY <2>9 DEF Abstract!Next
<1>4. ASSUME NEW t \in Txns, t \in Open, Rollback(t) PROVE Abstract!Next
  <2>1. Abstract!Abandon(t)
    BY <1>0, <1>4, CallAbandons DEF Rollback
  <2> QED BY <2>1 DEF Abstract!Next
<1>5. ASSUME NEW t \in Txns, NEW S \in SUBSET Paths, Expand(t, S) PROVE Abstract!Next
  <2>1. /\ Release(t) /\ rows' = rows /\ t \in Open
        /\ \A u \in Txns \ {t} : wanted'[u] = wanted[u]
    BY <1>0, <1>5 DEF Expand, Open, TypeOK
  <2>2. CASE tries[t] < MaxTries
    <3>1. pc' = [pc EXCEPT ![t] = "locking"]
      BY <1>0, <1>5, <2>2 DEF Expand, TypeOK
    <3>2. /\ seen' = [seen EXCEPT ![t] = [p \in Paths |-> NoData]]
          /\ ShownPaths' = [ShownPaths EXCEPT ![t] = {}] /\ Open' = Open \cup {t}
      BY <1>0, <2>1, <3>1, ReleaseHides
    <3>3. Abstract!Begin(t)
      BY <2>1, <3>2 DEF Abstract!Begin, Open, ShownPaths
    <3> QED BY <3>3 DEF Abstract!Next
  <2>3. CASE ~(tries[t] < MaxTries)
    <3>1. pc' = [pc EXCEPT ![t] = "failed"]
      BY <1>5, <2>3 DEF Expand
    <3>2. Abstract!Abandon(t)
      BY <1>0, <2>1, <3>1, CallAbandons
    <3> QED BY <3>2 DEF Abstract!Next
  <2> QED BY <2>2, <2>3
<1>6. ASSUME NEW t \in Txns, NEW W \in SUBSET wanted[t], NEW wr \in [W -> Data],
             NEW del \in SUBSET wanted[t], Commit(t, wr, del)
      PROVE Abstract!Next
  <2>1. PICK outcome \in {"done", "failed"} : pc' = [pc EXCEPT ![t] = outcome]
    BY <1>6 DEF Commit
  <2>2. pc[t] = "deciding" /\ Release(t) /\ wanted' = wanted
    BY <1>0, <1>6, <2>1 DEF Commit, TypeOK
  <2>3. /\ seen' = [seen EXCEPT ![t] = [p \in Paths |-> NoData]]
        /\ ShownPaths' = [ShownPaths EXCEPT ![t] = {}] /\ Open' = Open \ {t} /\ t \in Open
    <3>1. outcome \notin {"locking", "deciding"}
      OBVIOUS
    <3> QED BY <1>0, <2>1, <2>2, <3>1, ReleaseHides DEF Open
  <2>4. \A p \in wanted[t] : seen[t][p] = rows[p]
    BY <2>2 DEF IInv, Fresh
  <2>5. ShownPaths[t] = wanted[t]
    BY <2>2 DEF ShownPaths
  <2>6. rows' \in [Paths -> Content]
    BY <1>0, <1>6 DEF Commit, TypeOK, Content
  <2>7. \A p \in Paths \ wanted[t] : rows'[p] = rows[p]
    BY <1>6 DEF Commit
  <2>8. Abstract!Current(t)
    BY <2>4, <2>5 DEF Abstract!Current, ShownPaths
  <2>9. Abstract!Commit(t, rows')
    BY <2>3, <2>5, <2>7, <2>8 DEF Abstract!Commit, ShownPaths, Open
  <2>10. \E next \in [Paths -> Content] : Abstract!Commit(t, next)
    BY <2>6, <2>9 DEF Abstract!Commit
  <2> QED BY <2>10 DEF Abstract!Next, Abstract!Content, Content
<1>7. ASSUME NEW t \in Txns, Expire(t) PROVE Abstract!Next
  <2>1. t \in Open /\ Release(t) /\ rows' = rows /\ wanted' = wanted /\ pc' = [pc EXCEPT ![t] = "expired"]
    BY <1>7 DEF Expire, Open
  <2>2. Abstract!Abandon(t)
    BY <1>0, <2>1, CallAbandons
  <2> QED BY <2>2 DEF Abstract!Next
<1>8. ASSUME NEW t \in Txns, CommitExpired(t) PROVE UNCHANGED Abstract!vars
  <2>1. \A u \in Txns : pc'[u] = IF u = t THEN "failed" ELSE pc[u]
    BY <1>0, <1>8 DEF CommitExpired, TypeOK
  <2>2. Open' = Open /\ ShownPaths' = ShownPaths
    BY <1>8, <2>1 DEF CommitExpired, Open, ShownPaths
  <2> QED BY <1>8, <2>2 DEF CommitExpired, Abstract!vars, Open, ShownPaths
<1> QED BY <1>1, <1>2, <1>3, <1>4, <1>5, <1>6, <1>7, <1>8
     DEF Next, Decide, ConnectionLost, Refuse, Open

LEMMA InitMaps == Init => Abstract!Init
BY DEF Init, Abstract!Init, Abstract!Content, Content

\* The pessimistic backend implements the abstract document store, deletions
\* included: nothing that was read under the locks changes before the commit.
THEOREM PgImplements == Spec => ImplementsDocumentStore
<1>1. IInv /\ [Next]_vars => [Abstract!Next]_Abstract!vars
  BY NextMaps
<1> QED BY <1>1, InitMaps, InitIInv, NextIInv, PTL DEF Spec, ImplementsDocumentStore, Abstract!Spec
==============================================================================
