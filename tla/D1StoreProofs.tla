---------------------------- MODULE D1StoreProofs ----------------------------
(***************************************************************************)
(* Proofs about the optimistic backend for any number of callers, paths    *)
(* and contents, any bounds and any choice of the permanent paths.         *)
(***************************************************************************)
EXTENDS D1Store, TLAPS

\* The version of a permanent document never falls behind what was read of
\* it, and an equal version means an equal row.  This is what the assertions
\* of the commit batch can rely on, and what deletion destroys.
VersionsTell ==
  \A t \in Txns : \A p \in read[t] \cap Permanent :
    /\ seen[t][p].version <= rows[p].version
    /\ seen[t][p].version = rows[p].version => seen[t][p] = rows[p]


IInv == TypeOK /\ VersionsTell

USE DEF Ended

\* What a commit leaves at a path is a row, and at a permanent path a row
\* that is new or untouched.
LEMMA AfterFacts ==
  ASSUME TypeOK, NEW W \in SUBSET Paths, NEW wr \in [W -> Data], NEW del \in SUBSET Paths, NEW p \in Paths
  PROVE /\ After(p, wr, del) \in Rows
        /\ p \notin del => \/ After(p, wr, del) = rows[p]
                           \/ After(p, wr, del).version = rows[p].version + 1
<1>1. rows[p] \in Rows
  BY DEF TypeOK
<1>2. rows[p].version \in Nat
  BY <1>1 DEF Rows, Absent
<1>3. CASE p \in W
  <2>1. After(p, wr, del) = [version |-> rows[p].version + 1, data |-> wr[p]]
    BY <1>3 DEF After
  <2>2. wr[p] \in Data /\ rows[p].version + 1 \in Nat \ {0}
    BY <1>2, <1>3
  <2> QED BY <2>1, <2>2 DEF Rows
<1>4. CASE p \notin W
  BY <1>1, <1>4 DEF After, Rows, Absent
<1> QED BY <1>3, <1>4

\* Dropping a pass keeps the types, and what is known of the others.
LEMMA ForgetTyped ==
  ASSUME TypeOK, NEW t \in Txns, Forget(t)
  PROVE /\ read' \in [Txns -> SUBSET Paths]
        /\ seen' \in [Txns -> [Paths -> Rows]]
        /\ \A u \in Txns : u # t => read'[u] = read[u] /\ seen'[u] = seen[u]
        /\ read'[t] = {}
<1>1. [p \in Paths |-> Absent] \in [Paths -> Rows]
  BY DEF Rows
<1>2. read \in [Txns -> SUBSET Paths] /\ seen \in [Txns -> [Paths -> Rows]]
  BY DEF TypeOK
<1>3. /\ read' = [read EXCEPT ![t] = {}]
      /\ seen' = [seen EXCEPT ![t] = [p \in Paths |-> Absent]]
  BY DEF Forget
<1> QED BY <1>1, <1>2, <1>3

LEMMA ForgetKeeps ==
  ASSUME TypeOK, VersionsTell, NEW t \in Txns, Forget(t), rows' = rows
  PROVE VersionsTell'
<1> SUFFICES ASSUME NEW u \in Txns, NEW p \in read'[u] \cap Permanent
             PROVE /\ seen'[u][p].version <= rows[p].version
                   /\ seen'[u][p].version = rows[p].version => seen'[u][p] = rows[p]
  BY DEF VersionsTell
<1>1. u # t /\ read'[u] = read[u] /\ seen'[u] = seen[u]
  BY ForgetTyped
<1> QED BY <1>1 DEF VersionsTell

\* The next pass of the loop is well typed.
LEMMA AgainTyped ==
  ASSUME TypeOK, NEW t \in Txns, NEW S \in SUBSET Paths, Again(t, S)
  PROVE /\ wanted' \in [Txns -> SUBSET Paths]
        /\ tries' \in [Txns -> Nat]
        /\ pc' \in [Txns -> Ended \cup {"reading", "deciding", "expired"}]
        /\ Forget(t)
BY DEF Again, TypeOK

LEMMA InitIInv == Init => IInv
<1> SUFFICES ASSUME Init PROVE IInv
  OBVIOUS
<1>1. {Absent} \cup [version : {1}, data : Data] \subseteq Rows
  BY DEF Rows, Absent
<1>2. TypeOK
  BY <1>1 DEF Init, TypeOK, Rows, Absent
<1>3. VersionsTell
  BY DEF Init, VersionsTell
<1> QED BY <1>2, <1>3 DEF IInv

\* Every step keeps the invariant.
LEMMA NextIInv == IInv /\ [Next]_vars => IInv'
<1> SUFFICES ASSUME IInv, [Next]_vars PROVE IInv'
  OBVIOUS
<1> USE DEF IInv
<1>1. ASSUME NEW t \in Txns, NEW S \in SUBSET Paths, Start(t, S) PROVE IInv'
  <2>1. VersionsTell' /\ rows' = rows
    BY <1>1, ForgetKeeps, ForgetTyped DEF Start
  <2> QED BY <1>1, <2>1, ForgetKeeps, ForgetTyped DEF Start, TypeOK
<1>2. ASSUME NEW t \in Txns, NEW p \in Paths, ReadRow(t, p) PROVE IInv'
  <2>1. TypeOK'
    BY <1>2 DEF ReadRow, TypeOK
  <2>2. VersionsTell'
    <3> SUFFICES ASSUME NEW u \in Txns, NEW q \in read'[u] \cap Permanent
                 PROVE /\ seen'[u][q].version <= rows'[q].version
                       /\ seen'[u][q].version = rows'[q].version => seen'[u][q] = rows'[q]
      BY DEF VersionsTell
    <3>0. q \in Paths /\ rows'[q] = rows[q] /\ rows[q].version \in Nat
      BY <1>2, PermanentAssumption DEF ReadRow, TypeOK, Rows, Absent
    <3>1. CASE u = t /\ q = p
      <4>1. seen'[u][q] = rows[q]
        BY <1>2, <3>1 DEF ReadRow, TypeOK
      <4> QED BY <4>1, <3>0
    <3>2. CASE ~(u = t /\ q = p)
      <4>1. seen'[u][q] = seen[u][q] /\ q \in read[u]
        BY <1>2, <3>0, <3>2 DEF ReadRow, TypeOK
      <4> QED BY <4>1, <3>0 DEF VersionsTell
    <3> QED BY <3>1, <3>2
  <2> QED BY <2>1, <2>2
<1>3. ASSUME NEW t \in Txns, NEW S \in SUBSET Paths, Expand(t, S) PROVE IInv'
  <2>1. Forget(t) /\ UNCHANGED <<rows, conflicts>>
    BY <1>3 DEF Expand, Again
  <2> QED BY <1>3, <2>1, ForgetKeeps, ForgetTyped, AgainTyped DEF Expand, TypeOK
<1>4. ASSUME NEW t \in Txns, Refuse(t) PROVE IInv'
  BY <1>4, ForgetKeeps, ForgetTyped DEF Refuse, TypeOK
<1>5. ASSUME NEW t \in Txns, NEW W \in SUBSET read[t], NEW wr \in [W -> Data],
             NEW del \in SUBSET read[t], Commit(t, wr, del)
      PROVE IInv'
  <2>0. W \in SUBSET Paths /\ del \in SUBSET Paths
    BY DEF TypeOK
  <2>1. TypeOK'
    <3>1. rows' \in [Paths -> Rows]
      BY <1>5, <2>0, AfterFacts DEF Commit
    <3> QED BY <1>5, <3>1, ForgetTyped DEF Commit, TypeOK
  <2>2. VersionsTell'
    <3> SUFFICES ASSUME NEW u \in Txns, NEW q \in read'[u] \cap Permanent
                 PROVE /\ seen'[u][q].version <= rows'[q].version
                       /\ seen'[u][q].version = rows'[q].version => seen'[u][q] = rows'[q]
      BY DEF VersionsTell
    <3>1. u # t /\ read'[u] = read[u] /\ seen'[u] = seen[u]
      BY <1>5 DEF Commit, Forget, TypeOK
    <3>2. q \in Paths /\ q \notin del /\ rows'[q] = After(q, wr, del)
      BY <1>5, PermanentAssumption DEF Commit
    <3>3. rows'[q] = rows[q] \/ rows'[q].version = rows[q].version + 1
      BY <2>0, <3>2, AfterFacts
    <3>4. /\ seen[u][q].version <= rows[q].version
          /\ seen[u][q].version = rows[q].version => seen[u][q] = rows[q]
      BY <3>1 DEF VersionsTell
    <3>5. seen[u][q].version \in Nat /\ rows[q].version \in Nat
      BY <3>2 DEF TypeOK, Rows, Absent
    <3> QED BY <3>1, <3>3, <3>4, <3>5
  <2> QED BY <2>1, <2>2
<1>6. ASSUME NEW t \in Txns, Conflict(t) PROVE IInv'
  <2>1. Forget(t) /\ UNCHANGED rows
    BY <1>6 DEF Conflict, Again
  <2>2. conflicts' \in [Txns -> Nat] /\ wanted[t] \in SUBSET Paths
    BY <1>6 DEF Conflict, TypeOK
  <2>3. CASE Again(t, wanted[t])
    BY <2>1, <2>2, <2>3, ForgetKeeps, ForgetTyped, AgainTyped DEF TypeOK
  <2>4. CASE pc' = [pc EXCEPT ![t] = "failed"] /\ UNCHANGED <<wanted, tries>>
    BY <2>1, <2>2, <2>4, ForgetKeeps, ForgetTyped DEF TypeOK
  <2> QED BY <1>6, <2>3, <2>4 DEF Conflict
<1>7. ASSUME NEW t \in Txns, Expire(t) PROVE IInv'
  BY <1>7, ForgetKeeps, ForgetTyped DEF Expire, TypeOK
<1>8. ASSUME NEW t \in Txns, CommitExpired(t) PROVE IInv'
  BY <1>8 DEF CommitExpired, TypeOK, VersionsTell
<1>9. CASE UNCHANGED vars
  BY <1>9 DEF vars, TypeOK, VersionsTell
<1> QED BY <1>1, <1>2, <1>3, <1>4, <1>5, <1>6, <1>7, <1>8, <1>9 DEF Next, Decide

\* Type correctness of the backend and its retry loop.
THEOREM TypeCorrect == Spec => []TypeOK
<1>1. IInv => TypeOK
  BY DEF IInv
<1> QED BY <1>1, InitIInv, NextIInv, PTL DEF Spec

\* If the batch's assertions hold, every permanent document read is current.
LEMMA IInvCurrent == IInv => PermanentReadsCurrent
<1> SUFFICES ASSUME IInv, NEW t \in Txns, ReadSetHolds(t), NEW p \in read[t] \cap Permanent
             PROVE seen[t][p] = rows[p]
  BY DEF PermanentReadsCurrent, CommitsCurrent
<1> QED BY DEF IInv, VersionsTell, ReadSetHolds

\* The optimistic commit is sound for documents that are never deleted,
\* whatever happens to the others.
THEOREM PermanentReadsAreCurrent == Spec => []PermanentReadsCurrent
BY InitIInv, NextIInv, IInvCurrent, PTL DEF Spec

-----------------------------------------------------------------------------
\* A dropped pass shows nothing.
LEMMA ForgetShows ==
  ASSUME TypeOK, NEW t \in Txns, Forget(t)
  PROVE /\ Shown' = [Shown EXCEPT ![t] = [p \in Permanent |-> NoData]]
        /\ ShownPaths' = [ShownPaths EXCEPT ![t] = {}]
<1>1. seen' = [seen EXCEPT ![t] = [p \in Paths |-> Absent]]
  BY DEF Forget
<1>2. ASSUME NEW u \in Txns
      PROVE Shown'[u] = IF u = t THEN [p \in Permanent |-> NoData] ELSE Shown[u]
  <2>1. CASE u = t
    <3>1. seen'[u] = [p \in Paths |-> Absent]
      BY <1>1, <2>1 DEF TypeOK
    <3>2. \A p \in Permanent : seen'[u][p].data = NoData
      BY <3>1, PermanentAssumption DEF Absent
    <3> QED BY <2>1, <3>2 DEF Shown
  <2>2. CASE u # t
    <3>1. seen'[u] = seen[u]
      BY <1>1, <2>2 DEF TypeOK
    <3> QED BY <2>2, <3>1 DEF Shown
  <2> QED BY <2>1, <2>2
<1>3. Shown' = [u \in Txns |-> Shown'[u]]
  BY DEF Shown
<1>4. [Shown EXCEPT ![t] = [p \in Permanent |-> NoData]]
      = [u \in Txns |-> IF u = t THEN [p \in Permanent |-> NoData] ELSE Shown[u]]
  BY DEF Shown
<1>5. read' = [read EXCEPT ![t] = {}] /\ read \in [Txns -> SUBSET Paths]
  BY DEF Forget, TypeOK
<1>6. ShownPaths' = [ShownPaths EXCEPT ![t] = {}]
  BY <1>5 DEF ShownPaths
<1> QED BY <1>2, <1>3, <1>4, <1>6

LEMMA ContentsType == TypeOK => Contents \in [Permanent -> Data \cup {NoData}]
BY PermanentAssumption DEF TypeOK, Rows, Absent, Contents

\* A pass begun is a Begin, a call ended without a commit an Abandon.
LEMMA PassBegins ==
  ASSUME TypeOK, NEW t \in Txns, Forget(t), rows' = rows, pc' = [pc EXCEPT ![t] = "reading"]
  PROVE Abstract!Begin(t)
<1>1. Contents' = Contents
  BY DEF Contents
<1>2. Open' = Open \cup {t}
  BY DEF Open, TypeOK
<1> QED BY <1>1, <1>2, ForgetShows DEF Abstract!Begin

LEMMA PassEnds ==
  ASSUME TypeOK, NEW t \in Txns, Forget(t), rows' = rows, t \in Open,
         pc' = [pc EXCEPT ![t] = "failed"] \/ pc' = [pc EXCEPT ![t] = "expired"]
  PROVE Abstract!Abandon(t)
<1>1. Contents' = Contents
  BY DEF Contents
<1>2. Open' = Open \ {t}
  BY DEF Open, TypeOK
<1> QED BY <1>1, <1>2, ForgetShows DEF Abstract!Abandon

LEMMA NextMaps ==
  ASSUME IInv, [Next]_vars
  PROVE [Abstract!Next]_Abstract!vars
<1> USE DEF IInv
<1> SUFFICES ASSUME Next PROVE Abstract!Next \/ UNCHANGED Abstract!vars
  <2>1. CASE UNCHANGED vars
    BY <2>1 DEF vars, Abstract!vars, Contents, Shown, ShownPaths, Open
  <2> QED BY <2>1
<1>1. ASSUME NEW t \in Txns, NEW S \in SUBSET Paths, Start(t, S) PROVE Abstract!Next
  BY <1>1, PassBegins DEF Start, Abstract!Next
<1>2. ASSUME NEW t \in Txns, NEW p \in Paths, ReadRow(t, p) PROVE Abstract!Next
  <2> DEFINE S == {p} \cap Permanent
  <2>1. Contents' = Contents /\ Open' = Open /\ t \in Open
    BY <1>2 DEF ReadRow, Contents, Open, TypeOK
  <2>2. ShownPaths' = [ShownPaths EXCEPT ![t] = @ \cup S]
    <3>1. read' = [read EXCEPT ![t] = @ \cup {p}] /\ read \in [Txns -> SUBSET Paths]
      BY <1>2 DEF ReadRow, TypeOK
    <3> QED BY <3>1 DEF ShownPaths
  <2>3. ASSUME NEW u \in Txns
        PROVE Shown'[u] = IF u = t THEN [q \in Permanent |-> IF q \in S THEN Contents[q] ELSE Shown[t][q]]
                          ELSE Shown[u]
    <3>1. CASE u # t
      <4>1. seen'[u] = seen[u]
        BY <1>2, <3>1 DEF ReadRow, TypeOK
      <4> QED BY <3>1, <4>1 DEF Shown
    <3>2. CASE u = t
      <4>1. \A q \in Permanent : seen'[u][q] = IF q = p THEN rows[p] ELSE seen[u][q]
        BY <1>2, <3>2, PermanentAssumption DEF ReadRow, TypeOK
      <4> QED BY <3>2, <4>1 DEF Shown, Contents
    <3> QED BY <3>1, <3>2
  <2>4. Shown' = [Shown EXCEPT ![t] = [q \in Permanent |-> IF q \in S THEN Contents[q] ELSE Shown[t][q]]]
    BY <2>3 DEF Shown
  <2>5. Abstract!Read(t, S)
    BY <2>1, <2>2, <2>4 DEF Abstract!Read
  <2>6. S \in SUBSET Permanent
    OBVIOUS
  <2> QED BY <2>5, <2>6 DEF Abstract!Next
<1>3. ASSUME NEW t \in Txns, NEW S \in SUBSET Paths, Expand(t, S) PROVE Abstract!Next
  <2>1. t \in Open /\ Forget(t) /\ rows' = rows
    BY <1>3 DEF Expand, Again, Open
  <2>2. Abstract!Begin(t) \/ Abstract!Abandon(t)
    BY <1>3, <2>1, PassBegins, PassEnds DEF Expand, Again
  <2> QED BY <2>2 DEF Abstract!Next
<1>4. ASSUME NEW t \in Txns, Refuse(t) PROVE Abstract!Next
  <2>1. t \in Open /\ Forget(t) /\ rows' = rows
    BY <1>4 DEF Refuse, Open
  <2>2. Abstract!Abandon(t)
    BY <1>4, <2>1, PassEnds DEF Refuse
  <2> QED BY <2>2 DEF Abstract!Next
<1>5. ASSUME NEW t \in Txns, NEW W \in SUBSET read[t], NEW wr \in [W -> Data],
             NEW del \in SUBSET read[t], Commit(t, wr, del)
      PROVE Abstract!Next
  <2>0. W \in SUBSET Paths /\ del \in SUBSET Paths
    BY DEF TypeOK
  <2>1. PICK c \in {"done", "failed"} : pc' = [pc EXCEPT ![t] = c]
    BY <1>5 DEF Commit
  <2>2. t \in Open /\ Open' = Open \ {t}
    BY <1>5, <2>1 DEF Commit, Open, TypeOK
  <2>3. Abstract!Current(t)
    <3>1. \A p \in read[t] \cap Permanent : seen[t][p] = rows[p]
      BY <1>5, IInvCurrent DEF Commit, PermanentReadsCurrent, CommitsCurrent, TypeOK
    <3> QED BY <3>1 DEF Abstract!Current, Shown, ShownPaths, Contents
  <2>4. Contents' \in [Permanent -> Data \cup {NoData}]
    <3>1. Decide(t)
      BY <1>5 DEF Decide
    <3>2. TypeOK'
      BY <3>1, NextIInv DEF Next
    <3> QED BY <3>2, PermanentAssumption DEF TypeOK, Rows, Absent, Contents
  <2>5. \A p \in Permanent \ ShownPaths[t] : Contents'[p] = Contents[p]
    <3>1. \A p \in Permanent \ read[t] : rows'[p] = rows[p]
      BY <1>5, PermanentAssumption DEF Commit, After
    <3> QED BY <3>1 DEF Contents, ShownPaths
  <2>6. Forget(t)
    BY <1>5 DEF Commit
  <2>7. Abstract!Commit(t, Contents')
    BY <2>2, <2>3, <2>5, <2>6, ForgetShows DEF Abstract!Commit
  <2> QED BY <2>4, <2>7 DEF Abstract!Next, Abstract!Content
<1>6. ASSUME NEW t \in Txns, Conflict(t) PROVE Abstract!Next
  <2>1. t \in Open /\ Forget(t) /\ rows' = rows
    BY <1>6 DEF Conflict, Again, Open
  <2>2. Abstract!Begin(t) \/ Abstract!Abandon(t)
    BY <1>6, <2>1, PassBegins, PassEnds DEF Conflict, Again
  <2> QED BY <2>2 DEF Abstract!Next
<1>7. ASSUME NEW t \in Txns, Expire(t) PROVE Abstract!Next
  <2>1. t \in Open /\ Forget(t) /\ rows' = rows
    BY <1>7 DEF Expire, Open
  <2>2. Abstract!Abandon(t)
    BY <1>7, <2>1, PassEnds DEF Expire
  <2> QED BY <2>2 DEF Abstract!Next
<1>8. ASSUME NEW t \in Txns, CommitExpired(t) PROVE UNCHANGED Abstract!vars
  BY <1>8 DEF CommitExpired, Abstract!vars, Contents, Shown, ShownPaths, Open, TypeOK
<1> QED BY <1>1, <1>2, <1>3, <1>4, <1>5, <1>6, <1>7, <1>8 DEF Next, Decide

LEMMA InitMaps == Init => Abstract!Init
<1> SUFFICES ASSUME Init PROVE Abstract!Init
  OBVIOUS
<1>1. Contents \in [Permanent -> Data \cup {NoData}]
  BY InitIInv, ContentsType DEF IInv
<1>2. Shown = [t \in Txns |-> [p \in Permanent |-> NoData]]
  BY PermanentAssumption DEF Init, Shown, Absent
<1>3. Open = {} /\ ShownPaths = [t \in Txns |-> {}]
  BY DEF Init, Open, ShownPaths
<1> QED BY <1>1, <1>2, <1>3 DEF Abstract!Init, Abstract!Content

\* For the documents that are never deleted the optimistic backend implements
\* the abstract document store: versions, batches, retries, and the deletion and
\* creation of other documents are invisible.
THEOREM D1Implements == Spec => ImplementsDocumentStore
<1>1. IInv /\ [Next]_vars => [Abstract!Next]_Abstract!vars
  BY NextMaps
<1> QED BY <1>1, InitMaps, InitIInv, NextIInv, PTL DEF Spec, ImplementsDocumentStore, Abstract!Spec
==============================================================================
