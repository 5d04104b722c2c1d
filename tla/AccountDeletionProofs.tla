----------------------- MODULE AccountDeletionProofs -----------------------
(***************************************************************************)
(* Proofs about AccountDeletion, for any records, assets, requests and     *)
(* lease tokens: what the job says is removed stays removed, whoever       *)
(* commits late and however many requests work on the job.                 *)
(***************************************************************************)
EXTENDS AccountDeletion, TLAPS

USE DEF Stages, Working

LEMMA GotoType ==
  ASSUME TypeOK, NEW r \in Resumers, NEW pc \in Working \cup {"idle", "begun", "finally"},
         NEW work \in SUBSET (Records \cup Assets), NEW found \in SUBSET Assets,
         NEW a \in Assets \cup {None}, pc \in {"object", "listed"} => a \in Assets, Goto(r, pc, work, found, a)
  PROVE  /\ call' \in [Resumers -> Call]
         /\ \A s \in Resumers : call'[s].pc \in {"object", "listed"} => call'[s].asset \in Assets
BY DEF TypeOK, Goto, Call

LEMMA MoveType ==
  ASSUME TypeOK, NEW r \in Resumers, NEW pc \in Working \cup {"idle", "begun", "finally"},
         pc \notin {"object", "listed"}, Move(r, pc)
  PROVE  /\ call' \in [Resumers -> Call]
         /\ \A s \in Resumers : call'[s].pc \in {"object", "listed"} => call'[s].asset \in Assets
BY GotoType DEF Move

LEMMA SaveType ==
  ASSUME TypeOK, NEW stage \in Stages, NEW paths \in SUBSET (Records \cup Assets), NEW assets \in SUBSET Assets,
         NEW kept \in SUBSET Assets, NEW removed \in BOOLEAN, Save(stage, paths, assets, kept, removed)
  PROVE  job' \in Job /\ lease' \in Lease
BY DEF TypeOK, Save, Job, Lease

\* A fresh token is one, and nobody's.
LEMMA FreshToken ==
  ASSUME Fresh # {}
  PROVE  (CHOOSE t \in Fresh : TRUE) \in Fresh
OBVIOUS

-----------------------------------------------------------------------------
(* Types *)

LEMMA InitType == Init => TypeOK
BY OwnedAssumption, SharedAssumption, BoundsAssumption
   DEF Init, TypeOK, Job, Lease, Call, Idle, Unleased, Records, Active

\* Those who write besides the deletion.
LEMMA WorldType ==
  ASSUME TypeOK,
         World
  PROVE  TypeOK'
<1>1. ASSUME NEW d \in Active, Admit(d) PROVE TypeOK'
  BY <1>1 DEF TypeOK, Admit
<1>2. ASSUME NEW d \in Artifacts, AdmitOther(d) PROVE TypeOK'
  BY <1>2 DEF TypeOK, AdmitOther, Active
<1>3. ASSUME NEW whose \in {"own", "other"}, NEW d \in Active, CommitLate(whose, d) PROVE TypeOK'
  BY <1>3 DEF TypeOK, CommitLate, Records
<1>4. ASSUME ProviderAnswers \/ CheckoutStarts \/ CheckoutEnds PROVE TypeOK'
  BY <1>4 DEF TypeOK, ProviderAnswers, CheckoutStarts, CheckoutEnds
<1>5. ASSUME NEW a \in Assets, ClaimUpload(a) PROVE TypeOK'
  BY <1>5 DEF TypeOK, ClaimUpload
<1>6. ASSUME NEW a \in Assets, StoreObject(a) PROVE TypeOK'
  BY <1>6 DEF TypeOK, StoreObject
<1>7. ASSUME NEW a \in Assets, Receipt(a) PROVE TypeOK'
  BY <1>7 DEF TypeOK, Receipt
<1>8. ASSUME NEW a \in Assets, UploadDies(a) PROVE TypeOK'
  BY <1>8, BoundsAssumption DEF TypeOK, UploadDies
<1>9. ASSUME LeaseExpires PROVE TypeOK'
  BY <1>9 DEF TypeOK, LeaseExpires, Lease, world
<1> QED BY <1>1, <1>2, <1>3, <1>4, <1>5, <1>6, <1>7, <1>8, <1>9 DEF World

\* A DELETE request.
LEMMA RequestType ==
  ASSUME TypeOK, NEW r \in Resumers, Begin(r) \/ Again(r) \/ Step(r) \/ Fail(r) \/ Die(r)
  PROVE  TypeOK'
<1> USE DEF world
<1>0. /\ call[r] \in Call /\ job \in Job /\ lease \in Lease
      /\ call[r].pc \in {"object", "listed"} => call[r].asset \in Assets
  BY DEF TypeOK
<1>1. CASE Begin(r)
  BY <1>1 DEF Begin, Begun, TypeOK, Job, Call
<1>2. CASE Again(r)
  BY <1>2 DEF Again, Begun, TypeOK, Call, Lease
<1>3. CASE Claim(r)
  <2>1. (CHOOSE t \in Fresh : TRUE) \in Tokens
    BY <1>3, FreshToken DEF Claim, Fresh
  <2>2. job.stage \in Stages
    BY <1>0, <1>3 DEF Claim, Job
  <2> QED BY <1>3, <2>1, <2>2 DEF Claim, TypeOK, Call, Lease, Job
<1>4. CASE Turned(r)
  BY <1>4 DEF Turned, Idle, TypeOK, Call
<1>5. CASE Checkout(r)
  <2>1. /\ call' \in [Resumers -> Call]
        /\ \A s \in Resumers : call'[s].pc \in {"object", "listed"} => call'[s].asset \in Assets
    BY <1>0, <1>5, GotoType, MoveType DEF Checkout, Job, Call
  <2>2. job' \in Job /\ lease' \in Lease
    BY <1>0, <1>5, SaveType DEF Checkout, Job, Call
  <2> QED BY <1>5, <2>1, <2>2 DEF Checkout, TypeOK
<1>6. CASE Inventoried(r)
  <2>1. /\ call' \in [Resumers -> Call]
        /\ \A s \in Resumers : call'[s].pc \in {"object", "listed"} => call'[s].asset \in Assets
    BY <1>0, <1>6, GotoType, MoveType DEF Inventoried, Job, Call
  <2>2. job' \in Job /\ lease' \in Lease
    BY <1>0, <1>6, SaveType DEF Inventoried, Job, Call
  <2> QED BY <1>6, <2>1, <2>2 DEF Inventoried, TypeOK
<1>7. CASE Billing(r)
  <2>1. /\ call' \in [Resumers -> Call]
        /\ \A s \in Resumers : call'[s].pc \in {"object", "listed"} => call'[s].asset \in Assets
    BY <1>0, <1>7, GotoType, MoveType DEF Billing, Job, Call
  <2>2. job' \in Job /\ lease' \in Lease
    BY <1>0, <1>7, SaveType DEF Billing, Job, Call
  <2> QED BY <1>7, <2>1, <2>2 DEF Billing, TypeOK
<1>8. CASE Deleted(r)
  <2>1. /\ call' \in [Resumers -> Call]
        /\ \A s \in Resumers : call'[s].pc \in {"object", "listed"} => call'[s].asset \in Assets
    BY <1>0, <1>8, GotoType, MoveType DEF Deleted, Job, Call
  <2>2. job' \in Job /\ lease' \in Lease
    BY <1>0, <1>8, SaveType DEF Deleted, Job, Call
  <2> QED BY <1>8, <2>1, <2>2 DEF Deleted, TypeOK
<1>9. CASE AssetsDone(r)
  <2>1. /\ call' \in [Resumers -> Call]
        /\ \A s \in Resumers : call'[s].pc \in {"object", "listed"} => call'[s].asset \in Assets
    BY <1>0, <1>9, GotoType, MoveType DEF AssetsDone, Job, Call
  <2>2. job' \in Job /\ lease' \in Lease
    BY <1>0, <1>9, SaveType DEF AssetsDone, Job, Call
  <2> QED BY <1>9, <2>1, <2>2 DEF AssetsDone, TypeOK
<1>10. CASE Scanned(r)
  <2>1. /\ call' \in [Resumers -> Call]
        /\ \A s \in Resumers : call'[s].pc \in {"object", "listed"} => call'[s].asset \in Assets
    BY <1>0, <1>10, GotoType, MoveType DEF Scanned, Job, Call
  <2>2. job' \in Job /\ lease' \in Lease
    BY <1>0, <1>10, SaveType DEF Scanned, Job, Call
  <2> QED BY <1>10, <2>1, <2>2 DEF Scanned, TypeOK
<1>11. CASE ListAsset(r)
  <2>1. /\ call' \in [Resumers -> Call]
        /\ \A s \in Resumers : call'[s].pc \in {"object", "listed"} => call'[s].asset \in Assets
    BY <1>0, <1>11, GotoType, MoveType DEF ListAsset, Job, Call
  <2>2. job' \in Job /\ lease' \in Lease
    BY <1>0, <1>11, SaveType DEF ListAsset, Job, Call
  <2> QED BY <1>11, <2>1, <2>2 DEF ListAsset, TypeOK
<1>12. CASE Inventory(r)
  <2>1. /\ call' \in [Resumers -> Call]
        /\ \A s \in Resumers : call'[s].pc \in {"object", "listed"} => call'[s].asset \in Assets
    BY <1>0, <1>12, GotoType, MoveType DEF Inventory, Call, Found, FoundAssets, Records, Active
  <2> QED BY <1>12, <2>1 DEF Inventory, TypeOK
<1>13. CASE Abandon(r)
  <2>1. /\ call' \in [Resumers -> Call]
        /\ \A s \in Resumers : call'[s].pc \in {"object", "listed"} => call'[s].asset \in Assets
    BY <1>0, <1>13, GotoType, MoveType DEF Abandon, Call, Job
  <2> QED BY <1>13, <2>1 DEF Abandon, TypeOK
<1>14. CASE Delete(r)
  <2>1. /\ call' \in [Resumers -> Call]
        /\ \A s \in Resumers : call'[s].pc \in {"object", "listed"} => call'[s].asset \in Assets
    BY <1>0, <1>14, GotoType, MoveType DEF Delete, Call
  <2> QED BY <1>14, <2>1 DEF Delete, TypeOK
<1>15. CASE RemoveAsset(r)
  <2>1. /\ call' \in [Resumers -> Call]
        /\ \A s \in Resumers : call'[s].pc \in {"object", "listed"} => call'[s].asset \in Assets
    BY <1>0, <1>15, GotoType, MoveType DEF RemoveAsset, Call
  <2> QED BY <1>15, <2>1 DEF RemoveAsset, TypeOK
<1>16. CASE Verify(r)
  <2>1. /\ call' \in [Resumers -> Call]
        /\ \A s \in Resumers : call'[s].pc \in {"object", "listed"} => call'[s].asset \in Assets
    BY <1>0, <1>16, GotoType, MoveType DEF Verify, Call
  <2> QED BY <1>16, <2>1 DEF Verify, TypeOK
<1>17. CASE Close(r)
  <2>1. /\ call' \in [Resumers -> Call]
        /\ \A s \in Resumers : call'[s].pc \in {"object", "listed"} => call'[s].asset \in Assets
    BY <1>0, <1>17, GotoType, MoveType DEF Close, Call
  <2> QED BY <1>17, <2>1 DEF Close, TypeOK
<1>18. CASE Fail(r)
  <2>1. /\ call' \in [Resumers -> Call]
        /\ \A s \in Resumers : call'[s].pc \in {"object", "listed"} => call'[s].asset \in Assets
    BY <1>0, <1>18, GotoType, MoveType DEF Fail, Call
  <2> QED BY <1>18, <2>1, BoundsAssumption DEF Fail, TypeOK
<1>19. CASE Finally(r)
  BY <1>19 DEF Finally, TypeOK, Call, Idle, Unleased, Lease
<1>20. CASE Die(r)
  BY <1>20, BoundsAssumption DEF Die, TypeOK, Call, Idle
<1>21. ASSUME NEW a \in Assets, AssetGone(r, a) PROVE TypeOK'
  <2>1. /\ call' \in [Resumers -> Call]
        /\ \A s \in Resumers : call'[s].pc \in {"object", "listed"} => call'[s].asset \in Assets
    BY <1>0, <1>21, GotoType, MoveType DEF AssetGone, NextAsset, Call
  <2> QED BY <1>21, <2>1 DEF AssetGone, NextAsset, TypeOK
<1>22. ASSUME NEW a \in Assets, AssetUploading(r, a) PROVE TypeOK'
  <2>1. /\ call' \in [Resumers -> Call]
        /\ \A s \in Resumers : call'[s].pc \in {"object", "listed"} => call'[s].asset \in Assets
    BY <1>0, <1>22, GotoType, MoveType DEF AssetUploading, NextAsset, Call
  <2> QED BY <1>22, <2>1 DEF AssetUploading, NextAsset, TypeOK
<1>23. ASSUME NEW a \in Assets, AssetKept(r, a) PROVE TypeOK'
  <2>1. /\ call' \in [Resumers -> Call]
        /\ \A s \in Resumers : call'[s].pc \in {"object", "listed"} => call'[s].asset \in Assets
    BY <1>0, <1>23, GotoType, MoveType DEF AssetKept, NextAsset, Call
  <2>2. job' \in Job /\ lease' \in Lease
    BY <1>0, <1>23, SaveType DEF AssetKept, NextAsset, Job
  <2> QED BY <1>23, <2>1, <2>2 DEF AssetKept, NextAsset, TypeOK
<1>24. ASSUME NEW a \in Assets, RemoveObject(r, a) PROVE TypeOK'
  <2>1. /\ call' \in [Resumers -> Call]
        /\ \A s \in Resumers : call'[s].pc \in {"object", "listed"} => call'[s].asset \in Assets
    BY <1>0, <1>24, GotoType, MoveType DEF RemoveObject, NextAsset, Call
  <2> QED BY <1>24, <2>1 DEF RemoveObject, NextAsset, TypeOK
<1> QED BY <1>1, <1>2, <1>3, <1>4, <1>5, <1>6, <1>7, <1>8, <1>9, <1>10, <1>11, <1>12, <1>13, <1>14, <1>15, <1>16, <1>17, <1>18, <1>19, <1>20, <1>21, <1>22, <1>23, <1>24 DEF Step

\* The state has its type, for any constants.
THEOREM TypeCorrect == Spec => []TypeOK
<1>1. TypeOK /\ UNCHANGED vars => TypeOK'
  BY DEF TypeOK, vars
<1>2. TypeOK /\ Next => TypeOK'
  BY WorldType, RequestType DEF Next
<1> QED BY InitType, <1>1, <1>2, PTL DEF Spec

-----------------------------------------------------------------------------
(* Who works on the job, and where *)

\* The stage in which a request is.
StageOf(pc) ==
  IF pc = "inventoried" THEN "inventory"
  ELSE IF pc = "deleting" THEN "documents"
  ELSE IF pc \in {"object", "listed"} THEN "assets"
  ELSE IF pc = "scanned" THEN "verify" ELSE pc

\* Nobody works before the fence, and the job exists from then on.
Fenced ==
  /\ lifecycle = "active" <=> job.stage = "none"
  /\ lifecycle = "active" => \A r \in Resumers : call[r].pc = "idle"

\* Requests at work have tokens of their own.
Tokened ==
  /\ \A r \in Resumers : call[r].token = None <=> call[r].pc \in {"idle", "begun"}
  /\ \A r, s \in Resumers : r # s /\ call[r].token = call[s].token => call[r].token = None

\* The one that holds the lease is in the job's stage.
Placed == \A r \in Resumers : call[r].pc \in Working /\ Holds(r) => job.stage = StageOf(call[r].pc)

Ended == job.removed => job.stage = "retention_review"

\* Requests of other accounts are about to write artifacts only.
LateTyped == \A d \in Active : <<"other", d>> \in late => d \in Artifacts

Control == Fenced /\ Tokened /\ Placed /\ Ended /\ LateTyped

LEMMA InitControl == Init => Control
BY DEF Init, Control, Fenced, Tokened, Placed, Ended, LateTyped, Holds, Idle, Unleased

\* Those who write besides the deletion touch neither the requests nor the job.
LEMMA WorldControl ==
  ASSUME TypeOK, Control,
         World
  PROVE  Control'
<1> USE DEF world
<1> DEFINE P == UNCHANGED <<lifecycle, job, call>> /\ lease'.token = lease.token /\ LateTyped'
<1>1. ASSUME NEW d \in Active, Admit(d) PROVE P
  BY <1>1 DEF Admit, Control, LateTyped
<1>2. ASSUME NEW d \in Artifacts, AdmitOther(d) PROVE P
  BY <1>2 DEF AdmitOther, Control, LateTyped
<1>3. ASSUME NEW whose \in {"own", "other"}, NEW d \in Active, CommitLate(whose, d) PROVE P
  BY <1>3 DEF CommitLate, Control, LateTyped
<1>4. ASSUME ProviderAnswers \/ CheckoutStarts \/ CheckoutEnds \/ LeaseExpires PROVE P
  BY <1>4 DEF ProviderAnswers, CheckoutStarts, CheckoutEnds, LeaseExpires, Control, LateTyped
<1>5. ASSUME NEW a \in Assets, ClaimUpload(a) \/ StoreObject(a) \/ Receipt(a) \/ UploadDies(a) PROVE P
  BY <1>5 DEF ClaimUpload, StoreObject, Receipt, UploadDies, Control, LateTyped
<1>6. P
  BY <1>1, <1>2, <1>3, <1>4, <1>5 DEF World
<1> QED BY <1>6 DEF Control, Fenced, Tokened, Placed, Ended, Holds

\* A request goes on within its stage, or gives up.
LEMMA WalkControl ==
  ASSUME TypeOK, Control, NEW r \in Resumers, call[r].pc \in Working,
         NEW pc \in Working \cup {"finally"}, pc \in Working => StageOf(pc) = StageOf(call[r].pc),
         NEW work, NEW found, NEW a, Goto(r, pc, work, found, a),
         UNCHANGED <<job, lease, late>>, lifecycle' = lifecycle \/ (lifecycle # "active" /\ lifecycle' # "active")
  PROVE  Control'
<1>1. \A s \in Resumers : call'[s].token = call[s].token /\ (s # r => call'[s] = call[s]) /\ call'[r].pc = pc
  BY DEF Goto, TypeOK, Call
<1> HIDE DEF Working
<1>2. Fenced'
  BY <1>1 DEF Control, Fenced, Working
<1>3. Tokened'
  BY <1>1 DEF Control, Tokened, Working
<1>4. Placed'
  BY <1>1 DEF Control, Placed, Holds, Working
<1> QED BY <1>2, <1>3, <1>4 DEF Control, Ended, LateTyped

\* A request whose save is accepted takes the job along.
LEMMA SaveControl ==
  ASSUME TypeOK, Control, NEW r \in Resumers, call[r].pc \in Working, Saves(r),
         NEW pc \in Working, NEW work, NEW found, NEW a, Goto(r, pc, work, found, a),
         NEW paths, NEW assets, NEW kept, NEW removed, Save(StageOf(pc), paths, assets, kept, removed),
         removed => pc = "retention_review", UNCHANGED <<late, lifecycle>>
  PROVE  Control'
<1>1. \A s \in Resumers : call'[s].token = call[s].token /\ (s # r => call'[s] = call[s]) /\ call'[r].pc = pc
  BY DEF Goto, TypeOK, Call
<1>2. job'.stage = StageOf(pc) /\ job'.removed = removed /\ lease'.token = lease.token
  BY DEF Save
<1>3. call[r].token # None /\ call[r].token = lease.token
  BY DEF Control, Tokened, Saves, Holds
<1>4. StageOf(pc) \in Stages
  BY DEF StageOf
<1>5. Fenced'
  BY <1>1, <1>2, <1>4 DEF Control, Fenced
<1>6. Tokened'
  BY <1>1 DEF Control, Tokened
<1>7. Placed'
  BY <1>1, <1>2, <1>3 DEF Control, Tokened, Placed, Holds
<1>8. Ended'
  BY <1>2 DEF Ended, StageOf
<1> QED BY <1>5, <1>6, <1>7, <1>8 DEF Control, LateTyped

LEMMA RequestControl ==
  ASSUME TypeOK, Control, NEW r \in Resumers, Begin(r) \/ Again(r) \/ Step(r) \/ Fail(r) \/ Die(r)
  PROVE  Control'
<1> USE DEF world
<1>0. call[r] \in Call /\ job \in Job /\ lease \in Lease
  BY DEF TypeOK
<1>1. CASE Begin(r)
  BY <1>1 DEF Begin, Begun, TypeOK, Call, Control, Fenced, Tokened, Placed, Holds, Ended, LateTyped
<1>2. CASE Again(r)
  BY <1>2 DEF Again, Begun, TypeOK, Call, Control, Fenced, Tokened, Placed, Holds, Ended, LateTyped
<1>3. CASE Claim(r)
  <2> DEFINE t == CHOOSE t \in Fresh : TRUE
  <2>1. /\ t \in Tokens
        /\ \A s \in Resumers : t # call[s].token
    BY <1>3, FreshToken DEF Claim, Fresh
  <2>2. /\ \A s \in Resumers : s # r => call'[s] = call[s]
        /\ call'[r].pc = job.stage /\ call'[r].token = t
        /\ lease'.token = t /\ job.stage \in Stages /\ UNCHANGED <<lifecycle, job, late>>
    BY <1>0, <1>3 DEF Claim, TypeOK, Job
  <2> HIDE DEF t
  <2>3. Fenced'
    BY <1>3, <2>2 DEF Claim, Control, Fenced
  <2>4. Tokened'
    BY <2>1, <2>2, NoneAssumption DEF Control, Tokened
  <2>5. Placed'
    BY <2>1, <2>2 DEF Placed, Holds, StageOf
  <2> QED BY <2>2, <2>3, <2>4, <2>5 DEF Control, Ended, LateTyped
<1>4. CASE Turned(r)
  BY <1>4 DEF Turned, Idle, TypeOK, Call, Control, Fenced, Tokened, Placed, Holds, Ended, LateTyped
<1>5. CASE Die(r)
  BY <1>5 DEF Die, Idle, TypeOK, Call, Control, Fenced, Tokened, Placed, Holds, Ended, LateTyped
<1>6. CASE Finally(r)
  <2>1. /\ \A s \in Resumers : s # r => call'[s] = call[s]
        /\ call'[r].pc = "idle" /\ call'[r].token = None /\ UNCHANGED <<lifecycle, job, late>>
        /\ lease'.token \in {None, lease.token}
    BY <1>6 DEF Finally, Idle, Unleased, TypeOK
  <2>2. Fenced'
    BY <2>1 DEF Control, Fenced
  <2>3. Tokened'
    BY <2>1 DEF Control, Tokened
  <2>4. Placed'
    BY <2>1 DEF Control, Tokened, Placed, Holds
  <2> QED BY <2>1, <2>2, <2>3, <2>4 DEF Control, Ended, LateTyped
<1>7. CASE Inventory(r)
  BY <1>7, WalkControl DEF Inventory, StageOf
<1>8. CASE Abandon(r)
  BY <1>8, WalkControl DEF Abandon, StageOf
<1>9. CASE Delete(r)
  BY <1>9, WalkControl DEF Delete, StageOf, Move
<1>10. CASE RemoveAsset(r)
  BY <1>10, WalkControl DEF RemoveAsset, StageOf, Move
<1>11. CASE Verify(r)
  BY <1>11, WalkControl DEF Verify, StageOf, Move
<1>12. CASE Close(r)
  <2>1. lifecycle # "active"
    BY <1>12 DEF Close, Control, Fenced
  <2> QED BY <1>12, <2>1, WalkControl DEF Close, Move
<1>13. CASE Fail(r)
  BY <1>13, WalkControl DEF Fail, StageOf, Move
<1>14. CASE Checkout(r)
  <2>1. CASE ~busy /\ Saves(r)
    <3>1. ~job.removed \/ job.stage = "retention_review"
      BY DEF Control, Ended
    <3>2. job.stage = StageOf(call[r].pc) /\ call[r].pc \in Working
      BY <1>14, <2>1 DEF Checkout, Control, Placed, Saves
    <3> QED BY <1>14, <2>1, <3>1, <3>2, SaveControl DEF Checkout, StageOf, Move
  <2>2. CASE ~(~busy /\ Saves(r))
    BY <1>14, <2>2, WalkControl DEF Checkout, Move
  <2> QED BY <2>1, <2>2
<1>15. CASE Inventoried(r)
  <2>1. CASE Saves(r)
    <3>1. ~job.removed \/ job.stage = "retention_review"
      BY DEF Control, Ended
    <3>2. job.stage = StageOf(call[r].pc) /\ call[r].pc \in Working
      BY <1>15, <2>1 DEF Inventoried, Control, Placed, Saves
    <3> QED BY <1>15, <2>1, <3>1, <3>2, SaveControl DEF Inventoried, StageOf, Move
  <2>2. CASE ~(Saves(r))
    BY <1>15, <2>2, WalkControl DEF Inventoried, Move
  <2> QED BY <2>1, <2>2
<1>16. CASE Billing(r)
  <2>1. CASE Saves(r)
    <3>1. ~job.removed \/ job.stage = "retention_review"
      BY DEF Control, Ended
    <3>2. job.stage = StageOf(call[r].pc) /\ call[r].pc \in Working
      BY <1>16, <2>1 DEF Billing, Control, Placed, Saves
    <3> QED BY <1>16, <2>1, <3>1, <3>2, SaveControl DEF Billing, StageOf, Move
  <2>2. CASE ~(Saves(r))
    BY <1>16, <2>2, WalkControl DEF Billing, Move
  <2> QED BY <2>1, <2>2
<1>17. CASE Deleted(r)
  <2>1. CASE Saves(r)
    <3>1. ~job.removed \/ job.stage = "retention_review"
      BY DEF Control, Ended
    <3>2. job.stage = StageOf(call[r].pc) /\ call[r].pc \in Working
      BY <1>17, <2>1 DEF Deleted, Control, Placed, Saves
    <3> QED BY <1>17, <2>1, <3>1, <3>2, SaveControl DEF Deleted, StageOf, Move
  <2>2. CASE ~(Saves(r))
    BY <1>17, <2>2, WalkControl DEF Deleted, Move
  <2> QED BY <2>1, <2>2
<1>18. CASE ListAsset(r)
  <2>1. CASE Saves(r)
    <3>1. ~job.removed \/ job.stage = "retention_review"
      BY DEF Control, Ended
    <3>2. job.stage = StageOf(call[r].pc) /\ call[r].pc \in Working
      BY <1>18, <2>1 DEF ListAsset, Control, Placed, Saves
    <3> QED BY <1>18, <2>1, <3>1, <3>2, SaveControl DEF ListAsset, StageOf, Move
  <2>2. CASE ~(Saves(r))
    BY <1>18, <2>2, WalkControl DEF ListAsset, Move
  <2> QED BY <2>1, <2>2
<1>19. CASE AssetsDone(r)
  <2>1. CASE Saves(r)
    <3>1. ~job.removed \/ job.stage = "retention_review"
      BY DEF Control, Ended
    <3>2. job.stage = StageOf(call[r].pc) /\ call[r].pc \in Working
      BY <1>19, <2>1 DEF AssetsDone, Control, Placed, Saves
    <3> QED BY <1>19, <2>1, <3>1, <3>2, SaveControl DEF AssetsDone, StageOf, Move
  <2>2. CASE ~(Saves(r))
    BY <1>19, <2>2, WalkControl DEF AssetsDone, Move
  <2> QED BY <2>1, <2>2
<1>20. CASE Scanned(r)
  <2>1. CASE Saves(r)
    <3>1. ~job.removed \/ job.stage = "retention_review"
      BY DEF Control, Ended
    <3>2. job.stage = StageOf(call[r].pc) /\ call[r].pc \in Working
      BY <1>20, <2>1 DEF Scanned, Control, Placed, Saves
    <3> QED BY <1>20, <2>1, <3>1, <3>2, SaveControl DEF Scanned, StageOf, Move
  <2>2. CASE ~(Saves(r))
    BY <1>20, <2>2, WalkControl DEF Scanned, Move
  <2> QED BY <2>1, <2>2
<1>21. ASSUME NEW a \in Assets, AssetGone(r, a) PROVE Control'
  BY <1>21, WalkControl DEF AssetGone, NextAsset, StageOf
<1>22. ASSUME NEW a \in Assets, AssetUploading(r, a) PROVE Control'
  BY <1>22, WalkControl DEF AssetUploading, NextAsset, StageOf, Move
<1>23. ASSUME NEW a \in Assets, RemoveObject(r, a) PROVE Control'
  BY <1>23, WalkControl DEF RemoveObject, NextAsset, StageOf
<1>24. ASSUME NEW a \in Assets, AssetKept(r, a) PROVE Control'
  <2>1. CASE Saves(r)
    <3>1. ~job.removed
      BY <1>24, <2>1 DEF AssetKept, NextAsset, Control, Placed, Saves, Ended, StageOf
    <3> QED BY <1>24, <2>1, <3>1, SaveControl DEF AssetKept, NextAsset, StageOf
  <2>2. CASE ~Saves(r)
    BY <1>24, <2>2, WalkControl DEF AssetKept, NextAsset, Move
  <2> QED BY <2>1, <2>2
<1> QED BY <1>1, <1>2, <1>3, <1>4, <1>5, <1>6, <1>7, <1>8, <1>9, <1>10, <1>11, <1>12, <1>13, <1>14, <1>15, <1>16, <1>17, <1>18, <1>19, <1>20, <1>21, <1>22, <1>23, <1>24 DEF Step

LEMMA NextControl == TypeOK /\ Control /\ [Next]_vars => Control'
<1>1. TypeOK /\ Control /\ Next => Control'
  BY WorldControl, RequestControl DEF Next
<1>2. Control /\ UNCHANGED vars => Control'
  BY DEF vars, Control, Fenced, Tokened, Placed, Ended, LateTyped, Holds
<1> QED BY <1>1, <1>2

LEMMA Controlled == Spec => []Control
BY InitControl, NextControl, TypeCorrect, PTL DEF Spec

-----------------------------------------------------------------------------
(* The job's stages *)

LEMMA SaveForward ==
  ASSUME TypeOK, Control, NEW r \in Resumers, call[r].pc \in Working, Saves(r),
         NEW stage, NEW paths, NEW assets, NEW kept, NEW removed, Save(stage, paths, assets, kept, removed),
         Rank[stage] >= Rank[StageOf(call[r].pc)]
  PROVE  Rank[job'.stage] >= Rank[job.stage]
BY DEF Control, Placed, Saves, Save

LEMMA Forward == TypeOK /\ Control /\ [Next]_vars => Rank[job.stage'] >= Rank[job.stage]
<1> SUFFICES ASSUME TypeOK, Control, [Next]_vars PROVE Rank[job'.stage] >= Rank[job.stage]
  OBVIOUS
<1> USE DEF world
<1>0. Rank[job.stage] \in Nat
  BY DEF TypeOK, Job, Rank
<1>1. CASE UNCHANGED job
  BY <1>0, <1>1
<1>2. ASSUME NEW r \in Resumers, Begin(r) PROVE Rank[job'.stage] >= Rank[job.stage]
  BY <1>2 DEF Begin, Control, Fenced, Rank
<1>3. ASSUME NEW r \in Resumers, Checkout(r) PROVE Rank[job'.stage] >= Rank[job.stage]
  BY <1>1, <1>3, SaveForward DEF Checkout, StageOf, Rank
<1>4. ASSUME NEW r \in Resumers, Inventoried(r) PROVE Rank[job'.stage] >= Rank[job.stage]
  BY <1>1, <1>4, SaveForward DEF Inventoried, StageOf, Rank
<1>5. ASSUME NEW r \in Resumers, Billing(r) PROVE Rank[job'.stage] >= Rank[job.stage]
  BY <1>1, <1>5, SaveForward DEF Billing, StageOf, Rank
<1>6. ASSUME NEW r \in Resumers, Deleted(r) PROVE Rank[job'.stage] >= Rank[job.stage]
  BY <1>1, <1>6, SaveForward DEF Deleted, StageOf, Rank
<1>7. ASSUME NEW r \in Resumers, ListAsset(r) PROVE Rank[job'.stage] >= Rank[job.stage]
  BY <1>1, <1>7, SaveForward DEF ListAsset, StageOf, Rank
<1>8. ASSUME NEW r \in Resumers, AssetsDone(r) PROVE Rank[job'.stage] >= Rank[job.stage]
  BY <1>1, <1>8, SaveForward DEF AssetsDone, StageOf, Rank
<1>9. ASSUME NEW r \in Resumers, Scanned(r) PROVE Rank[job'.stage] >= Rank[job.stage]
  <2>1. Rank["retention_review"] >= Rank[StageOf(call[r].pc)]
    BY <1>9 DEF Scanned, StageOf, Rank
  <2> QED BY <1>1, <1>9, <2>1, SaveForward DEF Scanned
<1>10. ASSUME NEW r \in Resumers, NEW a \in Assets, AssetKept(r, a) PROVE Rank[job'.stage] >= Rank[job.stage]
  BY <1>1, <1>10, SaveForward DEF AssetKept, NextAsset, StageOf, Rank
<1>11. ASSUME NEW r \in Resumers,
           Again(r) \/ Claim(r) \/ Turned(r) \/ Inventory(r) \/ Abandon(r) \/ Delete(r) \/ RemoveAsset(r)
             \/ Verify(r) \/ Close(r) \/ Finally(r) \/ Fail(r) \/ Die(r)
             \/ \E a \in Assets : AssetGone(r, a) \/ AssetUploading(r, a) \/ RemoveObject(r, a)
      PROVE  UNCHANGED job
  BY <1>11 DEF Again, Claim, Turned, Inventory, Abandon, Delete, RemoveAsset, Verify, Close, Finally, Fail, Die,
       AssetGone, AssetUploading, RemoveObject
<1>12. CASE World
  BY <1>1, <1>12 DEF World, Admit, AdmitOther, CommitLate, ProviderAnswers, CheckoutStarts, CheckoutEnds, ClaimUpload,
       StoreObject, Receipt, UploadDies, LeaseExpires
<1>13. CASE UNCHANGED vars
  BY <1>1, <1>13 DEF vars
<1> QED BY <1>1, <1>2, <1>3, <1>4, <1>5, <1>6, <1>7, <1>8, <1>9, <1>10, <1>11, <1>12, <1>13 DEF Next, Step

\* However slow the requests are, none sets the job back to an earlier stage.
THEOREM StagesGoForward == Spec => StageForward
<1>1. TypeOK /\ Control /\ [Next]_vars => [Rank[job.stage'] >= Rank[job.stage]]_vars
  BY Forward
<1> QED BY <1>1, TypeCorrect, Controlled, PTL DEF Spec, StageForward

-----------------------------------------------------------------------------
(* What a request that still holds the lease may rely on *)

\* A lesson has its course, or the job knows that it had; a request about to
\* save the inventory has seen the course.
Linked ==
  /\ store \cap Lessons # {} => Course \in store \cup job.paths
  /\ job.stage \in {"none", "checkout", "inventory"} => job.paths = {}
  /\ \A r \in Resumers : call[r].pc = "inventoried" /\ Holds(r) /\ Course \in store => Course \in call[r].work

\* A request about to remove the record of an AI request has settled it.
Paid ==
  /\ Usage \notin store => settled
  /\ \A r \in Resumers : call[r].pc = "deleting" /\ Holds(r) /\ Usage \in call[r].work \cap store => settled

\* Nothing is left that the job promises to remove.
Clean == store \cap (Owned \cup Lessons) = {} /\ FoundAssets \subseteq job.kept

\* What was verified stays so, for the request that saves it and afterwards.
Gone ==
  /\ job.removed => Clean
  /\ \A r \in Resumers : call[r].pc = "scanned" /\ Holds(r) => Clean

\* An object is stored for a record "uploading" only, and no request removes such a record.
Stored ==
  /\ objects \subseteq FoundAssets
  /\ \A a \in Assets : upload[a] # "none" => asset[a] = "uploading"
  /\ \A r \in Resumers : call[r].pc \in {"object", "listed"} =>
       asset[call[r].asset] # "uploading" /\ call[r].asset \notin objects
\* A step of request r is no step of another.
LEMMA OneMoves ==
  ASSUME TypeOK, NEW r \in Resumers, Begin(r) \/ Again(r) \/ Step(r) \/ Fail(r) \/ Die(r)
  PROVE  \A s \in Resumers : s # r => call'[s] = call[s]
<1> DEFINE P == \A s \in Resumers : s # r => call'[s] = call[s]
<1>1. ASSUME Begin(r) PROVE P
  BY <1>1 DEF Begin, Goto, Move, TypeOK
<1>2. ASSUME Again(r) PROVE P
  BY <1>2 DEF Again, Goto, Move, TypeOK
<1>3. ASSUME Claim(r) PROVE P
  BY <1>3 DEF Claim, Goto, Move, TypeOK
<1>4. ASSUME Turned(r) PROVE P
  BY <1>4 DEF Turned, Goto, Move, TypeOK
<1>5. ASSUME Checkout(r) PROVE P
  BY <1>5 DEF Checkout, Goto, Move, TypeOK
<1>6. ASSUME Inventory(r) PROVE P
  BY <1>6 DEF Inventory, Goto, Move, TypeOK
<1>7. ASSUME Inventoried(r) PROVE P
  BY <1>7 DEF Inventoried, Goto, Move, TypeOK
<1>8. ASSUME Billing(r) PROVE P
  BY <1>8 DEF Billing, Goto, Move, TypeOK
<1>9. ASSUME Abandon(r) PROVE P
  BY <1>9 DEF Abandon, Goto, Move, TypeOK
<1>10. ASSUME Delete(r) PROVE P
  BY <1>10 DEF Delete, Goto, Move, TypeOK
<1>11. ASSUME Deleted(r) PROVE P
  BY <1>11 DEF Deleted, Goto, Move, TypeOK
<1>12. ASSUME ListAsset(r) PROVE P
  BY <1>12 DEF ListAsset, Goto, Move, TypeOK
<1>13. ASSUME RemoveAsset(r) PROVE P
  BY <1>13 DEF RemoveAsset, Goto, Move, TypeOK
<1>14. ASSUME AssetsDone(r) PROVE P
  BY <1>14 DEF AssetsDone, Goto, Move, TypeOK
<1>15. ASSUME Verify(r) PROVE P
  BY <1>15 DEF Verify, Goto, Move, TypeOK
<1>16. ASSUME Scanned(r) PROVE P
  BY <1>16 DEF Scanned, Goto, Move, TypeOK
<1>17. ASSUME Close(r) PROVE P
  BY <1>17 DEF Close, Goto, Move, TypeOK
<1>18. ASSUME Finally(r) PROVE P
  BY <1>18 DEF Finally, Goto, Move, TypeOK
<1>19. ASSUME Fail(r) PROVE P
  BY <1>19 DEF Fail, Goto, Move, TypeOK
<1>20. ASSUME Die(r) PROVE P
  BY <1>20 DEF Die, Goto, Move, TypeOK
<1>21. ASSUME NEW a \in Assets, AssetGone(r, a) PROVE P
  BY <1>21 DEF AssetGone, NextAsset, Goto, Move, TypeOK
<1>22. ASSUME NEW a \in Assets, AssetUploading(r, a) PROVE P
  BY <1>22 DEF AssetUploading, NextAsset, Goto, Move, TypeOK
<1>23. ASSUME NEW a \in Assets, AssetKept(r, a) PROVE P
  BY <1>23 DEF AssetKept, NextAsset, Goto, Move, TypeOK
<1>24. ASSUME NEW a \in Assets, RemoveObject(r, a) PROVE P
  BY <1>24 DEF RemoveObject, NextAsset, Goto, Move, TypeOK
<1> QED BY <1>1, <1>2, <1>3, <1>4, <1>5, <1>6, <1>7, <1>8, <1>9, <1>10, <1>11, <1>12, <1>13, <1>14, <1>15, <1>16, <1>17, <1>18, <1>19, <1>20, <1>21, <1>22, <1>23, <1>24 DEF Step
\* What a request does leaves another one that holds the lease, then and
\* afterwards, with the job, the records and the assets it had.
LEMMA Undisturbed ==
  ASSUME TypeOK, Control, NEW r \in Resumers, Begin(r) \/ Again(r) \/ Step(r) \/ Fail(r) \/ Die(r),
         NEW s \in Resumers, s # r, call[s].pc \in Working, Holds(s)'
  PROVE  Holds(s) /\ UNCHANGED <<job, store, asset>>
<1> USE DEF world
<1> DEFINE P == Holds(s) /\ UNCHANGED <<job, store, asset>>
<1>a. call'[s] = call[s]
  BY OneMoves
<1>b. call[s].token # None /\ call[s].token # call[r].token /\ call[s].token = lease'.token
  BY <1>a DEF Control, Tokened, Holds
<1>c. lifecycle # "active"
  BY DEF Control, Fenced
<1>d. ASSUME Saves(r), lease'.token = lease.token PROVE FALSE
  BY <1>b, <1>d DEF Saves, Holds
<1>1. ASSUME Begin(r) PROVE P
  BY <1>1, <1>b, <1>c, <1>d DEF Begin, Holds, Save
<1>2. ASSUME Again(r) PROVE P
  BY <1>2, <1>b, <1>c, <1>d DEF Again, Holds, Save
<1>3. ASSUME Claim(r) PROVE P
  <2>1. lease'.token \in Fresh
    BY <1>3, FreshToken DEF Claim
  <2> QED BY <1>b, <2>1 DEF Fresh
<1>4. ASSUME Turned(r) PROVE P
  BY <1>4, <1>b, <1>c, <1>d DEF Turned, Holds, Save
<1>5. ASSUME Checkout(r) PROVE P
  BY <1>5, <1>b, <1>c, <1>d DEF Checkout, Holds, Save
<1>6. ASSUME Inventory(r) PROVE P
  BY <1>6, <1>b, <1>c, <1>d DEF Inventory, Holds, Save
<1>7. ASSUME Inventoried(r) PROVE P
  BY <1>7, <1>b, <1>c, <1>d DEF Inventoried, Holds, Save
<1>8. ASSUME Billing(r) PROVE P
  BY <1>8, <1>b, <1>c, <1>d DEF Billing, Holds, Save
<1>9. ASSUME Abandon(r) PROVE P
  BY <1>9, <1>b, <1>c, <1>d DEF Abandon, Holds, Save
<1>10. ASSUME Delete(r) PROVE P
  BY <1>10, <1>b, <1>c, <1>d DEF Delete, Holds, Save
<1>11. ASSUME Deleted(r) PROVE P
  BY <1>11, <1>b, <1>c, <1>d DEF Deleted, Holds, Save
<1>12. ASSUME ListAsset(r) PROVE P
  BY <1>12, <1>b, <1>c, <1>d DEF ListAsset, Holds, Save
<1>13. ASSUME RemoveAsset(r) PROVE P
  BY <1>13, <1>b, <1>c, <1>d DEF RemoveAsset, Holds, Save
<1>14. ASSUME AssetsDone(r) PROVE P
  BY <1>14, <1>b, <1>c, <1>d DEF AssetsDone, Holds, Save
<1>15. ASSUME Verify(r) PROVE P
  BY <1>15, <1>b, <1>c, <1>d DEF Verify, Holds, Save
<1>16. ASSUME Scanned(r) PROVE P
  BY <1>16, <1>b, <1>c, <1>d DEF Scanned, Holds, Save
<1>17. ASSUME Close(r) PROVE P
  BY <1>17, <1>b, <1>c, <1>d DEF Close, Holds, Save
<1>18. ASSUME Finally(r) PROVE P
  BY <1>18, <1>b, <1>d DEF Finally, Unleased, Holds
<1>19. ASSUME Fail(r) PROVE P
  BY <1>19, <1>b, <1>c, <1>d DEF Fail, Holds, Save
<1>20. ASSUME Die(r) PROVE P
  BY <1>20, <1>b, <1>c, <1>d DEF Die, Holds, Save
<1>21. ASSUME NEW a \in Assets, AssetGone(r, a) PROVE P
  BY <1>21, <1>b, <1>c, <1>d DEF AssetGone, NextAsset, Holds, Save
<1>22. ASSUME NEW a \in Assets, AssetUploading(r, a) PROVE P
  BY <1>22, <1>b, <1>c, <1>d DEF AssetUploading, NextAsset, Holds, Save
<1>23. ASSUME NEW a \in Assets, AssetKept(r, a) PROVE P
  BY <1>23, <1>b, <1>c, <1>d DEF AssetKept, NextAsset, Holds, Save
<1>24. ASSUME NEW a \in Assets, RemoveObject(r, a) PROVE P
  BY <1>24, <1>b, <1>c, <1>d DEF RemoveObject, NextAsset, Holds, Save
<1> QED BY <1>1, <1>2, <1>3, <1>4, <1>5, <1>6, <1>7, <1>8, <1>9, <1>10, <1>11, <1>12, <1>13, <1>14, <1>15, <1>16, <1>17, <1>18, <1>19, <1>20, <1>21, <1>22, <1>23, <1>24 DEF Step
-----------------------------------------------------------------------------
(* Stored *)

LEMMA InitStored == Init => Stored
BY DEF Init, Stored, FoundAssets, Idle

LEMMA WorldStored ==
  ASSUME TypeOK, Control, Stored, World
  PROVE  Stored'
<1> USE DEF Stored, FoundAssets, TypeOK
<1>1. ASSUME NEW a \in Assets, ClaimUpload(a) PROVE Stored'
  BY <1>1 DEF ClaimUpload, Control, Fenced
<1>2. ASSUME NEW a \in Assets, StoreObject(a) PROVE Stored'
  BY <1>2 DEF StoreObject
<1>3. ASSUME NEW a \in Assets, Receipt(a) PROVE Stored'
  BY <1>3 DEF Receipt
<1>4. ASSUME NEW a \in Assets, UploadDies(a) PROVE Stored'
  BY <1>4 DEF UploadDies
<1>5. CASE UNCHANGED <<asset, objects, upload, call>>
  BY <1>5
<1> QED BY <1>1, <1>2, <1>3, <1>4, <1>5
  DEF World, Admit, AdmitOther, CommitLate, ProviderAnswers, CheckoutStarts, CheckoutEnds, LeaseExpires, world

LEMMA RequestStored ==
  ASSUME TypeOK, Stored, NEW r \in Resumers, Begin(r) \/ Again(r) \/ Step(r) \/ Fail(r) \/ Die(r)
  PROVE  Stored'
<1> USE DEF world
<1>a. \A s \in Resumers : s # r => call'[s] = call[s]
  BY OneMoves
<1>b. ASSUME UNCHANGED <<asset, objects, upload>>, call'[r].pc \notin {"object", "listed"} PROVE Stored'
  BY <1>a, <1>b DEF Stored, FoundAssets
<1>c. call[r] \in Call /\ job \in Job
  BY DEF TypeOK
<1>1. ASSUME Begin(r) PROVE Stored'
  BY <1>1, <1>b, <1>c DEF Begin, Goto, Move, Begun, Idle, TypeOK, Job, Call
<1>2. ASSUME Again(r) PROVE Stored'
  BY <1>2, <1>b, <1>c DEF Again, Goto, Move, Begun, Idle, TypeOK, Job, Call
<1>3. ASSUME Claim(r) PROVE Stored'
  BY <1>3, <1>b, <1>c DEF Claim, Goto, Move, Begun, Idle, TypeOK, Job, Call
<1>4. ASSUME Turned(r) PROVE Stored'
  BY <1>4, <1>b, <1>c DEF Turned, Goto, Move, Begun, Idle, TypeOK, Job, Call
<1>5. ASSUME Checkout(r) PROVE Stored'
  BY <1>5, <1>b, <1>c DEF Checkout, Goto, Move, Begun, Idle, TypeOK, Job, Call
<1>6. ASSUME Inventory(r) PROVE Stored'
  BY <1>6, <1>b, <1>c DEF Inventory, Goto, Move, Begun, Idle, TypeOK, Job, Call
<1>7. ASSUME Inventoried(r) PROVE Stored'
  BY <1>7, <1>b, <1>c DEF Inventoried, Goto, Move, Begun, Idle, TypeOK, Job, Call
<1>8. ASSUME Billing(r) PROVE Stored'
  BY <1>8, <1>b, <1>c DEF Billing, Goto, Move, Begun, Idle, TypeOK, Job, Call
<1>9. ASSUME Abandon(r) PROVE Stored'
  BY <1>9, <1>b, <1>c DEF Abandon, Goto, Move, Begun, Idle, TypeOK, Job, Call
<1>10. ASSUME Delete(r) PROVE Stored'
  BY <1>10, <1>b, <1>c DEF Delete, Goto, Move, Begun, Idle, TypeOK, Job, Call
<1>11. ASSUME Deleted(r) PROVE Stored'
  BY <1>11, <1>b, <1>c DEF Deleted, Goto, Move, Begun, Idle, TypeOK, Job, Call
<1>12. ASSUME ListAsset(r) PROVE Stored'
  <2>1. CASE Saves(r)
    <3>1. call'[r].pc = "listed" /\ call'[r].asset = call[r].asset /\ call[r].pc = "object"
      BY <1>12, <2>1 DEF ListAsset, Goto, TypeOK
    <3> QED BY <1>12, <1>a, <3>1 DEF ListAsset, Stored, FoundAssets
  <2>2. CASE ~Saves(r)
    BY <1>12, <1>b, <2>2 DEF ListAsset, Goto, Move, TypeOK
  <2> QED BY <2>1, <2>2
<1>13. ASSUME RemoveAsset(r) PROVE Stored'
  <2>1. call'[r].pc \notin {"object", "listed"} /\ call[r].pc = "listed" /\ UNCHANGED <<objects, upload>>
    BY <1>13 DEF RemoveAsset, Goto, Move, TypeOK
  <2>2. asset' = asset \/ asset' = [asset EXCEPT ![call[r].asset] = "absent"]
    BY <1>13 DEF RemoveAsset
  <2> QED BY <1>a, <2>1, <2>2 DEF Stored, FoundAssets, TypeOK
<1>14. ASSUME AssetsDone(r) PROVE Stored'
  BY <1>14, <1>b, <1>c DEF AssetsDone, Goto, Move, Begun, Idle, TypeOK, Job, Call
<1>15. ASSUME Verify(r) PROVE Stored'
  BY <1>15, <1>b, <1>c DEF Verify, Goto, Move, Begun, Idle, TypeOK, Job, Call
<1>16. ASSUME Scanned(r) PROVE Stored'
  <2>1. Move(r, "retention_review") \/ Move(r, "finally")
    BY <1>16 DEF Scanned
  <2>2. call'[r].pc \notin {"object", "listed"}
    BY <2>1 DEF Goto, Move, TypeOK
  <2> QED BY <1>16, <1>b, <2>2 DEF Scanned
<1>17. ASSUME Close(r) PROVE Stored'
  BY <1>17, <1>b, <1>c DEF Close, Goto, Move, Begun, Idle, TypeOK, Job, Call
<1>18. ASSUME Finally(r) PROVE Stored'
  BY <1>18, <1>b, <1>c DEF Finally, Goto, Move, Begun, Idle, TypeOK, Job, Call
<1>19. ASSUME Fail(r) PROVE Stored'
  BY <1>19, <1>b, <1>c DEF Fail, Goto, Move, Begun, Idle, TypeOK, Job, Call
<1>20. ASSUME Die(r) PROVE Stored'
  BY <1>20, <1>b, <1>c DEF Die, Goto, Move, Begun, Idle, TypeOK, Job, Call
<1>21. ASSUME NEW a \in Assets, AssetGone(r, a) PROVE Stored'
  BY <1>21, <1>b, <1>c DEF AssetGone, NextAsset, Goto, Move, Begun, Idle, TypeOK, Job, Call
<1>22. ASSUME NEW a \in Assets, AssetUploading(r, a) PROVE Stored'
  BY <1>22, <1>b, <1>c DEF AssetUploading, NextAsset, Goto, Move, Begun, Idle, TypeOK, Job, Call
<1>23. ASSUME NEW a \in Assets, AssetKept(r, a) PROVE Stored'
  BY <1>23, <1>b, <1>c DEF AssetKept, NextAsset, Goto, Move, Begun, Idle, TypeOK, Job, Call
<1>24. ASSUME NEW a \in Assets, RemoveObject(r, a) PROVE Stored'
  <2>1. call'[r].pc = "object" /\ call'[r].asset = a
    BY <1>24 DEF RemoveObject, NextAsset, Goto, TypeOK
  <2> QED BY <1>24, <1>a, <2>1 DEF RemoveObject, NextAsset, Stored, FoundAssets
<1> QED BY <1>1, <1>2, <1>3, <1>4, <1>5, <1>6, <1>7, <1>8, <1>9, <1>10, <1>11, <1>12, <1>13, <1>14, <1>15, <1>16, <1>17, <1>18, <1>19, <1>20, <1>21, <1>22, <1>23, <1>24 DEF Step

LEMMA StoredAlways == Spec => []Stored
<1>1. TypeOK /\ Control /\ Stored /\ [Next]_vars => Stored'
  <2>1. Stored /\ UNCHANGED vars => Stored'
    BY DEF vars, Stored, FoundAssets
  <2> QED BY <2>1, WorldStored, RequestStored DEF Next
<1> QED BY InitStored, <1>1, TypeCorrect, Controlled, PTL DEF Spec

\* No banner is stored that no record leads to, whatever uploads and requests do, or die in.
THEOREM ObjectsHaveRecords == Spec => []NoOrphanObject
<1>1. Stored => NoOrphanObject
  BY DEF Stored, NoOrphanObject
<1> QED BY <1>1, StoredAlways, PTL
-----------------------------------------------------------------------------
(* Paid *)

LEMMA InitPaid == Init => Paid
BY DEF Init, Paid, Idle

LEMMA WorldPaid ==
  ASSUME TypeOK, Control, Paid, World
  PROVE  Paid'
<1> USE DEF world
<1>1. ASSUME NEW whose \in {"own", "other"}, NEW d \in Active, CommitLate(whose, d) PROVE Paid'
  <2>1. CASE Allows(whose, d)
    <3>1. d # Usage \/ lifecycle = "active"
      BY <1>1, <2>1, OwnedAssumption, DisjointAssumption DEF CommitLate, Allows, AllowsOwn, Control, LateTyped, Artifacts
    <3>2. CASE lifecycle = "active"
      BY <1>1, <2>1, <3>2 DEF CommitLate, Paid, Control, Fenced, Holds
    <3>3. CASE d # Usage
      BY <1>1, <2>1, <3>3 DEF CommitLate, Paid, Holds
    <3> QED BY <3>1, <3>2, <3>3
  <2>2. CASE ~Allows(whose, d)
    BY <1>1, <2>2 DEF CommitLate, Paid, Holds
  <2> QED BY <2>1, <2>2
<1>2. CASE UNCHANGED <<store, call>> /\ lease'.token = lease.token /\ (settled => settled')
  BY <1>2 DEF Paid, Holds
<1> QED BY <1>1, <1>2
  DEF World, Admit, AdmitOther, ClaimUpload, StoreObject, Receipt, UploadDies, ProviderAnswers, CheckoutStarts,
      CheckoutEnds, LeaseExpires

LEMMA RequestPaid ==
  ASSUME TypeOK, Control, Paid, NEW r \in Resumers, Begin(r) \/ Again(r) \/ Step(r) \/ Fail(r) \/ Die(r)
  PROVE  Paid'
<1> USE DEF world
<1>a. \A s \in Resumers : s # r => call'[s] = call[s]
  BY OneMoves
<1>b. \A s \in Resumers : s # r /\ call[s].pc \in Working /\ Holds(s)' => Holds(s) /\ UNCHANGED <<job, store, asset>>
  BY Undisturbed
<1>c. ASSUME UNCHANGED <<store, settled>>, call'[r].pc # "deleting" PROVE Paid'
  BY <1>a, <1>b, <1>c DEF Paid
<1>d. call[r] \in Call /\ job \in Job
  BY DEF TypeOK
<1>1. ASSUME Begin(r) PROVE Paid'
  BY <1>1, <1>c, <1>d DEF Begin, Goto, Move, Begun, Idle, TypeOK, Job, Call
<1>2. ASSUME Again(r) PROVE Paid'
  BY <1>2, <1>c, <1>d DEF Again, Goto, Move, Begun, Idle, TypeOK, Job, Call
<1>3. ASSUME Claim(r) PROVE Paid'
  BY <1>3, <1>c, <1>d DEF Claim, Goto, Move, Begun, Idle, TypeOK, Job, Call
<1>4. ASSUME Turned(r) PROVE Paid'
  BY <1>4, <1>c, <1>d DEF Turned, Goto, Move, Begun, Idle, TypeOK, Job, Call
<1>5. ASSUME Checkout(r) PROVE Paid'
  BY <1>5, <1>c, <1>d DEF Checkout, Goto, Move, Begun, Idle, TypeOK, Job, Call
<1>6. ASSUME Inventory(r) PROVE Paid'
  BY <1>6, <1>c, <1>d DEF Inventory, Goto, Move, Begun, Idle, TypeOK, Job, Call
<1>7. ASSUME Inventoried(r) PROVE Paid'
  BY <1>7, <1>c, <1>d DEF Inventoried, Goto, Move, Begun, Idle, TypeOK, Job, Call
<1>8. ASSUME Billing(r) PROVE Paid'
  BY <1>8, <1>c, <1>d DEF Billing, Goto, Move, Begun, Idle, TypeOK, Job, Call
<1>9. ASSUME Abandon(r) PROVE Paid'
  <2>1. call'[r].pc = "deleting" /\ call'[r].work = job.paths
    BY <1>9 DEF Abandon, Goto, TypeOK
  <2>2. UNCHANGED store /\ (settled' <=> settled \/ Usage \in job.paths \cap store)
    BY <1>9 DEF Abandon
  <2> QED BY <1>a, <1>b, <2>1, <2>2 DEF Paid
<1>10. ASSUME Delete(r) PROVE Paid'
  <2>1. CASE UNCHANGED store
    <3>1. call'[r].pc = "deleting" => call[r].pc = "deleting" /\ call'[r].work \subseteq call[r].work
      BY <1>10 DEF Delete, Goto, Move, TypeOK
    <3>2. call'[r].token = call[r].token /\ UNCHANGED <<lease, settled>>
      BY <1>10 DEF Delete, Goto, Move, TypeOK
    <3> QED BY <1>a, <1>b, <2>1, <3>1, <3>2 DEF Paid, Holds
  <2>2. CASE store' # store
    <3>1. PICK chunk \in SUBSET call[r].work :
            Holds(r) /\ store' = store \ chunk /\ Goto(r, "deleting", call[r].work \ chunk, {}, None)
      BY <1>10, <2>2 DEF Delete
    <3>2. call[r].pc = "deleting" /\ call'[r].work = call[r].work \ chunk /\ UNCHANGED settled
      BY <1>10, <3>1 DEF Delete, Goto, TypeOK
    <3> QED BY <1>a, <1>b, <2>2, <3>1, <3>2 DEF Paid
  <2> QED BY <2>1, <2>2
<1>11. ASSUME Deleted(r) PROVE Paid'
  BY <1>11, <1>c, <1>d DEF Deleted, Goto, Move, Begun, Idle, TypeOK, Job, Call
<1>12. ASSUME ListAsset(r) PROVE Paid'
  BY <1>12, <1>c, <1>d DEF ListAsset, Goto, Move, Begun, Idle, TypeOK, Job, Call
<1>13. ASSUME RemoveAsset(r) PROVE Paid'
  BY <1>13, <1>c, <1>d DEF RemoveAsset, Goto, Move, Begun, Idle, TypeOK, Job, Call
<1>14. ASSUME AssetsDone(r) PROVE Paid'
  BY <1>14, <1>c, <1>d DEF AssetsDone, Goto, Move, Begun, Idle, TypeOK, Job, Call
<1>15. ASSUME Verify(r) PROVE Paid'
  BY <1>15, <1>c, <1>d DEF Verify, Goto, Move, Begun, Idle, TypeOK, Job, Call
<1>16. ASSUME Scanned(r) PROVE Paid'
  <2>1. Move(r, "retention_review") \/ Move(r, "finally")
    BY <1>16 DEF Scanned
  <2>2. call'[r].pc # "deleting"
    BY <2>1 DEF Goto, Move, TypeOK
  <2> QED BY <1>16, <1>c, <2>2 DEF Scanned
<1>17. ASSUME Close(r) PROVE Paid'
  BY <1>17, <1>c, <1>d DEF Close, Goto, Move, Begun, Idle, TypeOK, Job, Call
<1>18. ASSUME Finally(r) PROVE Paid'
  BY <1>18, <1>c, <1>d DEF Finally, Goto, Move, Begun, Idle, TypeOK, Job, Call
<1>19. ASSUME Fail(r) PROVE Paid'
  BY <1>19, <1>c, <1>d DEF Fail, Goto, Move, Begun, Idle, TypeOK, Job, Call
<1>20. ASSUME Die(r) PROVE Paid'
  BY <1>20, <1>c, <1>d DEF Die, Goto, Move, Begun, Idle, TypeOK, Job, Call
<1>21. ASSUME NEW a \in Assets, AssetGone(r, a) PROVE Paid'
  BY <1>21, <1>c, <1>d DEF AssetGone, NextAsset, Goto, Move, Begun, Idle, TypeOK, Job, Call
<1>22. ASSUME NEW a \in Assets, AssetUploading(r, a) PROVE Paid'
  BY <1>22, <1>c, <1>d DEF AssetUploading, NextAsset, Goto, Move, Begun, Idle, TypeOK, Job, Call
<1>23. ASSUME NEW a \in Assets, AssetKept(r, a) PROVE Paid'
  BY <1>23, <1>c, <1>d DEF AssetKept, NextAsset, Goto, Move, Begun, Idle, TypeOK, Job, Call
<1>24. ASSUME NEW a \in Assets, RemoveObject(r, a) PROVE Paid'
  BY <1>24, <1>c, <1>d DEF RemoveObject, NextAsset, Goto, Move, Begun, Idle, TypeOK, Job, Call
<1> QED BY <1>1, <1>2, <1>3, <1>4, <1>5, <1>6, <1>7, <1>8, <1>9, <1>10, <1>11, <1>12, <1>13, <1>14, <1>15, <1>16, <1>17, <1>18, <1>19, <1>20, <1>21, <1>22, <1>23, <1>24 DEF Step

LEMMA PaidAlways == Spec => []Paid
<1>1. TypeOK /\ Control /\ Paid /\ [Next]_vars => Paid'
  <2>1. Paid /\ UNCHANGED vars => Paid'
    BY DEF vars, Paid, Holds
  <2> QED BY <2>1, WorldPaid, RequestPaid DEF Next
<1> QED BY InitPaid, <1>1, TypeCorrect, Controlled, PTL DEF Spec

\* However often the deletion is interrupted and resumed, the cost of an AI request
\* is on the global receipt before its own record is gone.
THEOREM CostsAreSettled == Spec => []SettledBeforeRemoval
<1>1. Paid => SettledBeforeRemoval
  BY DEF Paid, SettledBeforeRemoval
<1> QED BY <1>1, PaidAlways, PTL
-----------------------------------------------------------------------------
(* Linked *)

LEMMA InitLinked == Init => Linked
BY DEF Init, Linked, Idle, Artifacts

LEMMA WorldLinked ==
  ASSUME TypeOK, Control, Linked, World
  PROVE  Linked'
<1> USE DEF world
<1>1. ASSUME NEW whose \in {"own", "other"}, NEW d \in Active, CommitLate(whose, d) PROVE Linked'
  <2>1. CASE Allows(whose, d)
    <3>0. Course \notin Lessons
      BY OwnedAssumption, DisjointAssumption DEF Artifacts
    <3>1. d \in Lessons => Course \in store
      BY <2>1 DEF Allows, AllowsOwn, AllowsOther
    <3>2. d # Course \/ lifecycle = "active"
      BY <1>1, <2>1, OwnedAssumption, DisjointAssumption DEF CommitLate, Allows, AllowsOwn, Control, LateTyped, Artifacts
    <3>3. lifecycle = "active" => \A s \in Resumers : call[s].pc = "idle"
      BY DEF Control, Fenced
    <3>4. store' = store \cup {d} /\ UNCHANGED <<job, lease, call>>
      BY <1>1, <2>1 DEF CommitLate
    <3> QED BY <3>0, <3>1, <3>2, <3>3, <3>4 DEF Linked, Holds
  <2>2. CASE ~Allows(whose, d)
    BY <1>1, <2>2 DEF CommitLate, Linked, Holds
  <2> QED BY <2>1, <2>2
<1>2. CASE UNCHANGED <<store, job, call>> /\ lease'.token = lease.token
  BY <1>2 DEF Linked, Holds
<1> QED BY <1>1, <1>2
  DEF World, Admit, AdmitOther, ClaimUpload, StoreObject, Receipt, UploadDies, ProviderAnswers, CheckoutStarts,
      CheckoutEnds, LeaseExpires

LEMMA RequestLinked ==
  ASSUME TypeOK, Control, Linked, NEW r \in Resumers, Begin(r) \/ Again(r) \/ Step(r) \/ Fail(r) \/ Die(r)
  PROVE  Linked'
<1> USE DEF world
<1>a. \A s \in Resumers : s # r => call'[s] = call[s]
  BY OneMoves
<1>b. \A s \in Resumers : s # r /\ call[s].pc \in Working /\ Holds(s)' => Holds(s) /\ UNCHANGED <<job, store, asset>>
  BY Undisturbed
<1>c. ASSUME UNCHANGED store, job.paths \subseteq job'.paths, call'[r].pc # "inventoried",
             job'.stage \in {"none", "checkout", "inventory"} => job'.paths = {}
      PROVE  Linked'
  BY <1>a, <1>b, <1>c DEF Linked
<1>d. call[r] \in Call /\ job \in Job
  BY DEF TypeOK
<1>e. job.stage \in {"none", "checkout", "inventory"} => job.paths = {}
  BY DEF Linked
<1>f. call[r].pc \in Working /\ Saves(r) => job.stage = StageOf(call[r].pc)
  BY DEF Control, Placed, Saves
<1>1. ASSUME Begin(r) PROVE Linked'
  <2>1. job.stage = "none"
    BY <1>1 DEF Begin, Control, Fenced
  <2> QED BY <1>1, <1>c, <1>d, <1>e, <2>1 DEF Begin, Begun, TypeOK
<1>2. ASSUME Again(r) PROVE Linked'
  BY <1>2, <1>c, <1>d, <1>e, <1>f DEF Again, Goto, Move, Begun, Idle, Save, StageOf, TypeOK, Job, Call
<1>3. ASSUME Claim(r) PROVE Linked'
  BY <1>3, <1>c, <1>d, <1>e, <1>f DEF Claim, Goto, Move, Begun, Idle, Save, StageOf, TypeOK, Job, Call
<1>4. ASSUME Turned(r) PROVE Linked'
  BY <1>4, <1>c, <1>d, <1>e, <1>f DEF Turned, Goto, Move, Begun, Idle, Save, StageOf, TypeOK, Job, Call
<1>5. ASSUME Checkout(r) PROVE Linked'
  BY <1>5, <1>c, <1>d, <1>e, <1>f DEF Checkout, Goto, Move, Begun, Idle, Save, StageOf, TypeOK, Job, Call
<1>6. ASSUME Inventory(r) PROVE Linked'
  <2>1. call'[r].pc = "inventoried" /\ call'[r].work = Found /\ UNCHANGED <<store, job>>
    BY <1>6 DEF Inventory, Goto, TypeOK
  <2>2. Course \in store => Course \in Found
    BY OwnedAssumption DEF Found
  <2> QED BY <1>a, <1>b, <2>1, <2>2 DEF Linked
<1>7. ASSUME Inventoried(r) PROVE Linked'
  <2>1. CASE Saves(r)
    <3>1. job.paths = {} /\ job'.paths = call[r].work /\ job'.stage = "billing" /\ UNCHANGED store
      BY <1>7, <1>e, <1>f, <2>1 DEF Inventoried, Save, StageOf
    <3>2. Course \in store => Course \in call[r].work
      BY <1>7, <2>1 DEF Inventoried, Linked, Saves
    <3>3. call'[r].pc = "billing"
      BY <1>7, <2>1 DEF Inventoried, Goto, Move, TypeOK
    <3> QED BY <1>a, <1>b, <3>1, <3>2, <3>3 DEF Linked
  <2>2. CASE ~Saves(r)
    BY <1>7, <1>c, <1>e, <2>2 DEF Inventoried, Goto, Move, TypeOK
  <2> QED BY <2>1, <2>2
<1>8. ASSUME Billing(r) PROVE Linked'
  BY <1>8, <1>c, <1>d, <1>e, <1>f DEF Billing, Goto, Move, Begun, Idle, Save, StageOf, TypeOK, Job, Call
<1>9. ASSUME Abandon(r) PROVE Linked'
  BY <1>9, <1>c, <1>d, <1>e, <1>f DEF Abandon, Goto, Move, Begun, Idle, Save, StageOf, TypeOK, Job, Call
<1>10. ASSUME Delete(r) PROVE Linked'
  <2>1. PICK chunk \in SUBSET call[r].work :
          store' = store \/ (store' = store \ chunk /\ \A d \in chunk : Removable(d))
    BY <1>10 DEF Delete
  <2>2. call'[r].pc # "inventoried" /\ UNCHANGED job
    BY <1>10 DEF Delete, Goto, Move, TypeOK
  <2>3. Course \in store => Course \in store' \cup job.paths
    BY <2>1 DEF Removable
  <2> QED BY <1>a, <1>b, <2>1, <2>2, <2>3 DEF Linked
<1>11. ASSUME Deleted(r) PROVE Linked'
  BY <1>11, <1>c, <1>d, <1>e, <1>f DEF Deleted, Goto, Move, Begun, Idle, Save, StageOf, TypeOK, Job, Call
<1>12. ASSUME ListAsset(r) PROVE Linked'
  BY <1>12, <1>c, <1>d, <1>e, <1>f DEF ListAsset, Goto, Move, Begun, Idle, Save, StageOf, TypeOK, Job, Call
<1>13. ASSUME RemoveAsset(r) PROVE Linked'
  BY <1>13, <1>c, <1>d, <1>e, <1>f DEF RemoveAsset, Goto, Move, Begun, Idle, Save, StageOf, TypeOK, Job, Call
<1>14. ASSUME AssetsDone(r) PROVE Linked'
  BY <1>14, <1>c, <1>d, <1>e, <1>f DEF AssetsDone, Goto, Move, Begun, Idle, Save, StageOf, TypeOK, Job, Call
<1>15. ASSUME Verify(r) PROVE Linked'
  BY <1>15, <1>c, <1>d, <1>e, <1>f DEF Verify, Goto, Move, Begun, Idle, Save, StageOf, TypeOK, Job, Call
<1>16. ASSUME Scanned(r) PROVE Linked'
  <2>1. Move(r, "retention_review") \/ Move(r, "finally")
    BY <1>16 DEF Scanned
  <2>2. call'[r].pc # "inventoried"
    BY <2>1 DEF Goto, Move, TypeOK
  <2> QED BY <1>16, <1>c, <1>e, <2>2 DEF Scanned, Save
<1>17. ASSUME Close(r) PROVE Linked'
  BY <1>17, <1>c, <1>d, <1>e, <1>f DEF Close, Goto, Move, Begun, Idle, Save, StageOf, TypeOK, Job, Call
<1>18. ASSUME Finally(r) PROVE Linked'
  BY <1>18, <1>c, <1>d, <1>e, <1>f DEF Finally, Goto, Move, Begun, Idle, Save, StageOf, TypeOK, Job, Call
<1>19. ASSUME Fail(r) PROVE Linked'
  BY <1>19, <1>c, <1>d, <1>e, <1>f DEF Fail, Goto, Move, Begun, Idle, Save, StageOf, TypeOK, Job, Call
<1>20. ASSUME Die(r) PROVE Linked'
  BY <1>20, <1>c, <1>d, <1>e, <1>f DEF Die, Goto, Move, Begun, Idle, Save, StageOf, TypeOK, Job, Call
<1>21. ASSUME NEW a \in Assets, AssetGone(r, a) PROVE Linked'
  BY <1>21, <1>c, <1>d, <1>e, <1>f DEF AssetGone, NextAsset, Goto, Move, Begun, Idle, Save, StageOf, TypeOK, Job, Call
<1>22. ASSUME NEW a \in Assets, AssetUploading(r, a) PROVE Linked'
  BY <1>22, <1>c, <1>d, <1>e, <1>f DEF AssetUploading, NextAsset, Goto, Move, Begun, Idle, Save, StageOf, TypeOK, Job, Call
<1>23. ASSUME NEW a \in Assets, AssetKept(r, a) PROVE Linked'
  BY <1>23, <1>c, <1>d, <1>e, <1>f DEF AssetKept, NextAsset, Goto, Move, Begun, Idle, Save, StageOf, TypeOK, Job, Call
<1>24. ASSUME NEW a \in Assets, RemoveObject(r, a) PROVE Linked'
  BY <1>24, <1>c, <1>d, <1>e, <1>f DEF RemoveObject, NextAsset, Goto, Move, Begun, Idle, Save, StageOf, TypeOK, Job, Call
<1> QED BY <1>1, <1>2, <1>3, <1>4, <1>5, <1>6, <1>7, <1>8, <1>9, <1>10, <1>11, <1>12, <1>13, <1>14, <1>15, <1>16, <1>17, <1>18, <1>19, <1>20, <1>21, <1>22, <1>23, <1>24 DEF Step

LEMMA LinkedAlways == Spec => []Linked
<1>1. TypeOK /\ Control /\ Linked /\ [Next]_vars => Linked'
  <2>1. Linked /\ UNCHANGED vars => Linked'
    BY DEF vars, Linked, Holds
  <2> QED BY <2>1, WorldLinked, RequestLinked DEF Next
<1> QED BY InitLinked, <1>1, TypeCorrect, Controlled, PTL DEF Spec
-----------------------------------------------------------------------------
(* Gone *)

LEMMA InitGone == Init => Gone
BY DEF Init, Gone, Idle

LEMMA WorldGone ==
  ASSUME TypeOK, Control, Gone, World
  PROVE  Gone'
<1> USE DEF world
<1>1. UNCHANGED <<job, call>> /\ lease'.token = lease.token
  <2>1. UNCHANGED <<job, call, lease>> \/ LeaseExpires
    BY DEF World, Admit, AdmitOther, CommitLate, ClaimUpload, StoreObject, Receipt, UploadDies, ProviderAnswers,
           CheckoutStarts, CheckoutEnds
  <2> QED BY <2>1 DEF LeaseExpires
<1>2. CASE lifecycle = "active"
  <2>1. ~job.removed /\ \A s \in Resumers : call[s].pc = "idle"
    BY <1>2 DEF Control, Fenced, Ended
  <2> QED BY <1>1, <2>1 DEF Gone
<1>3. CASE lifecycle # "active"
  <2>1. store' \cap (Owned \cup Lessons) \subseteq store
    <3>1. ASSUME NEW whose \in {"own", "other"}, NEW d \in Active, CommitLate(whose, d)
          PROVE  store' \cap (Owned \cup Lessons) \subseteq store
      BY <1>3, <3>1, DisjointAssumption
         DEF CommitLate, Allows, AllowsOwn, AllowsOther, Control, LateTyped, Artifacts
    <3>2. CASE UNCHANGED store
      BY <3>2
    <3> QED BY <3>1, <3>2
      DEF World, Admit, AdmitOther, ClaimUpload, StoreObject, Receipt, UploadDies, ProviderAnswers,
          CheckoutStarts, CheckoutEnds, LeaseExpires
  <2>2. FoundAssets' \subseteq FoundAssets
    <3>1. ASSUME NEW a \in Assets, Receipt(a) PROVE FoundAssets' \subseteq FoundAssets
      BY <3>1 DEF Receipt, FoundAssets, TypeOK
    <3>2. CASE UNCHANGED asset
      BY <3>2 DEF FoundAssets
    <3> QED BY <1>3, <3>1, <3>2
      DEF World, Admit, AdmitOther, CommitLate, ClaimUpload, StoreObject, UploadDies, ProviderAnswers,
          CheckoutStarts, CheckoutEnds, LeaseExpires
  <2>3. Clean => Clean'
    BY <1>1, <2>1, <2>2 DEF Clean
  <2> QED BY <1>1, <2>3 DEF Gone, Holds
<1> QED BY <1>2, <1>3

LEMMA RequestGone ==
  ASSUME TypeOK, Control, Linked, Gone, NEW r \in Resumers, Begin(r) \/ Again(r) \/ Step(r) \/ Fail(r) \/ Die(r)
  PROVE  Gone'
<1> USE DEF world
<1>a. \A s \in Resumers : s # r => call'[s] = call[s]
  BY OneMoves
<1>b. \A s \in Resumers : s # r /\ call[s].pc \in Working /\ Holds(s)' => Holds(s) /\ UNCHANGED <<job, store, asset>>
  BY Undisturbed
<1>c. ASSUME store' \subseteq store, FoundAssets' \subseteq FoundAssets, job.kept \subseteq job'.kept,
             job'.removed => job.removed, call'[r].pc # "scanned"
      PROVE  Gone'
  BY <1>a, <1>b, <1>c DEF Gone, Clean
<1>d. call[r] \in Call /\ job \in Job
  BY DEF TypeOK
<1>e. UNCHANGED asset => FoundAssets' \subseteq FoundAssets
  BY DEF FoundAssets
<1>f. call[r].pc \in Working /\ Saves(r) => job.stage = StageOf(call[r].pc)
  BY DEF Control, Placed, Saves
<1>1. ASSUME Begin(r) PROVE Gone'
  <2>1. ~job'.removed /\ lifecycle = "active"
    BY <1>1 DEF Begin
  <2>2. \A s \in Resumers : call'[s].pc # "scanned"
    BY <1>1, <1>a, <2>1 DEF Begin, Begun, TypeOK, Control, Fenced
  <2> QED BY <2>1, <2>2 DEF Gone
<1>2. ASSUME Again(r) PROVE Gone'
  BY <1>2, <1>c, <1>d, <1>e DEF Again, Goto, Move, Begun, Idle, Save, TypeOK, Job, Call
<1>3. ASSUME Claim(r) PROVE Gone'
  BY <1>3, <1>c, <1>d, <1>e DEF Claim, Goto, Move, Begun, Idle, Save, TypeOK, Job, Call
<1>4. ASSUME Turned(r) PROVE Gone'
  BY <1>4, <1>c, <1>d, <1>e DEF Turned, Goto, Move, Begun, Idle, Save, TypeOK, Job, Call
<1>5. ASSUME Checkout(r) PROVE Gone'
  BY <1>5, <1>c, <1>d, <1>e DEF Checkout, Goto, Move, Begun, Idle, Save, TypeOK, Job, Call
<1>6. ASSUME Inventory(r) PROVE Gone'
  BY <1>6, <1>c, <1>d, <1>e DEF Inventory, Goto, Move, Begun, Idle, Save, TypeOK, Job, Call
<1>7. ASSUME Inventoried(r) PROVE Gone'
  <2>1. CASE Saves(r)
    <3>1. job.stage = "inventory"
      BY <1>7, <1>f, <2>1 DEF Inventoried, StageOf
    <3>2. ~job'.removed
      BY <1>7, <2>1, <3>1 DEF Inventoried, Save, Control, Ended
    <3>3. call'[r].pc = "billing"
      BY <1>7, <2>1 DEF Inventoried, Goto, Move, TypeOK
    <3>4. \A s \in Resumers : s # r /\ call[s].pc = "scanned" => ~Holds(s)'
      BY <1>b, <3>1 DEF Control, Placed, StageOf
    <3> QED BY <1>a, <3>2, <3>3, <3>4 DEF Gone
  <2>2. CASE ~Saves(r)
    BY <1>7, <1>c, <1>e, <2>2 DEF Inventoried, Goto, Move, TypeOK
  <2> QED BY <2>1, <2>2
<1>8. ASSUME Billing(r) PROVE Gone'
  BY <1>8, <1>c, <1>d, <1>e DEF Billing, Goto, Move, Begun, Idle, Save, TypeOK, Job, Call
<1>9. ASSUME Abandon(r) PROVE Gone'
  BY <1>9, <1>c, <1>d, <1>e DEF Abandon, Goto, Move, Begun, Idle, Save, TypeOK, Job, Call
<1>10. ASSUME Delete(r) PROVE Gone'
  BY <1>10, <1>c, <1>d, <1>e DEF Delete, Goto, Move, Begun, Idle, Save, TypeOK, Job, Call
<1>11. ASSUME Deleted(r) PROVE Gone'
  BY <1>11, <1>c, <1>d, <1>e DEF Deleted, Goto, Move, Begun, Idle, Save, TypeOK, Job, Call
<1>12. ASSUME ListAsset(r) PROVE Gone'
  BY <1>12, <1>c, <1>d, <1>e DEF ListAsset, Goto, Move, Begun, Idle, Save, TypeOK, Job, Call
<1>13. ASSUME RemoveAsset(r) PROVE Gone'
  <2>1. FoundAssets' \subseteq FoundAssets
    BY <1>13 DEF RemoveAsset, FoundAssets, TypeOK
  <2> QED BY <1>13, <1>c, <2>1 DEF RemoveAsset, Goto, Move, TypeOK
<1>14. ASSUME AssetsDone(r) PROVE Gone'
  BY <1>14, <1>c, <1>d, <1>e DEF AssetsDone, Goto, Move, Begun, Idle, Save, TypeOK, Job, Call
<1>15. ASSUME Verify(r) PROVE Gone'
  <2>1. CASE Found = {} /\ FoundAssets \subseteq job.kept
    <3>1. Clean
      BY <2>1 DEF Clean, Found, Linked, Artifacts
    <3>2. Clean'
      BY <1>15, <3>1 DEF Verify, Clean, FoundAssets
    <3> QED BY <3>2 DEF Gone
  <2>2. CASE ~(Found = {} /\ FoundAssets \subseteq job.kept)
    BY <1>15, <1>c, <1>e, <2>2 DEF Verify, Goto, Move, TypeOK
  <2> QED BY <2>1, <2>2
<1>16. ASSUME Scanned(r) PROVE Gone'
  <2>1. CASE Saves(r)
    <3>1. Clean
      BY <1>16, <2>1 DEF Scanned, Saves, Gone
    <3>2. UNCHANGED <<store, asset>> /\ job'.kept = job.kept
      BY <1>16, <2>1 DEF Scanned, Save
    <3>3. Clean'
      BY <3>1, <3>2 DEF Clean, FoundAssets
    <3> QED BY <3>3 DEF Gone
  <2>2. CASE ~Saves(r)
    <3>1. Move(r, "finally") /\ UNCHANGED <<store, asset, job>>
      BY <1>16, <2>2 DEF Scanned
    <3>2. call'[r].pc # "scanned"
      BY <3>1 DEF Goto, Move, TypeOK
    <3> QED BY <1>c, <1>e, <3>1, <3>2
  <2> QED BY <2>1, <2>2
<1>17. ASSUME Close(r) PROVE Gone'
  BY <1>17, <1>c, <1>d, <1>e DEF Close, Goto, Move, Begun, Idle, Save, TypeOK, Job, Call
<1>18. ASSUME Finally(r) PROVE Gone'
  BY <1>18, <1>c, <1>d, <1>e DEF Finally, Goto, Move, Begun, Idle, Save, TypeOK, Job, Call
<1>19. ASSUME Fail(r) PROVE Gone'
  BY <1>19, <1>c, <1>d, <1>e DEF Fail, Goto, Move, Begun, Idle, Save, TypeOK, Job, Call
<1>20. ASSUME Die(r) PROVE Gone'
  BY <1>20, <1>c, <1>d, <1>e DEF Die, Goto, Move, Begun, Idle, Save, TypeOK, Job, Call
<1>21. ASSUME NEW a \in Assets, AssetGone(r, a) PROVE Gone'
  BY <1>21, <1>c, <1>d, <1>e DEF AssetGone, NextAsset, Goto, Move, Begun, Idle, Save, TypeOK, Job, Call
<1>22. ASSUME NEW a \in Assets, AssetUploading(r, a) PROVE Gone'
  BY <1>22, <1>c, <1>d, <1>e DEF AssetUploading, NextAsset, Goto, Move, Begun, Idle, Save, TypeOK, Job, Call
<1>23. ASSUME NEW a \in Assets, AssetKept(r, a) PROVE Gone'
  BY <1>23, <1>c, <1>d, <1>e DEF AssetKept, NextAsset, Goto, Move, Begun, Idle, Save, TypeOK, Job, Call
<1>24. ASSUME NEW a \in Assets, RemoveObject(r, a) PROVE Gone'
  BY <1>24, <1>c, <1>d, <1>e DEF RemoveObject, NextAsset, Goto, Move, Begun, Idle, Save, TypeOK, Job, Call
<1> QED BY <1>1, <1>2, <1>3, <1>4, <1>5, <1>6, <1>7, <1>8, <1>9, <1>10, <1>11, <1>12, <1>13, <1>14, <1>15, <1>16, <1>17, <1>18, <1>19, <1>20, <1>21, <1>22, <1>23, <1>24 DEF Step

LEMMA GoneAlways == Spec => []Gone
<1>1. TypeOK /\ Control /\ Linked /\ Gone /\ [Next]_vars => Gone'
  <2>1. Gone /\ UNCHANGED vars => Gone'
    BY DEF vars, Gone, Clean, FoundAssets, Holds
  <2> QED BY <2>1, WorldGone, RequestGone DEF Next
<1> QED BY InitGone, <1>1, TypeCorrect, Controlled, LinkedAlways, PTL DEF Spec

\* What the job says is removed stays removed: no late commit, of the account or
\* of another, and no slow request brings back a record of the account, a lesson
\* of its course or a banner.
THEOREM RemovedStaysRemoved == Spec => []NothingLeft
<1>1. Gone => NothingLeft
  BY DEF Gone, Clean, NothingLeft
<1> QED BY <1>1, GoneAlways, PTL
=============================================================================
