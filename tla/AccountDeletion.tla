--------------------------- MODULE AccountDeletion ---------------------------
(***************************************************************************)
(* The deletion of one account: the fence that every commit passes         *)
(* (src/lib/account-write-fence.ts), the deletion job with its stages and  *)
(* its lease (src/lib/account-deletion.ts), and those who write at the     *)
(* same time: late requests of the account, requests of other accounts,    *)
(* uploads of banners (src/lib/course-banners.ts), AI calls.               *)
(*                                                                         *)
(* A DELETE request begins or finds the job and resumes it.  Several may   *)
(* run at once, may be slow, fail or die.  Lease tokens are fresh UUIDs: a *)
(* token nobody refers to any more stands for a new one.  The account has  *)
(* one generation, since no deleted account is reopened, and at most one   *)
(* course.                                                                 *)
(***************************************************************************)
EXTENDS Naturals, FiniteSets

CONSTANTS Owned,       \* records that name the account as their owner
          Account,     \* one of them: users/uid
          Usage,       \* one of them: a request of aiRequests, with a global reservation
          Course,      \* one of them: the course
          Lessons,     \* records under courses/id, which name no owner
          Events,      \* records of the other author artifacts, which name no owner
          Retained,    \* audit records, and other learners' records about the course
          Assets,      \* ids of banners
          Shared,      \* those whose ownership is not "exclusive"
          Resumers,    \* DELETE requests that may be served at once
          Tokens,      \* lease tokens
          None,        \* not a token, not an asset
          SlowWorkers, \* may a request work longer than its lease?
          MaxDeaths,   \* bound: requests and uploads that die
          MaxFailures, \* bound: requests that fail
          MaxLate      \* bound: requests about to write a record

Artifacts == Lessons \cup Events
Active == Owned \cup Artifacts
Records == Active \cup Retained

ASSUME OwnedAssumption == {Account, Usage, Course} \subseteq Owned
ASSUME DisjointAssumption ==
  /\ Owned \cap Artifacts = {} /\ Owned \cap Retained = {} /\ Artifacts \cap Retained = {}
  /\ Lessons \cap Events = {} /\ Records \cap Assets = {}
ASSUME SharedAssumption == Shared \subseteq Assets
ASSUME NoneAssumption == None \notin Tokens \cup Assets
ASSUME BoundsAssumption == SlowWorkers \in BOOLEAN /\ {MaxDeaths, MaxFailures, MaxLate} \subseteq Nat

VARIABLES lifecycle, \* accountLifecycles/uid .state
          store,     \* the records that exist
          asset,     \* asset -> status of its courseBannerAssets record
          objects,   \* the banners in blob storage
          settled,   \* is the reservation of Usage on the global receipt?
          busy,      \* is a checkout claim or a reconciliation lease alive?
          job,       \* the job without its lease: [stage, paths, assets, kept, removed]
          lease,     \* [token, live]: leaseToken, and leaseUntil > now
          late,      \* <<whose, record>> of requests that are about to write a record
          upload,    \* asset -> where its upload is
          call,      \* DELETE request -> where it is and what it read
          deaths,    \* counters for the two bounds
          failures

vars == <<lifecycle, store, asset, objects, settled, busy, job, lease, late, upload, call, deaths, failures>>
world == <<late, upload, busy, deaths, failures>>

Stages == {"checkout", "inventory", "billing", "documents", "assets", "verify", "retention_review"}
Rank == [none |-> 0, checkout |-> 1, inventory |-> 2, billing |-> 3, documents |-> 4, assets |-> 5,
         verify |-> 6, retention_review |-> 7]
Working == Stages \cup {"inventoried", "deleting", "object", "listed", "scanned"}

Job == [stage : Stages \cup {"none"}, paths : SUBSET (Records \cup Assets), assets : SUBSET Assets,
        kept : SUBSET Assets, removed : BOOLEAN]
Lease == [token : Tokens \cup {None}, live : BOOLEAN]
Call == [pc : Working \cup {"idle", "begun", "finally"}, scope : Tokens \cup {None}, token : Tokens \cup {None},
         work : SUBSET (Records \cup Assets), found : SUBSET Assets, asset : Assets \cup {None}]
Idle == [pc |-> "idle", scope |-> None, token |-> None, work |-> {}, found |-> {}, asset |-> None]
Unleased == [token |-> None, live |-> FALSE]

TypeOK ==
  /\ lifecycle \in {"active", "deleting", "deleted"}
  /\ store \subseteq Records
  /\ asset \in [Assets -> {"absent", "uploading", "uploaded"}]
  /\ objects \subseteq Assets
  /\ settled \in BOOLEAN
  /\ busy \in BOOLEAN
  /\ job \in Job
  /\ lease \in Lease
  /\ late \subseteq {"own", "other"} \X Active
  /\ upload \in [Assets -> {"none", "claimed", "stored"}]
  /\ call \in [Resumers -> Call]
  /\ \A r \in Resumers : call[r].pc \in {"object", "listed"} => call[r].asset \in Assets
  /\ deaths \in 0 .. MaxDeaths
  /\ failures \in 0 .. MaxFailures

Init ==
  /\ lifecycle = "active"
  /\ store \in {s \in SUBSET Records : Account \in s /\ Retained \subseteq s /\ (s \cap Artifacts # {} => Course \in s)}
  /\ asset \in [Assets -> {"absent", "uploaded"}]
  /\ objects = {a \in Assets : asset[a] = "uploaded"}
  /\ settled \in BOOLEAN
  /\ Usage \notin store => settled
  /\ busy \in BOOLEAN
  /\ job = [stage |-> "none", paths |-> {}, assets |-> {}, kept |-> {}, removed |-> FALSE]
  /\ lease = Unleased
  /\ late = {}
  /\ upload = [a \in Assets |-> "none"]
  /\ call = [r \in Resumers |-> Idle]
  /\ deaths = 0
  /\ failures = 0

-----------------------------------------------------------------------------
(* The fence: assertAccountMutation, in the transaction of every commit *)

\* Mutant: a commit of the account is not checked, only the request was.
FenceOpen(d) == TRUE

\* May a request of the account, admitted while it was active, write record d?
AllowsOwn(d) ==
  /\ lifecycle = "active"
  /\ d \in Lessons => Course \in store

\* May a request of another account?  A course that exists has an owner whose
\* lifecycle counts; of one that was removed, only the paths under it are fenced.
AllowsOther(d) == IF Course \in store THEN lifecycle = "active" ELSE d \notin Lessons

Allows(whose, d) == IF whose = "own" THEN AllowsOwn(d) ELSE AllowsOther(d)

\* The scope of resumeAccountDeletion holds the lease token that the request
\* read with the job, and the job must still have it.
ScopeHolds(r) == call[r].scope = None \/ call[r].scope = lease.token

\* Records the job may remove, whoever wrote their paths into it.
Removable(d) ==
  /\ d \in job.paths
  /\ d \notin store \/ d \in Owned \/ (d \in Artifacts /\ Course \in job.paths)

-----------------------------------------------------------------------------
(* Those who write besides the deletion *)

\* withAccountRequest admits a request of the account, which will write record d.
Admit(d) ==
  /\ lifecycle = "active"
  /\ Cardinality(late) < MaxLate
  /\ late' = late \cup {<<"own", d>>}
  /\ UNCHANGED <<lifecycle, store, asset, objects, settled, busy, job, lease, upload, call, deaths, failures>>

\* The owner of the site validates or repairs the course, and will write one of its artifacts.
AdmitOther(d) ==
  /\ Course \in store
  /\ Cardinality(late) < MaxLate
  /\ late' = late \cup {<<"other", d>>}
  /\ UNCHANGED <<lifecycle, store, asset, objects, settled, busy, job, lease, upload, call, deaths, failures>>

\* The commit, much later perhaps.  A new AI request holds a new reservation.
CommitLate(whose, d) ==
  /\ <<whose, d>> \in late
  /\ late' = late \ {<<whose, d>>}
  /\ IF Allows(whose, d)
       THEN store' = store \cup {d} /\ settled' = (settled /\ (d # Usage \/ d \in store))
       ELSE UNCHANGED <<store, settled>>
  /\ UNCHANGED <<lifecycle, asset, objects, busy, job, lease, upload, call, deaths, failures>>

\* The AI call ends: its cost goes to the global receipt, whatever became of the account.
ProviderAnswers ==
  /\ settled' = TRUE
  /\ UNCHANGED <<lifecycle, store, asset, objects, busy, job, lease, late, upload, call, deaths, failures>>

CheckoutStarts ==
  /\ lifecycle = "active"
  /\ busy' = TRUE
  /\ UNCHANGED <<lifecycle, store, asset, objects, settled, job, lease, late, upload, call, deaths, failures>>

CheckoutEnds ==
  /\ busy' = FALSE
  /\ UNCHANGED <<lifecycle, store, asset, objects, settled, job, lease, late, upload, call, deaths, failures>>

\* A banner: the record, then the object, then the receipt, which has a scope of
\* its own and is accepted from a fenced account as well.
ClaimUpload(a) ==
  /\ asset[a] = "absent" /\ upload[a] = "none"
  /\ lifecycle = "active"
  /\ asset' = [asset EXCEPT ![a] = "uploading"]
  /\ upload' = [upload EXCEPT ![a] = "claimed"]
  /\ UNCHANGED <<lifecycle, store, objects, settled, busy, job, lease, late, call, deaths, failures>>

StoreObject(a) ==
  /\ upload[a] = "claimed"
  /\ objects' = objects \cup {a}
  /\ upload' = [upload EXCEPT ![a] = "stored"]
  /\ UNCHANGED <<lifecycle, store, asset, settled, busy, job, lease, late, call, deaths, failures>>

Receipt(a) ==
  /\ upload[a] = "stored"
  /\ asset' = IF asset[a] = "uploading" THEN [asset EXCEPT ![a] = "uploaded"] ELSE asset
  /\ upload' = [upload EXCEPT ![a] = "none"]
  /\ UNCHANGED <<lifecycle, store, objects, settled, busy, job, lease, late, call, deaths, failures>>

\* The upload's process dies, or storage does not answer: the record stays "uploading".
UploadDies(a) ==
  /\ upload[a] # "none"
  /\ deaths < MaxDeaths
  /\ deaths' = deaths + 1
  /\ upload' = [upload EXCEPT ![a] = "none"]
  /\ UNCHANGED <<lifecycle, store, asset, objects, settled, busy, job, lease, late, call, failures>>

-----------------------------------------------------------------------------
(* A DELETE request: beginAccountDeletion, resumeAccountDeletion *)

Goto(r, pc, work, found, a) ==
  call' = [call EXCEPT ![r] = [pc |-> pc, scope |-> call[r].scope, token |-> call[r].token,
                               work |-> work, found |-> found, asset |-> a]]
Move(r, pc) == Goto(r, pc, {}, {}, None)

\* The request's own token is the job's: the check of save, beside the fence's.
Holds(r) == call[r].token = lease.token

\* Mutant: a save that only the fence checks.
SavesUnowned(r) == ScopeHolds(r)

\* Is a save of this request accepted?
Saves(r) == Holds(r) /\ ScopeHolds(r)

\* save(): the job's next state, with the lease renewed.
Save(stage, paths, assets, kept, removed) ==
  /\ job' = [stage |-> stage, paths |-> paths, assets |-> assets, kept |-> kept, removed |-> removed]
  /\ lease' = [token |-> lease.token, live |-> TRUE]

\* The request has the job, in which the token was t.
Begun(t) == [pc |-> "begun", scope |-> t, token |-> None, work |-> {}, found |-> {}, asset |-> None]

\* The first request fences the account and saves the job in one transaction.
Begin(r) ==
  /\ call[r].pc = "idle"
  /\ lifecycle = "active" /\ Account \in store
  /\ lifecycle' = "deleting"
  /\ job' = [stage |-> "checkout", paths |-> {}, assets |-> {}, kept |-> {}, removed |-> FALSE]
  /\ call' = [call EXCEPT ![r] = Begun(None)]
  /\ UNCHANGED <<store, asset, objects, settled, lease, world>>

\* A later request reads the job, with the lease token it has.
Again(r) ==
  /\ call[r].pc = "idle"
  /\ lifecycle # "active"
  /\ call' = [call EXCEPT ![r] = Begun(lease.token)]
  /\ UNCHANGED <<lifecycle, store, asset, objects, settled, job, lease, world>>

Fresh == Tokens \ ({lease.token} \cup {call[r].scope : r \in Resumers} \cup {call[r].token : r \in Resumers})

\* The lease is claimed, unless it is alive or the fence refuses.
Claim(r) ==
  /\ call[r].pc = "begun"
  /\ job.stage # "none"
  /\ ~lease.live /\ ScopeHolds(r)
  /\ Fresh # {}
  /\ LET t == CHOOSE t \in Fresh : TRUE IN
       /\ lease' = [token |-> t, live |-> TRUE]
       /\ call' = [call EXCEPT ![r] = [pc |-> job.stage, scope |-> call[r].scope, token |-> t,
                                       work |-> IF job.stage = "assets" THEN job.assets ELSE {},
                                       found |-> {}, asset |-> None]]
  /\ UNCHANGED <<lifecycle, store, asset, objects, settled, job, world>>

Turned(r) ==
  /\ call[r].pc = "begun"
  /\ job.stage = "none" \/ lease.live \/ ~ScopeHolds(r)
  /\ call' = [call EXCEPT ![r] = Idle]
  /\ UNCHANGED <<lifecycle, store, asset, objects, settled, job, lease, world>>

\* Stage checkout: nothing that may create billing is under way.
Checkout(r) ==
  /\ call[r].pc = "checkout"
  /\ IF ~busy /\ Saves(r)
       THEN Save("inventory", job.paths, job.assets, job.kept, job.removed) /\ Move(r, "inventory")
       ELSE UNCHANGED <<job, lease>> /\ Move(r, "finally")
  /\ UNCHANGED <<lifecycle, store, asset, objects, settled, world>>

\* inventoryAccountDeletion: what belongs to the account, and to the course
\* that exists or was inventoried before.
Found == store \cap (Owned \cup IF Course \in store \cup job.paths THEN Artifacts ELSE {})
FoundAssets == {a \in Assets : asset[a] # "absent"}

Inventory(r) ==
  /\ call[r].pc = "inventory"
  /\ Goto(r, "inventoried", Found, FoundAssets, None)
  /\ UNCHANGED <<lifecycle, store, asset, objects, settled, job, lease, world>>

Inventoried(r) ==
  /\ call[r].pc = "inventoried"
  /\ IF Saves(r)
       THEN Save("billing", call[r].work, call[r].found, {}, job.removed) /\ Move(r, "billing")
       ELSE UNCHANGED <<job, lease>> /\ Move(r, "finally")
  /\ UNCHANGED <<lifecycle, store, asset, objects, settled, world>>

\* Stage billing: Stripe confirmed that nothing is left (the module CheckoutContainment).
Billing(r) ==
  /\ call[r].pc = "billing"
  /\ IF Saves(r)
       THEN Save("documents", job.paths, job.assets, job.kept, job.removed) /\ Move(r, "documents")
       ELSE UNCHANGED <<job, lease>> /\ Move(r, "finally")
  /\ UNCHANGED <<lifecycle, store, asset, objects, settled, world>>

\* Mutant: records are removed before the reservations are settled.
AbandonNothing(r) ==
  /\ call[r].pc = "documents"
  /\ Goto(r, "deleting", job.paths, {}, None)
  /\ UNCHANGED <<lifecycle, store, asset, objects, settled, job, lease, world>>

\* Stage documents: first abandonAiUsage moves the reservation to the global receipt ...
Abandon(r) ==
  /\ call[r].pc = "documents"
  /\ settled' = (settled \/ Usage \in job.paths \cap store)
  /\ Goto(r, "deleting", job.paths, {}, None)
  /\ UNCHANGED <<lifecycle, store, asset, objects, job, lease, world>>

\* ... then the records go, in several transactions, each with the request's own token ...
Delete(r) ==
  /\ call[r].pc = "deleting"
  /\ \E chunk \in SUBSET call[r].work \ {{}} :
       IF Holds(r) /\ \A d \in chunk : Removable(d)
         THEN store' = store \ chunk /\ Goto(r, "deleting", call[r].work \ chunk, {}, None)
         ELSE UNCHANGED store /\ Move(r, "finally")
  /\ UNCHANGED <<lifecycle, asset, objects, settled, job, lease, world>>

\* ... and the stage ends.
Deleted(r) ==
  /\ call[r].pc = "deleting" /\ call[r].work = {}
  /\ IF Saves(r)
       THEN Save("assets", job.paths, job.assets, job.kept, job.removed) /\ Goto(r, "assets", job.assets, {}, None)
       ELSE UNCHANGED <<job, lease>> /\ Move(r, "finally")
  /\ UNCHANGED <<lifecycle, store, asset, objects, settled, world>>

\* Stage assets: each banner of the inventory in turn.
NextAsset(r, a) ==
  /\ call[r].pc = "assets" /\ a \in call[r].work
  /\ UNCHANGED <<lifecycle, store, asset, settled, world>>

AssetGone(r, a) ==
  /\ NextAsset(r, a)
  /\ asset[a] = "absent"
  /\ Goto(r, "assets", call[r].work \ {a}, {}, None)
  /\ UNCHANGED <<objects, job, lease>>

AssetUploading(r, a) ==
  /\ NextAsset(r, a)
  /\ asset[a] = "uploading"
  /\ Move(r, "finally")
  /\ UNCHANGED <<objects, job, lease>>

AssetKept(r, a) ==
  /\ NextAsset(r, a)
  /\ asset[a] = "uploaded" /\ a \in Shared
  /\ IF Saves(r)
       THEN /\ Save("assets", job.paths, job.assets, job.kept \cup {a}, job.removed)
            /\ Goto(r, "assets", call[r].work \ {a}, {}, None)
       ELSE UNCHANGED <<job, lease>> /\ Move(r, "finally")
  /\ UNCHANGED objects

\* Mutant: the object of an upload under way is removed, and its record next.
RemoveObjectEarly(r, a) ==
  /\ NextAsset(r, a)
  /\ asset[a] # "absent" /\ a \notin Shared
  /\ objects' = objects \ {a}
  /\ Goto(r, "object", call[r].work, {}, a)
  /\ UNCHANGED <<job, lease>>

\* The object goes first ...
RemoveObject(r, a) ==
  /\ NextAsset(r, a)
  /\ asset[a] = "uploaded" /\ a \notin Shared
  /\ objects' = objects \ {a}
  /\ Goto(r, "object", call[r].work, {}, a)
  /\ UNCHANGED <<job, lease>>

\* ... then its record is listed in the job ...
ListAsset(r) ==
  /\ call[r].pc = "object"
  /\ IF Saves(r)
       THEN /\ Save("assets", job.paths \cup {call[r].asset}, job.assets, job.kept, job.removed)
            /\ Goto(r, "listed", call[r].work, {}, call[r].asset)
       ELSE UNCHANGED <<job, lease>> /\ Move(r, "finally")
  /\ UNCHANGED <<lifecycle, store, asset, objects, settled, world>>

\* ... and removed.
RemoveAsset(r) ==
  /\ call[r].pc = "listed"
  /\ IF Holds(r) /\ call[r].asset \in job.paths
       THEN /\ asset' = [asset EXCEPT ![call[r].asset] = "absent"]
            /\ Goto(r, "assets", call[r].work \ {call[r].asset}, {}, None)
       ELSE UNCHANGED asset /\ Move(r, "finally")
  /\ UNCHANGED <<lifecycle, store, objects, settled, job, lease, world>>

AssetsDone(r) ==
  /\ call[r].pc = "assets" /\ call[r].work = {}
  /\ IF Saves(r)
       THEN Save("verify", job.paths, job.assets, job.kept, job.removed) /\ Move(r, "verify")
       ELSE UNCHANGED <<job, lease>> /\ Move(r, "finally")
  /\ UNCHANGED <<lifecycle, store, asset, objects, settled, world>>

\* Stage verify: the inventory is taken again, and must be empty.
Verify(r) ==
  /\ call[r].pc = "verify"
  /\ Move(r, IF Found = {} /\ FoundAssets \subseteq job.kept THEN "scanned" ELSE "finally")
  /\ UNCHANGED <<lifecycle, store, asset, objects, settled, job, lease, world>>

Scanned(r) ==
  /\ call[r].pc = "scanned"
  /\ IF Saves(r)
       THEN Save("retention_review", job.paths, job.assets, job.kept, TRUE) /\ Move(r, "retention_review")
       ELSE UNCHANGED <<job, lease>> /\ Move(r, "finally")
  /\ UNCHANGED <<lifecycle, store, asset, objects, settled, world>>

\* Stage retention_review: the lifecycle follows the job.
Close(r) ==
  /\ call[r].pc = "retention_review"
  /\ lifecycle' = IF ScopeHolds(r) THEN "deleted" ELSE lifecycle
  /\ Move(r, "finally")
  /\ UNCHANGED <<store, asset, objects, settled, job, lease, world>>

\* Mutant: a request that fails keeps the lease.
FinallyKept(r) ==
  /\ call[r].pc = "finally"
  /\ call' = [call EXCEPT ![r] = Idle]
  /\ UNCHANGED <<lifecycle, store, asset, objects, settled, job, lease, world>>

\* finally: the lease is released, unless that save is refused too.
Finally(r) ==
  /\ call[r].pc = "finally"
  /\ lease' = IF Saves(r) THEN Unleased ELSE lease
  /\ call' = [call EXCEPT ![r] = Idle]
  /\ UNCHANGED <<lifecycle, store, asset, objects, settled, job, world>>

\* A provider or the store fails, or an inventory must be reviewed: the answer is
\* "pending", the job stays, and the lease is released.
Fail(r) ==
  /\ call[r].pc \in Working
  /\ failures < MaxFailures
  /\ failures' = failures + 1
  /\ Move(r, "finally")
  /\ UNCHANGED <<lifecycle, store, asset, objects, settled, busy, job, lease, late, upload, deaths>>

\* The process of the request dies: nothing is released.
Die(r) ==
  /\ call[r].pc # "idle"
  /\ deaths < MaxDeaths
  /\ deaths' = deaths + 1
  /\ call' = [call EXCEPT ![r] = Idle]
  /\ UNCHANGED <<lifecycle, store, asset, objects, settled, busy, job, lease, late, upload, failures>>

\* Two minutes since the last save.
LeaseExpires ==
  /\ lease.live
  /\ SlowWorkers \/ \A r \in Resumers : call[r].token # lease.token
  /\ lease' = [token |-> lease.token, live |-> FALSE]
  /\ UNCHANGED <<lifecycle, store, asset, objects, settled, job, call, world>>

-----------------------------------------------------------------------------
Step(r) ==
  \/ Claim(r) \/ Turned(r) \/ Checkout(r) \/ Inventory(r) \/ Inventoried(r) \/ Billing(r)
  \/ Abandon(r) \/ Delete(r) \/ Deleted(r)
  \/ \E a \in Assets : AssetGone(r, a) \/ AssetUploading(r, a) \/ AssetKept(r, a) \/ RemoveObject(r, a)
  \/ ListAsset(r) \/ RemoveAsset(r) \/ AssetsDone(r) \/ Verify(r) \/ Scanned(r) \/ Close(r) \/ Finally(r)

\* What happens besides the DELETE requests.
World ==
  \/ \E d \in Active : Admit(d)
  \/ \E d \in Artifacts : AdmitOther(d)
  \/ \E whose \in {"own", "other"}, d \in Active : CommitLate(whose, d)
  \/ ProviderAnswers \/ CheckoutStarts \/ CheckoutEnds
  \/ \E a \in Assets : ClaimUpload(a) \/ StoreObject(a) \/ Receipt(a) \/ UploadDies(a)
  \/ LeaseExpires

Next == World \/ \E r \in Resumers : Begin(r) \/ Again(r) \/ Step(r) \/ Fail(r) \/ Die(r)

Spec == Init /\ [][Next]_vars

\* Requests that are served go on, uploads and checkouts end, a lease nobody
\* renews expires, and the user asks again as long as the answer tells so.
Fairness ==
  /\ \A r \in Resumers : WF_vars(Step(r)) /\ WF_vars(Again(r))
  /\ \A a \in Assets : WF_vars(StoreObject(a) \/ Receipt(a))
  /\ WF_vars(CheckoutEnds)
  /\ WF_vars(LeaseExpires)

FairSpec == Spec /\ Fairness

-----------------------------------------------------------------------------
(* Properties *)

\* Once the job says that the active data are removed, no record of the account
\* and no lesson of its course is there again, whichever request commits late:
\* design doc, "must not recreate deleted active data".
NothingLeft == job.removed => store \cap (Owned \cup Lessons) = {} /\ FoundAssets \subseteq job.kept

\* No banner is left in blob storage without the record by which it is found.
NoOrphanObject == objects \subseteq FoundAssets

\* The record of an AI request goes only after its reservation was settled globally.
SettledBeforeRemoval == Usage \notin store => settled

\* A request that lost its lease cannot set the job back to an earlier stage.
StageForward == [][Rank[job.stage'] >= Rank[job.stage]]_vars

\* A deletion that was begun ends, unless one of its requests or of the uploads
\* dies: what fails, or meets another request at work, is made up for by a later one.
EndsUnlessOneDies == lifecycle = "deleting" ~> lifecycle = "deleted" \/ deaths > 0

\* A deletion that was begun ends: "Interrupted stages must resume using durable state".
DeletionEnds == lifecycle = "deleting" ~> lifecycle = "deleted"
=============================================================================
