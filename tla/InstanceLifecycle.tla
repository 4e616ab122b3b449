-------------------------- MODULE InstanceLifecycle --------------------------
(***************************************************************************)
(* The life of a Vultr instance under Karpenter: Create and Delete of      *)
(* pkg/cloudprovider/cloudprovider.go, the orphan cleaner of               *)
(* pkg/controllers/orphan.go, and the parties they work with.              *)
(*                                                                         *)
(* Several Karpenter installations (clusters) share one Vultr account.     *)
(* Every one runs the provider in one process: Create and Delete calls of  *)
(* different NodeClaims, and the orphan scan, interleave at every API      *)
(* request.  Karpenter core and the Vultr API are external: they appear as *)
(* far as the code here depends on them.                                   *)
(*                                                                         *)
(* Time is counted in ticks.  An instance is as old as its date_created    *)
(* makes it look to the controller, so clock skew shows as a head start.   *)
(***************************************************************************)
EXTENDS Integers, Ownership

CONSTANTS
    Clusters,     \* Karpenter installations sharing the Vultr account
    Names,        \* NodeClaim names (generated, never used twice in a cluster)
    Pool, Class,  \* the NodePool and NodeClass names put in the tags
    Instances,    \* instance identifiers
    Foreign,      \* instances that nobody here created
    ForeignTags,  \* the tag lists those may carry
    NoInstance,   \* no provider ID, no instance
    Position,     \* where the API's listing puts an instance; ties in any order
    Undated,      \* instances whose date_created does not parse as RFC 3339
    Stuck,        \* instances Vultr will not delete (locked, say)
    GoneAnswers,  \* how Vultr may answer DELETE for a gone instance: with success, with 404
    Grace,        \* orphanGracePeriod
    MaxLag,       \* how far the informer cache may trail the API server
    MaxSkew,      \* how far ahead of Vultr's clock the controller's may be
    MaxCrashes    \* bound on process crashes

Claims == Clusters \X Names

(* A tag list is somebody else's when its first cluster tag names none of  *)
(* our installations, or when it has no NodeClaim tag.                     *)
SomebodyElses(tags) ==
    \/ \A k \in Clusters : k \notin LeadingValues(tags, TagClusterPrefix)
    \/ \A n \in DOMAIN tags : tags[n].prefix # TagNodeClaimPrefix

ASSUME Timing ==
    /\ Grace \in Nat /\ MaxLag \in Nat /\ MaxSkew \in Nat /\ MaxCrashes \in Nat
    /\ MaxLag + MaxSkew <= Grace

ASSUME Values ==
    /\ NoValue \notin Clusters \cup Names \cup Spaced
    /\ Empty \notin Clusters \cup Names
    /\ Names \cap Spaced = {}             \* Kubernetes object names

ASSUME Account ==
    /\ NoInstance \notin Instances
    /\ Foreign \subseteq Instances /\ Undated \subseteq Instances
    /\ Stuck \subseteq Instances
    /\ Position \in [Instances -> Nat]
    /\ GoneAnswers \subseteq {"accepted", "notFound"}
    /\ \A tags \in ForeignTags : SomebodyElses(tags)

VARIABLES
    claim,        \* phase of each NodeClaim on the API server
    claimAge,     \* ticks since it was created or removed, up to MaxLag
    providerID,   \* instance recorded in its status
    call,         \* the provider call Karpenter has running for it
    inst,         \* what Vultr knows about each instance
    scan,         \* the orphan scan of each cluster
    crashes

vars == <<claim, claimAge, providerID, call, inst, scan, crashes>>

Phases     == {"absent", "live", "terminating", "gone"}
CallSteps  == {"idle", "creating", "created", "deleting", "confirm", "released"}
InstStates == {"unused", "posted", "active", "destroying", "gone"}

ClaimTags(c) == InstanceTags(c[1], c[2], Pool, Class)
AllTags      == {<<>>} \cup ForeignTags \cup { ClaimTags(c) : c \in Claims }

Idle   == [step |-> "idle", inst |-> NoInstance]
NoScan == [listing |-> FALSE, todo |-> {}, target |-> NoInstance]

TypeOK ==
    /\ claim \in [Claims -> Phases]
    /\ claimAge \in [Claims -> 0 .. MaxLag]
    /\ providerID \in [Claims -> Instances \cup {NoInstance}]
    /\ call \in [Claims -> [step : CallSteps, inst : Instances \cup {NoInstance}]]
    /\ inst \in [Instances -> [state : InstStates, tags : AllTags, age : -1 .. Grace]]
    /\ scan \in [Clusters -> [listing : BOOLEAN, todo : SUBSET Instances,
                              target : Instances \cup {NoInstance}]]
    /\ crashes \in 0 .. MaxCrashes

Init ==
    /\ claim = [c \in Claims |-> "absent"]
    /\ claimAge = [c \in Claims |-> 0]
    /\ providerID = [c \in Claims |-> NoInstance]
    /\ call = [c \in Claims |-> Idle]
    /\ \E tags \in [Foreign -> ForeignTags] :
         inst = [i \in Instances |->
                    IF i \in Foreign
                    THEN [state |-> "active", tags |-> tags[i], age |-> Grace]
                    ELSE [state |-> "unused", tags |-> <<>>, age |-> 0]]
    /\ scan = [k \in Clusters |-> NoScan]
    /\ crashes = 0

-----------------------------------------------------------------------------
Exists(c)  == claim[c] \in {"live", "terminating"}
Running(i) == inst[i].state \in {"active", "destroying"}
Started(i) == inst[i].state \in {"active", "destroying", "gone"}

(* What the account lists as this cluster's: CloudProvider.List.           *)
Listed(k) == { i \in Instances : Running(i) /\ NodeClaimName(inst[i].tags, k) # NoValue }

(* The NodeClaim the orphan cleaner looks up for an instance it owns.      *)
Owner(i, k) == <<k, NodeClaimName(inst[i].tags, k)>>

(* The lookup goes to the informer cache, which may trail the API server   *)
(* by up to MaxLag ticks.                                                  *)
MaySee(c)  == Exists(c) \/ (claim[c] = "gone" /\ claimAge[c] < MaxLag)
MayMiss(c) == ~Exists(c) \/ claimAge[c] < MaxLag

SetState(i, s) == inst' = [inst EXCEPT ![i] = [state |-> s, tags |-> @.tags, age |-> @.age]]
CallAt(c, s)   == call' = [call EXCEPT ![c] = [step |-> s, inst |-> @.inst]]
CallDone(c)    == call' = [call EXCEPT ![c] = Idle]

-----------------------------------------------------------------------------
(* Karpenter core: a NodeClaim appears, and somebody deletes it.           *)

CreateClaim(c) ==
    /\ claim[c] = "absent"
    /\ claim' = [claim EXCEPT ![c] = "live"]
    /\ claimAge' = [claimAge EXCEPT ![c] = 0]
    /\ UNCHANGED <<providerID, call, inst, scan, crashes>>

TerminateClaim(c) ==
    /\ claim[c] = "live"
    /\ claim' = [claim EXCEPT ![c] = "terminating"]
    /\ UNCHANGED <<claimAge, providerID, call, inst, scan, crashes>>

(* The finalizer goes and the NodeClaim with it.                           *)
RemoveClaim(c) ==
    /\ claim' = [claim EXCEPT ![c] = "gone"]
    /\ claimAge' = [claimAge EXCEPT ![c] = 0]
    /\ CallDone(c)
    /\ UNCHANGED <<providerID, inst, scan, crashes>>

(* A NodeClaim with no provider ID has nothing to terminate.               *)
FinalizeUnlaunched(c) ==
    /\ claim[c] = "terminating" /\ providerID[c] = NoInstance
    /\ call[c].step \in {"idle", "created"}
    /\ RemoveClaim(c)

(* Delete answered NodeClaimNotFoundError.                                 *)
ReleaseFinalizer(c) ==
    /\ call[c].step = "released"
    /\ RemoveClaim(c)

(* Status update with what Create returned.                                *)
Persist(c) ==
    /\ Exists(c) /\ call[c].step = "created"
    /\ providerID' = [providerID EXCEPT ![c] = call[c].inst]
    /\ CallDone(c)
    /\ UNCHANGED <<claim, claimAge, inst, scan, crashes>>

-----------------------------------------------------------------------------
(* CloudProvider.Create.  Everything before the POST only reads.           *)

(* Mutant: the arguments of InstanceTags in the wrong order.               *)
BeginCreateTagsSwapped(c) ==
    /\ claim[c] = "live" /\ providerID[c] = NoInstance /\ call[c].step = "idle"
    /\ \E i \in Instances :
         /\ inst[i].state = "unused"
         /\ inst' = [inst EXCEPT ![i] = [state |-> "posted", age |-> 0,
                                        tags |-> InstanceTags(c[2], c[1], Pool, Class)]]
         /\ call' = [call EXCEPT ![c] = [step |-> "creating", inst |-> i]]
    /\ UNCHANGED <<claim, claimAge, providerID, scan, crashes>>

BeginCreate(c) ==
    /\ claim[c] = "live" /\ providerID[c] = NoInstance /\ call[c].step = "idle"
    /\ \E i \in Instances :
         /\ inst[i].state = "unused"
         /\ inst' = [inst EXCEPT ![i] = [state |-> "posted", tags |-> ClaimTags(c), age |-> 0]]
         /\ call' = [call EXCEPT ![c] = [step |-> "creating", inst |-> i]]
    /\ UNCHANGED <<claim, claimAge, providerID, scan, crashes>>

CreateReturns(c) ==
    /\ call[c].step = "creating" /\ inst[call[c].inst].state # "posted"
    /\ CallAt(c, "created")
    /\ UNCHANGED <<claim, claimAge, providerID, inst, scan, crashes>>

(* Vultr refuses: classifyCreateError, and the request left nothing.       *)
CreateFails(c) ==
    /\ call[c].step = "creating" /\ inst[call[c].inst].state = "posted"
    /\ inst' = [inst EXCEPT ![call[c].inst] = [state |-> "unused", tags |-> <<>>, age |-> 0]]
    /\ CallDone(c)
    /\ UNCHANGED <<claim, claimAge, providerID, scan, crashes>>

(* No usable answer: the request may have been served, or be served later. *)
CreateTimesOut(c) ==
    /\ call[c].step = "creating"
    /\ CallDone(c)
    /\ UNCHANGED <<claim, claimAge, providerID, inst, scan, crashes>>

-----------------------------------------------------------------------------
(* CloudProvider.Delete, which Karpenter calls for a terminating NodeClaim *)
(* that has a provider ID until it answers NodeClaimNotFoundError.  Every  *)
(* provider ID is one that Create wrote, "vultr://" and an instance, which *)
(* parseProviderID takes apart without error.                              *)

BeginDelete(c) ==
    /\ claim[c] = "terminating" /\ providerID[c] # NoInstance /\ call[c].step = "idle"
    /\ CallAt(c, "deleting")
    /\ UNCHANGED <<claim, claimAge, providerID, inst, scan, crashes>>

(* An accepted DELETE starts the destruction of an active instance.        *)
Accepts(i) == IF inst[i].state = "gone" THEN "accepted" \in GoneAnswers ELSE i \notin Stuck
Destroy(i) == IF inst[i].state = "active" THEN SetState(i, "destroying") ELSE UNCHANGED inst

(* Any DELETE may fail, with the effect it has or without: Vultr rejects   *)
(* one while the instance is mid-operation, and answers get lost.          *)
DeleteUnanswered(i) == UNCHANGED inst \/ (Accepts(i) /\ Destroy(i))
AnswersNotFound(i)  == inst[i].state = "gone" /\ "notFound" \in GoneAnswers

(* Mutant: an accepted DELETE counts as a finished teardown.               *)
DeleteAcceptedFinishes(c) ==
    /\ call[c].step = "deleting" /\ Accepts(providerID[c])
    /\ Destroy(providerID[c])
    /\ CallAt(c, "released")
    /\ UNCHANGED <<claim, claimAge, providerID, scan, crashes>>

(* Accepted: Delete returns nil, and Karpenter calls again.                *)
DeleteAccepted(c) ==
    /\ call[c].step = "deleting" /\ Accepts(providerID[c])
    /\ Destroy(providerID[c])
    /\ CallDone(c)
    /\ UNCHANGED <<claim, claimAge, providerID, scan, crashes>>

DeleteNotFound(c) ==
    /\ call[c].step = "deleting" /\ AnswersNotFound(providerID[c])
    /\ CallAt(c, "released")
    /\ UNCHANGED <<claim, claimAge, providerID, inst, scan, crashes>>

(* Mutant: Delete returns the failure without looking the instance up.     *)
DeleteRejectedUnconfirmed(c) ==
    /\ call[c].step = "deleting"
    /\ DeleteUnanswered(providerID[c])
    /\ CallDone(c)
    /\ UNCHANGED <<claim, claimAge, providerID, scan, crashes>>

(* Any other failure: Delete goes on to look the instance up.              *)
DeleteRejected(c) ==
    /\ call[c].step = "deleting"
    /\ DeleteUnanswered(providerID[c])
    /\ CallAt(c, "confirm")
    /\ UNCHANGED <<claim, claimAge, providerID, scan, crashes>>

(* Mutant: a lookup that fails for any reason counts as 404.               *)
ConfirmGoneOnAnyError(c) ==
    /\ call[c].step = "confirm"
    /\ CallAt(c, "released")
    /\ UNCHANGED <<claim, claimAge, providerID, inst, scan, crashes>>

(* The lookup answers 404.                                                 *)
ConfirmGone(c) ==
    /\ call[c].step = "confirm" /\ inst[providerID[c]].state = "gone"
    /\ CallAt(c, "released")
    /\ UNCHANGED <<claim, claimAge, providerID, inst, scan, crashes>>

(* The instance is there, or the lookup failed: Delete fails.              *)
ConfirmFails(c) ==
    /\ call[c].step = "confirm"
    /\ CallDone(c)
    /\ UNCHANGED <<claim, claimAge, providerID, inst, scan, crashes>>

-----------------------------------------------------------------------------
(* OrphanController.Reconcile of cluster k.                                *)

(* ListInstances sends its first request; todo keeps what the account has. *)
BeginListing(k) ==
    /\ scan[k] = NoScan
    /\ scan' = [scan EXCEPT ![k] = [listing |-> TRUE, target |-> NoInstance,
                                    todo |-> { i \in Instances : Running(i) }]]
    /\ UNCHANGED <<claim, claimAge, providerID, call, inst, crashes>>

(* The last page is in.  The answer is no snapshot (AccountSnapshot): it   *)
(* has all that ran since the first request, and what came or went.        *)
ListInstances(k) ==
    /\ scan[k].listing
    /\ \E found \in SUBSET { i \in Instances : Started(i) } :
         /\ { i \in scan[k].todo : Running(i) } \subseteq found
         /\ scan' = [scan EXCEPT ![k] = [listing |-> FALSE, target |-> NoInstance,
                                         todo |-> found]]
    /\ UNCHANGED <<claim, claimAge, providerID, call, inst, crashes>>

(* A request for a page fails: Reconcile returns.                          *)
ListingFails(k) ==
    /\ scan[k].listing
    /\ scan' = [scan EXCEPT ![k] = NoScan]
    /\ UNCHANGED <<claim, claimAge, providerID, call, inst, crashes>>

(* The loop is at instance i.                                              *)
AtInstance(k, i) ==
    /\ ~scan[k].listing /\ scan[k].target = NoInstance /\ i \in scan[k].todo
    /\ \A j \in scan[k].todo : Position[i] <= Position[j]

(* Mutant: no grace period.                                                *)
EligibleAtOnce(k, i) == NodeClaimName(inst[i].tags, k) # NoValue

(* Ours, and past the grace period: the loop goes on to the lookup.        *)
Eligible(k, i) == NodeClaimName(inst[i].tags, k) # NoValue /\ inst[i].age >= Grace

SkipInstance(k, i) ==
    /\ AtInstance(k, i)
    /\ Eligible(k, i) => MaySee(Owner(i, k))
    /\ scan' = [scan EXCEPT ![k].todo = @ \ {i}]
    /\ UNCHANGED <<claim, claimAge, providerID, call, inst, crashes>>

(* Mutant: the NodeClaim is not looked up.                                 *)
CondemnUnseen(k, i) ==
    /\ AtInstance(k, i)
    /\ Eligible(k, i)
    /\ scan' = [scan EXCEPT ![k].todo = @ \ {i}, ![k].target = i]
    /\ UNCHANGED <<claim, claimAge, providerID, call, inst, crashes>>

(* Mutant: NotFound is an error like any other.                            *)
CondemnAborts(k, i) ==
    /\ AtInstance(k, i)
    /\ Eligible(k, i) /\ MayMiss(Owner(i, k))
    /\ scan' = [scan EXCEPT ![k] = NoScan]
    /\ UNCHANGED <<claim, claimAge, providerID, call, inst, crashes>>

(* The lookup answers NotFound: the DELETE comes next.                     *)
CondemnInstance(k, i) ==
    /\ AtInstance(k, i)
    /\ Eligible(k, i) /\ MayMiss(Owner(i, k))
    /\ scan' = [scan EXCEPT ![k].todo = @ \ {i}, ![k].target = i]
    /\ UNCHANGED <<claim, claimAge, providerID, call, inst, crashes>>

(* The lookup fails otherwise: Reconcile returns and the rest is dropped.  *)
LookupFails(k, i) ==
    /\ AtInstance(k, i) /\ Eligible(k, i)
    /\ scan' = [scan EXCEPT ![k] = NoScan]
    /\ UNCHANGED <<claim, claimAge, providerID, call, inst, crashes>>

(* The DELETE is accepted, or answers 404: on to the next instance.        *)
OrphanDeleted(k, i) ==
    /\ scan[k].target = i
    /\ \/ Accepts(i) /\ Destroy(i)
       \/ AnswersNotFound(i) /\ UNCHANGED inst
    /\ scan' = [scan EXCEPT ![k].target = NoInstance]
    /\ UNCHANGED <<claim, claimAge, providerID, call, crashes>>

(* Any other answer, or none: Reconcile returns and the rest is dropped.   *)
OrphanDeleteFails(k, i) ==
    /\ scan[k].target = i
    /\ DeleteUnanswered(i)
    /\ scan' = [scan EXCEPT ![k] = NoScan]
    /\ UNCHANGED <<claim, claimAge, providerID, call, crashes>>

-----------------------------------------------------------------------------
(* Vultr, the operator, time and crashes.                                  *)

(* The request is served, late perhaps, when nobody waits for it any more. *)
VultrCreates(i) ==
    /\ inst[i].state = "posted"
    /\ \E age \in (IF i \in Undated THEN {-1} ELSE 0 .. MaxSkew) :
         inst' = [inst EXCEPT ![i] = [state |-> "active", tags |-> @.tags, age |-> age]]
    /\ UNCHANGED <<claim, claimAge, providerID, call, scan, crashes>>

(* A request whose caller has given up never arrives.                      *)
RequestLost(i) ==
    /\ inst[i].state = "posted"
    /\ \A c \in Claims : call[c].step = "creating" => call[c].inst # i
    /\ inst' = [inst EXCEPT ![i] = [state |-> "unused", tags |-> <<>>, age |-> 0]]
    /\ UNCHANGED <<claim, claimAge, providerID, call, scan, crashes>>

VultrDestroys(i) ==
    /\ inst[i].state = "destroying"
    /\ SetState(i, "gone")
    /\ UNCHANGED <<claim, claimAge, providerID, call, scan, crashes>>

(* An operator removes one of our instances by hand.                       *)
RemovedByHand(i) ==
    /\ inst[i].state = "active" /\ i \notin Foreign
    /\ SetState(i, "gone")
    /\ UNCHANGED <<claim, claimAge, providerID, call, scan, crashes>>

Older(age, limit) == IF age < limit THEN age + 1 ELSE age

Tick ==
    /\ claimAge' = [c \in Claims |->
                      IF claim[c] = "absent" THEN claimAge[c] ELSE Older(claimAge[c], MaxLag)]
    /\ inst' = [i \in Instances |->
                  IF Started(i) /\ inst[i].age # -1
                  THEN [inst[i] EXCEPT !.age = Older(@, Grace)] ELSE inst[i]]
    /\ UNCHANGED <<claim, providerID, call, scan, crashes>>

(* The controller process of cluster k dies; requests it sent live on.     *)
Crash(k) ==
    /\ crashes < MaxCrashes
    /\ crashes' = crashes + 1
    /\ call' = [c \in Claims |-> IF c[1] = k THEN Idle ELSE call[c]]
    /\ scan' = [scan EXCEPT ![k] = NoScan]
    /\ UNCHANGED <<claim, claimAge, providerID, inst>>

-----------------------------------------------------------------------------
ClaimStep(c) ==
    \/ CreateClaim(c) \/ TerminateClaim(c) \/ FinalizeUnlaunched(c)
    \/ ReleaseFinalizer(c) \/ Persist(c)
    \/ BeginCreate(c) \/ CreateReturns(c) \/ CreateFails(c) \/ CreateTimesOut(c)
    \/ BeginDelete(c) \/ DeleteAccepted(c) \/ DeleteNotFound(c) \/ DeleteRejected(c)
    \/ ConfirmGone(c) \/ ConfirmFails(c)

ScanStep(k, i) ==
    \/ SkipInstance(k, i) \/ CondemnInstance(k, i) \/ LookupFails(k, i)
    \/ OrphanDeleted(k, i) \/ OrphanDeleteFails(k, i)

VultrStep(i) ==
    \/ VultrCreates(i) \/ RequestLost(i) \/ VultrDestroys(i) \/ RemovedByHand(i)

Next ==
    \/ \E c \in Claims : ClaimStep(c)
    \/ \E k \in Clusters : BeginListing(k) \/ ListInstances(k) \/ ListingFails(k) \/ Crash(k)
    \/ \E k \in Clusters, i \in Instances : ScanStep(k, i)
    \/ \E i \in Instances : VultrStep(i)
    \/ Tick

Spec == Init /\ [][Next]_vars

(* Time passes.  Karpenter re-calls Delete and drops finalizers, the scan  *)
(* is requeued, requests are answered; API failures are transient, hence   *)
(* strong fairness where a step races with one.  Nothing makes a refused   *)
(* DELETE succeed.                                                         *)
Fairness ==
    /\ WF_vars(Tick)
    /\ \A c \in Claims :
         /\ WF_vars(FinalizeUnlaunched(c)) /\ WF_vars(ReleaseFinalizer(c))
         /\ WF_vars(CreateReturns(c) \/ CreateFails(c) \/ CreateTimesOut(c))
         /\ WF_vars(BeginDelete(c))
         /\ WF_vars(DeleteAccepted(c) \/ DeleteNotFound(c) \/ DeleteRejected(c))
         /\ SF_vars(DeleteAccepted(c)) /\ SF_vars(ConfirmGone(c)) /\ WF_vars(ConfirmFails(c))
    /\ \A k \in Clusters : WF_vars(BeginListing(k)) /\ SF_vars(ListInstances(k))
    /\ \A k \in Clusters, i \in Instances :
         /\ SF_vars(SkipInstance(k, i)) /\ SF_vars(CondemnInstance(k, i))
         /\ SF_vars(OrphanDeleted(k, i)) /\ WF_vars(OrphanDeleteFails(k, i))
    /\ \A i \in Instances : WF_vars(VultrDestroys(i))

FairSpec == Spec /\ Fairness

-----------------------------------------------------------------------------
(* Safety *)

(* The orphan cleaner never goes on to delete an instance whose NodeClaim  *)
(* still exists on the API server (a deleting one included) or may still   *)
(* record it, although it decides from a listing taken earlier, from a     *)
(* cache that trails and from another machine's clock: the grace period    *)
(* covers the sum of both.  (orphan.go, Reconcile)                         *)
CondemnedOnlyOrphans ==
    \A k \in Clusters :
      scan[k].target # NoInstance =>
        \E n \in Names : /\ inst[scan[k].target].tags = ClaimTags(<<k, n>>)
                         /\ claim[<<k, n>>] = "gone"

(* Karpenter lets a NodeClaim go only after the instance recorded in it is *)
(* destroyed: neither an accepted DELETE nor a failed one releases it.     *)
(* (cloudprovider.go, Delete)                                              *)
ReleasedOnlyWhenGone ==
    \A c \in Claims :
      claim[c] = "gone" /\ providerID[c] # NoInstance => inst[providerID[c]].state = "gone"

(* A running instance that a NodeClaim records is listed by that           *)
(* NodeClaim's cluster, whose Karpenter would otherwise take the node for  *)
(* lost, and by no other cluster of the account; but if the name of its    *)
(* cluster has whitespace in it, which main.go does not refuse, by no      *)
(* cluster at all.  Other people's instances are listed by none.           *)
(* (cloudprovider.go, List; tags.go)                                       *)
ListsPartitionAccount ==
    /\ \A c \in Claims :
         providerID[c] # NoInstance /\ Running(providerID[c]) =>
           { k \in Clusters : providerID[c] \in Listed(k) } = {c[1]} \ Spaced
    /\ \A k \in Clusters : Foreign \cap Listed(k) = {}

-----------------------------------------------------------------------------
(* Liveness *)

Collectable(k, i) ==
    /\ inst[i].state = "active" /\ i \notin Stuck \cup Undated
    /\ \E n \in Names : inst[i].tags = ClaimTags(<<k, n>>) /\ claim[<<k, n>>] = "gone"

(* An instance whose NodeClaim is gone does not keep running: whatever     *)
(* failed (a lost answer, a crash before the provider ID was persisted, a  *)
(* request served after the NodeClaim went), the cleaner finds it.         *)
OrphansCollected ==
    \A i \in Instances \ Foreign :
      (\E k \in Clusters : Collectable(k, i)) ~> (inst[i].state = "gone")

(* Termination of a NodeClaim completes when its instance can be deleted.  *)
TerminationCompletes ==
    \A c \in Claims :
      claim[c] = "terminating" ~> \/ claim[c] = "gone"
                                  \/ providerID[c] \in Stuck

-----------------------------------------------------------------------------
(* Refinement *)

OwnedBy(i, c) == inst[i].tags = ClaimTags(c)

CustodyOf(i) ==
    CASE i \in Foreign /\ inst[i].state = "active" -> "foreign"
      [] i \notin Foreign /\ inst[i].state = "active" ->
           IF \E c \in Claims : OwnedBy(i, c) /\ Exists(c)
           THEN IF \E c \in Claims : providerID[c] = i THEN "recorded" ELSE "unrecorded"
           ELSE "orphaned"
      [] inst[i].state = "destroying" -> "condemned"
      [] inst[i].state = "gone" -> "gone"
      [] OTHER -> "unused"

Custody == INSTANCE InstanceCustody WITH custody <- [i \in Instances |-> CustodyOf(i)]

(* Every step of the provider, of Karpenter and of Vultr keeps the custody *)
(* rules: an instance a NodeClaim names is never left behind, one that an  *)
(* existing NodeClaim may yet name is never deleted, and nobody else's     *)
(* instance is touched.  (cloudprovider.go, Delete; orphan.go, Reconcile)  *)
KeepsCustody == Custody!Spec
=============================================================================
