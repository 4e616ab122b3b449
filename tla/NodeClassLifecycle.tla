------------------------- MODULE NodeClassLifecycle -------------------------
(***************************************************************************)
(* A VultrNodeClass from its creation to its removal: finalizer, readiness *)
(* and status of pkg/controllers/nodeclass.go, and what CloudProvider      *)
(* makes of the NodeClass when it launches a NodeClaim.  The hashes that   *)
(* syncHash keeps are the subject of NodeClassHash; here only the patch    *)
(* counts by which it records them.                                        *)
(*                                                                         *)
(* Region and plan are looked up in the controller's own discovery cache   *)
(* of pkg/vultr/instancetype.go: one entry for every region, one for the   *)
(* plan catalogue.  The controller has a single worker, so a lookup is one *)
(* step here; InstanceTypeCache has the steps it is made of.               *)
(*                                                                         *)
(* Controller and CloudProvider share one client, hence one informer cache *)
(* of NodeClasses and one of NodeClaims.  Both trail the API server.       *)
(* Writes are patches (with an optimistic lock where the code asks for     *)
(* one) or updates, which always carry the resource version.  Karpenter,   *)
(* the operator and Vultr are external.                                    *)
(***************************************************************************)
EXTENDS Naturals

CONSTANTS
    Claims,      \* NodeClaims that refer to the NodeClass
    Regions,
    Plans,
    Specs,       \* what its spec may be
    Markets,     \* what Vultr may offer
    None,
    MaxEdits     \* bound on spec edits

(* sound: passes the checks that need no lookup; os: names an OS image and *)
(* not a snapshot; plan: the plan it asks for.                             *)
Spec_ == [sound : BOOLEAN, os : BOOLEAN, region : Regions, plan : Plans \cup {None}]

(* The image exists; the plans available in a region; all plans there are. *)
Market == [image : BOOLEAN, regions : [Regions -> SUBSET Plans], plans : SUBSET Plans]

(* An entry of the discovery cache; fresh: younger than its TTL.           *)
Entry == [plans : SUBSET Plans, fresh : BOOLEAN]

ASSUME NodeClassAssumption ==
    /\ Specs \subseteq Spec_ /\ Markets \subseteq Market /\ MaxEdits \in Nat
    /\ None \notin Plans \cup Specs \cup Entry

VARIABLES
    nc,        \* the NodeClass on the API server
    cache,     \* the NodeClass in the informer cache
    claim,     \* the NodeClaims on the API server
    listed,    \* the NodeClaims in the informer cache
    rec,       \* the reconciliation in progress
    create,    \* the NodeClaims that a Create in progress is launching
    vultr,     \* what Vultr offers at the moment
    discovery, \* the discovery cache: InstanceTypeProvider.cache and .plans
    calm       \* no more edits, failures and restarts

outside == <<vultr, calm>>   \* left alone by the handler
vars == <<nc, cache, claim, listed, rec, create, vultr, discovery, calm>>

NodeClass == [phase     : {"live", "deleting", "removed"},
              gen       : 1 .. MaxEdits + 1,          \* metadata.generation
              spec      : Specs,
              hashed    : Specs \cup {None},          \* the spec whose hash is recorded
              finalizer : BOOLEAN,
              ready     : {"Unknown", "True", "False"},
              observed  : 0 .. MaxEdits + 1,          \* status.observedGeneration
              resolved  : SUBSET Plans]               \* status.resolvedPlanIDs

Reconciliation == [step     : {"idle", "begun", "os", "region", "plan", "update", "finalizing", "releasing"},
                   seen     : NodeClass \cup {None},  \* the NodeClass as the handler knows it
                   ready    : BOOLEAN,
                   resolved : SUBSET Plans]

Discovery == [regions : [Regions -> Entry \cup {None}], plans : Entry \cup {None}]

TypeOK ==
    /\ nc \in NodeClass /\ cache \in NodeClass
    /\ claim \in [Claims -> {"absent", "pending", "launched", "gone"}]
    /\ listed \in SUBSET Claims
    /\ rec \in Reconciliation /\ (rec.step # "idle" => rec.seen \in NodeClass)
    /\ create \in SUBSET Claims
    /\ vultr \in Market /\ discovery \in Discovery /\ calm \in BOOLEAN

NothingKnown == [regions |-> [r \in Regions |-> None], plans |-> None]

Idle == [step |-> "idle", seen |-> None, ready |-> FALSE, resolved |-> {}]

(* A NodeClaim that is gone from the start is one that never comes.        *)
Init ==
    /\ \E s \in Specs :
         nc = [phase |-> "live", gen |-> 1, spec |-> s, hashed |-> None, finalizer |-> FALSE,
               ready |-> "Unknown", observed |-> 0, resolved |-> {}]
    /\ cache = nc
    /\ claim \in [Claims -> {"absent", "gone"}] /\ listed = {}
    /\ rec = Idle
    /\ create = {}
    /\ vultr \in Markets /\ discovery = NothingKnown /\ calm = FALSE

-----------------------------------------------------------------------------
(* The operator, Vultr, Karpenter, and restarts of the provider.           *)

EditSpec(s) ==
    /\ ~calm /\ nc.phase # "removed" /\ nc.gen <= MaxEdits /\ s # nc.spec
    /\ nc' = [nc EXCEPT !.spec = s, !.gen = @ + 1]
    /\ UNCHANGED <<cache, claim, listed, rec, create, discovery, outside>>

(* Without the finalizer it goes at once.                                  *)
DeleteNodeClass ==
    /\ ~calm /\ nc.phase = "live"
    /\ nc' = [nc EXCEPT !.phase = IF nc.finalizer THEN "deleting" ELSE "removed"]
    /\ UNCHANGED <<cache, claim, listed, rec, create, discovery, outside>>

VultrChanges ==
    /\ ~calm /\ vultr' \in Markets \ {vultr}
    /\ UNCHANGED <<nc, cache, claim, listed, rec, create, discovery, calm>>

CalmsDown ==
    /\ ~calm /\ calm' = TRUE
    /\ UNCHANGED <<nc, cache, claim, listed, rec, create, vultr, discovery>>

(* NodePools learn in their own time that their NodeClass is ready or no  *)
(* longer ready, so a NodeClaim may come at any time after the first       *)
(* status.                                                                 *)
NewClaim(c) ==
    /\ nc.ready # "Unknown" /\ claim[c] = "absent"
    /\ claim' = [claim EXCEPT ![c] = "pending"]
    /\ UNCHANGED <<nc, cache, listed, rec, create, discovery, outside>>

RemoveClaim(c) ==
    /\ claim[c] \in {"pending", "launched"} /\ c \notin create
    /\ claim' = [claim EXCEPT ![c] = "gone"]
    /\ UNCHANGED <<nc, cache, listed, rec, create, discovery, outside>>

Exists(c) == claim[c] \in {"pending", "launched"}

ObserveNodeClass ==
    /\ cache # nc /\ cache' = nc
    /\ UNCHANGED <<nc, claim, listed, rec, create, discovery, outside>>

ObserveClaim(c) ==
    /\ listed' = IF Exists(c) THEN listed \cup {c} ELSE listed \ {c}
    /\ listed' # listed
    /\ UNCHANGED <<nc, cache, claim, rec, create, discovery, outside>>

(* Work in progress is lost, and the caches are filled anew.               *)
Restart ==
    /\ ~calm
    /\ rec' = Idle /\ create' = {}
    /\ cache' = nc /\ listed' = { c \in Claims : Exists(c) } /\ discovery' = NothingKnown
    /\ UNCHANGED <<nc, claim, outside>>

-----------------------------------------------------------------------------
(* CloudProvider.Create, as far as it depends on the NodeClass.            *)

(* Karpenter launches a NodeClaim it has in its cache.  A NodeClass that   *)
(* is being deleted counts as not found, one whose Ready condition is      *)
(* false is refused.                                                       *)
BeginCreate(c) ==
    /\ claim[c] = "pending" /\ c \in listed /\ c \notin create
    /\ cache.phase = "live" /\ cache.ready # "False"
    /\ create' = create \cup {c}
    /\ UNCHANGED <<nc, cache, claim, listed, rec, discovery, outside>>

FinishCreate(c) ==
    /\ c \in create
    /\ claim' = [claim EXCEPT ![c] = "launched"]
    /\ create' = create \ {c}
    /\ UNCHANGED <<nc, cache, listed, rec, discovery, outside>>

FailCreate(c) ==
    /\ c \in create
    /\ create' = create \ {c}
    /\ UNCHANGED <<nc, cache, claim, listed, rec, discovery, outside>>

-----------------------------------------------------------------------------
(* NodeClassController.Reconcile.  An optimistic lock compares the         *)
(* NodeClass with the one the handler knows.                               *)

Locked == nc = rec.seen

Verdict(ready, resolved) == [rec EXCEPT !.step = "update", !.ready = ready, !.resolved = resolved]

(* Mutant: the spec is validated before the deletion is looked at.         *)
ReconcileValidatedFirst ==
    /\ rec.step = "idle" /\ cache.phase # "removed"
    /\ LET deleting == cache.phase = "deleting" /\ cache.spec.sound
       IN  /\ deleting => cache.finalizer
           /\ rec' = [Idle EXCEPT !.seen = cache, !.step = IF deleting THEN "finalizing" ELSE "begun"]
    /\ UNCHANGED <<nc, cache, claim, listed, create, discovery, outside>>

Reconcile ==
    /\ rec.step = "idle" /\ cache.phase # "removed"
    /\ cache.phase = "deleting" => cache.finalizer
    /\ rec' = [Idle EXCEPT !.seen = cache, !.step = IF cache.phase = "deleting" THEN "finalizing" ELSE "begun"]
    /\ UNCHANGED <<nc, cache, claim, listed, create, discovery, outside>>

(* An API call fails: the reconciliation ends, and is tried again.         *)
Fails ==
    /\ ~calm /\ rec.step \in {"begun", "update", "finalizing", "releasing"}
    /\ rec' = Idle
    /\ UNCHANGED <<nc, cache, claim, listed, create, discovery, outside>>

(* A write with a lock is refused if the NodeClass has changed.            *)
Conflict ==
    /\ ~Locked
    /\ \/ rec.step = "begun" /\ ~rec.seen.finalizer /\ nc.phase # "removed"
       \/ rec.step \in {"update", "releasing"}
    /\ rec' = Idle
    /\ UNCHANGED <<nc, cache, claim, listed, create, discovery, outside>>

(* Patch with a lock; a NodeClass that is gone is ignored.                 *)
EnsureFinalizer ==
    /\ rec.step = "begun" /\ ~rec.seen.finalizer
    /\ \/ Locked /\ nc' = [nc EXCEPT !.finalizer = TRUE]
       \/ nc.phase = "removed" /\ UNCHANGED nc
    /\ rec' = [rec EXCEPT !.seen.finalizer = TRUE]
    /\ UNCHANGED <<cache, claim, listed, create, discovery, outside>>

(* The checks that need no lookup, and the first lookup if they pass.      *)
AfterChecks(spec) == IF ~spec.sound THEN "update" ELSE IF spec.os THEN "os" ELSE "region"

(* Patch without a lock, left out when the hash is already there.  The     *)
(* handler goes on with the NodeClass that the server answers with, which  *)
(* may have another spec than the one whose hash it has sent.              *)
SyncHash ==
    /\ rec.step = "begun" /\ rec.seen.finalizer
    /\ nc' = IF rec.seen.hashed = rec.seen.spec \/ nc.phase = "removed" THEN nc
             ELSE [nc EXCEPT !.hashed = rec.seen.spec]
    /\ LET known == IF rec.seen.hashed = rec.seen.spec THEN rec.seen
                    ELSE IF nc.phase = "removed" THEN [rec.seen EXCEPT !.hashed = rec.seen.spec]
                    ELSE nc'
       IN  rec' = [rec EXCEPT !.step = AfterChecks(known.spec), !.seen = known]
    /\ UNCHANGED <<cache, claim, listed, create, discovery, outside>>

LookupOS ==
    /\ rec.step = "os"
    /\ rec' = IF vultr.image THEN [rec EXCEPT !.step = "region"] ELSE Verdict(FALSE, {})
    /\ UNCHANGED <<nc, cache, claim, listed, create, discovery, outside>>

Fresh(entry) == entry # None /\ entry.fresh

(* A fresh entry is the answer; otherwise Vultr is asked, and the answer   *)
(* is stored.  (Plans, availablePlans)                                     *)
Refreshed(entry, present) ==
    IF Fresh(entry) THEN entry ELSE [plans |-> present, fresh |-> TRUE]

(* Mutant: plans are looked up only until the NodeClass is ready.          *)
RegionKnownUntilReady(plans) ==
    IF rec.seen.ready = "True" THEN Verdict(TRUE, {})
    ELSE [rec EXCEPT !.step = "plan", !.resolved = plans]

(* The plans available in the region are known: the spec's plan is looked  *)
(* up next, if it has one and there are any.                               *)
RegionKnown(plans) ==
    IF plans # {} /\ rec.seen.spec.plan # None
    THEN [rec EXCEPT !.step = "plan", !.resolved = plans]
    ELSE Verdict(plans # {}, plans)

PlansKnown(plans) == Verdict(rec.seen.spec.plan \in plans \cap rec.resolved, rec.resolved)

LookupRegion ==
    /\ rec.step = "region"
    /\ LET r     == rec.seen.spec.region
           entry == Refreshed(discovery.regions[r], vultr.regions[r])
       IN  /\ discovery' = [discovery EXCEPT !.regions[r] = entry]
           /\ rec' = RegionKnown(entry.plans)
    /\ UNCHANGED <<nc, cache, claim, listed, create, outside>>

LookupPlan ==
    /\ rec.step = "plan"
    /\ LET entry == Refreshed(discovery.plans, vultr.plans)
       IN  /\ discovery' = [discovery EXCEPT !.plans = entry]
           /\ rec' = PlansKnown(entry.plans)
    /\ UNCHANGED <<nc, cache, claim, listed, create, outside>>

(* The request fails: a retryable failure (staleCacheUsable) is answered   *)
(* from the entry, however old; any other turns Ready false.  Neither ends *)
(* the reconciliation.                                                     *)
LookupFails ==
    /\ ~calm
    /\ \/ rec.step = "os" /\ rec' = Verdict(FALSE, {})
       \/ /\ rec.step = "region"
          /\ LET entry == discovery.regions[rec.seen.spec.region]
             IN  /\ ~Fresh(entry)
                 /\ \/ rec' = Verdict(FALSE, {})
                    \/ entry # None /\ rec' = RegionKnown(entry.plans)
       \/ /\ rec.step = "plan" /\ ~Fresh(discovery.plans)
          /\ \/ rec' = Verdict(FALSE, rec.resolved)
             \/ discovery.plans # None /\ rec' = PlansKnown(discovery.plans.plans)
    /\ UNCHANGED <<nc, cache, claim, listed, create, discovery, outside>>

(* availabilityCacheTTL and planCacheTTL pass.                             *)
RegionExpires(r) ==
    /\ Fresh(discovery.regions[r])
    /\ discovery' = [discovery EXCEPT !.regions[r].fresh = FALSE]
    /\ UNCHANGED <<nc, cache, claim, listed, rec, create, outside>>

PlansExpire ==
    /\ Fresh(discovery.plans)
    /\ discovery' = [discovery EXCEPT !.plans.fresh = FALSE]
    /\ UNCHANGED <<nc, cache, claim, listed, rec, create, outside>>

(* Mutant: the status is written with the spec, as a new generation.       *)
ReportedWithSpec == [rec.seen EXCEPT !.ready = IF rec.ready THEN "True" ELSE "False",
                                     !.observed = rec.seen.gen, !.gen = @ + 1]

Reported == [rec.seen EXCEPT !.ready = IF rec.ready THEN "True" ELSE "False",
                             !.observed = rec.seen.gen, !.resolved = rec.resolved]

(* Mutant: a status is written only when readiness changes.                *)
UpdateStatusOfReadiness ==
    /\ rec.step = "update" /\ (Locked \/ Reported.ready = rec.seen.ready)
    /\ nc' = IF Reported.ready = rec.seen.ready THEN nc ELSE Reported
    /\ rec' = Idle
    /\ UNCHANGED <<cache, claim, listed, create, discovery, outside>>

(* Mutant: the verdict is written to whatever the NodeClass is by now.     *)
UpdateStatusOfLatest ==
    /\ rec.step = "update" /\ nc.phase # "removed"
    /\ nc' = [nc EXCEPT !.ready = Reported.ready, !.observed = nc.gen, !.resolved = rec.resolved]
    /\ rec' = Idle
    /\ UNCHANGED <<cache, claim, listed, create, discovery, outside>>

(* Written if it differs from the status known, with a lock.               *)
UpdateStatus ==
    /\ rec.step = "update" /\ (Locked \/ Reported = rec.seen)
    /\ nc' = IF Reported = rec.seen THEN nc ELSE Reported
    /\ rec' = Idle
    /\ UNCHANGED <<cache, claim, listed, create, discovery, outside>>

(* Mutant: NodeClaims are waited for only while they have an instance.     *)
ListLaunchedForFinalize ==
    /\ rec.step = "finalizing"
    /\ rec' = IF \E c \in listed : claim[c] = "launched" THEN Idle
              ELSE [rec EXCEPT !.step = "releasing"]
    /\ UNCHANGED <<nc, cache, claim, listed, create, discovery, outside>>

(* finalize: held while any NodeClaim is listed.                           *)
ListForFinalize ==
    /\ rec.step = "finalizing"
    /\ rec' = IF listed # {} THEN Idle ELSE [rec EXCEPT !.step = "releasing"]
    /\ UNCHANGED <<nc, cache, claim, listed, create, discovery, outside>>

Release ==
    /\ rec.step = "releasing" /\ Locked
    /\ nc' = [nc EXCEPT !.finalizer = FALSE, !.phase = "removed"]
    /\ rec' = Idle
    /\ UNCHANGED <<cache, claim, listed, create, discovery, outside>>

-----------------------------------------------------------------------------
(* What a reconciliation does when nothing fails.                          *)
Handler ==
    \/ Reconcile \/ Conflict \/ EnsureFinalizer \/ SyncHash
    \/ LookupOS \/ LookupRegion \/ LookupPlan \/ UpdateStatus
    \/ ListForFinalize \/ Release

ClaimStep(c) ==
    NewClaim(c) \/ RemoveClaim(c) \/ ObserveClaim(c) \/ BeginCreate(c) \/ FinishCreate(c) \/ FailCreate(c)

(* Everything but changes of the offer.                                    *)
Proceed ==
    \/ \E s \in Specs : EditSpec(s)
    \/ DeleteNodeClass \/ CalmsDown \/ ObserveNodeClass \/ Restart
    \/ \E c \in Claims : ClaimStep(c)
    \/ \E r \in Regions : RegionExpires(r)
    \/ PlansExpire \/ Handler \/ Fails \/ LookupFails

Next == VultrChanges \/ Proceed

Spec == Init /\ [][Next]_vars

(* A NodeClass is requeued after every reconciliation, watches deliver in  *)
(* the end, and time passes.                                               *)
Fairness ==
    /\ WF_vars(Handler) /\ WF_vars(ObserveNodeClass)
    /\ WF_vars(PlansExpire) /\ \A r \in Regions : WF_vars(RegionExpires(r))
    /\ \A c \in Claims : WF_vars(ObserveClaim(c))

FairSpec == Spec /\ Fairness

-----------------------------------------------------------------------------
(* A NodeClass is there as long as a NodeClaim has an instance made from   *)
(* it, or one is being made: finalize may release it between the steps of  *)
(* a Create, but only for NodeClaims that Create will refuse.  (finalize;  *)
(* CloudProvider.nodeClass)                                                *)
NodeClassOutlivesInstances ==
    nc.phase = "removed" => \A c \in Claims : claim[c] # "launched" /\ c \notin create

Earned(class) ==
    class.ready = "True" /\ class.observed = class.gen =>
      /\ class.spec.sound /\ class.resolved # {}
      /\ class.spec.plan \in class.resolved \cup {None}

(* A Ready condition for the current generation was computed from the      *)
(* current spec and a plan set that has its plan, on the server and in the *)
(* cache that Create reads: although syncHash may hand Reconcile a newer   *)
(* spec than it began with, and edits go on during the lookups.            *)
(* (Reconcile)                                                             *)
ReadyIsEarned == Earned(nc) /\ Earned(cache)

(* What Reconcile would find if it asked Vultr now.                        *)
Right ==
    LET looked == nc.spec.sound /\ (nc.spec.os => vultr.image)
        found  == IF looked THEN vultr.regions[nc.spec.region] ELSE {}
    IN  /\ nc.observed = nc.gen /\ nc.resolved = found
        /\ nc.ready = IF found # {} /\ nc.spec.plan \in (found \cap vultr.plans) \cup {None}
                      THEN "True" ELSE "False"

(* Once edits, failures and restarts are over and Vultr's offer stays, the *)
(* status of a NodeClass comes to tell of its spec and of that offer, and  *)
(* goes on to: stale caches of NodeClasses and of plans, lost locks and    *)
(* the comparison that saves writes do not leave an old verdict behind.    *)
(* (Reconcile, Plans, availablePlans)                                      *)
StatusConverges == <>[](calm /\ nc.phase = "live" => Right)

(* What is served from the discovery cache is what Vultr offers.           *)
DiscoveryCurrent ==
    /\ \A r \in Regions :
         Fresh(discovery.regions[r]) => discovery.regions[r].plans = vultr.regions[r]
    /\ Fresh(discovery.plans) => discovery.plans.plans = vultr.plans

AtRest == calm /\ nc.phase = "live" /\ cache = nc /\ rec.step = "idle" /\ DiscoveryCurrent /\ Right

(* A status that is right at rest is not disturbed again, provided the     *)
(* fresh entries of the discovery cache are right as well (an older one    *)
(* would still be reported): every further reconciliation, whatever it     *)
(* writes for finalizer and hash, however the cache trails and entries     *)
(* expire meanwhile, comes to the same verdict.  (Reconcile)               *)
StatusStays == [](AtRest => []Right)

(* A deletion then waits for NodeClaims and for nothing else.  (finalize)  *)
DeletionCompletes == <>[](calm /\ nc.phase = "deleting" => \E c \in Claims : Exists(c))

=============================================================================
