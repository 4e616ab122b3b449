--------------------- MODULE NodeClassLifecycle_proofs ---------------------
(***************************************************************************)
(* Proofs about NodeClassLifecycle, for any NodeClaims, plans and specs.   *)
(***************************************************************************)
EXTENDS NodeClassLifecycle, TLAPS

Busy(c) == claim[c] = "launched" \/ c \in create

(* No status yet, and hence no NodeClaim.                                  *)
Untouched ==
    /\ nc.ready = "Unknown"
    /\ \A c \in Claims : claim[c] \in {"absent", "gone"} /\ c \notin create

(* The finalizer, once added, is held until the NodeClass goes.            *)
FinalizerHeld ==
    /\ nc.phase = "deleting" => nc.finalizer
    /\ nc.phase # "removed" /\ ~nc.finalizer => Untouched /\ ~cache.finalizer
    /\ rec.step # "idle" /\ nc.phase # "removed" /\ rec.seen.finalizer => nc.finalizer
    /\ rec.step \notin {"idle", "begun"} /\ nc.phase # "removed" => nc.finalizer

(* What the caches show of NodeClass and NodeClaims.                       *)
CachesTrail ==
    /\ nc.phase = "live" => cache.phase = "live"
    /\ rec.step \in {"finalizing", "releasing"} => cache.phase # "live"
    /\ \A c \in Claims : Busy(c) => c \in listed
    /\ \A c \in create : claim[c] = "pending"
    /\ rec.step # "idle" => rec.seen.phase # "removed"

(* No instance is left, and none is made, when the NodeClass is let go.    *)
NothingLeftBehind ==
    /\ rec.step = "releasing" => \A c \in Claims : ~Busy(c)
    /\ nc.phase = "removed" =>
         Untouched \/ (cache.phase # "live" /\ \A c \in Claims : ~Busy(c))

Lifetimes == FinalizerHeld /\ CachesTrail /\ NothingLeftBehind

(* What the lookups so far entitle the handler to report.                  *)
VerdictIsEarned ==
    /\ nc.observed <= nc.gen
    /\ rec.step \in {"begun", "os", "region", "plan"} => ~rec.ready
    /\ rec.step \in {"os", "region", "plan"} => rec.seen.spec.sound
    /\ rec.step = "plan" => rec.resolved # {}
    /\ rec.step = "update" /\ rec.ready =>
         /\ rec.seen.spec.sound /\ rec.resolved # {}
         /\ rec.seen.spec.plan \in rec.resolved \cup {None}

-----------------------------------------------------------------------------
LEMMA Generations ==
    /\ 1 \in 1 .. MaxEdits + 1 /\ 0 \in 0 .. MaxEdits + 1
    /\ \A g \in 1 .. MaxEdits + 1 :
         /\ g \in 0 .. MaxEdits + 1 /\ g \in Nat
         /\ g <= MaxEdits => g + 1 \in 1 .. MaxEdits + 1
  BY NodeClassAssumption

LEMMA IdleType == Idle \in Reconciliation /\ Idle.step = "idle"
  BY DEF Idle, Reconciliation

LEMMA NothingKnownType == NothingKnown \in Discovery
  BY DEF NothingKnown, Discovery

LEMMA TypeInit == Init => TypeOK
<1> SUFFICES ASSUME Init PROVE TypeOK
  OBVIOUS
<1>1. nc \in NodeClass
  BY Generations DEF Init, NodeClass
<1> QED BY <1>1, IdleType, NothingKnownType, NodeClassAssumption DEF Init, TypeOK

(* What a lookup leaves alone.                                             *)
LEMMA LookupsKeep ==
    ASSUME rec \in Reconciliation, LookupOS \/ LookupRegion \/ LookupPlan \/ LookupFails
    PROVE  /\ UNCHANGED <<nc, cache, claim, listed, create, outside>>
           /\ rec'.seen = rec.seen
           /\ rec.step \in {"os", "region", "plan"} /\ rec'.step \in {"region", "plan", "update"}
  BY DEF LookupOS, LookupRegion, LookupPlan, LookupFails, RegionKnown, PlansKnown, Verdict, Reconciliation

(* What is known of a region or of the catalogue is a set of plans.        *)
LEMMA KnownTypes ==
    ASSUME rec \in Reconciliation, NEW plans \in SUBSET Plans
    PROVE  RegionKnown(plans) \in Reconciliation /\ PlansKnown(plans) \in Reconciliation
<1>1. ASSUME NEW ready \in BOOLEAN, NEW resolved \in SUBSET Plans
      PROVE  Verdict(ready, resolved) \in Reconciliation
  BY DEF Verdict, Reconciliation
<1>2. (plans # {}) \in BOOLEAN /\ (rec.seen.spec.plan \in plans \cap rec.resolved) \in BOOLEAN
  OBVIOUS
<1>3. PlansKnown(plans) \in Reconciliation
  <2>1. rec.resolved \in SUBSET Plans
    BY DEF Reconciliation
  <2> QED BY <1>1, <1>2, <2>1 DEF PlansKnown
<1>4. [rec EXCEPT !.step = "plan", !.resolved = plans] \in Reconciliation
  BY DEF Reconciliation
<1> QED BY <1>1, <1>2, <1>3, <1>4 DEF RegionKnown

(* The plans found are those of a fresh entry, or those Vultr has now.     *)
LEMMA RefreshedType ==
    ASSUME NEW entry \in Entry \cup {None}, NEW present \in SUBSET Plans
    PROVE  /\ Refreshed(entry, present) \in Entry /\ Refreshed(entry, present).fresh
           /\ Refreshed(entry, present).plans = IF Fresh(entry) THEN entry.plans ELSE present
  BY DEF Refreshed, Fresh, Entry

LEMMA LookupTypes ==
    ASSUME TypeOK, rec.step # "idle", LookupOS \/ LookupRegion \/ LookupPlan \/ LookupFails
    PROVE  rec' \in Reconciliation /\ discovery' \in Discovery
<1>0. /\ rec \in Reconciliation /\ discovery \in Discovery /\ rec.seen.spec.region \in Regions
      /\ vultr.regions[rec.seen.spec.region] \in SUBSET Plans /\ vultr.plans \in SUBSET Plans
      /\ discovery.regions[rec.seen.spec.region] \in Entry \cup {None}
      /\ discovery.plans \in Entry \cup {None}
  <2>1. rec.seen.spec.region \in Regions
    BY NodeClassAssumption DEF TypeOK, NodeClass, Spec_
  <2> QED BY <2>1 DEF TypeOK, Market, Discovery
<1>1. CASE LookupOS
  BY <1>0, <1>1 DEF LookupOS, Verdict, Reconciliation
<1>2. CASE LookupRegion
  <2>1. PICK e \in Entry : /\ rec' = RegionKnown(e.plans)
                          /\ discovery' = [discovery EXCEPT !.regions[rec.seen.spec.region] = e]
    BY <1>0, <1>2, RefreshedType DEF LookupRegion
  <2>2. e.plans \in SUBSET Plans
    BY DEF Entry
  <2>3. discovery' \in Discovery
    BY <1>0, <2>1 DEF Discovery
  <2> QED BY <1>0, <2>1, <2>2, <2>3, KnownTypes
<1>3. CASE LookupPlan
  <2>1. PICK e \in Entry : /\ rec' = PlansKnown(e.plans)
                          /\ discovery' = [discovery EXCEPT !.plans = e]
    BY <1>0, <1>3, RefreshedType DEF LookupPlan
  <2>2. e.plans \in SUBSET Plans
    BY DEF Entry
  <2>3. discovery' \in Discovery
    BY <1>0, <2>1 DEF Discovery
  <2> QED BY <1>0, <2>1, <2>2, <2>3, KnownTypes
<1>4. CASE LookupFails
  <2>1. discovery' = discovery
    BY <1>4 DEF LookupFails
  <2>2. \A e \in Entry : e.plans \in SUBSET Plans
    BY DEF Entry
  <2>3. \/ rec' = Verdict(FALSE, {}) \/ rec' = Verdict(FALSE, rec.resolved)
        \/ \E e \in Entry : rec' = RegionKnown(e.plans) \/ rec' = PlansKnown(e.plans)
    BY <1>0, <1>4 DEF LookupFails
  <2>4. Verdict(FALSE, {}) \in Reconciliation /\ Verdict(FALSE, rec.resolved) \in Reconciliation
    BY <1>0 DEF Verdict, Reconciliation
  <2> QED BY <1>0, <2>1, <2>2, <2>3, <2>4, KnownTypes
<1> QED BY <1>1, <1>2, <1>3, <1>4

LEMMA TypeStep == TypeOK /\ [Next]_vars => TypeOK'
<1> SUFFICES ASSUME TypeOK, [Next]_vars PROVE TypeOK'
  OBVIOUS
<1>0. CASE UNCHANGED vars
  BY <1>0 DEF TypeOK, vars, outside
<1>1. ASSUME NEW s \in Specs, EditSpec(s) PROVE TypeOK'
  <2>1. nc' \in NodeClass
    <3>1. nc.gen + 1 \in 1 .. MaxEdits + 1
      BY <1>1, Generations DEF EditSpec, TypeOK, NodeClass
    <3> QED BY <1>1, <3>1 DEF EditSpec, TypeOK, NodeClass
  <2> QED BY <1>1, <2>1 DEF EditSpec, TypeOK, outside
<1>2. CASE DeleteNodeClass
  BY <1>2 DEF DeleteNodeClass, TypeOK, NodeClass, outside
<1>3. CASE VultrChanges \/ CalmsDown
  BY <1>3, NodeClassAssumption DEF VultrChanges, CalmsDown, TypeOK
<1>4. CASE ObserveNodeClass
  BY <1>4 DEF ObserveNodeClass, TypeOK, outside
<1>5. CASE Restart
  BY <1>5, IdleType, NothingKnownType DEF Restart, TypeOK, outside
<1>6. ASSUME NEW c \in Claims, ClaimStep(c) PROVE TypeOK'
  BY <1>6 DEF ClaimStep, NewClaim, RemoveClaim, ObserveClaim, BeginCreate, FinishCreate, FailCreate,
              TypeOK, outside
<1>7. CASE Reconcile
  BY <1>7 DEF Reconcile, Idle, Reconciliation, TypeOK, outside
<1>8. CASE Conflict \/ Fails
  BY <1>8, IdleType DEF Conflict, Fails, TypeOK, outside
<1>9. CASE EnsureFinalizer
  <2>1. rec.seen \in NodeClass
    BY <1>9 DEF EnsureFinalizer, TypeOK
  <2>2. [rec.seen EXCEPT !.finalizer = TRUE] \in NodeClass /\ nc' \in NodeClass
    BY <1>9, <2>1 DEF EnsureFinalizer, TypeOK, NodeClass
  <2>3. rec' = [rec EXCEPT !.seen = [rec.seen EXCEPT !.finalizer = TRUE]]
    BY <1>9 DEF EnsureFinalizer
  <2> QED BY <1>9, <2>2, <2>3 DEF EnsureFinalizer, TypeOK, Reconciliation, outside
<1>10. CASE SyncHash
  <2>1. rec.seen \in NodeClass
    BY <1>10 DEF SyncHash, AfterChecks, TypeOK
  <2>2. nc' \in NodeClass
    BY <1>10, <2>1 DEF SyncHash, AfterChecks, TypeOK, NodeClass
  <2>3. [rec.seen EXCEPT !.hashed = rec.seen.spec] \in NodeClass
    BY <2>1 DEF NodeClass
  <2>4. PICK known \in NodeClass, next \in {"update", "os", "region"} :
           rec' = [rec EXCEPT !.step = next, !.seen = known]
    BY <1>10, <2>1, <2>2, <2>3 DEF SyncHash, AfterChecks
  <2> QED BY <1>10, <2>2, <2>4 DEF SyncHash, AfterChecks, TypeOK, Reconciliation, outside
<1>11. CASE LookupOS \/ LookupRegion \/ LookupPlan \/ LookupFails
  <2>1. UNCHANGED <<nc, cache, claim, listed, create, outside>> /\ rec'.seen = rec.seen /\ rec.step # "idle"
    BY <1>11, LookupsKeep DEF TypeOK
  <2> QED BY <1>11, <2>1, LookupTypes DEF TypeOK, outside
<1>12. CASE UpdateStatus
  <2>1. Reported \in NodeClass
    <3>1. rec.seen \in NodeClass /\ rec.resolved \in SUBSET Plans
      BY <1>12 DEF UpdateStatus, TypeOK, Reconciliation
    <3>2. rec.seen.gen \in 0 .. MaxEdits + 1
      BY <3>1, Generations DEF NodeClass
    <3> QED BY <3>1, <3>2 DEF Reported, NodeClass
  <2> QED BY <1>12, <2>1, IdleType DEF UpdateStatus, TypeOK, outside
<1>13. CASE ListForFinalize
  BY <1>13, IdleType DEF ListForFinalize, TypeOK, Reconciliation, outside
<1>14. CASE Release
  <2>1. nc' \in NodeClass
    BY <1>14 DEF Release, TypeOK, NodeClass
  <2> QED BY <1>14, <2>1, IdleType DEF Release, TypeOK, outside
<1>15. ASSUME NEW r \in Regions, RegionExpires(r) PROVE TypeOK'
  <2>1. discovery.regions[r] \in Entry /\ discovery \in Discovery
    BY <1>15 DEF RegionExpires, Fresh, TypeOK, Discovery
  <2>2. [discovery.regions[r] EXCEPT !.fresh = FALSE] \in Entry
    BY <2>1 DEF Entry
  <2>3. discovery' \in Discovery
    BY <1>15, <2>1, <2>2 DEF RegionExpires, Discovery
  <2> QED BY <1>15, <2>3 DEF RegionExpires, TypeOK, outside
<1>16. CASE PlansExpire
  <2>1. discovery.plans \in Entry /\ discovery \in Discovery
    BY <1>16 DEF PlansExpire, Fresh, TypeOK, Discovery
  <2>2. [discovery.plans EXCEPT !.fresh = FALSE] \in Entry
    BY <2>1 DEF Entry
  <2>3. discovery' \in Discovery
    BY <1>16, <2>1, <2>2 DEF PlansExpire, Discovery
  <2> QED BY <1>16, <2>3 DEF PlansExpire, TypeOK, outside
<1> QED BY <1>0, <1>1, <1>2, <1>3, <1>4, <1>5, <1>6, <1>7, <1>8, <1>9, <1>10, <1>11, <1>12,
           <1>13, <1>14, <1>15, <1>16 DEF Next, Proceed, Handler

(* Every variable keeps to its type.                                       *)
THEOREM TypeCorrect == Spec => []TypeOK
  BY TypeInit, TypeStep, PTL DEF Spec

-----------------------------------------------------------------------------
LEMMA LifetimesInit == Init => Lifetimes
  BY DEF Init, Lifetimes, FinalizerHeld, CachesTrail, NothingLeftBehind, Untouched, Busy, Idle

LEMMA LifetimesStep == TypeOK /\ Lifetimes /\ [Next]_vars => Lifetimes'
<1> SUFFICES ASSUME TypeOK, Lifetimes, [Next]_vars PROVE Lifetimes'
  OBVIOUS
<1> USE DEF Lifetimes, FinalizerHeld, CachesTrail, NothingLeftBehind, Untouched, Busy
<1>0. CASE UNCHANGED vars
  BY <1>0 DEF vars, outside
<1>1. ASSUME NEW s \in Specs, EditSpec(s) PROVE Lifetimes'
  BY <1>1 DEF EditSpec, TypeOK, NodeClass
<1>2. CASE DeleteNodeClass
  BY <1>2 DEF DeleteNodeClass, TypeOK, NodeClass
<1>3. CASE VultrChanges \/ CalmsDown
  BY <1>3 DEF VultrChanges, CalmsDown
<1>4. CASE ObserveNodeClass
  BY <1>4 DEF ObserveNodeClass, TypeOK, NodeClass
<1>5. CASE Restart
  BY <1>5 DEF Restart, Idle, Exists
<1>6. ASSUME NEW c \in Claims, ClaimStep(c) PROVE Lifetimes'
  <2>1. CASE NewClaim(c)
    BY <2>1 DEF NewClaim, TypeOK
  <2>2. CASE RemoveClaim(c)
    BY <2>2 DEF RemoveClaim, TypeOK
  <2>3. CASE ObserveClaim(c)
    BY <2>3 DEF ObserveClaim, Exists, TypeOK
  <2>4. CASE BeginCreate(c)
    BY <2>4 DEF BeginCreate, TypeOK
  <2>5. CASE FinishCreate(c)
    BY <2>5 DEF FinishCreate, TypeOK
  <2>6. CASE FailCreate(c)
    BY <2>6 DEF FailCreate, TypeOK
  <2> QED BY <1>6, <2>1, <2>2, <2>3, <2>4, <2>5, <2>6 DEF ClaimStep
<1>7. CASE Reconcile
  BY <1>7 DEF Reconcile, Idle
<1>8. CASE Conflict \/ Fails
  BY <1>8 DEF Conflict, Fails, Idle
<1>9. CASE EnsureFinalizer
  <2>1. /\ rec'.step = rec.step /\ rec.step = "begun" /\ rec.seen \in NodeClass
        /\ rec'.seen = [rec.seen EXCEPT !.finalizer = TRUE]
        /\ UNCHANGED <<cache, claim, listed, create>>
    BY <1>9 DEF EnsureFinalizer, TypeOK, Reconciliation
  <2>2. nc'.phase = nc.phase /\ nc'.ready = nc.ready
    BY <1>9 DEF EnsureFinalizer, TypeOK, NodeClass
  <2>3. nc.phase # "removed" => nc'.finalizer
    BY <1>9 DEF EnsureFinalizer, TypeOK, NodeClass
  <2>4. rec'.seen.phase = rec.seen.phase
    BY <2>1 DEF NodeClass
  <2> QED BY <2>1, <2>2, <2>3, <2>4
<1>10. CASE SyncHash
  <2>1. /\ rec'.step \in {"update", "os", "region"} /\ rec.step = "begun" /\ rec.seen.finalizer
        /\ UNCHANGED <<cache, claim, listed, create>>
    BY <1>10 DEF SyncHash, AfterChecks, TypeOK, Reconciliation
  <2>2. nc'.phase = nc.phase /\ nc'.ready = nc.ready /\ nc'.finalizer = nc.finalizer
    BY <1>10 DEF SyncHash, AfterChecks, TypeOK, NodeClass
  <2>3. rec'.seen.phase # "removed"
    <3>1. rec.seen \in NodeClass /\ rec.seen.phase # "removed" /\ rec \in Reconciliation
      BY <2>1 DEF TypeOK
    <3>2. \/ rec'.seen \in {rec.seen, [rec.seen EXCEPT !.hashed = rec.seen.spec]}
          \/ rec'.seen = nc' /\ nc.phase # "removed"
      BY <1>10, <3>1 DEF SyncHash, Reconciliation
    <3> QED BY <2>2, <3>1, <3>2 DEF NodeClass
  <2> QED BY <2>1, <2>2, <2>3
<1>11. CASE LookupOS \/ LookupRegion \/ LookupPlan \/ LookupFails
  BY <1>11, LookupsKeep DEF TypeOK
<1>12. CASE UpdateStatus
  <2>1. /\ rec.step = "update" /\ rec'.step = "idle"
        /\ UNCHANGED <<cache, claim, listed, create>>
    BY <1>12 DEF UpdateStatus, Idle
  <2>2. nc'.phase = nc.phase /\ nc'.finalizer = nc.finalizer
    BY <1>12 DEF UpdateStatus, Locked, Reported, TypeOK, NodeClass
  <2>3. nc.phase = "removed" => nc' = nc
    BY <1>12, <2>1 DEF UpdateStatus, Locked
  <2> QED BY <2>1, <2>2, <2>3
<1>13. CASE ListForFinalize
  <2>1. /\ rec.step = "finalizing" /\ rec'.step \in {"idle", "releasing"}
        /\ rec'.step = "releasing" => listed = {} /\ rec'.seen = rec.seen
        /\ UNCHANGED <<nc, cache, claim, listed, create>>
    BY <1>13 DEF ListForFinalize, Idle, TypeOK, Reconciliation
  <2> QED BY <2>1
<1>14. CASE Release
  BY <1>14 DEF Release, Idle, TypeOK, NodeClass
<1>15. CASE (\E r \in Regions : RegionExpires(r)) \/ PlansExpire
  BY <1>15 DEF RegionExpires, PlansExpire
<1> QED BY <1>0, <1>1, <1>2, <1>3, <1>4, <1>5, <1>6, <1>7, <1>8, <1>9, <1>10, <1>11, <1>12,
           <1>13, <1>14, <1>15 DEF Next, Proceed, Handler

(* The finalizer holds a NodeClass for every NodeClaim that has, or is     *)
(* about to have, an instance, however many NodeClaims there are and       *)
(* however far the caches trail.  (finalize; CloudProvider.nodeClass)      *)
THEOREM FinalizerProtects == Spec => []NodeClassOutlivesInstances
<1>1. Lifetimes => NodeClassOutlivesInstances
  BY DEF Lifetimes, NothingLeftBehind, Untouched, Busy, NodeClassOutlivesInstances
<1>2. Init => TypeOK /\ Lifetimes
  BY TypeInit, LifetimesInit
<1>3. TypeOK /\ Lifetimes /\ [Next]_vars => (TypeOK /\ Lifetimes)'
  BY TypeStep, LifetimesStep
<1> QED BY <1>1, <1>2, <1>3, PTL DEF Spec

-----------------------------------------------------------------------------
ReadyInv == VerdictIsEarned /\ ReadyIsEarned

LEMMA ReadyInit == Init => ReadyInv
  BY DEF Init, ReadyInv, VerdictIsEarned, ReadyIsEarned, Earned, Idle

LEMMA ReadyStep == TypeOK /\ ReadyInv /\ [Next]_vars => ReadyInv'
<1> SUFFICES ASSUME TypeOK, ReadyInv, [Next]_vars PROVE ReadyInv'
  OBVIOUS
<1> USE DEF ReadyInv, VerdictIsEarned, ReadyIsEarned
<1>0. CASE UNCHANGED vars
  BY <1>0 DEF vars, outside, Earned
<1>1. ASSUME NEW s \in Specs, EditSpec(s) PROVE ReadyInv'
  <2>1. nc'.gen = nc.gen + 1 /\ nc'.observed = nc.observed /\ nc.gen \in Nat /\ nc.observed \in Nat
    BY <1>1, NodeClassAssumption DEF EditSpec, TypeOK, NodeClass
  <2>2. nc'.observed < nc'.gen
    BY <2>1
  <2>3. Earned(nc') /\ nc'.observed <= nc'.gen
    BY <2>1, <2>2 DEF Earned
  <2> QED BY <1>1, <2>3 DEF EditSpec, Earned
<1>2. CASE DeleteNodeClass
  BY <1>2 DEF DeleteNodeClass, TypeOK, NodeClass, Earned
<1>3. CASE VultrChanges \/ CalmsDown
  BY <1>3 DEF VultrChanges, CalmsDown, Earned
<1>4. CASE ObserveNodeClass
  BY <1>4 DEF ObserveNodeClass, Earned
<1>5. CASE Restart
  BY <1>5 DEF Restart, Idle, Earned
<1>6. ASSUME NEW c \in Claims, ClaimStep(c) PROVE ReadyInv'
  <2>1. nc' = nc /\ cache' = cache /\ rec' = rec
    BY <1>6 DEF ClaimStep, NewClaim, RemoveClaim, ObserveClaim, BeginCreate, FinishCreate, FailCreate
  <2> QED BY <2>1 DEF Earned
<1>7. CASE Reconcile
  BY <1>7 DEF Reconcile, Idle, Earned
<1>8. CASE Conflict \/ Fails
  BY <1>8 DEF Conflict, Fails, Idle, Earned
<1>9. CASE EnsureFinalizer
  <2>1. /\ rec.step = "begun" /\ rec'.step = "begun" /\ rec'.ready = rec.ready
        /\ cache' = cache
    BY <1>9 DEF EnsureFinalizer, TypeOK, Reconciliation
  <2>2. /\ nc'.ready = nc.ready /\ nc'.observed = nc.observed /\ nc'.gen = nc.gen
        /\ nc'.spec = nc.spec /\ nc'.resolved = nc.resolved
    BY <1>9 DEF EnsureFinalizer, TypeOK, NodeClass
  <2> QED BY <2>1, <2>2 DEF Earned
<1>10. CASE SyncHash
  <2>1. /\ cache' = cache
        /\ rec.step = "begun" /\ rec'.ready = rec.ready
        /\ rec'.step \in {"update", "os", "region"}
        /\ rec'.step = "update" => ~rec'.seen.spec.sound
        /\ rec'.step # "update" => rec'.seen.spec.sound
    BY <1>10 DEF SyncHash, AfterChecks, TypeOK, Reconciliation
  <2>2. /\ nc'.ready = nc.ready /\ nc'.observed = nc.observed /\ nc'.gen = nc.gen
        /\ nc'.spec = nc.spec /\ nc'.resolved = nc.resolved
    BY <1>10 DEF SyncHash, AfterChecks, TypeOK, NodeClass
  <2> QED BY <2>1, <2>2 DEF Earned
<1>11. CASE LookupOS \/ LookupRegion \/ LookupPlan \/ LookupFails
  <2>1. UNCHANGED <<nc, cache>> /\ rec'.seen = rec.seen /\ rec \in Reconciliation
    BY <1>11, LookupsKeep DEF TypeOK
  <2>2. VerdictIsEarned'
    <3>1. CASE rec.step = "region" /\ \E plans : rec' = RegionKnown(plans)
      <4>1. PICK plans : rec' = RegionKnown(plans)
        BY <3>1
      <4>2. CASE plans # {} /\ rec.seen.spec.plan # None
        BY <2>1, <3>1, <4>1, <4>2 DEF RegionKnown, Reconciliation
      <4>3. CASE ~(plans # {} /\ rec.seen.spec.plan # None)
        BY <2>1, <3>1, <4>1, <4>3 DEF RegionKnown, Verdict, Reconciliation
      <4> QED BY <4>2, <4>3
    <3>2. CASE rec.step = "plan" /\ \E plans : rec' = PlansKnown(plans)
      BY <2>1, <3>2 DEF PlansKnown, Verdict, Reconciliation
    <3>3. CASE rec.step = "os" /\ rec' = [rec EXCEPT !.step = "region"]
      BY <2>1, <3>3 DEF Reconciliation
    <3>4. CASE \E resolved : rec' = Verdict(FALSE, resolved)
      BY <2>1, <3>4 DEF Verdict, Reconciliation
    <3> QED BY <1>11, <3>1, <3>2, <3>3, <3>4 DEF LookupOS, LookupRegion, LookupPlan, LookupFails
  <2> QED BY <2>1, <2>2 DEF Earned
<1>12. CASE UpdateStatus
  <2>1. rec'.step = "idle" /\ cache' = cache
    BY <1>12 DEF UpdateStatus, Idle
  <2>2. CASE nc' = nc
    BY <2>1, <2>2 DEF Earned
  <2>3. CASE nc' = Reported
    <3>1. /\ nc'.ready = "True" => rec.ready
          /\ nc'.observed = rec.seen.gen /\ nc'.gen = rec.seen.gen
          /\ nc'.spec = rec.seen.spec /\ nc'.resolved = rec.resolved /\ rec.seen.gen \in Nat
      <4>1. rec.seen \in NodeClass
        BY <1>12 DEF UpdateStatus, TypeOK
      <4> QED BY <2>3, <4>1, Generations DEF Reported, NodeClass
    <3>2. Earned(nc') /\ nc'.observed <= nc'.gen
      BY <1>12, <3>1 DEF UpdateStatus, Earned
    <3> QED BY <2>1, <3>2 DEF Earned
  <2> QED BY <1>12, <2>2, <2>3 DEF UpdateStatus
<1>13. CASE ListForFinalize
  BY <1>13 DEF ListForFinalize, Idle, TypeOK, Reconciliation, Earned
<1>14. CASE Release
  BY <1>14 DEF Release, Idle, TypeOK, NodeClass, Earned
<1>15. CASE (\E r \in Regions : RegionExpires(r)) \/ PlansExpire
  BY <1>15 DEF RegionExpires, PlansExpire, Earned
<1> QED BY <1>0, <1>1, <1>2, <1>3, <1>4, <1>5, <1>6, <1>7, <1>8, <1>9, <1>10, <1>11, <1>12,
           <1>13, <1>14, <1>15 DEF Next, Proceed, Handler

(* A Ready condition that is current was earned by the current spec,       *)
(* wherever it is read and whatever was edited during the lookups.         *)
(* (Reconcile)                                                             *)
THEOREM ReadyIsCurrent == Spec => []ReadyIsEarned
<1>1. Init => TypeOK /\ ReadyInv
  BY TypeInit, ReadyInit
<1>2. TypeOK /\ ReadyInv /\ [Next]_vars => (TypeOK /\ ReadyInv)'
  BY TypeStep, ReadyStep
<1>3. ReadyInv => ReadyIsEarned
  BY DEF ReadyInv
<1> QED BY <1>1, <1>2, <1>3, PTL DEF Spec

-----------------------------------------------------------------------------
(* Another copy of the NodeClass, up to finalizer and hash.                *)
Agrees(class) ==
    /\ class.phase = nc.phase /\ class.gen = nc.gen /\ class.spec = nc.spec
    /\ class.ready = nc.ready /\ class.observed = nc.observed /\ class.resolved = nc.resolved

Looked(class) == class.spec.sound /\ (class.spec.os => vultr.image)

Offered == vultr.regions[nc.spec.region]

(* Why a right status stays: the handler is on its way to the verdict that *)
(* the status already has.                                                 *)
Undisturbed ==
    /\ calm /\ nc.phase = "live" /\ Right /\ Agrees(cache) /\ DiscoveryCurrent
    /\ rec.step \notin {"finalizing", "releasing"}
    /\ rec.step # "idle" => Agrees(rec.seen)
    /\ rec.step \in {"begun", "os", "region"} => rec.resolved = {} /\ ~rec.ready
    /\ rec.step = "os" => rec.seen.spec.sound /\ rec.seen.spec.os
    /\ rec.step = "region" => Looked(rec.seen)
    /\ rec.step = "plan" =>
         /\ Looked(rec.seen) /\ Offered # {} /\ rec.seen.spec.plan # None
         /\ rec.resolved = Offered
    /\ rec.step = "update" => rec.resolved = nc.resolved /\ (rec.ready <=> nc.ready = "True")

(* A lookup with such a cache finds what Vultr offers, and leaves such a   *)
(* cache behind.                                                           *)
LEMMA RegionAnswer ==
    ASSUME TypeOK, DiscoveryCurrent, UNCHANGED vultr, NEW r \in Regions,
           discovery' = [discovery EXCEPT !.regions[r] = Refreshed(discovery.regions[r], vultr.regions[r])]
    PROVE  /\ Refreshed(discovery.regions[r], vultr.regions[r]).plans = vultr.regions[r]
           /\ DiscoveryCurrent'
<1>0. /\ discovery \in Discovery /\ vultr.regions[r] \in SUBSET Plans
      /\ discovery.regions[r] \in Entry \cup {None}
  BY DEF TypeOK, Market, Discovery
<1>1. Refreshed(discovery.regions[r], vultr.regions[r]).plans = vultr.regions[r]
  BY <1>0, RefreshedType DEF DiscoveryCurrent
<1>2. /\ discovery'.plans = discovery.plans
      /\ \A s \in Regions : discovery'.regions[s] =
           IF s = r THEN Refreshed(discovery.regions[r], vultr.regions[r]) ELSE discovery.regions[s]
  BY <1>0 DEF Discovery
<1> QED BY <1>1, <1>2 DEF DiscoveryCurrent, Fresh

LEMMA CatalogueAnswer ==
    ASSUME TypeOK, DiscoveryCurrent, UNCHANGED vultr,
           discovery' = [discovery EXCEPT !.plans = Refreshed(discovery.plans, vultr.plans)]
    PROVE  Refreshed(discovery.plans, vultr.plans).plans = vultr.plans /\ DiscoveryCurrent'
<1>0. /\ discovery \in Discovery /\ vultr.plans \in SUBSET Plans
      /\ discovery.plans \in Entry \cup {None}
  BY DEF TypeOK, Market, Discovery
<1>1. Refreshed(discovery.plans, vultr.plans).plans = vultr.plans
  BY <1>0, RefreshedType DEF DiscoveryCurrent
<1>2. /\ discovery'.plans = Refreshed(discovery.plans, vultr.plans)
      /\ discovery'.regions = discovery.regions
  BY <1>0 DEF Discovery
<1> QED BY <1>1, <1>2 DEF DiscoveryCurrent, Fresh

(* Time makes no entry fresh.                                              *)
LEMMA ExpiryKeepsCurrent ==
    ASSUME TypeOK, DiscoveryCurrent, (\E r \in Regions : RegionExpires(r)) \/ PlansExpire
    PROVE  DiscoveryCurrent'
<1>0. discovery \in Discovery
  BY DEF TypeOK
<1>1. ASSUME NEW r \in Regions, RegionExpires(r) PROVE DiscoveryCurrent'
  <2>1. discovery.regions[r] \in Entry
    BY <1>0, <1>1 DEF RegionExpires, Fresh, Discovery
  <2>2. /\ discovery'.plans = discovery.plans
        /\ \A s \in Regions \ {r} : discovery'.regions[s] = discovery.regions[s]
        /\ discovery'.regions[r] = [discovery.regions[r] EXCEPT !.fresh = FALSE]
    BY <1>0, <1>1 DEF RegionExpires, Discovery
  <2>3. ~discovery'.regions[r].fresh /\ UNCHANGED vultr
    BY <1>1, <2>1, <2>2 DEF RegionExpires, outside, Entry
  <2> QED BY <2>2, <2>3 DEF DiscoveryCurrent, Fresh
<1>2. CASE PlansExpire
  <2>1. discovery.plans \in Entry
    BY <1>0, <1>2 DEF PlansExpire, Fresh, Discovery
  <2>2. /\ discovery'.regions = discovery.regions
        /\ discovery'.plans = [discovery.plans EXCEPT !.fresh = FALSE]
    BY <1>0, <1>2 DEF PlansExpire, Discovery
  <2>3. ~discovery'.plans.fresh /\ UNCHANGED vultr
    BY <1>2, <2>1, <2>2 DEF PlansExpire, outside, Entry
  <2> QED BY <2>2, <2>3 DEF DiscoveryCurrent, Fresh
<1> QED BY <1>1, <1>2

(* Right is about the fields that Agrees compares.                         *)
LEMMA RightIsKept ==
    ASSUME Right, UNCHANGED vultr,
           nc'.gen = nc.gen, nc'.spec = nc.spec, nc'.observed = nc.observed,
           nc'.ready = nc.ready, nc'.resolved = nc.resolved
    PROVE  Right'
  BY DEF Right

LEMMA DiscoveryIsKept ==
    ASSUME DiscoveryCurrent, UNCHANGED <<vultr, discovery>>
    PROVE  DiscoveryCurrent'
  BY DEF DiscoveryCurrent, Fresh

LEMMA UndisturbedStep == TypeOK /\ Undisturbed /\ [Next]_vars => Undisturbed'
<1> SUFFICES ASSUME TypeOK, Undisturbed, [Next]_vars PROVE Undisturbed'
  OBVIOUS
<1>a. /\ calm /\ nc.phase = "live" /\ Right /\ Agrees(cache) /\ DiscoveryCurrent
      /\ rec.step # "idle" => Agrees(rec.seen)
  BY DEF Undisturbed
<1>0. CASE UNCHANGED vars
  BY <1>0 DEF vars, outside, Undisturbed, Agrees, Looked, Offered, DiscoveryCurrent, Fresh, Right
<1>1. ASSUME \/ \E s \in Specs : EditSpec(s)
             \/ DeleteNodeClass \/ VultrChanges \/ CalmsDown \/ Restart \/ Fails \/ LookupFails
      PROVE  FALSE
  BY <1>1, <1>a DEF EditSpec, DeleteNodeClass, VultrChanges, CalmsDown, Restart, Fails, LookupFails
<1>2. CASE ObserveNodeClass
  <2>1. UNCHANGED <<nc, rec, vultr, calm, discovery>> /\ cache' \in {nc, cache}
    BY <1>2 DEF ObserveNodeClass, outside
  <2>2. Agrees(cache)' /\ Right' /\ DiscoveryCurrent'
    BY <1>a, <2>1, RightIsKept, DiscoveryIsKept DEF Agrees
  <2> QED BY <2>1, <2>2 DEF Undisturbed, Agrees, Looked, Offered
<1>3. ASSUME NEW c \in Claims, ClaimStep(c) PROVE Undisturbed'
  <2>1. UNCHANGED <<nc, cache, rec, vultr, calm, discovery>>
    BY <1>3 DEF ClaimStep, NewClaim, RemoveClaim, ObserveClaim, BeginCreate, FinishCreate,
                FailCreate, outside
  <2>2. Right' /\ DiscoveryCurrent'
    BY <1>a, <2>1, RightIsKept, DiscoveryIsKept
  <2> QED BY <2>1, <2>2 DEF Undisturbed, Agrees, Looked, Offered
<1>4. CASE Reconcile
  <2>1. UNCHANGED <<nc, cache, vultr, calm, discovery>>
    BY <1>4 DEF Reconcile, outside
  <2>2. rec' = [step |-> "begun", seen |-> cache, ready |-> FALSE, resolved |-> {}]
    BY <1>4, <1>a DEF Reconcile, Idle, Agrees
  <2>3. Right' /\ DiscoveryCurrent'
    BY <1>a, <2>1, RightIsKept, DiscoveryIsKept
  <2> QED BY <1>a, <2>1, <2>2, <2>3 DEF Undisturbed, Agrees
<1>5. CASE Conflict
  <2>1. UNCHANGED <<nc, cache, vultr, calm, discovery>> /\ rec'.step = "idle"
    BY <1>5 DEF Conflict, Idle, outside
  <2>2. Right' /\ DiscoveryCurrent'
    BY <1>a, <2>1, RightIsKept, DiscoveryIsKept
  <2> QED BY <1>a, <2>1, <2>2 DEF Undisturbed, Agrees
<1>6. CASE EnsureFinalizer
  <2>1. /\ nc'.phase = nc.phase /\ nc'.gen = nc.gen /\ nc'.spec = nc.spec
        /\ nc'.ready = nc.ready /\ nc'.observed = nc.observed /\ nc'.resolved = nc.resolved
    BY <1>6 DEF EnsureFinalizer, TypeOK, NodeClass
  <2>2. /\ rec.step = "begun" /\ rec'.step = "begun" /\ rec'.ready = rec.ready
        /\ rec'.resolved = rec.resolved /\ UNCHANGED <<cache, vultr, calm, discovery>>
        /\ rec.seen \in NodeClass /\ rec'.seen = [rec.seen EXCEPT !.finalizer = TRUE]
    BY <1>6 DEF EnsureFinalizer, TypeOK, Reconciliation, outside
  <2>3. Agrees(rec.seen)' /\ Agrees(cache)'
    BY <1>a, <2>1, <2>2 DEF Agrees, NodeClass
  <2>4. Right' /\ DiscoveryCurrent'
    BY <1>a, <2>1, <2>2, RightIsKept, DiscoveryIsKept
  <2> QED BY <1>a, <2>1, <2>2, <2>3, <2>4 DEF Undisturbed
<1>7. CASE SyncHash
  <2>1. /\ nc'.phase = nc.phase /\ nc'.gen = nc.gen /\ nc'.spec = nc.spec
        /\ nc'.ready = nc.ready /\ nc'.observed = nc.observed /\ nc'.resolved = nc.resolved
    BY <1>7 DEF SyncHash, AfterChecks, TypeOK, NodeClass
  <2>2. PICK known \in {rec.seen, nc'} : rec' = [rec EXCEPT !.step = AfterChecks(known.spec), !.seen = known]
    BY <1>7, <1>a DEF SyncHash
  <2>3. rec.step = "begun" /\ UNCHANGED <<cache, vultr, calm, discovery>>
    BY <1>7 DEF SyncHash, outside
  <2>4. /\ rec'.step = AfterChecks(nc.spec) /\ rec'.ready = rec.ready
        /\ rec'.resolved = rec.resolved /\ rec'.seen = known
    BY <1>a, <2>1, <2>2, <2>3 DEF Agrees, TypeOK, Reconciliation
  <2>5. Agrees(rec.seen)' /\ Agrees(cache)'
    BY <1>a, <2>1, <2>3, <2>4 DEF Agrees
  <2>6. Right' /\ DiscoveryCurrent'
    BY <1>a, <2>1, <2>3, RightIsKept, DiscoveryIsKept
  <2>7. rec.resolved = {} /\ ~rec.ready
    BY <2>3 DEF Undisturbed
  <2>8. ~nc.spec.sound => nc.resolved = {} /\ nc.ready = "False"
    BY <1>a DEF Right
  <2> QED BY <1>a, <2>1, <2>3, <2>4, <2>5, <2>6, <2>7, <2>8 DEF Undisturbed, AfterChecks, Agrees, Looked
<1>8. CASE LookupOS \/ LookupRegion \/ LookupPlan
  <2>1. /\ UNCHANGED <<nc, cache, vultr, calm>> /\ rec'.seen = rec.seen /\ rec.step # "idle"
        /\ rec \in Reconciliation /\ nc.spec.region \in Regions
    <3>1. nc.spec \in Spec_
      BY NodeClassAssumption DEF TypeOK, NodeClass
    <3> QED BY <1>8, <3>1, LookupsKeep DEF TypeOK, outside, Spec_
  <2>2. Right' /\ Agrees(rec.seen)' /\ Agrees(cache)' /\ rec.seen.spec = nc.spec
    BY <1>a, <2>1, RightIsKept DEF Agrees
  <2>3. CASE LookupOS
    <3>1. DiscoveryCurrent' /\ rec.step = "os"
      BY <1>a, <2>1, <2>3 DEF LookupOS, DiscoveryCurrent, Fresh
    <3>2. CASE vultr.image
      <4>1. rec'.step = "region" /\ rec'.resolved = rec.resolved /\ rec'.ready = rec.ready
        BY <2>1, <2>3, <3>2 DEF LookupOS, Reconciliation
      <4> QED BY <1>a, <2>1, <2>2, <3>1, <3>2, <4>1 DEF Undisturbed, Looked
    <3>3. CASE ~vultr.image
      <4>1. rec'.step = "update" /\ rec'.resolved = {} /\ rec'.ready = FALSE
        BY <2>1, <2>3, <3>3 DEF LookupOS, Verdict, Reconciliation
      <4>2. nc.resolved = {} /\ nc.ready = "False"
        BY <1>a, <2>2, <3>1, <3>3 DEF Undisturbed, Right
      <4> QED BY <1>a, <2>1, <2>2, <3>1, <4>1, <4>2 DEF Undisturbed
    <3> QED BY <3>2, <3>3
  <2>4. CASE LookupRegion
    <3>1. rec.step = "region" /\ Looked(nc) /\ DiscoveryCurrent' /\ rec' = RegionKnown(Offered)
      BY <1>a, <2>1, <2>2, <2>4, RegionAnswer DEF LookupRegion, Undisturbed, Looked, Offered
    <3>2. CASE Offered # {} /\ nc.spec.plan # None
      <4>1. rec'.step = "plan" /\ rec'.resolved = Offered
        BY <2>1, <2>2, <3>1, <3>2 DEF RegionKnown, Reconciliation
      <4> QED BY <1>a, <2>1, <2>2, <3>1, <3>2, <4>1 DEF Undisturbed, Looked, Offered
    <3>3. CASE ~(Offered # {} /\ nc.spec.plan # None)
      <4>1. rec'.step = "update" /\ rec'.resolved = Offered /\ (rec'.ready <=> Offered # {})
        BY <2>1, <2>2, <3>1, <3>3 DEF RegionKnown, Verdict, Reconciliation
      <4>2. nc.resolved = Offered /\ (nc.ready = "True" <=> Offered # {})
        BY <1>a, <3>1, <3>3 DEF Right, Looked, Offered
      <4> QED BY <1>a, <2>1, <2>2, <3>1, <4>1, <4>2 DEF Undisturbed
    <3> QED BY <3>2, <3>3
  <2>5. CASE LookupPlan
    <3>1. /\ rec.step = "plan" /\ Looked(nc) /\ Offered # {} /\ nc.spec.plan # None
          /\ rec.resolved = Offered
      BY <2>2, <2>5 DEF LookupPlan, Undisturbed, Looked
    <3>2. DiscoveryCurrent' /\ rec' = PlansKnown(vultr.plans)
      BY <1>a, <2>1, <2>5, CatalogueAnswer DEF LookupPlan
    <3>3. /\ rec'.step = "update" /\ rec'.resolved = Offered
          /\ rec'.ready <=> nc.spec.plan \in vultr.plans \cap Offered
      BY <2>1, <2>2, <3>1, <3>2 DEF PlansKnown, Verdict, Reconciliation
    <3>4. nc.resolved = Offered /\ (nc.ready = "True" <=> nc.spec.plan \in vultr.plans \cap Offered)
      BY <1>a, <3>1 DEF Right, Looked, Offered
    <3> QED BY <1>a, <2>1, <2>2, <3>2, <3>3, <3>4 DEF Undisturbed
  <2> QED BY <1>8, <2>3, <2>4, <2>5
<1>9. CASE UpdateStatus
  <2>1. /\ rec.step = "update" /\ rec'.step = "idle" /\ UNCHANGED <<cache, vultr, calm, discovery>>
        /\ nc' = nc \/ nc' = Reported
    BY <1>9 DEF UpdateStatus, Idle, outside
  <2>2. /\ nc'.phase = nc.phase /\ nc'.gen = nc.gen /\ nc'.spec = nc.spec
        /\ nc'.ready = nc.ready /\ nc'.observed = nc.observed /\ nc'.resolved = nc.resolved
    <3>1. CASE nc' = nc
      BY <3>1
    <3>2. CASE nc' = Reported
      <4>1. rec.seen \in NodeClass /\ Agrees(rec.seen)
        BY <1>a, <2>1 DEF TypeOK
      <4>2. rec.resolved = nc.resolved /\ (rec.ready <=> nc.ready = "True")
        BY <2>1 DEF Undisturbed
      <4>3. nc.ready \in {"True", "False"} /\ nc.observed = nc.gen
        BY <1>a DEF Right
      <4> QED BY <3>2, <4>1, <4>2, <4>3 DEF Reported, NodeClass, Agrees
    <3> QED BY <2>1, <3>1, <3>2
  <2>3. Right' /\ Agrees(cache)' /\ DiscoveryCurrent'
    BY <1>a, <2>1, <2>2, RightIsKept, DiscoveryIsKept DEF Agrees
  <2> QED BY <1>a, <2>1, <2>2, <2>3 DEF Undisturbed
<1>10. ASSUME ListForFinalize \/ Release PROVE FALSE
  BY <1>10 DEF ListForFinalize, Release, Undisturbed
<1>11. CASE (\E r \in Regions : RegionExpires(r)) \/ PlansExpire
  <2>1. UNCHANGED <<nc, cache, rec, vultr, calm>>
    BY <1>11 DEF RegionExpires, PlansExpire, outside
  <2>2. Right' /\ DiscoveryCurrent'
    BY <1>a, <1>11, <2>1, RightIsKept, ExpiryKeepsCurrent
  <2> QED BY <2>1, <2>2 DEF Undisturbed, Agrees, Looked, Offered
<1> QED BY <1>0, <1>1, <1>2, <1>3, <1>4, <1>5, <1>6, <1>7, <1>8, <1>9, <1>10, <1>11 DEF Next, Proceed, Handler

(* A status that is right once the disturbances are over and nothing is    *)
(* going on stays right, whatever the reconciliations that follow write    *)
(* and however the cache trails: the half of StatusConverges that needs no *)
(* fairness.  (Reconcile)                                                  *)
THEOREM StatusHolds == Spec => StatusStays
<1>1. TypeOK /\ AtRest => Undisturbed
  BY DEF AtRest, Undisturbed, Agrees
<1>2. Undisturbed => Right
  BY DEF Undisturbed
<1>3. TypeOK /\ Undisturbed /\ [Next]_vars => Undisturbed'
  BY UndisturbedStep
<1> QED BY <1>1, <1>2, <1>3, TypeCorrect, PTL DEF Spec, StatusStays

=============================================================================
