---------------------- MODULE InstanceLifecycle_proofs ----------------------
(***************************************************************************)
(* Proofs about InstanceLifecycle, for any number of clusters, NodeClaims  *)
(* and instances and any timing that satisfies the assumption Timing.      *)
(***************************************************************************)
EXTENDS InstanceLifecycle, TLAPS

(* Foreign instances are left alone; every other one that was ever asked   *)
(* for carries the tags of a NodeClaim that exists or existed.             *)
TagsTellTheOwner ==
    \A i \in Instances :
      /\ i \in Foreign => inst[i].state = "active" /\ inst[i].tags \in ForeignTags
      /\ i \notin Foreign /\ inst[i].state # "unused" =>
           \E c \in Claims : OwnedBy(i, c) /\ claim[c] # "absent"

(* What a provider call in progress knows.                                 *)
CallsFollowClaims ==
    \A c \in Claims :
      /\ call[c].step # "idle" => Exists(c)
      /\ call[c].step \in {"creating", "created"} =>
           /\ providerID[c] = NoInstance
           /\ call[c].inst \in Instances \ Foreign
           /\ inst[call[c].inst].state # "unused"
           /\ OwnedBy(call[c].inst, c)
      /\ call[c].step = "created" => Started(call[c].inst)
      /\ call[c].step \in {"deleting", "confirm", "released"} =>
           claim[c] = "terminating" /\ providerID[c] # NoInstance
      /\ call[c].step = "released" => inst[providerID[c]].state = "gone"

(* A recorded instance is one that was created for the NodeClaim.          *)
RecordsAreOwn ==
    \A c \in Claims :
      providerID[c] # NoInstance =>
        /\ providerID[c] \in Instances \ Foreign
        /\ claim[c] # "absent"
        /\ Started(providerID[c])
        /\ OwnedBy(providerID[c], c)

(* An instance looks at most MaxSkew older than its NodeClaim, unless the  *)
(* NodeClaim is old enough for the cache to have it.                       *)
ClaimsAreOlder ==
    \A i \in Instances, c \in Claims :
      i \notin Foreign /\ Started(i) /\ OwnedBy(i, c) /\ Exists(c) =>
        claimAge[c] = MaxLag \/ inst[i].age <= claimAge[c] + MaxSkew

(* The scan holds instances that have run at some time.                    *)
ScansHoldStarted ==
    \A k \in Clusters :
      /\ \A i \in scan[k].todo : Started(i)
      /\ scan[k].target # NoInstance => Started(scan[k].target)

IInv ==
    /\ TypeOK
    /\ TagsTellTheOwner
    /\ CallsFollowClaims
    /\ RecordsAreOwn
    /\ ReleasedOnlyWhenGone
    /\ ClaimsAreOlder
    /\ ScansHoldStarted
    /\ CondemnedOnlyOrphans

-----------------------------------------------------------------------------
LEMMA LeadingValuesOfClaimTags ==
    ASSUME NEW c \in Claims
    PROVE  /\ LeadingValues(ClaimTags(c), TagClusterPrefix) = {c[1]}
           /\ LeadingValues(ClaimTags(c), TagNodeClaimPrefix) = {c[2]}
<1> DEFINE tags == ClaimTags(c)
<1>1. /\ DOMAIN tags = 1 .. 4
      /\ tags[1] = Tag(TagClusterPrefix, c[1]) /\ tags[2] = Tag(TagNodeClaimPrefix, c[2])
      /\ tags[3] = Tag(TagNodePoolPrefix, Pool) /\ tags[4] = Tag(TagNodeClassPrefix, Class)
  BY DEF ClaimTags, InstanceTags
<1> HIDE DEF tags
<1>2. /\ tags[1].prefix = TagClusterPrefix /\ tags[1].value = c[1]
      /\ tags[2].prefix = TagNodeClaimPrefix /\ tags[2].value = c[2]
      /\ tags[3].prefix = TagNodePoolPrefix /\ tags[4].prefix = TagNodeClassPrefix
  BY <1>1 DEF Tag
<1>3. /\ TagClusterPrefix # TagNodeClaimPrefix
      /\ TagClusterPrefix # TagNodePoolPrefix /\ TagClusterPrefix # TagNodeClassPrefix
      /\ TagNodeClaimPrefix # TagNodePoolPrefix /\ TagNodeClaimPrefix # TagNodeClassPrefix
  BY DEF TagClusterPrefix, TagNodeClaimPrefix, TagNodePoolPrefix, TagNodeClassPrefix
<1>4. LeadingValues(tags, TagClusterPrefix) = {c[1]}
  BY <1>1, <1>2, <1>3 DEF LeadingValues
<1>5. LeadingValues(tags, TagNodeClaimPrefix) = {c[2]}
  BY <1>1, <1>2, <1>3 DEF LeadingValues
<1> QED BY <1>4, <1>5 DEF tags

(* The tag round trip of tags.go: an instance tagged for a NodeClaim of    *)
(* one cluster reads back as that NodeClaim's there, unless the cluster's  *)
(* name has whitespace in it, and as nobody's elsewhere.                   *)
THEOREM ClaimTagsReadBack ==
    ASSUME NEW c \in Claims, NEW k \in Clusters
    PROVE  NodeClaimName(ClaimTags(c), k) = IF k = c[1] /\ k \notin Spaced THEN c[2] ELSE NoValue
<1>1. c[1] \in Clusters /\ c[2] \in Names
  BY DEF Claims
<1>2. c[1] # NoValue /\ c[1] # Empty /\ c[2] # NoValue /\ c[2] # Empty /\ c[2] \notin Spaced
  BY <1>1, Values
<1>3. TagValue(ClaimTags(c), TagNodeClaimPrefix) = c[2]
  BY <1>2, LeadingValuesOfClaimTags DEF TagValue
<1>4. TagValue(ClaimTags(c), TagClusterPrefix) = IF c[1] \in Spaced THEN NoValue ELSE c[1]
  BY <1>2, LeadingValuesOfClaimTags DEF TagValue
<1> QED BY <1>2, <1>3, <1>4 DEF NodeClaimName

(* Tags that name none of our clusters first, or no NodeClaim, read back   *)
(* as nobody's in every cluster.  (tags.go, NodeClaimName)                 *)
THEOREM ForeignTagsNeverRead ==
    ASSUME NEW tags \in ForeignTags, NEW k \in Clusters
    PROVE  NodeClaimName(tags, k) = NoValue
<1>1. SomebodyElses(tags)
  BY Account
<1>2. CASE \A j \in Clusters : j \notin LeadingValues(tags, TagClusterPrefix)
  <2>1. TagValue(tags, TagClusterPrefix) \in LeadingValues(tags, TagClusterPrefix) \cup {NoValue}
    BY DEF TagValue
  <2>2. TagValue(tags, TagClusterPrefix) # k \/ k = NoValue
    BY <1>2, <2>1
  <2> QED BY <2>2, Values DEF NodeClaimName
<1>3. CASE \A n \in DOMAIN tags : tags[n].prefix # TagNodeClaimPrefix
  <2>1. LeadingValues(tags, TagNodeClaimPrefix) = {}
    BY <1>3 DEF LeadingValues
  <2>2. TagValue(tags, TagNodeClaimPrefix) = NoValue
    BY <2>1 DEF TagValue
  <2> QED BY <2>2 DEF NodeClaimName
<1> QED BY <1>1, <1>2, <1>3 DEF SomebodyElses

LEMMA ClaimTagsInjective ==
    ASSUME NEW c \in Claims, NEW d \in Claims, ClaimTags(c) = ClaimTags(d)
    PROVE  c = d
<1>1. c[1] = d[1] /\ c[2] = d[2]
  BY LeadingValuesOfClaimTags
<1> QED BY <1>1 DEF Claims

-----------------------------------------------------------------------------
LEMMA ClaimTagsAreNotForeign ==
    ASSUME NEW c \in Claims
    PROVE  ClaimTags(c) \notin ForeignTags
<1> SUFFICES ASSUME SomebodyElses(ClaimTags(c)) PROVE FALSE
  BY Account
<1>1. c[1] \in Clusters /\ c[1] \in LeadingValues(ClaimTags(c), TagClusterPrefix)
  BY LeadingValuesOfClaimTags DEF Claims
<1>2. LeadingValues(ClaimTags(c), TagNodeClaimPrefix) # {}
  BY LeadingValuesOfClaimTags
<1> QED BY <1>1, <1>2 DEF SomebodyElses, LeadingValues

(* Where the grace period does its work: an eligible instance that the     *)
(* lookup may miss belongs to a NodeClaim that is really gone.             *)
LEMMA CondemnedIsOrphan ==
    ASSUME IInv, NEW k \in Clusters, NEW i \in Instances, CondemnInstance(k, i)
    PROVE  \E n \in Names : inst[i].tags = ClaimTags(<<k, n>>) /\ claim[<<k, n>>] = "gone"
<1>1. i \in scan[k].todo /\ NodeClaimName(inst[i].tags, k) # NoValue /\ inst[i].age >= Grace
  BY DEF CondemnInstance, AtInstance, Eligible
<1>2. Started(i)
  BY <1>1 DEF IInv, ScansHoldStarted
<1>3. i \notin Foreign
  BY <1>1, ForeignTagsNeverRead DEF IInv, TagsTellTheOwner
<1>4. PICK c \in Claims : OwnedBy(i, c) /\ claim[c] # "absent"
  BY <1>2, <1>3 DEF IInv, TagsTellTheOwner, Started
<1>5. c[1] = k /\ c = Owner(i, k) /\ c = <<k, c[2]>> /\ c[2] \in Names
  BY <1>1, <1>4, ClaimTagsReadBack DEF OwnedBy, Owner, Claims
<1>6. ~Exists(c) \/ claimAge[c] < MaxLag
  BY <1>5 DEF CondemnInstance, MayMiss
<1>7. Exists(c) => claimAge[c] = MaxLag \/ inst[i].age <= claimAge[c] + MaxSkew
  BY <1>2, <1>3, <1>4 DEF IInv, ClaimsAreOlder
<1>8. claimAge[c] \in Nat /\ inst[i].age \in Int
  BY Timing DEF IInv, TypeOK
<1>9. ~Exists(c)
  BY <1>1, <1>6, <1>7, <1>8, Timing
<1>10. claim[c] = "gone"
  BY <1>4, <1>9 DEF Exists, IInv, TypeOK, Phases
<1>11. inst[i].tags = ClaimTags(<<k, c[2]>>) /\ claim[<<k, c[2]>>] = "gone"
  BY <1>4, <1>5, <1>10 DEF OwnedBy
<1> QED
  BY <1>5, <1>11

(* Steps that keep tags and NodeClaims keep what the tags say.             *)
LEMMA OwnersStay ==
    ASSUME TagsTellTheOwner,
           \A c \in Claims : claim[c] # "absent" => claim'[c] # "absent",
           \A i \in Instances :
             /\ inst'[i].tags = inst[i].tags
             /\ inst'[i].state # inst[i].state => i \notin Foreign /\ inst[i].state # "unused"
    PROVE  TagsTellTheOwner'
<1> SUFFICES ASSUME NEW i \in Instances
             PROVE  /\ i \in Foreign => inst'[i].state = "active" /\ inst'[i].tags \in ForeignTags
                    /\ i \notin Foreign /\ inst'[i].state # "unused" =>
                         \E c \in Claims : inst'[i].tags = ClaimTags(c) /\ claim'[c] # "absent"
  BY DEF TagsTellTheOwner, OwnedBy
<1>1. CASE i \in Foreign
  BY <1>1 DEF TagsTellTheOwner
<1>2. CASE i \notin Foreign /\ inst'[i].state # "unused"
  <2>1. PICK c \in Claims : OwnedBy(i, c) /\ claim[c] # "absent"
    BY <1>2 DEF TagsTellTheOwner
  <2> QED BY <1>2, <2>1 DEF OwnedBy
<1> QED BY <1>1, <1>2

(* Steps that leave started instances their tags keep a condemned one      *)
(* condemned: a NodeClaim that is gone stays gone.                         *)
LEMMA OrphansStay ==
    ASSUME TypeOK, ScansHoldStarted, CondemnedOnlyOrphans,
           \A c \in Claims : claim[c] = "gone" => claim'[c] = "gone",
           \A i \in Instances : Started(i) => inst'[i].tags = inst[i].tags,
           \A k \in Clusters : scan'[k].target \in {scan[k].target, NoInstance}
    PROVE  CondemnedOnlyOrphans'
<1> SUFFICES ASSUME NEW k \in Clusters, scan'[k].target # NoInstance
             PROVE  \E n \in Names : /\ inst'[scan'[k].target].tags = ClaimTags(<<k, n>>)
                                     /\ claim'[<<k, n>>] = "gone"
  BY DEF CondemnedOnlyOrphans
<1>1. scan'[k].target = scan[k].target /\ scan[k].target \in Instances /\ Started(scan[k].target)
  BY DEF TypeOK, ScansHoldStarted
<1>2. PICK n \in Names : /\ inst[scan[k].target].tags = ClaimTags(<<k, n>>)
                         /\ claim[<<k, n>>] = "gone"
  BY <1>1 DEF CondemnedOnlyOrphans
<1>3. <<k, n>> \in Claims
  BY DEF Claims
<1> QED BY <1>1, <1>2, <1>3

(* The scan only ever deletes instances of ours.                           *)
LEMMA TargetIsOurs ==
    ASSUME IInv, NEW k \in Clusters, scan[k].target # NoInstance
    PROVE  scan[k].target \in Instances \ Foreign
<1>1. scan[k].target \in Instances
  BY DEF IInv, TypeOK
<1>2. PICK n \in Names : inst[scan[k].target].tags = ClaimTags(<<k, n>>)
  BY DEF IInv, CondemnedOnlyOrphans
<1>3. ClaimTags(<<k, n>>) \notin ForeignTags
  BY ClaimTagsAreNotForeign DEF Claims
<1> QED BY <1>1, <1>2, <1>3 DEF IInv, TagsTellTheOwner

(* All that a DELETE changes: an active instance starts to go.             *)
StartsDeletion(i) ==
    /\ inst' \in [Instances -> [state : InstStates, tags : AllTags, age : -1 .. Grace]]
    /\ \A j \in Instances :
         /\ inst'[j].tags = inst[j].tags /\ inst'[j].age = inst[j].age
         /\ \/ inst'[j].state = inst[j].state
            \/ j = i /\ inst[j].state = "active" /\ inst'[j].state = "destroying"

LEMMA DestroyEffect ==
    ASSUME TypeOK, NEW i \in Instances, Destroy(i) \/ UNCHANGED inst
    PROVE  StartsDeletion(i)
<1>1. CASE UNCHANGED inst
  BY <1>1 DEF TypeOK, StartsDeletion
<1>2. CASE inst[i].state = "active" /\ SetState(i, "destroying")
  BY <1>2 DEF TypeOK, StartsDeletion, SetState, InstStates
<1> QED BY <1>1, <1>2 DEF Destroy

LEMMA GoneStaysGone ==
    ASSUME TypeOK, ReleasedOnlyWhenGone, NEW i \in Instances, StartsDeletion(i),
           UNCHANGED <<claim, providerID>>
    PROVE  ReleasedOnlyWhenGone'
<1> SUFFICES ASSUME NEW c \in Claims, claim[c] = "gone", providerID[c] # NoInstance
             PROVE  inst'[providerID[c]].state = "gone"
  BY DEF ReleasedOnlyWhenGone
<1>1. providerID[c] \in Instances /\ inst[providerID[c]].state = "gone"
  BY DEF TypeOK, ReleasedOnlyWhenGone
<1> QED BY <1>1 DEF StartsDeletion

(* Steps that leave the variables of a conjunct alone keep it.             *)
LEMMA RecordsUndisturbed ==
    ASSUME IInv, UNCHANGED <<claim, claimAge, providerID, inst>>
    PROVE  TagsTellTheOwner' /\ RecordsAreOwn' /\ ReleasedOnlyWhenGone' /\ ClaimsAreOlder'
<1>1. TagsTellTheOwner'
  BY OwnersStay DEF IInv
<1>2. RecordsAreOwn'
  BY DEF IInv, RecordsAreOwn, Started, OwnedBy
<1>3. ReleasedOnlyWhenGone'
  BY DEF IInv, ReleasedOnlyWhenGone
<1>4. ClaimsAreOlder'
  BY DEF IInv, ClaimsAreOlder, Exists, Started, OwnedBy
<1> QED BY <1>1, <1>2, <1>3, <1>4

LEMMA CallsUndisturbed ==
    ASSUME IInv, UNCHANGED <<claim, providerID, call, inst>>
    PROVE  CallsFollowClaims'
BY DEF IInv, CallsFollowClaims, Exists, OwnedBy, Started

LEMMA ScansUndisturbed ==
    ASSUME IInv, UNCHANGED <<claim, inst, scan>>
    PROVE  ScansHoldStarted' /\ CondemnedOnlyOrphans'
<1>1. ScansHoldStarted'
  BY DEF IInv, ScansHoldStarted, Started
<1>2. CondemnedOnlyOrphans'
  BY OrphansStay DEF IInv
<1> QED BY <1>1, <1>2

(* One step per action, and under it one per conjunct it can disturb.      *)
LEMMA Step == IInv /\ [Next]_vars => IInv'
<1> SUFFICES ASSUME IInv, [Next]_vars PROVE IInv'
  OBVIOUS
<1> USE Account, Timing DEF IInv, TypeOK, Idle, Phases, CallSteps, InstStates
<1>1. ASSUME NEW c \in Claims, CreateClaim(c) PROVE IInv'
  <2>1. TypeOK'
    BY <1>1 DEF AllTags, CreateClaim
  <2>2. TagsTellTheOwner'
    BY <1>1, OwnersStay DEF CreateClaim
  <2>3. CallsFollowClaims'
    BY <1>1 DEF CallsFollowClaims, CreateClaim, Exists, OwnedBy, Started
  <2>4. RecordsAreOwn'
    BY <1>1 DEF RecordsAreOwn, CreateClaim, Started, OwnedBy
  <2>5. ReleasedOnlyWhenGone'
    BY <1>1 DEF ReleasedOnlyWhenGone, CreateClaim
  <2>6. ClaimsAreOlder'
    BY <1>1, ClaimTagsInjective DEF ClaimsAreOlder, CreateClaim, Exists,
       Started, OwnedBy, TagsTellTheOwner
  <2>7. CondemnedOnlyOrphans'
    BY <1>1, OrphansStay DEF CreateClaim, Started
  <2>8. ScansHoldStarted'
    BY <1>1 DEF CreateClaim, ScansHoldStarted, Started
  <2> QED BY <2>1, <2>2, <2>3, <2>4, <2>5, <2>6, <2>7, <2>8
<1>2. ASSUME NEW c \in Claims, TerminateClaim(c) PROVE IInv'
  <2>1. TypeOK'
    BY <1>2 DEF AllTags, TerminateClaim
  <2>2. TagsTellTheOwner'
    BY <1>2, OwnersStay DEF TerminateClaim
  <2>3. CallsFollowClaims'
    BY <1>2 DEF CallsFollowClaims, TerminateClaim, Exists, OwnedBy,
       Started
  <2>4. RecordsAreOwn'
    BY <1>2 DEF RecordsAreOwn, TerminateClaim, Started, OwnedBy
  <2>5. ReleasedOnlyWhenGone'
    BY <1>2 DEF ReleasedOnlyWhenGone, TerminateClaim
  <2>6. ClaimsAreOlder'
    BY <1>2 DEF ClaimsAreOlder, TerminateClaim, Exists, Started, OwnedBy
  <2>7. CondemnedOnlyOrphans'
    BY <1>2, OrphansStay DEF TerminateClaim, Started
  <2>8. ScansHoldStarted'
    BY <1>2 DEF TerminateClaim, ScansHoldStarted, Started
  <2> QED BY <2>1, <2>2, <2>3, <2>4, <2>5, <2>6, <2>7, <2>8
<1>3. ASSUME NEW c \in Claims, FinalizeUnlaunched(c) PROVE IInv'
  <2>1. TypeOK'
    BY <1>3 DEF AllTags, FinalizeUnlaunched, RemoveClaim, CallDone
  <2>2. TagsTellTheOwner'
    BY <1>3, OwnersStay DEF FinalizeUnlaunched, RemoveClaim, CallDone
  <2>3. CallsFollowClaims'
    BY <1>3 DEF CallsFollowClaims, FinalizeUnlaunched, RemoveClaim,
       CallDone, Exists, OwnedBy, Started
  <2>4. RecordsAreOwn'
    BY <1>3 DEF RecordsAreOwn, FinalizeUnlaunched, RemoveClaim,
       CallDone, Started, OwnedBy
  <2>5. ReleasedOnlyWhenGone'
    BY <1>3 DEF ReleasedOnlyWhenGone, FinalizeUnlaunched, RemoveClaim,
       CallDone
  <2>6. ClaimsAreOlder'
    BY <1>3 DEF ClaimsAreOlder, FinalizeUnlaunched, RemoveClaim,
       CallDone, Exists, Started, OwnedBy
  <2>7. CondemnedOnlyOrphans'
    BY <1>3, OrphansStay DEF FinalizeUnlaunched, RemoveClaim, CallDone,
       Started
  <2>8. ScansHoldStarted'
    BY <1>3 DEF FinalizeUnlaunched, RemoveClaim, CallDone,
       ScansHoldStarted, Started
  <2> QED BY <2>1, <2>2, <2>3, <2>4, <2>5, <2>6, <2>7, <2>8
<1>4. ASSUME NEW c \in Claims, ReleaseFinalizer(c) PROVE IInv'
  <2>1. TypeOK'
    BY <1>4 DEF AllTags, ReleaseFinalizer, RemoveClaim, CallDone
  <2>2. TagsTellTheOwner'
    BY <1>4, OwnersStay DEF ReleaseFinalizer, RemoveClaim, CallDone
  <2>3. CallsFollowClaims'
    BY <1>4 DEF CallsFollowClaims, ReleaseFinalizer, RemoveClaim,
       CallDone, Exists, OwnedBy, Started
  <2>4. RecordsAreOwn'
    BY <1>4 DEF RecordsAreOwn, ReleaseFinalizer, RemoveClaim, CallDone,
       Started, OwnedBy
  <2>5. ReleasedOnlyWhenGone'
    BY <1>4 DEF ReleasedOnlyWhenGone, ReleaseFinalizer, RemoveClaim,
       CallDone, CallsFollowClaims
  <2>6. ClaimsAreOlder'
    BY <1>4 DEF ClaimsAreOlder, ReleaseFinalizer, RemoveClaim, CallDone,
       Exists, Started, OwnedBy
  <2>7. CondemnedOnlyOrphans'
    BY <1>4, OrphansStay DEF ReleaseFinalizer, RemoveClaim, CallDone,
       Started
  <2>8. ScansHoldStarted'
    BY <1>4 DEF ReleaseFinalizer, RemoveClaim, CallDone,
       ScansHoldStarted, Started
  <2> QED BY <2>1, <2>2, <2>3, <2>4, <2>5, <2>6, <2>7, <2>8
<1>5. ASSUME NEW c \in Claims, Persist(c) PROVE IInv'
  <2>1. TypeOK'
    BY <1>5 DEF AllTags, Persist, CallDone
  <2>2. CallsFollowClaims'
    BY <1>5 DEF CallsFollowClaims, Persist, CallDone, Exists, OwnedBy,
       Started
  <2>3. RecordsAreOwn'
    BY <1>5 DEF RecordsAreOwn, Persist, CallDone, Started, OwnedBy,
       CallsFollowClaims, Exists
  <2>4. ReleasedOnlyWhenGone'
    BY <1>5 DEF ReleasedOnlyWhenGone, Persist, CallDone, Exists
  <2>5. TagsTellTheOwner'
    BY <1>5, OwnersStay DEF Persist, CallDone
  <2>6. ClaimsAreOlder'
    BY <1>5 DEF Persist, CallDone, ClaimsAreOlder, Exists, Started,
       OwnedBy
  <2>7. ScansHoldStarted'
    BY <1>5 DEF Persist, CallDone, ScansHoldStarted, Started
  <2>8. CondemnedOnlyOrphans'
    BY <1>5, OrphansStay DEF Persist, CallDone
  <2> QED BY <2>1, <2>2, <2>3, <2>4, <2>5, <2>6, <2>7, <2>8
<1>6. ASSUME NEW c \in Claims, BeginCreate(c) PROVE IInv'
  <2>1. TypeOK'
    BY <1>6 DEF AllTags, BeginCreate
  <2>2. TagsTellTheOwner'
    BY <1>6 DEF TagsTellTheOwner, BeginCreate, OwnedBy
  <2>3. CallsFollowClaims'
    BY <1>6 DEF CallsFollowClaims, BeginCreate, Exists, OwnedBy,
       Started, RecordsAreOwn, TagsTellTheOwner
  <2>4. RecordsAreOwn'
    BY <1>6 DEF RecordsAreOwn, BeginCreate, Started, OwnedBy
  <2>5. ReleasedOnlyWhenGone'
    BY <1>6 DEF ReleasedOnlyWhenGone, BeginCreate
  <2>6. ClaimsAreOlder'
    BY <1>6 DEF ClaimsAreOlder, BeginCreate, Exists, Started, OwnedBy
  <2>7. ScansHoldStarted'
    BY <1>6 DEF ScansHoldStarted, BeginCreate, Started
  <2>8. CondemnedOnlyOrphans'
    BY <1>6, OrphansStay DEF BeginCreate, Started
  <2> QED BY <2>1, <2>2, <2>3, <2>4, <2>5, <2>6, <2>7, <2>8
<1>7. ASSUME NEW c \in Claims, CreateReturns(c) PROVE IInv'
  <2>1. TypeOK'
    BY <1>7 DEF AllTags, CreateReturns, CallAt
  <2>2. CallsFollowClaims'
    BY <1>7 DEF CallsFollowClaims, CreateReturns, CallAt, Exists,
       OwnedBy, Started
  <2>3. UNCHANGED <<claim, claimAge, providerID, inst, scan>>
    BY <1>7 DEF CreateReturns
  <2> QED BY <2>1, <2>2, <2>3, RecordsUndisturbed, ScansUndisturbed
<1>8. ASSUME NEW c \in Claims, CreateFails(c) PROVE IInv'
  <2>1. TypeOK'
    BY <1>8 DEF AllTags, CreateFails, CallDone, CallsFollowClaims
  <2>2. TagsTellTheOwner'
    BY <1>8 DEF TagsTellTheOwner, CreateFails, CallDone, OwnedBy
  <2>3. CallsFollowClaims'
    BY <1>8, ClaimTagsInjective DEF CallsFollowClaims, CreateFails,
       CallDone, Exists, OwnedBy, Started, RecordsAreOwn
  <2>4. RecordsAreOwn'
    BY <1>8 DEF RecordsAreOwn, CreateFails, CallDone, Started, OwnedBy
  <2>5. ReleasedOnlyWhenGone'
    BY <1>8 DEF ReleasedOnlyWhenGone, CreateFails, CallDone
  <2>6. ClaimsAreOlder'
    BY <1>8 DEF ClaimsAreOlder, CreateFails, CallDone, Exists, Started,
       OwnedBy
  <2>7. ScansHoldStarted'
    BY <1>8 DEF ScansHoldStarted, CreateFails, CallDone, Started
  <2>8. CondemnedOnlyOrphans'
    BY <1>8, OrphansStay DEF CreateFails, CallDone, Started
  <2> QED BY <2>1, <2>2, <2>3, <2>4, <2>5, <2>6, <2>7, <2>8
<1>9. ASSUME NEW c \in Claims, CreateTimesOut(c) PROVE IInv'
  <2>1. TypeOK'
    BY <1>9 DEF AllTags, CreateTimesOut, CallDone
  <2>2. CallsFollowClaims'
    BY <1>9 DEF CallsFollowClaims, CreateTimesOut, CallDone, Exists,
       OwnedBy, Started
  <2>3. UNCHANGED <<claim, claimAge, providerID, inst, scan>>
    BY <1>9 DEF CreateTimesOut
  <2> QED BY <2>1, <2>2, <2>3, RecordsUndisturbed, ScansUndisturbed
<1>10. ASSUME NEW c \in Claims, BeginDelete(c) PROVE IInv'
  <2>1. TypeOK'
    BY <1>10 DEF AllTags, BeginDelete, CallAt
  <2>2. CallsFollowClaims'
    BY <1>10 DEF CallsFollowClaims, BeginDelete, CallAt, Exists,
       OwnedBy, Started
  <2>3. UNCHANGED <<claim, claimAge, providerID, inst, scan>>
    BY <1>10 DEF BeginDelete
  <2> QED BY <2>1, <2>2, <2>3, RecordsUndisturbed, ScansUndisturbed
<1>11. ASSUME NEW c \in Claims, DeleteAccepted(c) PROVE IInv'
  <2>1. StartsDeletion(providerID[c])
    BY <1>11, DestroyEffect DEF DeleteAccepted, CallDone, RecordsAreOwn,
       CallsFollowClaims
  <2>2. TypeOK'
    BY <1>11, <2>1 DEF AllTags, DeleteAccepted, CallDone, StartsDeletion
  <2>3. TagsTellTheOwner'
    BY <1>11, <2>1, OwnersStay DEF DeleteAccepted, CallDone,
       RecordsAreOwn, CallsFollowClaims, StartsDeletion
  <2>4. CallsFollowClaims'
    BY <1>11, <2>1 DEF CallsFollowClaims, DeleteAccepted, CallDone,
       Exists, OwnedBy, Started, StartsDeletion
  <2>5. RecordsAreOwn'
    BY <1>11, <2>1 DEF RecordsAreOwn, DeleteAccepted, CallDone, Started,
       OwnedBy, StartsDeletion
  <2>6. ReleasedOnlyWhenGone'
    BY <1>11, <2>1 DEF ReleasedOnlyWhenGone, DeleteAccepted, CallDone,
       StartsDeletion
  <2>7. ClaimsAreOlder'
    BY <1>11, <2>1 DEF ClaimsAreOlder, DeleteAccepted, CallDone, Exists,
       Started, OwnedBy, StartsDeletion
  <2>8. ScansHoldStarted'
    BY <1>11, <2>1 DEF ScansHoldStarted, DeleteAccepted, CallDone,
       Started, StartsDeletion
  <2>9. CondemnedOnlyOrphans'
    BY <1>11, <2>1, OrphansStay DEF DeleteAccepted, CallDone, Started,
       StartsDeletion
  <2> QED BY <2>2, <2>3, <2>4, <2>5, <2>6, <2>7, <2>8, <2>9
<1>12. ASSUME NEW c \in Claims, DeleteNotFound(c) PROVE IInv'
  <2>1. TypeOK'
    BY <1>12 DEF AllTags, DeleteNotFound, CallAt, AnswersNotFound
  <2>2. CallsFollowClaims'
    BY <1>12 DEF CallsFollowClaims, DeleteNotFound, CallAt,
       AnswersNotFound, Exists, OwnedBy, Started
  <2>3. UNCHANGED <<claim, claimAge, providerID, inst, scan>>
    BY <1>12 DEF DeleteNotFound
  <2> QED BY <2>1, <2>2, <2>3, RecordsUndisturbed, ScansUndisturbed
<1>13. ASSUME NEW c \in Claims, DeleteRejected(c) PROVE IInv'
  <2>1. StartsDeletion(providerID[c])
    BY <1>13, DestroyEffect DEF DeleteRejected, CallAt,
       DeleteUnanswered, RecordsAreOwn, CallsFollowClaims
  <2>2. TypeOK'
    BY <1>13, <2>1 DEF AllTags, DeleteRejected, CallAt,
       DeleteUnanswered, StartsDeletion
  <2>3. TagsTellTheOwner'
    BY <1>13, <2>1, OwnersStay DEF DeleteRejected, CallAt,
       DeleteUnanswered, RecordsAreOwn, CallsFollowClaims,
       StartsDeletion
  <2>4. CallsFollowClaims'
    <3>1. /\ UNCHANGED <<claim, providerID>>
          /\ claim[c] = "terminating" /\ providerID[c] # NoInstance
          /\ call' = [call EXCEPT ![c] = [step |-> "confirm", inst |-> @.inst]]
      BY <1>13 DEF DeleteRejected, CallAt, CallsFollowClaims
    <3> QED BY <2>1, <3>1 DEF CallsFollowClaims, Exists, OwnedBy, Started, StartsDeletion
  <2>5. RecordsAreOwn'
    BY <1>13, <2>1 DEF RecordsAreOwn, DeleteRejected, CallAt,
       DeleteUnanswered, Started, OwnedBy, StartsDeletion
  <2>6. ReleasedOnlyWhenGone'
    BY <1>13, <2>1 DEF ReleasedOnlyWhenGone, DeleteRejected, CallAt,
       DeleteUnanswered, StartsDeletion
  <2>7. ClaimsAreOlder'
    BY <1>13, <2>1 DEF ClaimsAreOlder, DeleteRejected, CallAt,
       DeleteUnanswered, Exists, Started, OwnedBy, StartsDeletion
  <2>8. ScansHoldStarted'
    BY <1>13, <2>1 DEF ScansHoldStarted, DeleteRejected, CallAt,
       DeleteUnanswered, Started, StartsDeletion
  <2>9. CondemnedOnlyOrphans'
    BY <1>13, <2>1, OrphansStay DEF DeleteRejected, CallAt,
       DeleteUnanswered, Started, StartsDeletion
  <2> QED BY <2>2, <2>3, <2>4, <2>5, <2>6, <2>7, <2>8, <2>9
<1>14. ASSUME NEW c \in Claims, ConfirmGone(c) PROVE IInv'
  <2>1. TypeOK'
    BY <1>14 DEF AllTags, ConfirmGone, CallAt
  <2>2. CallsFollowClaims'
    BY <1>14 DEF CallsFollowClaims, ConfirmGone, CallAt, Exists,
       OwnedBy, Started
  <2>3. UNCHANGED <<claim, claimAge, providerID, inst, scan>>
    BY <1>14 DEF ConfirmGone
  <2> QED BY <2>1, <2>2, <2>3, RecordsUndisturbed, ScansUndisturbed
<1>15. ASSUME NEW c \in Claims, ConfirmFails(c) PROVE IInv'
  <2>1. TypeOK'
    BY <1>15 DEF AllTags, ConfirmFails, CallDone
  <2>2. CallsFollowClaims'
    BY <1>15 DEF CallsFollowClaims, ConfirmFails, CallDone, Exists,
       OwnedBy, Started
  <2>3. UNCHANGED <<claim, claimAge, providerID, inst, scan>>
    BY <1>15 DEF ConfirmFails
  <2> QED BY <2>1, <2>2, <2>3, RecordsUndisturbed, ScansUndisturbed
<1>16. ASSUME NEW k \in Clusters, BeginListing(k) \/ ListInstances(k) \/ ListingFails(k)
       PROVE  IInv'
  <2>1. UNCHANGED <<claim, claimAge, providerID, call, inst, crashes>>
    BY <1>16 DEF BeginListing, ListInstances, ListingFails
  <2>2. \E busy \in BOOLEAN, found \in SUBSET { i \in Instances : Started(i) } :
          scan' = [scan EXCEPT ![k] = [listing |-> busy, todo |-> found, target |-> NoInstance]]
    <3>1. CASE BeginListing(k)
      <4>1. { i \in Instances : Running(i) } \in SUBSET { i \in Instances : Started(i) }
        BY DEF Running, Started
      <4> QED BY <3>1, <4>1 DEF BeginListing
    <3>2. CASE ListInstances(k)
      BY <3>2 DEF ListInstances
    <3>3. CASE ListingFails(k)
      BY <3>3 DEF ListingFails, NoScan
    <3> QED BY <1>16, <3>1, <3>2, <3>3
  <2>3. TypeOK'
    BY <2>1, <2>2 DEF AllTags
  <2>4. ScansHoldStarted'
    BY <2>1, <2>2 DEF ScansHoldStarted, Started
  <2>5. CondemnedOnlyOrphans'
    BY <2>1, <2>2, OrphansStay
  <2> QED BY <2>1, <2>3, <2>4, <2>5, RecordsUndisturbed, CallsUndisturbed
<1>17. ASSUME NEW k \in Clusters, Crash(k) PROVE IInv'
  <2>1. TypeOK'
    BY <1>17 DEF AllTags, Crash, NoScan
  <2>2. CallsFollowClaims'
    BY <1>17 DEF CallsFollowClaims, Crash, NoScan, Exists, OwnedBy,
       Started
  <2>3. ScansHoldStarted'
    BY <1>17 DEF ScansHoldStarted, Crash, NoScan, Started
  <2>4. CondemnedOnlyOrphans'
    BY <1>17, OrphansStay DEF Crash, NoScan, Started
  <2>5. UNCHANGED <<claim, claimAge, providerID, inst>>
    BY <1>17 DEF Crash
  <2> QED BY <2>1, <2>2, <2>3, <2>4, <2>5, RecordsUndisturbed
<1>18. ASSUME NEW k \in Clusters, NEW i \in Instances, SkipInstance(k, i) PROVE IInv'
  <2>1. TypeOK'
    <3>1. [scan[k] EXCEPT !.todo = @ \ {i}]
            \in [listing : BOOLEAN, todo : SUBSET Instances, target : Instances \cup {NoInstance}]
      OBVIOUS
    <3> QED BY <1>18, <3>1 DEF SkipInstance
  <2>2. ScansHoldStarted'
    BY <1>18 DEF ScansHoldStarted, SkipInstance, AtInstance, Started
  <2>3. CondemnedOnlyOrphans'
    BY <1>18, OrphansStay DEF SkipInstance, AtInstance, Started
  <2>4. UNCHANGED <<claim, claimAge, providerID, call, inst>>
    BY <1>18 DEF SkipInstance
  <2> QED BY <2>1, <2>2, <2>3, <2>4, RecordsUndisturbed, CallsUndisturbed
<1>19. ASSUME NEW k \in Clusters, NEW i \in Instances, CondemnInstance(k, i) PROVE IInv'
  <2>1. TypeOK'
    <3>1. [scan[k] EXCEPT !.todo = @ \ {i}, !.target = i]
            \in [listing : BOOLEAN, todo : SUBSET Instances, target : Instances \cup {NoInstance}]
      OBVIOUS
    <3> QED BY <1>19, <3>1 DEF CondemnInstance
  <2>2. ScansHoldStarted'
    BY <1>19 DEF ScansHoldStarted, CondemnInstance, AtInstance, Started
  <2>3. CondemnedOnlyOrphans'
    <3>1. /\ UNCHANGED <<claim, inst>>
          /\ scan' = [scan EXCEPT ![k].todo = @ \ {i}, ![k].target = i]
      BY <1>19 DEF CondemnInstance
    <3>2. \E n \in Names : inst[i].tags = ClaimTags(<<k, n>>) /\ claim[<<k, n>>] = "gone"
      BY <1>19, CondemnedIsOrphan
    <3>3. scan'[k].target = i /\ \A j \in Clusters \ {k} : scan'[j].target = scan[j].target
      BY <3>1
    <3>4. ASSUME NEW j \in Clusters, scan'[j].target # NoInstance
          PROVE  \E n \in Names : /\ inst[scan'[j].target].tags = ClaimTags(<<j, n>>)
                                  /\ claim[<<j, n>>] = "gone"
      <4>1. CASE j = k
        BY <3>2, <3>3, <4>1
      <4>2. CASE j # k
        BY <3>3, <3>4, <4>2 DEF CondemnedOnlyOrphans
      <4> QED BY <4>1, <4>2
    <3> QED BY <3>1, <3>4 DEF CondemnedOnlyOrphans
  <2>4. UNCHANGED <<claim, claimAge, providerID, call, inst>>
    BY <1>19 DEF CondemnInstance
  <2> QED BY <2>1, <2>2, <2>3, <2>4, RecordsUndisturbed, CallsUndisturbed
<1>20. ASSUME NEW k \in Clusters, NEW i \in Instances, LookupFails(k, i) PROVE IInv'
  <2>1. TypeOK'
    BY <1>20 DEF AllTags, LookupFails, NoScan
  <2>2. ScansHoldStarted'
    BY <1>20 DEF ScansHoldStarted, LookupFails, NoScan, Started
  <2>3. CondemnedOnlyOrphans'
    BY <1>20, OrphansStay DEF LookupFails, NoScan, Started
  <2>4. UNCHANGED <<claim, claimAge, providerID, call, inst>>
    BY <1>20 DEF LookupFails
  <2> QED BY <2>1, <2>2, <2>3, <2>4, RecordsUndisturbed, CallsUndisturbed
<1>21. ASSUME NEW k \in Clusters, NEW i \in Instances, OrphanDeleted(k, i) PROVE IInv'
  <2>1. StartsDeletion(i)
    BY <1>21, DestroyEffect DEF OrphanDeleted
  <2>2. /\ UNCHANGED <<claim, claimAge, providerID, call, crashes>>
        /\ scan[k].target = i /\ scan' = [scan EXCEPT ![k].target = NoInstance]
    BY <1>21 DEF OrphanDeleted
  <2>3. TypeOK'
    BY <2>1, <2>2 DEF StartsDeletion
  <2>4. TagsTellTheOwner'
    BY <2>1, <2>2, OwnersStay, TargetIsOurs, Account DEF StartsDeletion
  <2>5. CallsFollowClaims'
    <3>1. \A c \in Claims : /\ call'[c] = call[c] /\ claim'[c] = claim[c]
                           /\ providerID'[c] = providerID[c]
      BY <2>2
    <3>2. ASSUME NEW c \in Claims, call[c].step \in {"creating", "created"}
          PROVE  /\ inst'[call[c].inst].state # "unused"
                 /\ inst'[call[c].inst].tags = ClaimTags(c)
                 /\ call[c].step = "created" => Started(call[c].inst)'
      <4>1. /\ call[c].inst \in Instances /\ inst[call[c].inst].state # "unused"
            /\ inst[call[c].inst].tags = ClaimTags(c)
            /\ call[c].step = "created" => Started(call[c].inst)
        BY <3>2 DEF CallsFollowClaims, OwnedBy
      <4>2. call'[c].inst = call[c].inst
        BY <3>1
      <4> QED BY <2>1, <4>1, <4>2 DEF StartsDeletion, Started
    <3>3. ASSUME NEW c \in Claims, call[c].step = "released"
          PROVE  inst'[providerID[c]].state = "gone"
      <4>1. providerID[c] \in Instances /\ inst[providerID[c]].state = "gone"
        BY <3>3 DEF CallsFollowClaims
      <4> QED BY <2>1, <4>1 DEF StartsDeletion
    <3> QED BY <3>1, <3>2, <3>3 DEF CallsFollowClaims, Exists, OwnedBy, Started
  <2>6. RecordsAreOwn'
    BY <2>1, <2>2 DEF RecordsAreOwn, Started, OwnedBy, StartsDeletion
  <2>7. ReleasedOnlyWhenGone'
    BY <2>1, <2>2, GoneStaysGone
  <2>8. ClaimsAreOlder'
    BY <2>1, <2>2 DEF ClaimsAreOlder, Exists, Started, OwnedBy, StartsDeletion
  <2>9. ScansHoldStarted'
    BY <2>1, <2>2 DEF ScansHoldStarted, Started, StartsDeletion
  <2>10. CondemnedOnlyOrphans'
    BY <2>1, <2>2, OrphansStay DEF Started, StartsDeletion
  <2> QED BY <2>3, <2>4, <2>5, <2>6, <2>7, <2>8, <2>9, <2>10
<1>22. ASSUME NEW k \in Clusters, NEW i \in Instances, OrphanDeleteFails(k, i) PROVE IInv'
  <2>1. StartsDeletion(i)
    BY <1>22, DestroyEffect DEF OrphanDeleteFails, DeleteUnanswered,
       NoScan
  <2>2. TypeOK'
    BY <1>22, <2>1 DEF AllTags, OrphanDeleteFails, DeleteUnanswered,
       NoScan, StartsDeletion
  <2>3. TagsTellTheOwner'
    BY <1>22, <2>1, OwnersStay, TargetIsOurs DEF OrphanDeleteFails,
       DeleteUnanswered, NoScan, StartsDeletion
  <2>4. CallsFollowClaims'
    BY <1>22, <2>1 DEF CallsFollowClaims, OrphanDeleteFails,
       DeleteUnanswered, NoScan, Exists, OwnedBy, Started,
       StartsDeletion
  <2>5. RecordsAreOwn'
    BY <1>22, <2>1 DEF RecordsAreOwn, OrphanDeleteFails,
       DeleteUnanswered, NoScan, Started, OwnedBy, StartsDeletion
  <2>6. ReleasedOnlyWhenGone'
    BY <1>22, <2>1, GoneStaysGone DEF OrphanDeleteFails
  <2>7. ClaimsAreOlder'
    BY <1>22, <2>1 DEF ClaimsAreOlder, OrphanDeleteFails,
       DeleteUnanswered, NoScan, Exists, Started, OwnedBy,
       StartsDeletion
  <2>8. ScansHoldStarted'
    BY <1>22, <2>1 DEF ScansHoldStarted, OrphanDeleteFails,
       DeleteUnanswered, NoScan, Started, StartsDeletion
  <2>9. CondemnedOnlyOrphans'
    BY <1>22, <2>1, OrphansStay DEF OrphanDeleteFails, DeleteUnanswered,
       NoScan, Started, StartsDeletion
  <2> QED BY <2>2, <2>3, <2>4, <2>5, <2>6, <2>7, <2>8, <2>9
<1>23. ASSUME NEW i \in Instances, VultrCreates(i) PROVE IInv'
  <2>1. TypeOK'
    BY <1>23 DEF AllTags, VultrCreates
  <2>2. TagsTellTheOwner'
    BY <1>23, OwnersStay DEF VultrCreates, TagsTellTheOwner
  <2>3. CallsFollowClaims'
    BY <1>23 DEF CallsFollowClaims, VultrCreates, Exists, OwnedBy,
       Started
  <2>4. RecordsAreOwn'
    BY <1>23 DEF RecordsAreOwn, VultrCreates, Started, OwnedBy
  <2>5. ReleasedOnlyWhenGone'
    BY <1>23 DEF ReleasedOnlyWhenGone, VultrCreates
  <2>6. ClaimsAreOlder'
    BY <1>23 DEF ClaimsAreOlder, VultrCreates, Exists, Started, OwnedBy
  <2>7. ScansHoldStarted'
    BY <1>23 DEF ScansHoldStarted, VultrCreates, Started
  <2>8. CondemnedOnlyOrphans'
    BY <1>23, OrphansStay DEF VultrCreates, Started
  <2> QED BY <2>1, <2>2, <2>3, <2>4, <2>5, <2>6, <2>7, <2>8
<1>24. ASSUME NEW i \in Instances, RequestLost(i) PROVE IInv'
  <2>1. TypeOK'
    BY <1>24 DEF AllTags, RequestLost
  <2>2. TagsTellTheOwner'
    BY <1>24 DEF TagsTellTheOwner, RequestLost, OwnedBy
  <2>3. CallsFollowClaims'
    BY <1>24 DEF CallsFollowClaims, RequestLost, Exists, OwnedBy,
       Started
  <2>4. RecordsAreOwn'
    BY <1>24 DEF RecordsAreOwn, RequestLost, Started, OwnedBy
  <2>5. ReleasedOnlyWhenGone'
    BY <1>24 DEF ReleasedOnlyWhenGone, RequestLost
  <2>6. ClaimsAreOlder'
    BY <1>24 DEF ClaimsAreOlder, RequestLost, Exists, Started, OwnedBy
  <2>7. ScansHoldStarted'
    BY <1>24 DEF ScansHoldStarted, RequestLost, Started
  <2>8. CondemnedOnlyOrphans'
    BY <1>24, OrphansStay DEF RequestLost, Started
  <2> QED BY <2>1, <2>2, <2>3, <2>4, <2>5, <2>6, <2>7, <2>8
<1>25. ASSUME NEW i \in Instances, VultrDestroys(i) PROVE IInv'
  <2>1. TypeOK'
    BY <1>25 DEF AllTags, VultrDestroys, SetState
  <2>2. TagsTellTheOwner'
    BY <1>25, OwnersStay DEF VultrDestroys, SetState, TagsTellTheOwner
  <2>3. CallsFollowClaims'
    BY <1>25 DEF CallsFollowClaims, VultrDestroys, SetState, Exists,
       OwnedBy, Started
  <2>4. RecordsAreOwn'
    BY <1>25 DEF RecordsAreOwn, VultrDestroys, SetState, Started,
       OwnedBy
  <2>5. ReleasedOnlyWhenGone'
    BY <1>25 DEF ReleasedOnlyWhenGone, VultrDestroys, SetState
  <2>6. ClaimsAreOlder'
    BY <1>25 DEF ClaimsAreOlder, VultrDestroys, SetState, Exists,
       Started, OwnedBy
  <2>7. ScansHoldStarted'
    BY <1>25 DEF ScansHoldStarted, VultrDestroys, SetState, Started
  <2>8. CondemnedOnlyOrphans'
    BY <1>25, OrphansStay DEF VultrDestroys, SetState, Started
  <2> QED BY <2>1, <2>2, <2>3, <2>4, <2>5, <2>6, <2>7, <2>8
<1>26. ASSUME NEW i \in Instances, RemovedByHand(i) PROVE IInv'
  <2>1. TypeOK'
    BY <1>26 DEF AllTags, RemovedByHand, SetState
  <2>2. TagsTellTheOwner'
    BY <1>26, OwnersStay DEF RemovedByHand, SetState
  <2>3. CallsFollowClaims'
    BY <1>26 DEF CallsFollowClaims, RemovedByHand, SetState, Exists,
       OwnedBy, Started
  <2>4. RecordsAreOwn'
    BY <1>26 DEF RecordsAreOwn, RemovedByHand, SetState, Started,
       OwnedBy
  <2>5. ReleasedOnlyWhenGone'
    BY <1>26 DEF ReleasedOnlyWhenGone, RemovedByHand, SetState
  <2>6. ClaimsAreOlder'
    BY <1>26 DEF ClaimsAreOlder, RemovedByHand, SetState, Exists,
       Started, OwnedBy
  <2>7. ScansHoldStarted'
    BY <1>26 DEF ScansHoldStarted, RemovedByHand, SetState, Started
  <2>8. CondemnedOnlyOrphans'
    BY <1>26, OrphansStay DEF RemovedByHand, SetState, Started
  <2> QED BY <2>1, <2>2, <2>3, <2>4, <2>5, <2>6, <2>7, <2>8
<1>27. ASSUME Tick PROVE IInv'
  <2>1. TypeOK'
    <3>1. claimAge' \in [Claims -> 0 .. MaxLag]
      BY <1>27 DEF Tick, Older
    <3>2. ASSUME NEW i \in Instances
          PROVE  inst'[i] \in [state : InstStates, tags : AllTags, age : -1 .. Grace]
      <4>1. inst[i] \in [state : InstStates, tags : AllTags, age : -1 .. Grace]
        OBVIOUS
      <4>2. Older(inst[i].age, Grace) \in -1 .. Grace
        BY <4>1, Timing DEF Older
      <4>3. inst'[i] \in {inst[i], [inst[i] EXCEPT !.age = Older(inst[i].age, Grace)]}
        BY <1>27 DEF Tick
      <4> HIDE DEF Older
      <4> QED BY <4>1, <4>2, <4>3
    <3>3. inst' \in [Instances -> [state : InstStates, tags : AllTags, age : -1 .. Grace]]
      BY <1>27, <3>2 DEF Tick
    <3> QED BY <1>27, <3>1, <3>3 DEF Tick
  <2>2. TagsTellTheOwner'
    BY <1>27, OwnersStay DEF Tick, Older, Started
  <2>3. CallsFollowClaims'
    BY <1>27 DEF CallsFollowClaims, Tick, Older, Exists,
       OwnedBy, Started
  <2>4. RecordsAreOwn'
    BY <1>27 DEF RecordsAreOwn, Tick, Older, Started, OwnedBy
  <2>5. ReleasedOnlyWhenGone'
    BY <1>27 DEF ReleasedOnlyWhenGone, Tick, Older, Started
  <2>6. ClaimsAreOlder'
    <3> SUFFICES ASSUME NEW i \in Instances, NEW c \in Claims,
                        i \notin Foreign, Started(i), OwnedBy(i, c), Exists(c)
                 PROVE  claimAge'[c] = MaxLag \/ inst'[i].age <= claimAge'[c] + MaxSkew
      BY <1>27 DEF ClaimsAreOlder, Tick, Exists, Started, OwnedBy
    <3>1. claimAge[c] = MaxLag \/ inst[i].age <= claimAge[c] + MaxSkew
      BY DEF ClaimsAreOlder
    <3>2. claimAge'[c] = Older(claimAge[c], MaxLag)
      BY <1>27 DEF Tick, Exists
    <3>3. inst'[i].age \in {inst[i].age, Older(inst[i].age, Grace)}
      BY <1>27 DEF Tick
    <3>4. inst[i].age \in -1 .. Grace /\ claimAge[c] \in 0 .. MaxLag
      OBVIOUS
    <3> QED BY <3>1, <3>2, <3>3, <3>4 DEF Older
  <2>7. ScansHoldStarted'
    BY <1>27 DEF ScansHoldStarted, Tick, Older, Started
  <2>8. CondemnedOnlyOrphans'
    BY <1>27, OrphansStay DEF Tick, Older, Started
  <2> QED BY <2>1, <2>2, <2>3, <2>4, <2>5, <2>6, <2>7, <2>8
<1>28. CASE UNCHANGED vars
  <2>1. UNCHANGED <<claim, claimAge, providerID, call, inst, scan, crashes>>
    BY <1>28 DEF vars
  <2>2. TypeOK'
    BY <2>1
  <2> QED BY <2>1, <2>2, RecordsUndisturbed, CallsUndisturbed, ScansUndisturbed
<1> QED
  BY <1>1, <1>2, <1>3, <1>4, <1>5, <1>6, <1>7, <1>8, <1>9, <1>10, <1>11,
     <1>12, <1>13, <1>14, <1>15, <1>16, <1>17, <1>18, <1>19, <1>20, <1>21,
     <1>22, <1>23, <1>24, <1>25, <1>26, <1>27, <1>28 DEF Next, ClaimStep,
     ScanStep, VultrStep

LEMMA Initial == Init => IInv
<1> SUFFICES ASSUME Init PROVE IInv
  OBVIOUS
<1>1. PICK tags \in [Foreign -> ForeignTags] :
        inst = [i \in Instances |->
                  IF i \in Foreign
                  THEN [state |-> "active", tags |-> tags[i], age |-> Grace]
                  ELSE [state |-> "unused", tags |-> <<>>, age |-> 0]]
  BY DEF Init
<1>2. TypeOK
  BY <1>1, Timing, Account
  DEF Init, TypeOK, Idle, NoScan, Phases, CallSteps, InstStates, AllTags
<1>3. TagsTellTheOwner
  BY <1>1 DEF TagsTellTheOwner
<1>4. CallsFollowClaims /\ RecordsAreOwn /\ ReleasedOnlyWhenGone
  BY DEF Init, CallsFollowClaims, RecordsAreOwn, ReleasedOnlyWhenGone, Idle
<1>5. ClaimsAreOlder /\ ScansHoldStarted /\ CondemnedOnlyOrphans
  BY DEF Init, ClaimsAreOlder, ScansHoldStarted, CondemnedOnlyOrphans, Exists, NoScan
<1> QED BY <1>2, <1>3, <1>4, <1>5 DEF IInv

LEMMA Invariance == Spec => []IInv
BY Initial, Step, PTL DEF Spec

-----------------------------------------------------------------------------
(* The type invariant of InstanceLifecycle, for every instance of it.      *)
THEOREM TypeCorrect == Spec => []TypeOK
<1>1. IInv => TypeOK
  BY DEF IInv
<1> QED BY <1>1, Invariance, PTL

(* The orphan cleaner deletes no instance whose NodeClaim exists, however  *)
(* many clusters share the account, as long as cache lag and clock skew    *)
(* together fit into the grace period.  (orphan.go, Reconcile)             *)
THEOREM OrphansOnly == Spec => []CondemnedOnlyOrphans
<1>1. IInv => CondemnedOnlyOrphans
  BY DEF IInv
<1> QED BY <1>1, Invariance, PTL

(* A NodeClaim is released only after its recorded instance is destroyed,  *)
(* however deletes are answered.  (cloudprovider.go, Delete)               *)
THEOREM NothingLeftBehind == Spec => []ReleasedOnlyWhenGone
<1>1. IInv => ReleasedOnlyWhenGone
  BY DEF IInv
<1> QED BY <1>1, Invariance, PTL

(* List finds a NodeClaim's running instance in its own cluster only, or,  *)
(* if that cluster's name has whitespace in it, nowhere, and never finds   *)
(* what others have created: whatever the cluster names, and whatever      *)
(* Create, Delete and the orphan cleaners are doing.  (cloudprovider.go,   *)
(* List; tags.go)                                                          *)
THEOREM ListsAreExact == Spec => []ListsPartitionAccount
<1>1. ASSUME IInv PROVE ListsPartitionAccount
  <2>1. ASSUME NEW c \in Claims, providerID[c] # NoInstance, Running(providerID[c])
        PROVE  { k \in Clusters : providerID[c] \in Listed(k) } = {c[1]} \ Spaced
    <3>1. OwnedBy(providerID[c], c) /\ providerID[c] \in Instances
      BY <1>1, <2>1 DEF IInv, RecordsAreOwn
    <3>2. \A k \in Clusters :
            NodeClaimName(ClaimTags(c), k) # NoValue <=> k = c[1] /\ k \notin Spaced
      <4>1. c[2] # NoValue
        BY Values DEF Claims
      <4> QED BY <4>1, ClaimTagsReadBack
    <3>3. c[1] \in Clusters
      BY DEF Claims
    <3> QED BY <2>1, <3>1, <3>2, <3>3 DEF Listed, OwnedBy
  <2>2. ASSUME NEW k \in Clusters, NEW i \in Foreign \cap Listed(k) PROVE FALSE
    <3>1. i \in Instances /\ inst[i].tags \in ForeignTags
      BY <1>1, <2>2 DEF IInv, TagsTellTheOwner, Listed
    <3> QED BY <2>2, <3>1, ForeignTagsNeverRead DEF Listed
  <2> QED BY <2>1, <2>2 DEF ListsPartitionAccount
<1> QED BY <1>1, Invariance, PTL
-----------------------------------------------------------------------------
(* The refinement of InstanceCustody.                                      *)

(* An existing NodeClaim answers for the instance; a NodeClaim names it.    *)
Claimed(i)  == \E c \in Claims : OwnedBy(i, c) /\ Exists(c)
Recorded(i) == \E c \in Claims : providerID[c] = i

CustodyRead(i) ==
    /\ inst[i].state = "active" /\ i \in Foreign => CustodyOf(i) = "foreign"
    /\ inst[i].state = "active" /\ i \notin Foreign =>
         /\ Claimed(i) /\ Recorded(i) => CustodyOf(i) = "recorded"
         /\ Claimed(i) /\ ~Recorded(i) => CustodyOf(i) = "unrecorded"
         /\ ~Claimed(i) => CustodyOf(i) = "orphaned"
    /\ inst[i].state = "destroying" => CustodyOf(i) = "condemned"
    /\ inst[i].state = "gone" => CustodyOf(i) = "gone"
    /\ inst[i].state \in {"unused", "posted"} => CustodyOf(i) = "unused"

LEMMA CustodyReads ==
    ASSUME NEW i \in Instances
    PROVE  CustodyRead(i) /\ CustodyRead(i)'
<1>1. CustodyRead(i)
  BY DEF CustodyRead, CustodyOf, Claimed, Recorded
<1>2. CustodyRead(i)'
  BY DEF CustodyRead, CustodyOf, Claimed, Recorded
<1> QED BY <1>1, <1>2

(* An instance has one owner.                                              *)
LEMMA OneOwner ==
    ASSUME IInv, NEW i \in Instances, NEW c \in Claims, OwnedBy(i, c)
    PROVE  /\ \A d \in Claims : OwnedBy(i, d) => d = c
           /\ Claimed(i) <=> Exists(c)
           /\ Recorded(i) <=> providerID[c] = i
<1>1. \A d \in Claims : OwnedBy(i, d) => d = c
  BY ClaimTagsInjective DEF OwnedBy
<1>2. \A d \in Claims : providerID[d] = i => OwnedBy(i, d)
  BY Account DEF IInv, RecordsAreOwn
<1> QED BY <1>1, <1>2 DEF Claimed, Recorded

LEMMA CustodySteady ==
    ASSUME IInv, NEW i \in Instances,
           \/ inst'[i].state = inst[i].state
           \/ {inst[i].state, inst'[i].state} \subseteq {"unused", "posted"},
           inst[i].state = "active" /\ i \notin Foreign =>
             (Claimed(i)' <=> Claimed(i)) /\ (Recorded(i)' <=> Recorded(i))
    PROVE  CustodyOf(i)' = CustodyOf(i)
<1>1. inst[i].state \in {"unused", "posted", "active", "destroying", "gone"}
  BY DEF IInv, TypeOK, InstStates
<1> QED BY <1>1, CustodyReads DEF CustodyRead

LEMMA CustodyPasses ==
    ASSUME NEW i \in Instances, NEW from, NEW to,
           CustodyOf(i) \in from, CustodyOf(i)' = to,
           \A j \in Instances \ {i} : CustodyOf(j)' = CustodyOf(j)
    PROVE  Custody!Pass(i, from, to)
  BY DEF Custody!Pass

(* A NodeClaim goes: what it owned and did not name is orphaned.           *)
LEMMA AbandonStep ==
    ASSUME IInv, NEW c \in Claims, RemoveClaim(c), Exists(c),
           \A i \in Instances : providerID[c] = i => inst[i].state # "active"
    PROVE  Custody!Abandon
<1> DEFINE left == { i \in Instances : i \notin Foreign /\ inst[i].state = "active" /\ OwnedBy(i, c) }
<1>1. /\ UNCHANGED <<providerID, inst>>
      /\ ~Exists(c)' /\ \A d \in Claims \ {c} : Exists(d)' <=> Exists(d)
  BY DEF RemoveClaim, Exists, IInv, TypeOK
<1>2. ASSUME NEW i \in left PROVE CustodyOf(i) = "unrecorded" /\ CustodyOf(i)' = "orphaned"
  <2>1. Claimed(i) /\ ~Recorded(i)
    BY OneOwner
  <2>2. ~Claimed(i)'
    BY <1>1, OneOwner DEF Claimed, OwnedBy
  <2>3. inst'[i].state = "active" /\ inst[i].state = "active" /\ i \in Instances \ Foreign
    BY <1>1
  <2> QED BY <2>1, <2>2, <2>3, CustodyReads DEF CustodyRead
<1>3. ASSUME NEW i \in Instances \ left PROVE CustodyOf(i)' = CustodyOf(i)
  <2>1. inst'[i].state = inst[i].state
    BY <1>1
  <2>2. ASSUME inst[i].state = "active", i \notin Foreign
        PROVE  (Claimed(i)' <=> Claimed(i)) /\ (Recorded(i)' <=> Recorded(i))
    <3>1. ~OwnedBy(i, c)
      BY <2>2
    <3> QED BY <1>1, <3>1 DEF Claimed, Recorded, OwnedBy
  <2> QED BY <2>1, <2>2, CustodySteady
<1> HIDE DEF left
<1>4. left \in SUBSET { i \in Instances : CustodyOf(i) = "unrecorded" }
  BY <1>2 DEF left
<1> QED BY <1>2, <1>3, <1>4 DEF Custody!Abandon

(* A DELETE of one of our instances is a passage to condemned, or nothing. *)
LEMMA DeleteStep ==
    ASSUME IInv, NEW i \in Instances \ Foreign, NEW from \in {"recorded", "orphaned"},
           Destroy(i) \/ UNCHANGED inst, UNCHANGED <<claim, providerID>>,
           inst[i].state = "active" => CustodyOf(i) = from
    PROVE  Custody!Pass(i, {from}, "condemned") \/ \A j \in Instances : CustodyOf(j)' = CustodyOf(j)
<1>1. StartsDeletion(i)
  BY DestroyEffect DEF IInv
<1>2. ASSUME NEW j \in Instances PROVE (Claimed(j)' <=> Claimed(j)) /\ (Recorded(j)' <=> Recorded(j))
  BY <1>1 DEF StartsDeletion, Claimed, Recorded, OwnedBy, Exists
<1>3. ASSUME NEW j \in Instances, inst'[j].state = inst[j].state PROVE CustodyOf(j)' = CustodyOf(j)
  BY <1>2, <1>3, CustodySteady
<1>4. \A j \in Instances \ {i} : CustodyOf(j)' = CustodyOf(j)
  BY <1>1, <1>3 DEF StartsDeletion
<1>5. CASE inst'[i].state = inst[i].state
  BY <1>3, <1>4, <1>5
<1>6. CASE inst[i].state = "active" /\ inst'[i].state = "destroying"
  <2>1. CustodyOf(i) = from /\ CustodyOf(i)' = "condemned"
    BY <1>6, CustodyReads DEF CustodyRead
  <2> QED BY <1>4, <2>1, CustodyPasses
<1> QED BY <1>1, <1>5, <1>6 DEF StartsDeletion

(* No instance passes from one custody to another.                        *)
Steady == \A i \in Instances : CustodyOf(i)' = CustodyOf(i)

(* Steps after which Vultr has the same instances and every NodeClaim the  *)
(* same provider ID.                                                       *)
LEMMA NothingPasses ==
    ASSUME IInv, UNCHANGED providerID,
           \A c \in Claims : Exists(c)' <=> Exists(c),
           \A i \in Instances : inst'[i].state = inst[i].state /\ inst'[i].tags = inst[i].tags
    PROVE  Steady
<1>1. ASSUME NEW i \in Instances PROVE (Claimed(i)' <=> Claimed(i)) /\ (Recorded(i)' <=> Recorded(i))
  BY DEF Claimed, Recorded, OwnedBy
<1> QED BY <1>1, CustodySteady DEF Steady

(* A step that makes one instance of ours go on in its life.               *)
LEMMA OneMoves ==
    ASSUME IInv, NEW i \in Instances, UNCHANGED <<claim, providerID>>,
           \A j \in Instances \ {i} : inst'[j] = inst[j]
    PROVE  \A j \in Instances \ {i} : CustodyOf(j)' = CustodyOf(j)
<1>1. ASSUME NEW j \in Instances \ {i} PROVE (Claimed(j)' <=> Claimed(j)) /\ (Recorded(j)' <=> Recorded(j))
  BY DEF Claimed, Recorded, OwnedBy, Exists
<1> QED BY <1>1, CustodySteady

LEMMA ClaimRefines ==
    ASSUME IInv, NEW c \in Claims, ClaimStep(c)
    PROVE  Custody!Next \/ Steady
<1> USE DEF IInv, TypeOK
<1>1. CASE CreateClaim(c)
  <2>1. ASSUME NEW i \in Instances, inst[i].state = "active", i \notin Foreign PROVE ~OwnedBy(i, c)
    BY <1>1, <2>1, ClaimTagsInjective DEF CreateClaim, TagsTellTheOwner, OwnedBy
  <2>2. /\ UNCHANGED <<inst, providerID>>
        /\ \A d \in Claims \ {c} : Exists(d)' <=> Exists(d)
    BY <1>1 DEF CreateClaim, Exists
  <2>3. ASSUME NEW i \in Instances, inst[i].state = "active", i \notin Foreign
        PROVE  (Claimed(i)' <=> Claimed(i)) /\ (Recorded(i)' <=> Recorded(i))
    BY <2>1, <2>2, <2>3 DEF Claimed, Recorded, OwnedBy
  <2> QED BY <2>2, <2>3, CustodySteady DEF Steady
<1>2. CASE TerminateClaim(c)
  BY <1>2, NothingPasses DEF TerminateClaim, Exists
<1>3. CASE FinalizeUnlaunched(c)
  <2>1. Custody!Abandon
    BY <1>3, Account, AbandonStep DEF FinalizeUnlaunched, Exists
  <2> QED BY <2>1 DEF Custody!Next
<1>4. CASE ReleaseFinalizer(c)
  <2>1. Custody!Abandon
    BY <1>4, AbandonStep DEF ReleaseFinalizer, Exists, CallsFollowClaims
  <2> QED BY <2>1 DEF Custody!Next
<1>5. CASE Persist(c)
  <2>0. PICK i \in Instances \ Foreign : i = call[c].inst
    BY <1>5 DEF Persist, CallsFollowClaims
  <2>1. /\ OwnedBy(i, c) /\ Exists(c) /\ providerID[c] = NoInstance
        /\ providerID' = [providerID EXCEPT ![c] = i] /\ UNCHANGED <<claim, inst>>
    BY <1>5, <2>0 DEF Persist, CallsFollowClaims
  <2>2. ASSUME NEW j \in Instances PROVE /\ Claimed(j)' <=> Claimed(j)
                                         /\ j # i => (Recorded(j)' <=> Recorded(j))
    BY <2>1, Account DEF Claimed, Recorded, OwnedBy, Exists
  <2>3. \A j \in Instances \ {i} : CustodyOf(j)' = CustodyOf(j)
    BY <2>1, <2>2, CustodySteady
  <2>4. CASE inst[i].state = "active"
    <3>1. Claimed(i) /\ ~Recorded(i) /\ Claimed(i)' /\ Recorded(i)'
      BY <2>1, <2>2, OneOwner, Account DEF Recorded
    <3>2. CustodyOf(i) = "unrecorded" /\ CustodyOf(i)' = "recorded"
      BY <2>1, <2>4, <3>1, CustodyReads DEF CustodyRead
    <3>3. Custody!Record(i)
      BY <2>1, <2>3, <3>2, CustodyPasses DEF Custody!Record
    <3> QED BY <2>1, <3>3 DEF Custody!Next
  <2>5. CASE inst[i].state # "active"
    BY <2>1, <2>3, <2>5, CustodySteady DEF Steady
  <2> QED BY <2>4, <2>5
<1>6. CASE BeginCreate(c)
  <2>1. PICK i \in Instances :
          /\ inst[i].state = "unused"
          /\ inst' = [inst EXCEPT ![i] = [state |-> "posted", tags |-> ClaimTags(c), age |-> 0]]
    BY <1>6 DEF BeginCreate
  <2>2. CustodyOf(i)' = CustodyOf(i)
    BY <2>1, CustodyReads DEF CustodyRead
  <2> QED BY <1>6, <2>1, <2>2, OneMoves DEF BeginCreate, Steady
<1>7. CASE CreateFails(c)
  <2>0. PICK i \in Instances : i = call[c].inst
    BY <1>7 DEF CreateFails, CallsFollowClaims
  <2>1. /\ inst[i].state = "posted"
        /\ inst' = [inst EXCEPT ![i] = [state |-> "unused", tags |-> <<>>, age |-> 0]]
        /\ UNCHANGED <<claim, providerID>>
    BY <1>7, <2>0 DEF CreateFails
  <2>2. CustodyOf(i)' = CustodyOf(i)
    BY <2>1, CustodyReads DEF CustodyRead
  <2> QED BY <2>1, <2>2, OneMoves DEF Steady
<1>8. CASE \/ CreateReturns(c) \/ CreateTimesOut(c) \/ BeginDelete(c) \/ DeleteNotFound(c)
           \/ ConfirmGone(c) \/ ConfirmFails(c)
  BY <1>8, NothingPasses DEF CreateReturns, CreateTimesOut, BeginDelete, DeleteNotFound,
                             ConfirmGone, ConfirmFails, Exists
<1>9. CASE DeleteAccepted(c) \/ DeleteRejected(c)
  <2>0. PICK i \in Instances \ Foreign : i = providerID[c]
    BY <1>9 DEF DeleteAccepted, DeleteRejected, CallsFollowClaims, RecordsAreOwn
  <2>1. call[c].step = "deleting" /\ (Destroy(i) \/ UNCHANGED inst) /\ UNCHANGED <<claim, providerID>>
    BY <1>9, <2>0 DEF DeleteAccepted, DeleteRejected, DeleteUnanswered
  <2>2. OwnedBy(i, c) /\ Exists(c)
    BY <2>0, <2>1 DEF CallsFollowClaims, RecordsAreOwn, Exists
  <2>3. Claimed(i) /\ Recorded(i)
    BY <2>0, <2>2 DEF Claimed, Recorded
  <2>4. inst[i].state = "active" => CustodyOf(i) = "recorded"
    BY <2>2, <2>3, CustodyReads DEF CustodyRead
  <2>5. Custody!Terminate(i) \/ Steady
    BY <2>1, <2>2, <2>4, DeleteStep DEF Custody!Terminate, Steady
  <2> QED BY <2>2, <2>5 DEF Custody!Next
<1> QED BY <1>1, <1>2, <1>3, <1>4, <1>5, <1>6, <1>7, <1>8, <1>9 DEF ClaimStep

LEMMA ScanRefines ==
    ASSUME IInv, NEW k \in Clusters, NEW i \in Instances, ScanStep(k, i)
    PROVE  Custody!Next \/ Steady
<1> USE DEF IInv, TypeOK
<1>1. CASE SkipInstance(k, i) \/ CondemnInstance(k, i) \/ LookupFails(k, i)
  BY <1>1, NothingPasses DEF SkipInstance, CondemnInstance, LookupFails, Exists
<1>2. CASE OrphanDeleted(k, i) \/ OrphanDeleteFails(k, i)
  <2>1. /\ scan[k].target = i /\ (Destroy(i) \/ UNCHANGED inst) /\ UNCHANGED <<claim, providerID>>
    BY <1>2 DEF OrphanDeleted, OrphanDeleteFails, DeleteUnanswered
  <2>2. i # NoInstance
    BY Account
  <2>3. i \in Instances \ Foreign
    BY <2>1, <2>2, TargetIsOurs
  <2>4. PICK n \in Names : inst[i].tags = ClaimTags(<<k, n>>) /\ claim[<<k, n>>] = "gone"
    BY <2>1, <2>2 DEF CondemnedOnlyOrphans
  <2>5. ~Claimed(i)
    BY <2>4, OneOwner DEF OwnedBy, Exists, Claims
  <2>6. inst[i].state = "active" => CustodyOf(i) = "orphaned"
    BY <2>3, <2>5, CustodyReads DEF CustodyRead
  <2>7. Custody!Collect(i) \/ Steady
    BY <2>1, <2>3, <2>6, DeleteStep DEF Custody!Collect, Steady
  <2> QED BY <2>7 DEF Custody!Next
<1> QED BY <1>1, <1>2 DEF ScanStep

LEMMA VultrRefines ==
    ASSUME IInv, NEW i \in Instances, VultrStep(i)
    PROVE  Custody!Next \/ Steady
<1> USE DEF IInv, TypeOK
<1>1. UNCHANGED <<claim, providerID>> /\ \A j \in Instances \ {i} : inst'[j] = inst[j]
  BY DEF VultrStep, VultrCreates, RequestLost, VultrDestroys, RemovedByHand, SetState
<1>2. \A j \in Instances \ {i} : CustodyOf(j)' = CustodyOf(j)
  BY <1>1, OneMoves
<1>3. CASE VultrCreates(i)
  <2>1. /\ inst[i].state = "posted" /\ inst'[i].state = "active" /\ inst'[i].tags = inst[i].tags
        /\ i \notin Foreign
    BY <1>3 DEF VultrCreates, TagsTellTheOwner
  <2>2. ~Recorded(i)'
    BY <1>1, <2>1, Account DEF Recorded, RecordsAreOwn, Started
  <2>3. CustodyOf(i) = "unused" /\ CustodyOf(i)' \in {"unrecorded", "orphaned"}
    BY <2>1, <2>2, CustodyReads DEF CustodyRead
  <2>4. Custody!Launch(i) \/ Custody!LaunchLate(i)
    BY <1>2, <2>3, CustodyPasses DEF Custody!Launch, Custody!LaunchLate
  <2> QED BY <2>4 DEF Custody!Next
<1>4. CASE RequestLost(i)
  <2>1. CustodyOf(i)' = CustodyOf(i)
    BY <1>4, CustodyReads DEF RequestLost, CustodyRead
  <2> QED BY <1>2, <2>1 DEF Steady
<1>5. CASE VultrDestroys(i)
  <2>1. CustodyOf(i) = "condemned" /\ CustodyOf(i)' = "gone"
    BY <1>5, CustodyReads DEF VultrDestroys, SetState, CustodyRead
  <2>2. Custody!Destroyed(i)
    BY <1>2, <2>1, CustodyPasses DEF Custody!Destroyed
  <2> QED BY <2>2 DEF Custody!Next
<1>6. CASE RemovedByHand(i)
  <2>1. CustodyOf(i) \in {"unrecorded", "recorded", "orphaned"} /\ CustodyOf(i)' = "gone"
    BY <1>6, CustodyReads DEF RemovedByHand, SetState, CustodyRead
  <2>2. Custody!Lost(i)
    BY <1>2, <2>1, CustodyPasses DEF Custody!Lost
  <2> QED BY <2>2 DEF Custody!Next
<1> QED BY <1>3, <1>4, <1>5, <1>6 DEF VultrStep

LEMMA CustodyNext == IInv /\ [Next]_vars => [Custody!Next]_[i \in Instances |-> CustodyOf(i)]
<1> SUFFICES ASSUME IInv, [Next]_vars PROVE Custody!Next \/ Steady
  BY DEF Steady
<1>1. CASE UNCHANGED vars
  BY <1>1, NothingPasses DEF vars, Exists
<1>2. ASSUME NEW c \in Claims, ClaimStep(c) PROVE Custody!Next \/ Steady
  BY <1>2, ClaimRefines
<1>3. ASSUME NEW k \in Clusters, BeginListing(k) \/ ListInstances(k) \/ ListingFails(k) \/ Crash(k)
      PROVE  Custody!Next \/ Steady
  BY <1>3, NothingPasses DEF BeginListing, ListInstances, ListingFails, Crash, Exists
<1>4. ASSUME NEW k \in Clusters, NEW i \in Instances, ScanStep(k, i) PROVE Custody!Next \/ Steady
  BY <1>4, ScanRefines
<1>5. ASSUME NEW i \in Instances, VultrStep(i) PROVE Custody!Next \/ Steady
  BY <1>5, VultrRefines
<1>6. CASE Tick
  <2>1. \A i \in Instances : inst'[i].state = inst[i].state /\ inst'[i].tags = inst[i].tags
    BY <1>6 DEF Tick, IInv, TypeOK
  <2> QED BY <1>6, <2>1, NothingPasses DEF Tick, Exists
<1> QED BY <1>1, <1>2, <1>3, <1>4, <1>5, <1>6 DEF Next

LEMMA CustodyInit == Init => Custody!Init
<1> SUFFICES ASSUME Init PROVE Custody!Init
  OBVIOUS
<1>1. ASSUME NEW i \in Instances PROVE inst[i].state = IF i \in Foreign THEN "active" ELSE "unused"
  BY DEF Init
<1>2. ASSUME NEW i \in Instances PROVE CustodyOf(i) = IF i \in Foreign THEN "foreign" ELSE "unused"
  BY <1>1, CustodyReads DEF CustodyRead
<1> QED BY <1>2 DEF Custody!Init

(* For any number of clusters, NodeClaims and instances, the provider      *)
(* keeps the rules of InstanceCustody: no instance that a NodeClaim names  *)
(* is left behind, none that an existing NodeClaim may yet name is         *)
(* deleted, and nobody else's is touched.  (Delete; orphan.go, Reconcile)  *)
THEOREM ImplementsCustody == Spec => KeepsCustody
<1>1. Spec => Custody!Spec
  BY CustodyInit, CustodyNext, Invariance, PTL DEF Spec, Custody!Spec
<1> QED BY <1>1 DEF KeepsCustody
=============================================================================
