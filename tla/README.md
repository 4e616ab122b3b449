# karpenter-provider-vultr: a verification project

TLA+ models of the Karpenter provider for Vultr, model-checked with TLC on
small instances and, for the properties that matter most, proved with TLAPS for
every value of the constants. `PROJECT.json` ties every modelled definition to
the lines it stands for, lists the runs, the mutants that show each property
can fail, the hazards of the code and the theorems.

## The system

The provider is one Go process, leader-elected, that embeds Karpenter's own
controllers and adds two of its own. It keeps almost no state: the truth is on
the Kubernetes API server (NodeClaims, VultrNodeClasses, token Secrets) and at
Vultr (instances and their tags), both changed by others at any time.

| Component | Code | State | Operations |
| --- | --- | --- | --- |
| Ownership tags | `pkg/vultr/tags.go` | none; four tags on every instance | `InstanceTags`, `TagValue`, `NodeClaimName` |
| Launch and teardown | `pkg/cloudprovider/cloudprovider.go` | instances at Vultr, provider ID in the NodeClaim | `Create`, `Delete`, `Get`, `List` |
| Orphan cleaner | `pkg/controllers/orphan.go` | the listing of the current scan | `Reconcile`, every 5 minutes |
| NodeClass controller | `pkg/controllers/nodeclass.go`, `pkg/apis/v1alpha1/hash.go` | finalizer, hash annotations, Ready condition | `Reconcile`: `ensureFinalizer`, `syncHash`, `migrateNodeClaimHashes`, readiness, `finalize` |
| Drift | `IsDrifted` in `cloudprovider.go` | hash annotations on NodeClaims | `IsDrifted`; the annotations come from `Create` and from the migration |
| Discovery cache | `pkg/vultr/instancetype.go` | plan catalogue (5 min), availability per region (60 s) | `Plans`, `availablePlans` |
| Plan selection, instance types | `selectPlan`, `list` | none | pure choices over the two caches |
| Bootstrap token | `pkg/bootstrap/bootstrap.go` | token Secrets that expire | `Token` |
| Bootstrap script | `Render` | runs on the worker | retry and join loops |
| API client | `pkg/vultr/client.go` | none | one HTTP request per call, paginated lists |

How they interact:

- Karpenter calls `Create` for a new NodeClaim. `Create` reads the NodeClass, both
  caches, a ConfigMap and a token, then sends one POST. What it returns is
  persisted by Karpenter afterwards, so the instance exists before anything on
  the API server records it.
- Karpenter calls `Delete` for a terminating NodeClaim again and again, until it
  answers `NodeClaimNotFoundError`; only then is the NodeClaim released.
- The orphan cleaner reads the account and the NodeClaims, and deletes
  instances behind Karpenter's back. It shares nothing with `Create` and
  `Delete` except the account, the tags and the clock.
- The NodeClass controller and `IsDrifted` meet in annotations, which `Create`
  also writes. All of them read through informer caches.

What makes this hard: requests whose answer is lost, crashes between a remote
effect and its record, caches that trail, two clocks, several installations in
one account, releases with different hashing schemes, and reconciliations that
stop at the first error.

What correct means, per component:

- tags: an instance belongs to one installation, and the round trip finds it;
- launch and teardown: a NodeClaim goes only after its instance; teardown ends;
- orphan cleaner: deletes only what lost its NodeClaim, and all of it eventually;
- NodeClass and drift: an upgrade drifts nothing, drift resumes after it, a true
  verdict stays, a NodeClass outlives its NodeClaims;
- cache: bounded staleness, fallback to the last success;
- plan selection: the cheapest plan that is valid, available and requested, and
  the same market the scheduler was shown;
- token: what a worker is given stays valid until it has joined, and each of its
  attempts to join has a chance;
- readiness: Ready was earned by the spec it stands beside, and the status ends up
  telling of the spec and of Vultr's offer as they are;
- listing: finds what is there all the time, once each, or fails.

## Modules

**`Ownership`** — `tags.go` as operators. A tag is the pair of prefix and rest;
the rest is a value, and the set `Spaced` holds the values with whitespace,
because `TagValue` reads these as absent.

**`InstanceLifecycle`** — the core. Clusters share an account; for every
NodeClaim there is at most one provider call (`call`), as Karpenter serialises
them per NodeClaim; each cluster has one scan (`scan`), as the orphan cleaner is
a singleton. One action per API request and per outcome:

| Code | Actions |
| --- | --- |
| `Create` up to the POST | `BeginCreate` (the request is under way) |
| answer, refusal, no usable answer | `CreateReturns`, `CreateFails`, `CreateTimesOut` |
| the POST takes effect | `VultrCreates`, possibly after the caller gave up; or `RequestLost` |
| Karpenter's status update | `Persist` |
| `Delete` | `BeginDelete`, then `DeleteAccepted`, `DeleteNotFound` or `DeleteRejected`, then `ConfirmGone` or `ConfirmFails` |
| `OrphanController.Reconcile` | `BeginListing`, then `ListInstances` or `ListingFails`; per instance `SkipInstance`, `CondemnInstance` or `LookupFails`; then `OrphanDeleted` or `OrphanDeleteFails` |
| environment | `CreateClaim`, `TerminateClaim`, `FinalizeUnlaunched`, `ReleaseFinalizer`, `VultrDestroys`, `RemovedByHand`, `Tick`, `Crash` |

A failed request may have had its effect or not. The NodeClaim lookup of the
cleaner may trail the API server by `MaxLag` ticks; an instance may look up to
`MaxSkew` ticks older than it is; `Timing` assumes that the two together stay
within `Grace` (the code's 20 minutes). `Position` orders the listing, ties in any
order. A listing takes time: what comes or goes meanwhile may be in its answer or
not (see `AccountSnapshot`), and an instance that is gone keeps ageing, as the copy
in the listing does. `GoneAnswers` says how Vultr answers DELETE for an instance that is gone:
the code does not know, so it is a parameter. Everything `Create` does before the
POST only reads and is one step with it; a failure there is `Create` not
beginning. Likewise a provider ID that does not parse lets `Delete` fail before any
request; Karpenter only has the ones that `Create` returned.

`ListsPartitionAccount` says what `List` answers for every choice of cluster names:
a recorded instance is listed by its own cluster alone, or by none if that name has
whitespace inside (`Spaced`), which `main` accepts and `TagValue` reads as no tag.

**`InstanceCustody`** — the abstract specification: each instance is unused,
foreign, unrecorded, recorded, orphaned, condemned or gone, and only some
passages are allowed. `InstanceLifecycle` implements it under the mapping
`CustodyOf` (`KeepsCustody`).

**`MCInstanceLifecycle`** — values of the constants for TLC: the tags a third
party may have put on its instances, and two listing orders. Where `k2` is a
cluster, its name has whitespace in it.

**`InstanceListing`** — `ListInstances` page by page while others create and
destroy instances; `ListPlans` and `ListOS` are the same loop. `Fetch` is one
request with its answer: the page is appended, then the link decides whether the
listing ends, goes on with a cursor or fails. Vultr is external: its cursors are
taken to name the last instance of their page, so that pages advance, and a page
is only empty when nothing is left. A link is a token, a URL with
a cursor, a URL without one or blank (`Forms`). The code sends a URL without a cursor
back whole (`WholeLink`); Vultr is taken to refuse it. `stable` and `ever` remember what was there all the time and at
some time since the listing began; nothing in the code keeps them.

**`AccountSnapshot`** — the abstract specification: an answer in one step, between
`stable` and `ever`, or a failure. `InstanceListing` implements it
(`ListsAccount`). `InstanceLifecycle` uses a listing as it is promised there:
`BeginListing` notes what runs at the first request, and `ListInstances` answers
anything that has all of it that still runs, and no instance that never ran.
That admits every answer of `AccountSnapshot` and more (also instances that were
gone before the listing began).

**`InstanceTypeCache`** — one cache entry and concurrent callers. `Plans` and
`availablePlans` are the same protocol. The mutex is released for the request, so
lookup, request and store are separate steps. An answer is identified by the
time it was true (`asOf`).

**`NodeClassHash`** — one NodeClass, its NodeClaims and the release that is
running. A reconciliation works on the NodeClass it read (`rec.seen`) and writes
later; `Create` works on the spec it read (`create`); Karpenter's drift controller
asks `IsDrifted` and writes the condition later (`judge`). `Restart` replaces the
release at any moment. Hashes are pairs of version and spec, that is, injective.
The status write of the drift controller conflicts when the NodeClaim changed,
so writers of annotations discard a verdict on its way. Whether the NodeClass
still exists is the subject of the next module.

**`NodeClassLifecycle`** — one NodeClass from its creation to its removal: the rest
of `Reconcile`, and what `Create` makes of the NodeClass. Controller and
CloudProvider share the manager's client, hence one informer cache of NodeClasses
(`cache`) and one of NodeClaims (`listed`), both behind the API server (`nc`, `claim`).

| Code | Actions |
| --- | --- |
| `Reconcile`, reading the NodeClass | `Reconcile` (idle to begun, or to finalizing for a deletion) |
| `ensureFinalizer` | `EnsureFinalizer`, or `Conflict` |
| `syncHash`, then the checks of the spec | `SyncHash`, `AfterChecks` |
| lookups of OS image, region and plan | `LookupOS`, `LookupRegion`, `LookupPlan`; `LookupFails` where the request fails |
| the TTLs of the discovery cache | `RegionExpires`, `PlansExpire` |
| status update | `UpdateStatus`, or `Conflict` |
| `finalize` | `ListForFinalize`, `Release`, or `Conflict` |
| every other error return | `Fails` |
| `Create`: `nodeClass` and the readiness check, the rest, its failures | `BeginCreate`, `FinishCreate`, `FailCreate` |
| environment | `EditSpec`, `DeleteNodeClass`, `VultrChanges`, `NewClaim`, `RemoveClaim`, `ObserveNodeClass`, `ObserveClaim`, `Restart`, `CalmsDown` |

A patch without a lock answers with the NodeClass as the server has it, and the
handler goes on with that one: `SyncHash` may hand the checks a newer spec than the
one whose hash it sent. The checks of the spec that need no lookup are one flag
(`sound`). The image a spec names is looked up at Vultr, whose offer (`vultr`) changes
at any time; its region and its plan are looked up in the controller's own
`InstanceTypeProvider` (`discovery`): an entry for every region and one for the
catalogue. A fresh entry is the answer. Otherwise Vultr is asked and the answer
stored (`Refreshed`); if the request fails, the verdict is "not ready" or, after a
retryable failure, comes from the old entry, whatever its age (`LookupFails`). A plan
must be in the catalogue as well as in the region (`PlansKnown`). The controller has
one worker, so a lookup is one step here; `InstanceTypeCache` has its parts and the
callers that overtake each other. Every region exists: Vultr's refusal of an unknown
one is a lookup that fails.

Karpenter creates a NodeClaim only after it has seen the NodeClass ready, which is
why a NodeClass that is deleted before its first reconciliation, and has no finalizer,
leaves no NodeClaim behind. The model allows a NodeClaim at any time after the first
status (`NewClaim`), which is more than Karpenter does. `calm` ends edits, changes of
the offer, failures and restarts, so that convergence can be stated.

**`MCNodeClassLifecycle`** — two specs for TLC, one that the checks refuse and one that
needs every lookup; three offers, in which the plan is available or not, and in the
catalogue or not; and the two scenarios of the run (see the bounds).

**`BootstrapToken`** — concurrent calls of `Token`. A call lists the Secrets
through a cache that trails (`Observe`), takes the token that lives longest
(`TakeNewest`), or lists again and takes any (`TakeAny`) or creates one (`Generate`,
then `Store`). A token's expiration is fixed, so its remaining life stands for it.
How long a worker takes (`JoinWindow`) and the removal of expired Secrets by
Kubernetes' TokenCleaner (`Clean`) are external.

**`BootstrapJoin`** — extends `BootstrapToken` with the script that `Render` writes, one
worker per call of `Token`: four commands under `retry`, each with
attempts of its own (`Install`, `InstallFails`), the commands that are
not retried (`CommandFails`, as `set -e` ends the script), and the loop of
`join_cluster` and `kubeadm reset` (`Join`, `JoinFails`, `Reset`, `ResetFails`). A failed
join may leave files behind (`dirty`); a reset that fails is ignored (`|| true`).
`wasted` and `spoilt` remember for the property what has happened. kubeadm is
external: it refuses a dirty host and a token the API server does not know, and
may fail otherwise.

**`MCBootstrapJoin`** — the symmetry of its run.

**`LaunchDecision`** — one call of `selectPlan` after another: the catalogue, the
region's availability, then the configured plan or the loop over the catalogue,
one action per visit, in any order. What the two lookups answer is arbitrary.
`InstanceTypes` and `Offers` are what `list` shows the scheduler for the same
answers. Plan IDs are numbers, for the order of strings; a cost of 0 stands for
every plan the code passes over (no cost, no CPUs, no memory, NaN, infinite).

**`InstanceLifecycle_proofs`**, **`InstanceListing_proofs`**,
**`InstanceTypeCache_proofs`**, **`NodeClassHash_proofs`**,
**`NodeClassLifecycle_proofs`**, **`BootstrapToken_proofs`**, **`BootstrapJoin_proofs`**,
**`LaunchDecision_proofs`** — the theorems.

## Runs

| Run | What it checks | Result |
| --- | --- | --- |
| `shared_account` | two clusters and a third party in one account: `CondemnedOnlyOrphans`, `ListsPartitionAccount`, refinement `KeepsCustody` | holds |
| `lifecycle` | one cluster, two instances, one with an unreadable date: `TypeOK`, `ReleasedOnlyWhenGone`, `KeepsCustody`, `OrphansCollected`, `TerminationCompletes` | holds |
| `teardown_wedge` | `TerminationCompletes` when DELETE of a gone instance is answered with success | violated |
| `orphan_starvation` | `OrphansCollected` with an undeletable orphan ahead in the listing | violated |
| `instance_listing` | listing in pages: `TypeOK`, `NoDuplicates`, refinement `ListsAccount`, `ListingEnds` | holds |
| `instance_type_cache` | `HitsAreRecent` | holds |
| `cache_fallback` | `FallsBackToLastSuccess` | violated |
| `nodeclass_hash` | `TypeOK`, `UpgradesDriftNothing`, `RevisionsAgree`, `OnlyEditsDrift`, `DriftResumes` | holds |
| `nodeclass_lifecycle` | `TypeOK`, `NodeClassOutlivesInstances`, `ReadyIsEarned`, `StatusConverges`, `StatusStays`, `DeletionCompletes` | holds |
| `drift_verdict` | `VerdictsKept` | violated |
| `bootstrap_token` | tokens and the workers that use them: `TokensOutliveJoins`, `AttemptsCount` | holds |
| `launch_decision` | `LaunchesBestOffer` | holds |

The four violations are disagreements between the code and what the
repository says about it; `PROJECT.json` quotes the sentences.

- `teardown_wedge`: `Delete` looks the instance up only after a DELETE that
  failed. If Vultr keeps accepting the DELETE of a destroyed instance, `Delete`
  returns nil for ever and the NodeClaim stays.
- `orphan_starvation`: a refused DELETE ends the scan; the next one begins at the
  same instance again. What is listed after it is never collected.
- `cache_fallback`: the fallback is the entry read before the request. Another
  caller may have refreshed the entry meanwhile.
- `drift_verdict`: after an upgrade `IsDrifted` answers "no" for every NodeClaim
  until the migration has run, so Karpenter clears a verdict that still holds,
  and the migration, finding no condition, stamps the new hash.

### Bounds, and why they are enough

- `shared_account`: two clusters, the second with whitespace in its name, one
  NodeClaim name that both use, one instance
  identifier to create and one foreign instance with any of four tag lists. The
  confusions the tags could allow need two parties with the same NodeClaim
  name. One crash. The grace period is 2 ticks, lag and skew 1 each: the equality
  in `Timing`, where the argument is tightest; with an instance that ages and a
  claim that ages every order of the three deadlines occurs.
- `lifecycle`: two instance identifiers, so that one NodeClaim can leave an
  orphan behind and get another instance; one crash. NodeClaim names are never
  reused, and NodeClaims of one cluster do not interact except through the
  scan's order, which `orphan_starvation` exercises.
- `instance_listing`: five instances in pages of at most two, which Vultr may make
  shorter: three pages and more, instances appearing and going before, inside and
  behind the cursor, listings that follow each other.
- `instance_type_cache`: two callers (a refresh overtaken by another) and a clock
  up to three TTLs.
- `nodeclass_hash`: two NodeClaims (a migration that succeeds for one and fails
  for the other), two specs, two versions, one edit, one restart; `drift_verdict` needs one NodeClaim.
  `Rollbacks = FALSE`: no older release is installed again (see below).
- `nodeclass_lifecycle`: one NodeClaim, one region, one plan, one edit, two specs and
  three offers. NodeClaims meet only in `listed`, of which `finalize` asks whether it
  is empty; one edit is what makes a verdict outdated; entries of different regions
  do not interact. To stay small the run has two scenarios (`MCSpec`). Where no
  NodeClaim comes, the offer changes at will until `calm`, while the spec is edited
  and requests fail: this is where the status converges and an old entry could disturb it. Where
  NodeClaims come, the NodeClass starts out usable and the offer stays; NodeClaims
  depend on the offer through readiness only, which failing lookups and edits turn
  as well. The safety invariants and `StatusStays` are proved for `Spec`, which has
  no such restriction.
- `bootstrap_token`: two callers, three tokens and a malformed Secret: both may
  create a token while an old one still lies in the cache. TTL, refresh margin,
  storing and joining take 4, 2, 1 and 2 ticks; the code's TTL and margin are
  12 and 2 hours. The installation is four
  commands, as in the code, with two attempts each, and joining has three attempts
  (the code makes 10 and 5): the first, one in between and the last. Callers are symmetric,
  and so are well-formed tokens; the run has only invariants, for which symmetry
  is sound. Margin and join window are equal, the tightest case
  `TokenAssumption` allows. That a worker joins or gives up within the margin is
  an assumption on the worker, which the code leaves to the two hours; the pauses
  of the script add up to minutes.
- `launch_decision`: three plan IDs and the costs 0 (unusable), 1 and 2, so that
  ties, a better plan visited late and a catalogue without usable plans all
  occur; every availability, requirement and configured plan.

`MaxCrashes`, `MaxEdits`, `MaxRestarts` and `Horizon` are bounds of the runs;
the theorems hold for any value of them.

### Fairness

`FairSpec` of `InstanceLifecycle` lets time pass and every pending step be taken:
Karpenter re-calls `Delete` every few seconds, the scan is requeued every 5
minutes and after every error, requests are answered one way or another (weak
fairness). API failures are transient: a step that competes with its own failure
is taken if it is possible again and again (strong fairness); so is the answer of a
listing (`ListInstances`), whose requests fail only now and then. Nothing makes Vultr
accept a DELETE it refuses for good (`Stuck`), and instances with an unreadable
date (`Undated`) are excluded from `OrphansCollected`, because the code never
collects them. `FairSpec` of `NodeClassHash` is the same: controller-runtime
retries after an error (weak fairness of `Handler`), and listing and re-stamping
NodeClaims do not fail for ever (strong fairness of `ListForMigration` and
`Restamp`). Restarts are bounded, so they stop eventually.

`FairSpec` of `NodeClassLifecycle`: the handler goes on as long as it can, since a
NodeClass is requeued every 5 minutes, after 30 seconds when a lookup failed, after
15 seconds while NodeClaims hold it, a second after a lost lock in `finalize`, and
with backoff after errors; and watches
deliver (`ObserveNodeClass`, `ObserveClaim`). Entries of the discovery cache come of
age (`RegionExpires`, `PlansExpire`), as time passes. Its liveness properties speak of the time
when edits, failures and restarts are over; nothing says that this time comes
(`CalmsDown` is not fair). Workers, `Create` and Karpenter are under no obligation.

`FairSpec` of `InstanceListing`: each request is answered, with a page or an error.
The HTTP client has no timeout, so this is left to the transport and the server.

## Proofs

| Theorem | States | Assumes |
| --- | --- | --- |
| `InstanceLifecycle_proofs!ClaimTagsReadBack` | tags read back as the NodeClaim they were written for, and as nobody's in another cluster | `Values` |
| `ForeignTagsNeverRead` | a third party's tags read back as no NodeClaim | `Values`, `Account` |
| `TypeCorrect` | `Spec => []TypeOK` | |
| `OrphansOnly` | `Spec => []CondemnedOnlyOrphans` | `Timing` |
| `NothingLeftBehind` | `Spec => []ReleasedOnlyWhenGone` | |
| `ListsAreExact` | `Spec => []ListsPartitionAccount` | `Values`, `Account`; any cluster names |
| `ImplementsCustody` | `Spec => KeepsCustody` | `Timing` |
| `InstanceListing_proofs!TypeCorrect` | `Spec => []TypeOK` | `ListingAssumption` |
| `ListedOnce` | `Spec => []NoDuplicates` | `ListingAssumption` |
| `ImplementsSnapshot` | `Spec => ListsAccount` | `ListingAssumption` |
| `InstanceTypeCache_proofs!TypeCorrect` | `Spec => []TypeOK` | `CacheAssumption` |
| `FreshMeansRecent` | `Spec => []HitsAreRecent` | `CacheAssumption` |
| `NodeClassHash_proofs!TypeCorrect` | `Spec => []TypeOK` | `HashAssumption` |
| `SyncIsKept` | `Spec => OnlyEditsDrift` | `HashAssumption` |
| `UpgradesAreSafe` | `Spec => []UpgradesDriftNothing` | `HashAssumption` |
| `MigrationComplete` | `Spec => []RevisionsAgree` | `HashAssumption`, no rollbacks |
| `NodeClassLifecycle_proofs!TypeCorrect` | `Spec => []TypeOK` | `NodeClassAssumption` |
| `FinalizerProtects` | `Spec => []NodeClassOutlivesInstances` | `NodeClassAssumption` |
| `ReadyIsCurrent` | `Spec => []ReadyIsEarned` | `NodeClassAssumption` |
| `StatusHolds` | `Spec => StatusStays` | `NodeClassAssumption` |
| `BootstrapToken_proofs!TypeCorrect` | `Spec => []TypeOK` | `TokenAssumption` |
| `TokensLast` | `Spec => []TokensOutliveJoins` | `TokenAssumption` |
| `BootstrapJoin_proofs!JoinsAreTokens` | `JoinSpec => Spec` of `BootstrapToken` | |
| `AttemptsWorthMaking` | `JoinSpec => []AttemptsCount` | `TokenAssumption`, `JoinAssumption` |
| `LaunchDecision_proofs!TypeCorrect` | `Spec => []TypeOK` | `PlanAssumption` |
| `BestOfferIsUnique` | on one market `LaunchesBestOffer` allows one plan | `PlanAssumption` |
| `BestOfferWins` | `Spec => []LaunchesBestOffer` | `PlanAssumption` |

Every theorem about `Spec` of `InstanceLifecycle` rests on one inductive invariant, and
so on `Timing`, `Values` and `Account`; the table names what a property is really
about. The constants' assumptions (`Timing`, `Values`, `Account`, `ListingAssumption`,
`CacheAssumption`, `HashAssumption`, `NodeClassAssumption`, `TokenAssumption`,
`JoinAssumption`, `PlanAssumption`) are stated in the modules and evaluated by TLC
in the runs.

**The lifecycle.** None of the three safety properties is inductive. `IInv` adds:

- `TagsTellTheOwner`: every instance ever asked for carries the tags of a
  NodeClaim that exists or existed, and foreign ones keep theirs;
- `CallsFollowClaims`: what a call in progress may rely on, in particular that a
  call whose answer was "gone" is right about it;
- `RecordsAreOwn`: a recorded instance was created for that NodeClaim;
- `ClaimsAreOlder`: an instance looks at most `MaxSkew` older than its NodeClaim
  is, as long as the cache may still lack the NodeClaim. This is the heart: an
  instance past the grace period whose NodeClaim exists has a NodeClaim older
  than `Grace - MaxSkew >= MaxLag`, so the lookup sees it;
- `ScansHoldStarted`: a scan only holds instances that have run at some time.

`CondemnedIsOrphan` draws the conclusion at the moment of the lookup, and
`OwnersStay` and `OrphansStay` keep it until the DELETE: a NodeClaim that is gone
does not return. What the tags say (`ClaimTagsReadBack`, `ForeignTagsNeverRead`,
`ClaimTagsInjective`) is proved from `tags.go`'s definitions. `Step` has one case
per action.

**Custody.** The refinement rests on `IInv`. `CustodyReads` says what the mapping
`CustodyOf` makes of an instance, `OneOwner` that it has one NodeClaim at most. Steps
that change neither instances, NodeClaims nor targets leave custody alone
(`CustodySteady`); every other step moves one instance along an edge of the abstract
`Next` (`OneMoves`, `ClaimRefines`, `ScanRefines`, `VultrRefines`). Time, crashes and
listings move none (`NothingPasses`).

**The listing.** `UpToCursor`: the result holds the stable instances up to the
cursor once, and nothing beyond it. Pages are initial pieces of what is left
(`OnePage`), so a cursor never passes over a stable instance, and the page without
a link is everything that is left.

**The cache.** `FiledEarly`: an entry is filed under a time no later than its
data. This is what makes refreshes that overtake each other harmless.

**Hash and migration.** `InSync`, the premise of `OnlyEditsDrift`: everybody works on
the present spec, and every hash is the one of that spec under the version beside
it, so equal versions mean equal hashes. It is kept together with `ClaimPhases`
(whoever is busy with a NodeClaim finds it in the phase it began in, and a new one
brings no hash along); `EditsCount` says that a step after which no edit has
been counted leaves the spec. Since `InSync` holds initially, it holds until the first edit, and
`UpgradesAreSafe` follows. `OnlyEditsDrift` says more: a fleet that has come back
into sync after edits stays so as well. `MigrationAccounted`: whoever believes the
NodeClass is current (the NodeClass itself, or a reconciliation that read it) is
right about the NodeClaims, and a running migration has dealt with every
NodeClaim that is off its list or knows that it failed. `NothingAhead` is why a
restart into a newer release falsifies the premise rather than the conclusion.

**NodeClass.** `FinalizerProtects` is three invariants together (`Lifetimes`).
`FinalizerHeld`: whoever knows of the finalizer is right as long as the NodeClass is
there, and without it the NodeClass was never Ready. `CachesTrail`: a handler on its
way to release has seen the deletion, and a NodeClaim that is being launched is
listed. `NothingLeftBehind`: when `Release` is next, no NodeClaim has an instance or
gets one. A `Create` that began before the deletion worked on a NodeClaim that
the cache of NodeClaims had, and `finalize` lists that cache. `ReadyIsCurrent` needs
`VerdictIsEarned`, what the lookups so far entitle the handler to report; the lock
of the status update carries it over to the API server, the caches copy it.
`StatusHolds` is the half of `StatusConverges` that needs no fairness. `Undisturbed`
begins where `AtRest` holds and is kept from there on: the cache agrees with the
NodeClass up to finalizer and hash, fresh discovery entries say what Vultr offers, and
a handler is on its way to the verdict the status already has. `AtRest` asks for the
entries because of what the code does without them: if the offer changes and changes
back within a TTL, a status that is right may be overwritten from an entry that is
not, until the entry expires. That it is put right again is `StatusConverges`.
While it waits, entries only expire (`ExpiryKeepsCurrent`), and whatever is asked
again and stored is right, because the offer stays.

**The token.** `LifeAccounted` balances two clocks: what is left of a token's life
plus the age of the call that holds it exceeds the join window, from the moment
it is handed out and, with `StoreTime` on top, while it is being stored.
`CacheTrails`: a token in the cache that has not expired is on the API server,
because only expired Secrets are cleaned.

**The join.** A step of the script changes nothing of `Token`'s, and `Leave` is
`EndJoin`: `JoinSpec` implies `Spec` of `BootstrapToken` (`JoinsAreTokens`), and
`TokensLast` holds beside the workers. `WorkerSound` adds that a host is clean before
each attempt unless a reset has failed.

**Plan selection.** `LoopInvariant`: the best so far is a candidate and beats
every candidate visited, which a visit keeps because `Cheaper` is a strict total
order (`CheaperOrders`, which is also why the best is unique: `BestOfferIsUnique`); at the end of the loop the candidates are exactly the
offers (`ScanFindsBestOffer`).

Only model-checked: liveness (`OrphansCollected`, `TerminationCompletes`,
`DriftResumes`, `StatusConverges`, `DeletionCompletes`, `ListingEnds`; temporal
reasoning under fairness is beyond the prover), and the violated properties. Of
`StatusConverges` it is that the status becomes right; that it stays so is proved.

## Not modelled

- `Get`, and the labels, capacity and image of the NodeClaims that the provider
  returns: they change no state.
- The text of the bootstrap script and the extra user data. `Render` validates the
  configuration again; whatever the readiness checks and the CRD's patterns let
  through passes there too, up to corner cases such as minor version 0. A `Create` that fails there is
  one of `FailCreate`.
- The CA digest: one read and one computation, no protocol.
- Reasons and messages of conditions: the model writes a status that differs in
  readiness, generation or plans, the code also one that differs in the message.
- Collisions of the hash: hashes are injective. `SlicesAsSets` makes the order of
  `sshKeyIDs` and `vpcIDs` irrelevant, and duplicated elements may cancel out.
- Requests that never end: the HTTP client has no timeout.
- Releases that are rolled back. `Rollbacks = TRUE` has them, and `UpgradesAreSafe` is
  proved with them; `MigrationComplete` assumes their absence, and `DriftResumes`
  fails with them: an interrupted upgrade leaves NodeClaims on the new version and
  the NodeClass on the old one, which the older release takes for current.
- Concurrent leaders: leader election is Karpenter's, as are the NodeClaim
  controllers, which appear as far as the code depends on them. Vultr likewise.
- The generated deep copies, the API types beyond the fields that matter, `main`,
  the manifests and the Helm chart: they have no behaviour of their own.

## Plan

Done, most important first: `Ownership`, `InstanceLifecycle` with `InstanceCustody`,
`InstanceTypeCache`, `NodeClassHash`, `BootstrapToken`, `LaunchDecision`,
`NodeClassLifecycle`, `InstanceListing` with `AccountSnapshot`, `BootstrapJoin`, and the
theorems above, among them the refinements. The scans of `InstanceLifecycle` list the
account over time, with the answers `AccountSnapshot` allows.

Left:

1. Rollbacks as a run of their own, once the code says what it promises for them.
2. Drift that the migration hides before Karpenter has recorded any verdict:
   `VerdictsKept` speaks only of recorded ones.
