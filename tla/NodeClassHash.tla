---------------------------- MODULE NodeClassHash ----------------------------
(***************************************************************************)
(* How a VultrNodeClass and the NodeClaims made from it keep track of      *)
(* drift across spec edits and provider upgrades: hash and migration of    *)
(* pkg/controllers/nodeclass.go; the hash annotations and IsDrifted of     *)
(* pkg/cloudprovider/cloudprovider.go; Hash and NodeClassHashVersion of    *)
(* pkg/apis/v1alpha1/hash.go.                                              *)
(*                                                                         *)
(* One NodeClass that is not deleted: finalizer, deletion and readiness    *)
(* are the subject of NodeClassLifecycle.  Every handler reads through a   *)
(* cache and writes later, so a handler works on what it read when it      *)
(* began.  Karpenter's own drift controller, which calls IsDrifted and     *)
(* sets or clears the Drifted condition, is external.                      *)
(***************************************************************************)
EXTENDS Naturals, FiniteSets

CONSTANTS
    Claims,       \* NodeClaims that refer to the NodeClass
    Specs,        \* what its spec may be
    Versions,     \* revisions of the hashing scheme, one per provider release
    Rollbacks,    \* whether an older release may be installed again
    None,         \* no annotation
    MaxEdits,     \* bound on spec edits
    MaxRestarts   \* bound on restarts of the provider

ASSUME HashAssumption ==
    /\ Versions \subseteq Nat /\ Rollbacks \in BOOLEAN
    /\ None \notin Versions \cup (Versions \X Specs)
    /\ MaxEdits \in Nat /\ MaxRestarts \in Nat

VARIABLES
    nc,        \* the NodeClass on the API server
    claim,     \* the NodeClaims there
    running,   \* NodeClassHashVersion of the running provider
    rec,       \* the NodeClass reconciliation in progress
    create,    \* the spec each Create in progress has read, or None
    judge,     \* the verdict of the drift check in progress, or None
    edits, restarts

vars == <<nc, claim, running, rec, create, judge, edits, restarts>>

Hashes == Versions \X Specs

NodeClass == [spec    : Specs,
              hash    : Hashes \cup {None},
              version : Versions \cup {None}]

NodeClaim == [phase   : {"absent", "pending", "launched", "gone"},
              built   : Specs \cup {None},     \* what its instance was made from
              hash    : Hashes \cup {None},
              version : Versions \cup {None},
              drifted : BOOLEAN]

Reconciliation == [step   : {"idle", "read", "migrating", "stamping"},
                   seen   : NodeClass \cup {None},   \* the NodeClass it works on
                   todo   : SUBSET Claims,     \* NodeClaims to re-stamp
                   keep   : SUBSET Claims,     \* those listed as drifted
                   failed : BOOLEAN]

(* Mutant: the hash says nothing of the revision it was computed under.    *)
HashWithoutRevision(version, spec) == spec

(* A hash computed under one revision never equals one under another.      *)
Hash(version, spec) == <<version, spec>>

Exists(c) == claim[c].phase \in {"pending", "launched"}

TypeOK ==
    /\ nc \in NodeClass
    /\ claim \in [Claims -> NodeClaim]
    /\ running \in Versions
    /\ rec \in Reconciliation /\ (rec.step # "idle" => rec.seen \in NodeClass)
    /\ create \in [Claims -> Specs \cup {None}]
    /\ judge \in [Claims -> BOOLEAN \cup {None}]
    /\ edits \in 0 .. MaxEdits /\ restarts \in 0 .. MaxRestarts

Settled == [step |-> "idle", seen |-> None, todo |-> {}, keep |-> {}, failed |-> FALSE]

Init ==
    /\ \E s \in Specs :
         nc = [spec |-> s, hash |-> None, version |-> None]
    /\ claim = [c \in Claims |-> [phase |-> "absent", built |-> None, hash |-> None,
                                  version |-> None, drifted |-> FALSE]]
    /\ running \in Versions
    /\ rec = Settled
    /\ create = [c \in Claims |-> None]
    /\ judge = [c \in Claims |-> None]
    /\ edits = 0 /\ restarts = 0

-----------------------------------------------------------------------------
(* The operator, and restarts of the provider.                             *)

EditSpec(s) ==
    /\ edits < MaxEdits /\ s # nc.spec
    /\ nc' = [nc EXCEPT !.spec = s]
    /\ edits' = edits + 1
    /\ UNCHANGED <<claim, running, rec, create, judge, restarts>>

(* The provider stops, wherever it is, and another release may start.      *)
Restart(v) ==
    /\ restarts < MaxRestarts
    /\ v >= running \/ Rollbacks
    /\ restarts' = restarts + 1
    /\ running' = v
    /\ rec' = Settled
    /\ create' = [c \in Claims |-> None]
    /\ judge' = [c \in Claims |-> None]
    /\ UNCHANGED <<nc, claim, edits>>

-----------------------------------------------------------------------------
(* NodeClaims, and CloudProvider.Create as far as it concerns the hash.    *)

NewClaim(c) ==
    /\ claim[c].phase = "absent"
    /\ claim' = [claim EXCEPT ![c].phase = "pending"]
    /\ UNCHANGED <<nc, running, rec, create, judge, edits, restarts>>

RemoveClaim(c) ==
    /\ Exists(c) /\ create[c] = None
    /\ claim' = [claim EXCEPT ![c].phase = "gone"]
    /\ judge' = [judge EXCEPT ![c] = None]
    /\ UNCHANGED <<nc, running, rec, create, edits, restarts>>

(* The NodeClass is resolved.                                              *)
BeginCreate(c) ==
    /\ claim[c].phase = "pending" /\ create[c] = None
    /\ create' = [create EXCEPT ![c] = nc.spec]
    /\ UNCHANGED <<nc, claim, running, rec, judge, edits, restarts>>

(* The instance is there, and the NodeClaim takes over the annotations.    *)
FinishCreate(c) ==
    /\ create[c] # None
    /\ claim' = [claim EXCEPT ![c] = [phase |-> "launched", built |-> create[c],
                                      hash |-> Hash(running, create[c]), version |-> running,
                                      drifted |-> FALSE]]
    /\ create' = [create EXCEPT ![c] = None]
    /\ UNCHANGED <<nc, running, rec, judge, edits, restarts>>

FailCreate(c) ==
    /\ create[c] # None
    /\ create' = [create EXCEPT ![c] = None]
    /\ UNCHANGED <<nc, claim, running, rec, judge, edits, restarts>>

-----------------------------------------------------------------------------
(* IsDrifted, and the condition Karpenter derives from it.                 *)

(* Mutant: hashes are compared without regard to their revision.           *)
IsDriftedAnyVersion(c) ==
    /\ claim[c].hash # None /\ claim[c].version # None
    /\ claim[c].hash # Hash(running, nc.spec)

IsDrifted(c) ==
    /\ claim[c].hash # None /\ claim[c].version = running
    /\ claim[c].hash # Hash(running, nc.spec)

JudgeDrift(c) ==
    /\ claim[c].phase = "launched" /\ judge[c] = None
    /\ judge' = [judge EXCEPT ![c] = IsDrifted(c)]
    /\ UNCHANGED <<nc, claim, running, rec, create, edits, restarts>>

(* A NodeClaim changed meanwhile makes the status write a conflict: what   *)
(* writes annotations also drops the verdict on its way.                   *)
RecordVerdict(c) ==
    /\ judge[c] # None
    /\ claim' = [claim EXCEPT ![c].drifted = judge[c]]
    /\ judge' = [judge EXCEPT ![c] = None]
    /\ UNCHANGED <<nc, running, rec, create, edits, restarts>>

-----------------------------------------------------------------------------
(* NodeClassController.Reconcile: syncHash.                                *)

Reconcile ==
    /\ rec.step = "idle"
    /\ rec' = [Settled EXCEPT !.seen = nc, !.step = "read"]
    /\ UNCHANGED <<nc, claim, running, create, judge, edits, restarts>>

(* An error ends the reconciliation; it is retried.                        *)
Fails ==
    /\ rec.step \in {"read", "stamping"}
    /\ rec' = Settled
    /\ UNCHANGED <<nc, claim, running, create, judge, edits, restarts>>

NothingToMigrate ==
    /\ rec.step = "read" /\ rec.seen.version = running
    /\ rec' = [rec EXCEPT !.step = "stamping"]
    /\ UNCHANGED <<nc, claim, running, create, judge, edits, restarts>>

(* Mutant: only NodeClaims that were never stamped are listed.             *)
ListUnstamped ==
    /\ rec.step = "read" /\ rec.seen.version # running
    /\ LET stale == { c \in Claims : Exists(c) /\ claim[c].version = None }
       IN  rec' = [rec EXCEPT !.step = "migrating", !.todo = stale,
                              !.keep = { c \in stale : claim[c].drifted }]
    /\ UNCHANGED <<nc, claim, running, create, judge, edits, restarts>>

(* migrateNodeClaimHashes lists the NodeClaims not yet on this revision.   *)
ListForMigration ==
    /\ rec.step = "read" /\ rec.seen.version # running
    /\ LET stale == { c \in Claims : Exists(c) /\ claim[c].version # running }
       IN  rec' = [rec EXCEPT !.step = "migrating", !.todo = stale,
                              !.keep = { c \in stale : claim[c].drifted }]
    /\ UNCHANGED <<nc, claim, running, create, judge, edits, restarts>>

(* Mutant: the revision is recorded and the hash is left as it was.        *)
RestampVersionOnly(c) ==
    /\ rec.step = "migrating" /\ c \in rec.todo
    /\ claim' = IF Exists(c) THEN [claim EXCEPT ![c].version = running] ELSE claim
    /\ judge' = [judge EXCEPT ![c] = None]
    /\ rec' = [rec EXCEPT !.todo = @ \ {c}]
    /\ UNCHANGED <<nc, running, create, edits, restarts>>

(* One listed as drifted keeps its hash; one that is gone is ignored.      *)
Restamp(c) ==
    /\ rec.step = "migrating" /\ c \in rec.todo
    /\ claim' = IF ~Exists(c) THEN claim
                ELSE [claim EXCEPT ![c].version = running,
                                   ![c].hash = IF c \in rec.keep THEN @
                                               ELSE Hash(running, rec.seen.spec)]
    /\ judge' = [judge EXCEPT ![c] = None]
    /\ rec' = [rec EXCEPT !.todo = @ \ {c}]
    /\ UNCHANGED <<nc, running, create, edits, restarts>>

(* The others are still attempted.                                         *)
RestampFails(c) ==
    /\ rec.step = "migrating" /\ c \in rec.todo
    /\ rec' = [rec EXCEPT !.todo = @ \ {c}, !.failed = TRUE]
    /\ UNCHANGED <<nc, claim, running, create, judge, edits, restarts>>

(* Mutant: failures are not reported.                                      *)
EndMigrationAnyway ==
    /\ rec.step = "migrating" /\ rec.todo = {}
    /\ rec' = [rec EXCEPT !.step = "stamping"]
    /\ UNCHANGED <<nc, claim, running, create, judge, edits, restarts>>

(* Any failure leaves the NodeClass on the old revision.                   *)
EndMigration ==
    /\ rec.step = "migrating" /\ rec.todo = {}
    /\ rec' = IF rec.failed THEN Settled ELSE [rec EXCEPT !.step = "stamping"]
    /\ UNCHANGED <<nc, claim, running, create, judge, edits, restarts>>

(* The patch holds what differs from the NodeClass that was read, and has  *)
(* no lock.                                                                *)
StampNodeClass ==
    /\ rec.step = "stamping"
    /\ LET hash == Hash(running, rec.seen.spec)
       IN  nc' = [nc EXCEPT !.hash    = IF rec.seen.hash = hash THEN @ ELSE hash,
                            !.version = IF rec.seen.version = running THEN @ ELSE running]
    /\ rec' = Settled
    /\ UNCHANGED <<claim, running, create, judge, edits, restarts>>

-----------------------------------------------------------------------------
Handler ==
    \/ Reconcile \/ Fails \/ NothingToMigrate \/ ListForMigration
    \/ EndMigration \/ StampNodeClass
    \/ \E c \in Claims : Restamp(c) \/ RestampFails(c)

ClaimStep(c) ==
    \/ NewClaim(c) \/ RemoveClaim(c) \/ BeginCreate(c) \/ FinishCreate(c) \/ FailCreate(c)
    \/ JudgeDrift(c) \/ RecordVerdict(c)

Next ==
    \/ \E s \in Specs : EditSpec(s)
    \/ \E v \in Versions : Restart(v)
    \/ \E c \in Claims : ClaimStep(c)
    \/ Handler

Spec == Init /\ [][Next]_vars

(* The NodeClass is reconciled again after an error and every few minutes  *)
(* anyway; requests to the API server fail only now and then.              *)
Fairness ==
    /\ WF_vars(Handler) /\ SF_vars(ListForMigration)
    /\ \A c \in Claims : SF_vars(Restamp(c))

FairSpec == Spec /\ Fairness

-----------------------------------------------------------------------------
(* Replacing the provider by a release with another hashing scheme, at any *)
(* moment and however often, marks no NodeClaim drifted: only an edit of   *)
(* the spec can.  (IsDrifted; migrateNodeClaimHashes)                      *)
UpgradesDriftNothing ==
    edits = 0 => \A c \in Claims : Exists(c) => ~claim[c].drifted

(* Once the NodeClass carries the running release's revision, so does      *)
(* every launched NodeClaim, and drift can be told again: a migration that *)
(* failed in part, or that a crash cut short, is never taken for complete. *)
(* (syncHash)                                                              *)
RevisionsAgree ==
    nc.version = running =>
      \A c \in Claims : claim[c].phase = "launched" => claim[c].version = running

Stranded(c) == claim[c].phase = "launched" /\ claim[c].version # running

(* NodeClaims stamped by another release are re-stamped, all of them in    *)
(* the end, and drift resumes.  (cloudprovider.go, IsDrifted: "the         *)
(* NodeClass controller re-stamps them and drift resumes")                 *)
DriftResumes == (\E c \in Claims : Stranded(c)) ~> (\A c \in Claims : ~Stranded(c))

(* Nobody works on another spec than the present one, and no NodeClaim     *)
(* has a hash or a verdict that came of another.                           *)
InSync ==
    /\ rec.step # "idle" => rec.seen.spec = nc.spec
    /\ \A c \in Claims : create[c] \in {None, nc.spec} /\ judge[c] \in {None, FALSE}
    /\ \A c \in Claims :
         Exists(c) => /\ c \notin rec.keep /\ ~claim[c].drifted
                      /\ claim[c].hash # None => claim[c].hash = Hash(claim[c].version, nc.spec)

(* A fleet in sync stays so until the spec is edited: neither upgrades nor *)
(* migrations that fail, are cut short or race with Create put a hash on a *)
(* NodeClaim, or a verdict, that the spec does not call for.  (IsDrifted;  *)
(* syncHash; migrateNodeClaimHashes, whose patch has no lock)              *)
OnlyEditsDrift == [][InSync /\ nc'.spec = nc.spec => InSync']_vars

(* Neither an upgrade nor a migration clears a verdict that is still true. *)
(* The README promises that "A NodeClaim already marked `Drifted' keeps    *)
(* its old hash so that verdict is not silently cleared".                  *)
VerdictsKept ==
    [][\A c \in Claims :
         claim[c].drifted /\ ~claim'[c].drifted =>
           claim'[c].phase = "gone" \/ claim[c].built = nc.spec]_vars
=============================================================================
