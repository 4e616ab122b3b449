------------------------ MODULE NodeClassHash_proofs ------------------------
(***************************************************************************)
(* Proofs about NodeClassHash, for any number of NodeClaims, specs,        *)
(* releases, edits and restarts.                                           *)
(***************************************************************************)
EXTENDS NodeClassHash, TLAPS

(* Why InSync survives: a NodeClaim that is created brings nothing along,  *)
(* and whoever is busy with one finds it in the phase it began in.         *)
ClaimPhases ==
    \A c \in Claims :
      /\ create[c] # None => claim[c].phase = "pending"
      /\ judge[c] # None => claim[c].phase = "launched"
      /\ claim[c].phase = "absent" =>
           claim[c].hash = None /\ ~claim[c].drifted /\ c \notin rec.keep

(* The launched NodeClaims are on the running release's revision.          *)
AllCurrent == \A c \in Claims : claim[c].phase = "launched" => claim[c].version = running

(* Nothing is ahead of the running release.                                *)
NothingAhead ==
    /\ nc.version # None => nc.version <= running
    /\ rec.step # "idle" /\ rec.seen.version # None => rec.seen.version <= running

(* Why RevisionsAgree survives: whoever believes that the NodeClass is     *)
(* current is right about the NodeClaims, and a migration has dealt with   *)
(* every NodeClaim that is not on its list any more, or knows it failed.   *)
MigrationAccounted ==
    /\ nc.version = running => AllCurrent
    /\ rec.step # "idle" /\ rec.seen.version = running => AllCurrent
    /\ rec.step = "stamping" => AllCurrent
    /\ rec.step = "migrating" =>
         \A c \in Claims :
           claim[c].phase = "launched" =>
             claim[c].version = running \/ c \in rec.todo \/ rec.failed

-----------------------------------------------------------------------------
LEMMA SettledType ==
    /\ Settled \in Reconciliation /\ Settled.step = "idle"
    /\ Settled.todo = {} /\ Settled.keep = {} /\ Settled.failed = FALSE
  BY DEF Settled, Reconciliation

LEMMA HashType ==
    ASSUME NEW v \in Versions, NEW s \in Specs
    PROVE  Hash(v, s) \in Hashes
  BY DEF Hash, Hashes


LEMMA TypeStep == TypeOK /\ [Next]_vars => TypeOK'
<1> SUFFICES ASSUME TypeOK, [Next]_vars PROVE TypeOK'
  OBVIOUS
<1> USE HashAssumption
<1>0. CASE UNCHANGED vars
  BY <1>0 DEF TypeOK, vars
<1>1. ASSUME NEW s \in Specs, EditSpec(s) PROVE TypeOK'
  BY <1>1 DEF EditSpec, TypeOK, NodeClass
<1>2. ASSUME NEW v \in Versions, Restart(v) PROVE TypeOK'
  <2>1. judge' \in [Claims -> BOOLEAN \cup {None}]
    BY <1>2, Zenon DEF Restart
  <2>2. restarts' \in 0 .. MaxRestarts
    BY <1>2 DEF Restart, TypeOK
  <2> QED BY <1>2, <2>1, <2>2, SettledType DEF Restart, TypeOK
<1>3. ASSUME NEW c \in Claims, NewClaim(c) \/ RemoveClaim(c) PROVE TypeOK'
  BY <1>3 DEF NewClaim, RemoveClaim, TypeOK, NodeClaim
<1>4. ASSUME NEW c \in Claims, BeginCreate(c) \/ FailCreate(c) PROVE TypeOK'
  BY <1>4 DEF BeginCreate, FailCreate, TypeOK, NodeClass
<1>5. ASSUME NEW c \in Claims, FinishCreate(c) PROVE TypeOK'
  <2>1. create[c] \in Specs /\ Hash(running, create[c]) \in Hashes
    BY <1>5, HashType DEF FinishCreate, TypeOK
  <2> QED BY <1>5, <2>1 DEF FinishCreate, TypeOK, NodeClaim
<1>6. ASSUME NEW c \in Claims, JudgeDrift(c) PROVE TypeOK'
  <2>1. IsDrifted(c) \in BOOLEAN
    BY DEF IsDrifted
  <2> HIDE DEF IsDrifted
  <2> QED BY <1>6, <2>1 DEF JudgeDrift, TypeOK
<1>7. ASSUME NEW c \in Claims, RecordVerdict(c) PROVE TypeOK'
  <2>1. judge[c] \in BOOLEAN
    BY <1>7 DEF RecordVerdict, TypeOK
  <2> QED BY <1>7, <2>1 DEF RecordVerdict, TypeOK, NodeClaim
<1>8. CASE Reconcile
  BY <1>8 DEF Reconcile, Settled, Reconciliation, TypeOK
<1>9. CASE Fails
  BY <1>9, SettledType DEF Fails, TypeOK
<1>10. CASE NothingToMigrate
  BY <1>10 DEF NothingToMigrate, TypeOK, Reconciliation
<1>11. CASE ListForMigration
  BY <1>11 DEF ListForMigration, TypeOK, Reconciliation
<1>12. ASSUME NEW c \in Claims, Restamp(c) PROVE TypeOK'
  <2>1. Hash(running, rec.seen.spec) \in Hashes
    BY <1>12, HashType DEF Restamp, TypeOK, NodeClass
  <2>2. claim' \in [Claims -> NodeClaim]
    <3>1. /\ running \in Versions /\ claim \in [Claims -> NodeClaim]
          /\ claim[c].hash \in Hashes \cup {None}
      BY DEF TypeOK, NodeClaim
    <3> DEFINE hash == IF c \in rec.keep THEN claim[c].hash ELSE Hash(running, rec.seen.spec)
    <3>2. hash \in Hashes \cup {None}
      BY <2>1, <3>1
    <3>3. CASE ~Exists(c)
      BY <1>12, <3>1, <3>3 DEF Restamp
    <3>4. CASE Exists(c)
      <4>1. claim' = [claim EXCEPT ![c].version = running, ![c].hash = hash]
        BY <1>12, <3>1, <3>4 DEF Restamp, NodeClaim
      <4> HIDE DEF hash
      <4>2. [claim[c] EXCEPT !.version = running, !.hash = hash] \in NodeClaim
        BY <3>1, <3>2 DEF NodeClaim
      <4>3. claim' = [claim EXCEPT ![c] = [claim[c] EXCEPT !.version = running, !.hash = hash]]
        BY <3>1, <4>1
      <4> QED BY <3>1, <4>2, <4>3
    <3> QED BY <3>3, <3>4
  <2>3. rec' \in Reconciliation
    BY <1>12 DEF Restamp, TypeOK, Reconciliation
  <2> QED BY <1>12, <2>2, <2>3 DEF Restamp, TypeOK
<1>13. ASSUME NEW c \in Claims, RestampFails(c) PROVE TypeOK'
  BY <1>13 DEF RestampFails, TypeOK, Reconciliation
<1>14. CASE EndMigration
  <2>1. [rec EXCEPT !.step = "stamping"] \in Reconciliation
    BY DEF TypeOK, Reconciliation
  <2> QED BY <1>14, <2>1, SettledType DEF EndMigration, TypeOK
<1>15. CASE StampNodeClass
  <2>1. Hash(running, rec.seen.spec) \in Hashes
    BY <1>15, HashType DEF StampNodeClass, TypeOK, NodeClass
  <2>2. nc' \in NodeClass
    BY <1>15, <2>1 DEF StampNodeClass, TypeOK, NodeClass
  <2> QED BY <1>15, <2>2, SettledType DEF StampNodeClass, TypeOK
<1> QED BY <1>0, <1>1, <1>2, <1>3, <1>4, <1>5, <1>6, <1>7, <1>8, <1>9, <1>10, <1>11, <1>12,
           <1>13, <1>14, <1>15
        DEF Next, ClaimStep, Handler

LEMMA TypeInit == Init => TypeOK
<1> SUFFICES ASSUME Init PROVE TypeOK
  OBVIOUS
<1>1. nc \in NodeClass
  BY DEF Init, NodeClass
<1>2. judge \in [Claims -> BOOLEAN \cup {None}]
  BY Zenon DEF Init
<1>3. claim \in [Claims -> NodeClaim]
  BY DEF Init, NodeClaim
<1>4. rec \in Reconciliation /\ rec.step = "idle"
  BY SettledType DEF Init
<1>5. running \in Versions /\ create \in [Claims -> Specs \cup {None}]
  BY DEF Init
<1>6. edits \in 0 .. MaxEdits /\ restarts \in 0 .. MaxRestarts
  BY HashAssumption DEF Init
<1> QED BY <1>1, <1>2, <1>3, <1>4, <1>5, <1>6 DEF TypeOK

(* Every variable keeps to its type.                                       *)
THEOREM TypeCorrect == Spec => []TypeOK
  BY TypeInit, TypeStep, PTL DEF Spec

-----------------------------------------------------------------------------
LEMMA PhasesStep == TypeOK /\ ClaimPhases /\ [Next]_vars => ClaimPhases'
<1> SUFFICES ASSUME TypeOK, ClaimPhases, [Next]_vars PROVE ClaimPhases'
  OBVIOUS
<1> USE DEF ClaimPhases
<1>0. CASE UNCHANGED vars \/ \E s \in Specs : EditSpec(s)
  BY <1>0 DEF vars, EditSpec
<1>1. ASSUME NEW v \in Versions, Restart(v) PROVE ClaimPhases'
  BY <1>1 DEF Restart, Settled
<1>2. ASSUME NEW c \in Claims, NewClaim(c) \/ RemoveClaim(c) PROVE ClaimPhases'
  BY <1>2 DEF NewClaim, RemoveClaim, TypeOK, NodeClaim, Exists
<1>3. ASSUME NEW c \in Claims, BeginCreate(c) \/ FailCreate(c) PROVE ClaimPhases'
  BY <1>3 DEF BeginCreate, FailCreate, TypeOK
<1>4. ASSUME NEW c \in Claims, FinishCreate(c) PROVE ClaimPhases'
  BY <1>4 DEF FinishCreate, TypeOK
<1>5. ASSUME NEW c \in Claims, JudgeDrift(c) PROVE ClaimPhases'
  BY <1>5 DEF JudgeDrift, TypeOK
<1>6. ASSUME NEW c \in Claims, RecordVerdict(c) PROVE ClaimPhases'
  <2>1. \A d \in Claims : /\ claim'[d].phase = claim[d].phase /\ claim'[d].hash = claim[d].hash
                          /\ claim[d].phase = "absent" => claim'[d] = claim[d]
    BY <1>6 DEF RecordVerdict, TypeOK, NodeClaim
  <2>2. \A d \in Claims : judge'[d] \in {judge[d], None}
    BY <1>6 DEF RecordVerdict, TypeOK
  <2>3. create' = create /\ rec' = rec
    BY <1>6 DEF RecordVerdict
  <2> QED BY <2>1, <2>2, <2>3
<1>7. CASE Reconcile \/ Fails
  <2>1. CASE Reconcile
    BY <2>1 DEF Reconcile, Settled
  <2>2. CASE Fails
    BY <2>2 DEF Fails, Settled
  <2> QED BY <1>7, <2>1, <2>2
<1>8. CASE NothingToMigrate
  BY <1>8 DEF NothingToMigrate, TypeOK, Reconciliation
<1>9. CASE ListForMigration
  BY <1>9 DEF ListForMigration, TypeOK, Reconciliation, Exists
<1>10. ASSUME NEW c \in Claims, Restamp(c) PROVE ClaimPhases'
  <2>1. \A d \in Claims : /\ claim'[d].phase = claim[d].phase
                          /\ claim[d].phase = "absent" => claim'[d] = claim[d]
    BY <1>10 DEF Restamp, TypeOK, NodeClaim, Exists
  <2>2. rec'.keep = rec.keep /\ create' = create
    BY <1>10 DEF Restamp, TypeOK, Reconciliation
  <2>3. \A d \in Claims : judge'[d] \in {judge[d], None}
    BY <1>10 DEF Restamp, TypeOK
  <2> QED BY <2>1, <2>2, <2>3
<1>11. ASSUME NEW c \in Claims, RestampFails(c) PROVE ClaimPhases'
  BY <1>11 DEF RestampFails, TypeOK, Reconciliation
<1>12. CASE EndMigration
  BY <1>12 DEF EndMigration, TypeOK, Reconciliation, Settled
<1>13. CASE StampNodeClass
  BY <1>13 DEF StampNodeClass, Settled
<1> QED BY <1>0, <1>1, <1>2, <1>3, <1>4, <1>5, <1>6, <1>7, <1>8, <1>9, <1>10, <1>11, <1>12, <1>13
        DEF Next, ClaimStep, Handler

LEMMA SyncStep ==
    ASSUME TypeOK, ClaimPhases, InSync, [Next]_vars, nc'.spec = nc.spec
    PROVE  InSync'
<1> USE DEF InSync
<1>0. CASE UNCHANGED vars
  BY <1>0 DEF vars, Exists
<1>1. ASSUME NEW s \in Specs, EditSpec(s) PROVE FALSE
  BY <1>1 DEF EditSpec, TypeOK, NodeClass
<1>2. ASSUME NEW v \in Versions, Restart(v) PROVE InSync'
  BY <1>2 DEF Restart, Settled, Exists
<1>3. ASSUME NEW c \in Claims, NewClaim(c) \/ RemoveClaim(c) PROVE InSync'
  <2>1. PICK phase : claim' = [claim EXCEPT ![c].phase = phase]
    BY <1>3 DEF NewClaim, RemoveClaim
  <2>2. \A d \in Claims :
          /\ claim'[d].drifted = claim[d].drifted
          /\ claim'[d].hash = claim[d].hash /\ claim'[d].version = claim[d].version
          /\ Exists(d)' => Exists(d) \/ claim[d].phase = "absent"
    BY <1>3, <2>1 DEF TypeOK, NodeClaim, Exists, NewClaim, RemoveClaim
  <2>3. \A d \in Claims : judge'[d] \in {judge[d], None}
    BY <1>3 DEF NewClaim, RemoveClaim, TypeOK
  <2>4. nc' = nc /\ rec' = rec /\ create' = create
    BY <1>3 DEF NewClaim, RemoveClaim
  <2>5. \A d \in Claims : judge'[d] \in {None, FALSE}
    BY <2>3
  <2> QED BY <2>2, <2>4, <2>5 DEF ClaimPhases
<1>4. ASSUME NEW c \in Claims, BeginCreate(c) \/ FailCreate(c) PROVE InSync'
  BY <1>4 DEF BeginCreate, FailCreate, TypeOK, Exists
<1>5. ASSUME NEW c \in Claims, FinishCreate(c) PROVE InSync'
  <2>1. create[c] = nc.spec /\ Exists(c)
    BY <1>5 DEF FinishCreate, ClaimPhases, Exists
  <2> QED BY <1>5, <2>1 DEF FinishCreate, TypeOK, Exists
<1>6. ASSUME NEW c \in Claims, JudgeDrift(c) PROVE InSync'
  <2>1. Exists(c)
    BY <1>6 DEF JudgeDrift, Exists
  <2>2. IsDrifted(c) = FALSE
    BY <2>1 DEF IsDrifted, TypeOK
  <2>3. \A d \in Claims : judge'[d] \in {judge[d], FALSE}
    BY <1>6, <2>2 DEF JudgeDrift, TypeOK
  <2>4. nc' = nc /\ rec' = rec /\ create' = create /\ claim' = claim
    BY <1>6 DEF JudgeDrift
  <2>5. \A d \in Claims : judge'[d] \in {None, FALSE}
    BY <2>3
  <2> QED BY <2>4, <2>5 DEF Exists
<1>7. ASSUME NEW c \in Claims, RecordVerdict(c) PROVE InSync'
  <2>1. judge[c] = FALSE
    BY <1>7 DEF RecordVerdict
  <2>2. claim' = [claim EXCEPT ![c].drifted = FALSE]
    BY <1>7, <2>1 DEF RecordVerdict
  <2>3. \A d \in Claims :
          /\ claim'[d].phase = claim[d].phase
          /\ claim'[d].drifted => claim[d].drifted
          /\ claim'[d].hash = claim[d].hash /\ claim'[d].version = claim[d].version
    BY <2>2 DEF TypeOK, NodeClaim
  <2>4. \A d \in Claims : judge'[d] \in {judge[d], None}
    BY <1>7 DEF RecordVerdict, TypeOK
  <2>5. \A d \in Claims : judge'[d] \in {None, FALSE}
    BY <2>4
  <2>6. nc' = nc /\ rec' = rec /\ create' = create
    BY <1>7 DEF RecordVerdict
  <2> QED BY <2>3, <2>5, <2>6 DEF Exists
<1>8. CASE Reconcile
  BY <1>8 DEF Reconcile, TypeOK, Settled, Exists
<1>9. CASE Fails
  BY <1>9 DEF Fails, Settled, Exists
<1>10. CASE NothingToMigrate
  BY <1>10 DEF NothingToMigrate, TypeOK, Reconciliation, Exists
<1>11. CASE ListForMigration
  BY <1>11 DEF ListForMigration, TypeOK, Reconciliation, Exists
<1>12. ASSUME NEW c \in Claims, Restamp(c) PROVE InSync'
  <2>1. /\ rec'.step = rec.step /\ rec'.seen = rec.seen /\ rec'.keep = rec.keep
        /\ nc' = nc /\ create' = create
    BY <1>12 DEF Restamp, TypeOK, Reconciliation
  <2>2. \A d \in Claims : judge'[d] \in {judge[d], None}
    BY <1>12 DEF Restamp, TypeOK
  <2>3. \A d \in Claims : judge'[d] \in {None, FALSE}
    BY <2>2
  <2>4. CASE ~Exists(c)
    BY <1>12, <2>1, <2>3, <2>4 DEF Restamp, Exists
  <2>5. CASE Exists(c)
    <3>1. claim' = [claim EXCEPT ![c].version = running, ![c].hash = Hash(running, nc.spec)]
      BY <1>12, <2>5 DEF Restamp
    <3>2. \A d \in Claims :
            /\ claim'[d].drifted = claim[d].drifted /\ claim'[d].phase = claim[d].phase
            /\ d # c => claim'[d] = claim[d]
      BY <3>1 DEF TypeOK, NodeClaim
    <3>3. claim'[c].version = running /\ claim'[c].hash = Hash(running, nc.spec)
      BY <3>1 DEF TypeOK, NodeClaim
    <3> QED BY <2>1, <2>3, <3>2, <3>3 DEF Exists
  <2> QED BY <2>4, <2>5
<1>13. ASSUME NEW c \in Claims, RestampFails(c) PROVE InSync'
  BY <1>13 DEF RestampFails, TypeOK, Reconciliation, Exists
<1>14. CASE EndMigration
  BY <1>14 DEF EndMigration, TypeOK, Reconciliation, Settled, Exists
<1>15. CASE StampNodeClass
  BY <1>15 DEF StampNodeClass, TypeOK, NodeClass, Settled, Exists
<1> QED BY <1>0, <1>1, <1>2, <1>3, <1>4, <1>5, <1>6, <1>7, <1>8, <1>9, <1>10, <1>11, <1>12,
           <1>13, <1>14, <1>15
        DEF Next, ClaimStep, Handler

(* Only an edit changes the spec, and it counts.                           *)
LEMMA EditsCount ==
    ASSUME TypeOK, [Next]_vars, edits' = 0
    PROVE  edits = 0 /\ nc'.spec = nc.spec
<1>1. \A s \in Specs : ~EditSpec(s)
  BY HashAssumption DEF EditSpec, TypeOK
<1>2. CASE StampNodeClass
  BY <1>2 DEF StampNodeClass, TypeOK, NodeClass
<1>3. CASE ~StampNodeClass
  BY <1>1, <1>3 DEF Next, vars, ClaimStep, Restart, NewClaim, RemoveClaim, BeginCreate,
     FinishCreate, FailCreate, JudgeDrift, RecordVerdict, Restamp, RestampFails, Reconcile, Fails,
     NothingToMigrate, ListForMigration, EndMigration, Handler
<1> QED BY <1>2, <1>3

LEMMA SyncInit == Init => ClaimPhases /\ InSync
  BY DEF Init, ClaimPhases, InSync, Settled, Exists

(* A fleet in sync with the spec stays so until the spec is edited: no     *)
(* upgrade or rollback, and no migration, whether it fails in part, is cut *)
(* short or races with Create, gives a NodeClaim a hash or a verdict that  *)
(* the spec does not call for.  (IsDrifted; syncHash)                      *)
THEOREM SyncIsKept == Spec => OnlyEditsDrift
<1>1. Init => TypeOK /\ ClaimPhases
  BY TypeInit, SyncInit
<1>2. TypeOK /\ ClaimPhases /\ [Next]_vars => (TypeOK /\ ClaimPhases)'
  BY TypeStep, PhasesStep
<1>3. TypeOK /\ ClaimPhases /\ [Next]_vars => [InSync /\ nc'.spec = nc.spec => InSync']_vars
  BY SyncStep
<1> QED BY <1>1, <1>2, <1>3, PTL DEF Spec, OnlyEditsDrift

(* However often and whenever the provider is replaced by one with another *)
(* hashing scheme, rollbacks included, no NodeClaim is marked drifted      *)
(* before the spec is edited.  (IsDrifted; migrateNodeClaimHashes)         *)
THEOREM UpgradesAreSafe == Spec => []UpgradesDriftNothing
<1> DEFINE Unedited == edits = 0 => InSync
<1>1. Unedited => UpgradesDriftNothing
  BY DEF InSync, UpgradesDriftNothing
<1>2. Init => TypeOK /\ ClaimPhases /\ Unedited
  BY TypeInit, SyncInit
<1>3. TypeOK /\ ClaimPhases /\ Unedited /\ [Next]_vars => (TypeOK /\ ClaimPhases /\ Unedited)'
  BY TypeStep, PhasesStep, SyncStep, EditsCount
<1> QED BY <1>1, <1>2, <1>3, PTL DEF Spec

-----------------------------------------------------------------------------
(* Without rollbacks a restart leaves the version or leaves it behind.     *)
LEMMA MigrationStep ==
    ASSUME ~Rollbacks, TypeOK, NothingAhead, MigrationAccounted, [Next]_vars
    PROVE  NothingAhead' /\ MigrationAccounted'
<1>0. CASE UNCHANGED vars
  BY <1>0 DEF NothingAhead, MigrationAccounted, AllCurrent, vars
<1> USE DEF NothingAhead, MigrationAccounted, AllCurrent
<1>1. ASSUME NEW s \in Specs, EditSpec(s) PROVE NothingAhead' /\ MigrationAccounted'
  BY <1>1 DEF EditSpec, TypeOK, NodeClass
<1>2. ASSUME NEW v \in Versions, Restart(v) PROVE NothingAhead' /\ MigrationAccounted'
  <2>1. /\ running' = v /\ v >= running /\ nc' = nc /\ claim' = claim
        /\ rec'.step = "idle"
    BY <1>2 DEF Restart, Settled
  <2>2. /\ v \in Nat /\ running \in Nat
        /\ nc.version \in Nat \cup {None}
        /\ None # v
    BY HashAssumption DEF TypeOK, NodeClass, Reconciliation
  <2>3. NothingAhead'
    BY <2>1, <2>2
  <2>4. nc.version = v => v = running
    BY <2>1, <2>2
  <2> QED BY <2>1, <2>3, <2>4
<1>3. ASSUME NEW c \in Claims, NewClaim(c) \/ RemoveClaim(c) \/ RecordVerdict(c)
      PROVE NothingAhead' /\ MigrationAccounted'
  <2>1. \A d \in Claims :
          /\ claim'[d].version = claim[d].version
          /\ claim'[d].phase = "launched" => claim[d].phase = "launched"
    BY <1>3 DEF NewClaim, RemoveClaim, RecordVerdict, TypeOK, NodeClaim
  <2>2. nc' = nc /\ rec' = rec /\ running' = running
    BY <1>3 DEF NewClaim, RemoveClaim, RecordVerdict
  <2> QED BY <2>1, <2>2
<1>4. ASSUME NEW c \in Claims, BeginCreate(c) \/ FailCreate(c) \/ JudgeDrift(c)
      PROVE NothingAhead' /\ MigrationAccounted'
  BY <1>4 DEF BeginCreate, FailCreate, JudgeDrift
<1>5. ASSUME NEW c \in Claims, FinishCreate(c) PROVE NothingAhead' /\ MigrationAccounted'
  BY <1>5 DEF FinishCreate, TypeOK
<1>6. CASE Reconcile
  BY <1>6 DEF Reconcile, Settled
<1>7. CASE Fails
  BY <1>7 DEF Fails, Settled
<1>8. CASE NothingToMigrate
  BY <1>8 DEF NothingToMigrate, TypeOK, Reconciliation
<1>9. CASE ListForMigration
  BY <1>9 DEF ListForMigration, TypeOK, Reconciliation, Exists
<1>10. ASSUME NEW c \in Claims, Restamp(c) PROVE NothingAhead' /\ MigrationAccounted'
  <2>1. /\ nc' = nc /\ running' = running /\ rec'.seen = rec.seen /\ rec'.step = rec.step
        /\ rec'.todo = rec.todo \ {c} /\ rec'.failed = rec.failed /\ rec.step = "migrating"
    BY <1>10 DEF Restamp, TypeOK, Reconciliation
  <2>2. \A d \in Claims :
          /\ claim'[d].phase = claim[d].phase
          /\ claim'[d].version \in {claim[d].version, running}
    BY <1>10 DEF Restamp, TypeOK, NodeClaim
  <2>3. claim'[c].phase = "launched" => claim'[c].version = running
    BY <1>10 DEF Restamp, TypeOK, NodeClaim, Exists
  <2> QED BY <2>1, <2>2, <2>3
<1>11. ASSUME NEW c \in Claims, RestampFails(c) PROVE NothingAhead' /\ MigrationAccounted'
  BY <1>11 DEF RestampFails, TypeOK, Reconciliation
<1>12. CASE EndMigration
  BY <1>12 DEF EndMigration, TypeOK, Reconciliation, Settled
<1>13. CASE StampNodeClass
  <2>1. AllCurrent /\ claim' = claim /\ running' = running
    BY <1>13 DEF StampNodeClass
  <2>2. rec'.step = "idle"
    BY <1>13 DEF StampNodeClass, Settled
  <2>3. nc'.version \in {nc.version, running}
    BY <1>13 DEF StampNodeClass, TypeOK, NodeClass
  <2>4. running <= running
    BY HashAssumption DEF TypeOK
  <2> QED BY <2>1, <2>2, <2>3, <2>4
<1> QED BY <1>0, <1>1, <1>2, <1>3, <1>4, <1>5, <1>6, <1>7, <1>8, <1>9, <1>10, <1>11, <1>12,
           <1>13
        DEF Next, ClaimStep, Handler

LEMMA MigrationInit == Init => NothingAhead /\ MigrationAccounted
  BY HashAssumption DEF Init, NothingAhead, MigrationAccounted, AllCurrent, Settled

(* As long as no older release is installed again, a NodeClass that        *)
(* carries the running release's revision has every launched NodeClaim on  *)
(* it, through partial failures and crashes of the migration.  (syncHash)  *)
THEOREM MigrationComplete ==
    ASSUME ~Rollbacks
    PROVE  Spec => []RevisionsAgree
<1>1. MigrationAccounted => RevisionsAgree
  BY DEF MigrationAccounted, AllCurrent, RevisionsAgree
<1>2. Init => TypeOK /\ NothingAhead /\ MigrationAccounted
  BY TypeInit, MigrationInit
<1>3. TypeOK /\ NothingAhead /\ MigrationAccounted /\ [Next]_vars
        => (TypeOK /\ NothingAhead /\ MigrationAccounted)'
  BY TypeStep, MigrationStep
<1> QED BY <1>1, <1>2, <1>3, PTL DEF Spec

=============================================================================
