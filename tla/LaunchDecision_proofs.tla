----------------------- MODULE LaunchDecision_proofs -----------------------
(***************************************************************************)
(* Theorems about LaunchDecision, for every set of plans and costs.  The   *)
(* heart is the invariant of the loop over the catalogue: whatever the     *)
(* order, the best so far beats every candidate already visited.           *)
(***************************************************************************)
EXTENDS LaunchDecision, TLAPS

BestOf(ids) ==
    /\ selected = NoPlan => \A id \in ids : ~Candidate(id)
    /\ selected # NoPlan =>
         /\ selected \in ids /\ Candidate(selected)
         /\ \A id \in ids \ {selected} : Candidate(id) => Cheaper(selected, id)

NothingBefore == step \in {"catalogue", "region", "decide"} => selected = NoPlan /\ todo = {}

LoopInvariant == step = "scan" => configured = NoPlan /\ BestOf(DOMAIN plans \ todo)

IInv == TypeOK /\ NothingBefore /\ LoopInvariant /\ LaunchesBestOffer

-----------------------------------------------------------------------------
(* A catalogue gives every plan it lists a natural cost.                   *)
LEMMA CostsAreNumbers ==
    ASSUME TypeOK
    PROVE  /\ DOMAIN plans \subseteq PlanIDs /\ PlanIDs \subseteq Nat
           /\ \A id \in DOMAIN plans : plans[id] \in Nat
  <1>1. PICK ids \in SUBSET PlanIDs : plans \in [ids -> Costs]
    BY DEF TypeOK, Catalogue
  <1> QED  BY <1>1, PlanAssumption

(* "Cheaper, or as cheap with the smaller ID" is a strict total order on   *)
(* the catalogue.                                                          *)
LEMMA CheaperOrders ==
    ASSUME TypeOK, NEW a \in DOMAIN plans, NEW b \in DOMAIN plans, NEW c \in DOMAIN plans
    PROVE  /\ a # b => Cheaper(a, b) \/ Cheaper(b, a)
           /\ Cheaper(a, b) /\ Cheaper(b, c) => Cheaper(a, c)
  <1>1. /\ a \in Nat /\ b \in Nat /\ c \in Nat
        /\ plans[a] \in Nat /\ plans[b] \in Nat /\ plans[c] \in Nat
    BY CostsAreNumbers
  <1> QED  BY <1>1 DEF Cheaper

LEMMA InitIInv == Init => IInv
  BY PlanAssumption DEF Init, IInv, TypeOK, Catalogue, NothingBefore, LoopInvariant, LaunchesBestOffer, Answered

(* What the loop has found by its end is what the property asks for.       *)
LEMMA ScanFindsBestOffer ==
    ASSUME IInv, EndScan
    PROVE  LaunchesBestOffer'
  <1> DEFINE Ids == DOMAIN plans
  <1>1. configured = NoPlan /\ BestOf(Ids) /\ todo = {}
    BY DEF IInv, LoopInvariant, EndScan
  <1>2. Offers = { id \in Ids : Candidate(id) }
    BY <1>1 DEF Offers, InstanceTypes, Candidate
  <1>3. /\ Offers' = Offers /\ configured' = configured /\ selected' = selected
        /\ plans' = plans /\ available' = available /\ wanted' = wanted
    BY DEF EndScan, Refuse, End, Inputs, Offers, InstanceTypes
  <1>4. CASE selected = NoPlan
    <2>1. Offers = {} /\ outcome' = "InsufficientCapacity"
      BY <1>1, <1>2, <1>4 DEF BestOf, EndScan, Refuse, End
    <2> QED  BY <2>1, <1>3 DEF LaunchesBestOffer
  <1>5. CASE selected # NoPlan
    <2>1. selected \in Offers /\ outcome' = "launch"
      BY <1>1, <1>2, <1>5 DEF BestOf, EndScan, End
    <2>2. \A id \in Offers \ {selected} : Cheaper(selected, id)
      BY <1>1, <1>2, <1>5 DEF BestOf
    <2> QED  BY <2>1, <2>2, <1>3 DEF LaunchesBestOffer, Cheaper
  <1> QED  BY <1>4, <1>5

(* A visit extends the loop invariant by the plan it visits.               *)
LEMMA VisitKeepsBest ==
    ASSUME IInv, NEW i \in PlanIDs, Visit(i)
    PROVE  LoopInvariant'
  <1> DEFINE Seen == DOMAIN plans \ todo
  <1>1. /\ TypeOK /\ configured = NoPlan /\ BestOf(Seen)
        /\ i \in DOMAIN plans /\ i # NoPlan
    BY PlanAssumption DEF IInv, LoopInvariant, Visit, TypeOK
  <1>2. /\ UNCHANGED <<configured, wanted, plans, available>>
        /\ (DOMAIN plans \ todo)' = Seen \cup {i}
    BY <1>1 DEF Visit, Inputs
  <1>3. /\ \A id : Candidate(id)' <=> Candidate(id)
        /\ \A id, other : Cheaper(id, other)' <=> Cheaper(id, other)
    BY <1>2 DEF Candidate, Cheaper
  <1>4. CASE Candidate(i) /\ Better(i)
    <2>1. selected' = i
      BY <1>4 DEF Visit
    <2>2. ASSUME NEW id \in (Seen \cup {i}) \ {i}, Candidate(id)
          PROVE  Cheaper(i, id)
      <3>1. selected # NoPlan /\ selected \in Seen /\ Cheaper(i, selected)
        BY <1>1, <1>4, <2>2 DEF BestOf, Better
      <3>2. id = selected \/ Cheaper(selected, id)
        BY <1>1, <2>2, <3>1 DEF BestOf
      <3> QED  BY <1>1, <3>1, <3>2, CheaperOrders
    <2> QED  BY <1>1, <1>2, <1>3, <1>4, <2>1, <2>2 DEF LoopInvariant, BestOf
  <1>5. CASE ~(Candidate(i) /\ Better(i))
    <2>1. selected' = selected
      BY <1>5 DEF Visit
    <2>2. ASSUME selected # NoPlan, i # selected, Candidate(i)
          PROVE  Cheaper(selected, i)
      <3>1. ~Cheaper(i, selected) /\ selected \in DOMAIN plans
        BY <1>1, <1>5, <2>2 DEF BestOf, Better
      <3> QED  BY <1>1, <2>2, <3>1, CheaperOrders
    <2>3. selected = NoPlan => ~Candidate(i)
      BY <1>5 DEF Better
    <2> QED  BY <1>1, <1>2, <1>3, <2>1, <2>2, <2>3 DEF LoopInvariant, BestOf
  <1> QED  BY <1>4, <1>5

LEMMA Step == IInv /\ [Next]_vars => IInv'
  <1> SUFFICES ASSUME IInv, [Next]_vars PROVE IInv'
    OBVIOUS
  <1> USE DEF IInv, TypeOK, NothingBefore
  <1>1. CASE CallAgain
    <2>1. [id \in {} |-> 0] \in Catalogue
      BY DEF Catalogue
    <2> QED  BY <1>1, <2>1, PlanAssumption DEF CallAgain, Start, LoopInvariant, LaunchesBestOffer, Answered
  <1>2. CASE ReadCatalogue
    BY <1>2 DEF ReadCatalogue, Inputs, LoopInvariant, LaunchesBestOffer, Answered
  <1>3. CASE CatalogueFails
    BY <1>3 DEF CatalogueFails, Refuse, End, Inputs, Refusals, LoopInvariant, LaunchesBestOffer, Answered
  <1>4. CASE ReadRegion
    BY <1>4 DEF ReadRegion, Inputs, LoopInvariant, LaunchesBestOffer, Answered
  <1>5. ASSUME NEW notFound \in BOOLEAN, RegionFails(notFound) PROVE IInv'
    BY <1>5 DEF RegionFails, Refuse, End, Inputs, Refusals, LoopInvariant, LaunchesBestOffer, Answered
  <1>6. CASE DecideConfigured
    <2>1. TypeOK' /\ NothingBefore' /\ LoopInvariant'
      BY <1>6 DEF DecideConfigured, Refuse, End, Inputs, Refusals, LoopInvariant
    <2>2. Offers' \subseteq {configured} \cap wanted \cap available \cap DOMAIN plans
      BY <1>6 DEF DecideConfigured, Refuse, End, Inputs, Offers, InstanceTypes
    <2>3. LaunchesBestOffer'
      BY <1>6, <2>2 DEF DecideConfigured, Refuse, End, Inputs, LaunchesBestOffer
    <2> QED  BY <2>1, <2>3
  <1>7. CASE BeginScan
    BY <1>7 DEF BeginScan, Inputs, LoopInvariant, BestOf, LaunchesBestOffer, Answered
  <1>8. CASE EndScan
    <2>1. TypeOK' /\ NothingBefore' /\ LoopInvariant'
      BY <1>8 DEF EndScan, Refuse, End, Inputs, Refusals, LoopInvariant
    <2> QED  BY <1>8, <2>1, ScanFindsBestOffer
  <1>9. ASSUME NEW id \in PlanIDs, Visit(id) PROVE IInv'
    <2>1. TypeOK' /\ NothingBefore' /\ LaunchesBestOffer'
      BY <1>9 DEF Visit, Inputs, LaunchesBestOffer, Answered
    <2> QED  BY <1>9, <2>1, VisitKeepsBest
  <1>10. CASE UNCHANGED vars
    BY <1>10 DEF vars, LoopInvariant, BestOf, Candidate, Cheaper, LaunchesBestOffer, Answered, Offers, InstanceTypes
  <1> QED  BY <1>1, <1>2, <1>3, <1>4, <1>5, <1>6, <1>7, <1>8, <1>9, <1>10 DEF Next

(* Every variable keeps to its type.                                       *)
THEOREM TypeCorrect == Spec => []TypeOK
  <1>1. IInv => TypeOK
    BY DEF IInv
  <1> QED  BY InitIInv, Step, <1>1, PTL DEF Spec

(* The cheapest offer is one plan and no other, so that LaunchesBestOffer  *)
(* settles the choice: called again on the same market, selectPlan         *)
(* launches the same plan.  (selectPlan)                                   *)
THEOREM BestOfferIsUnique ==
    ASSUME TypeOK, NEW a \in Offers, NEW b \in Offers,
           \A id \in Offers \ {a} : Cheaper(a, id),
           \A id \in Offers \ {b} : Cheaper(b, id)
    PROVE  a = b
  <1> SUFFICES ASSUME a # b PROVE FALSE
    OBVIOUS
  <1>1. Cheaper(a, b) /\ Cheaper(b, a)
    OBVIOUS
  <1>2. a \in DOMAIN plans /\ b \in DOMAIN plans
    BY DEF Offers, InstanceTypes
  <1>3. Cheaper(a, a)
    BY <1>1, <1>2, CheaperOrders
  <1> QED  BY <1>2, <1>3, CostsAreNumbers DEF Cheaper

(* In whatever order the catalogue is visited, selectPlan launches the     *)
(* cheapest type list offers for the NodeClaim, and only refuses for lack  *)
(* of capacity when list offers none.  (selectPlan, list)                  *)
THEOREM BestOfferWins == Spec => []LaunchesBestOffer
  <1>1. IInv => LaunchesBestOffer
    BY DEF IInv
  <1> QED  BY InitIInv, Step, <1>1, PTL DEF Spec
=============================================================================
