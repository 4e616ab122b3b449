--------------------------- MODULE LaunchDecision ---------------------------
(***************************************************************************)
(* Which plan a NodeClaim is launched on: selectPlan of                    *)
(* pkg/cloudprovider/cloudprovider.go, beside the instance types that      *)
(* GetInstanceTypes offered to the scheduler (pkg/vultr/instancetype.go).  *)
(*                                                                         *)
(* Plan IDs are numbers for the order strings have.  A catalogue maps plan *)
(* IDs to monthly costs; a cost of 0 stands for a plan without a positive, *)
(* finite cost, or without CPUs or memory.  What the discovery cache       *)
(* answers is arbitrary here: InstanceTypeCache is about that.             *)
(***************************************************************************)
EXTENDS Naturals

CONSTANTS
    PlanIDs,
    Costs,
    NoPlan

ASSUME PlanAssumption == PlanIDs \subseteq Nat /\ Costs \subseteq Nat /\ NoPlan \notin PlanIDs

VARIABLES
    configured,   \* spec.plan of the NodeClass, NoPlan if empty
    wanted,       \* the plans the NodeClaim's instance-type requirement admits
    plans,        \* the catalogue
    available,    \* what the region has
    step,
    todo,         \* the plans the loop has yet to visit
    selected,     \* the best so far, NoPlan if not found
    outcome       \* how selectPlan ended

vars == <<configured, wanted, plans, available, step, todo, selected, outcome>>

Refusals == {"PlanLookupFailed", "InvalidRegion", "CapacityLookupFailed", "InvalidPlan",
             "InvalidInstanceConfiguration", "InsufficientCapacity"}

Catalogue == UNION { [ids -> Costs] : ids \in SUBSET PlanIDs }

TypeOK ==
    /\ configured \in PlanIDs \cup {NoPlan} /\ selected \in PlanIDs \cup {NoPlan}
    /\ wanted \in SUBSET PlanIDs /\ available \in SUBSET PlanIDs
    /\ plans \in Catalogue
    /\ todo \in SUBSET DOMAIN plans
    /\ step \in {"catalogue", "region", "decide", "scan", "done"}
    /\ outcome \in Refusals \cup {"none", "launch"}

Start(c, w) ==
    /\ configured' = c /\ wanted' = w
    /\ plans' = [id \in {} |-> 0] /\ available' = {} /\ todo' = {}
    /\ step' = "catalogue" /\ selected' = NoPlan /\ outcome' = "none"

Init ==
    /\ configured \in PlanIDs \cup {NoPlan} /\ wanted \in SUBSET PlanIDs
    /\ plans = [id \in {} |-> 0] /\ available = {} /\ todo = {}
    /\ step = "catalogue" /\ selected = NoPlan /\ outcome = "none"

(* Another NodeClaim, or the same one again.                               *)
CallAgain ==
    /\ step = "done"
    /\ \E c \in PlanIDs \cup {NoPlan}, w \in SUBSET PlanIDs : Start(c, w)

-----------------------------------------------------------------------------
Inputs == <<configured, wanted>>

End(id, how) ==
    /\ step' = "done" /\ selected' = id /\ outcome' = how
    /\ UNCHANGED <<Inputs, plans, available, todo>>

Refuse(how) == End(NoPlan, how)

ReadCatalogue ==
    /\ step = "catalogue"
    /\ plans' \in Catalogue
    /\ step' = "region"
    /\ UNCHANGED <<Inputs, available, todo, selected, outcome>>

CatalogueFails == step = "catalogue" /\ Refuse("PlanLookupFailed")

(* The region may have plans that the catalogue does not list.             *)
ReadRegion ==
    /\ step = "region"
    /\ available' \in SUBSET PlanIDs
    /\ step' = "decide"
    /\ UNCHANGED <<Inputs, plans, todo, selected, outcome>>

RegionFails(notFound) ==
    /\ step = "region"
    /\ Refuse(IF notFound THEN "InvalidRegion" ELSE "CapacityLookupFailed")

(* A configured plan is taken or refused, whatever it costs.               *)
DecideConfigured ==
    /\ step = "decide" /\ configured # NoPlan
    /\ \/ configured \notin DOMAIN plans /\ Refuse("InvalidPlan")
       \/ /\ configured \in DOMAIN plans \ wanted
          /\ Refuse("InvalidInstanceConfiguration")
       \/ /\ configured \in (DOMAIN plans \cap wanted) \ available
          /\ Refuse("InsufficientCapacity")
       \/ /\ configured \in DOMAIN plans \cap wanted \cap available
          /\ End(configured, "launch")

BeginScan ==
    /\ step = "decide" /\ configured = NoPlan
    /\ step' = "scan" /\ todo' = DOMAIN plans
    /\ UNCHANGED <<Inputs, plans, available, selected, outcome>>

Candidate(id) == id \in available \cap wanted /\ plans[id] > 0

Cheaper(id, other) == plans[id] < plans[other] \/ (plans[id] = plans[other] /\ id < other)

(* Mutant: among plans of the same cost the last one visited wins.         *)
BetterInMapOrder(id) == selected = NoPlan \/ plans[id] <= plans[selected]

Better(id) == selected = NoPlan \/ Cheaper(id, selected)

(* The loop visits the map in any order.                                   *)
Visit(id) ==
    /\ step = "scan" /\ id \in todo
    /\ todo' = todo \ {id}
    /\ selected' = IF Candidate(id) /\ Better(id) THEN id ELSE selected
    /\ UNCHANGED <<Inputs, plans, available, step, outcome>>

EndScan ==
    /\ step = "scan" /\ todo = {}
    /\ IF selected = NoPlan THEN Refuse("InsufficientCapacity") ELSE End(selected, "launch")

Next ==
    \/ CallAgain \/ ReadCatalogue \/ CatalogueFails \/ ReadRegion
    \/ DecideConfigured \/ BeginScan \/ EndScan
    \/ \E notFound \in BOOLEAN : RegionFails(notFound)
    \/ \E id \in PlanIDs : Visit(id)

Spec == Init /\ [][Next]_vars

-----------------------------------------------------------------------------
(* The instance types list makes of the same catalogue; an offering is     *)
(* available if the region has the plan.                                   *)
InstanceTypes == { id \in DOMAIN plans : plans[id] > 0 /\ configured \in {NoPlan, id} }

Offers == InstanceTypes \cap wanted \cap available

Answered == step = "done" /\ outcome \notin {"PlanLookupFailed", "InvalidRegion", "CapacityLookupFailed"}

(* Create and the scheduler see the same market.  If list offers, on the   *)
(* same catalogue and availability, anything the NodeClaim accepts, then   *)
(* selectPlan launches the offer that is cheapest, by ID among equals and  *)
(* in whatever order the map is visited: it neither refuses nor picks      *)
(* another plan when it is called again.  If list offers nothing, then     *)
(* only a plan the NodeClass names is ever launched.  (selectPlan, list)   *)
LaunchesBestOffer ==
    Answered =>
      /\ Offers # {} =>
           /\ outcome = "launch" /\ selected \in Offers
           /\ \A id \in Offers \ {selected} : Cheaper(selected, id)
      /\ Offers = {} /\ outcome = "launch" =>
           selected = configured /\ selected \in available \cap wanted
=============================================================================
