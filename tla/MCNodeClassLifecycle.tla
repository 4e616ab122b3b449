------------------------ MODULE MCNodeClassLifecycle ------------------------
(* One NodeClass whose spec is either refused without a lookup, or names   *)
(* an image and the one plan there is, so that every lookup is made; and a *)
(* plan that the region offers or not, and the catalogue lists or not.     *)
EXTENDS NodeClassLifecycle

CONSTANTS plan, region

MCSpecs ==
    { [sound |-> FALSE, os |-> FALSE, region |-> region, plan |-> None],
      [sound |-> TRUE,  os |-> TRUE,  region |-> region, plan |-> plan] }

MCOffer(image, offered, catalogue) ==
    [image |-> image, regions |-> [r \in Regions |-> offered], plans |-> catalogue]

MCMarkets ==
    { MCOffer(TRUE, {plan}, {plan}), MCOffer(TRUE, {plan}, {}), MCOffer(FALSE, {}, {plan}) }

(* Two questions share the run.  While no NodeClaim is there or will come, *)
(* Vultr's offer changes.  Where NodeClaims come, the NodeClass starts out *)
(* usable and the offer stays: what NodeClaims do depends on it through    *)
(* readiness alone, which failing lookups and edits of the spec turn too.  *)
MCUnused == \A c \in Claims : claim[c] = "gone"
MCUsable == nc.spec.sound /\ vultr = MCOffer(TRUE, {plan}, {plan})

MCInit == Init /\ (MCUnused \/ MCUsable)
MCNext == Proceed \/ (MCUnused /\ VultrChanges)
MCSpec == MCInit /\ [][MCNext]_vars /\ Fairness

=============================================================================
