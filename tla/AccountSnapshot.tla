--------------------------- MODULE AccountSnapshot ---------------------------
(***************************************************************************)
(* What the callers of ListInstances, CloudProvider.List and the orphan    *)
(* cleaner, may rely on: the answer is no snapshot of the Vultr account,   *)
(* but it has every instance that was there all the time and none that was *)
(* never there, and a listing that fails answers nothing.                  *)
(***************************************************************************)
CONSTANT Ids

VARIABLES
    present,   \* the instances in the account
    stable,    \* those in it ever since the listing began
    ever,      \* those in it at some time since the listing began
    call,      \* the listing: "none" yet, "busy", "failed" or "done"
    found      \* what it has answered

vars == <<present, stable, ever, call, found>>

Init ==
    /\ present \in SUBSET Ids /\ stable = present /\ ever = present
    /\ call = "none" /\ found = {}

Appear(i) ==
    /\ i \notin present
    /\ present' = present \cup {i} /\ ever' = ever \cup {i}
    /\ UNCHANGED <<stable, call, found>>

Vanish(i) ==
    /\ i \in present
    /\ present' = present \ {i} /\ stable' = stable \ {i}
    /\ UNCHANGED <<ever, call, found>>

Begin ==
    /\ call # "busy"
    /\ call' = "busy" /\ found' = {}
    /\ stable' = present /\ ever' = present
    /\ UNCHANGED present

Answer ==
    /\ call = "busy" /\ call' = "done"
    /\ stable \subseteq found' /\ found' \in SUBSET ever
    /\ UNCHANGED <<present, stable, ever>>

Fail ==
    /\ call = "busy" /\ call' = "failed"
    /\ UNCHANGED <<present, stable, ever, found>>

Next == Begin \/ Answer \/ Fail \/ \E i \in Ids : Appear(i) \/ Vanish(i)

Spec == Init /\ [][Next]_vars

=============================================================================
