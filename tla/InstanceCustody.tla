--------------------------- MODULE InstanceCustody ---------------------------
(***************************************************************************)
(* What the provider promises about the instances of a Vultr account: who  *)
(* answers for each one, and who may have it destroyed.  InstanceLifecycle *)
(* implements this.                                                        *)
(*                                                                         *)
(*   unused      nothing runs under this identifier yet                    *)
(*   foreign     somebody else's                                           *)
(*   unrecorded  its NodeClaim exists, and does not name it                *)
(*   recorded    its NodeClaim exists and names it as its provider ID      *)
(*   orphaned    its NodeClaim is gone                                     *)
(*   condemned   the provider had it deleted; Vultr is at work             *)
(*   gone        destroyed                                                 *)
(***************************************************************************)
CONSTANTS Instances, Foreign

VARIABLE custody

Custodies == {"unused", "foreign", "unrecorded", "recorded", "orphaned", "condemned", "gone"}

Init == custody = [i \in Instances |-> IF i \in Foreign THEN "foreign" ELSE "unused"]

Pass(i, from, to) ==
    /\ custody[i] \in from
    /\ custody' = [custody EXCEPT ![i] = to]

(* The instance starts while its NodeClaim exists, or after it went.       *)
Launch(i)     == Pass(i, {"unused"}, "unrecorded")
LaunchLate(i) == Pass(i, {"unused"}, "orphaned")

Record(i) == Pass(i, {"unrecorded"}, "recorded")

(* A NodeClaim goes, and leaves behind what it does not name.  An instance *)
(* it names is not left behind.                                            *)
Abandon ==
    \E left \in SUBSET { i \in Instances : custody[i] = "unrecorded" } :
      custody' = [i \in Instances |-> IF i \in left THEN "orphaned" ELSE custody[i]]

(* The provider deletes an instance through the NodeClaim that names it,   *)
(* or as an orphan: never one that an existing NodeClaim may yet name, and *)
(* never one that is not its own.                                          *)
Terminate(i) == Pass(i, {"recorded"}, "condemned")
Collect(i)   == Pass(i, {"orphaned"}, "condemned")

Destroyed(i) == Pass(i, {"condemned"}, "gone")

(* Somebody removes the instance without the provider.                     *)
Lost(i) == Pass(i, {"unrecorded", "recorded", "orphaned"}, "gone")

Next ==
    \/ Abandon
    \/ \E i \in Instances : \/ Launch(i) \/ LaunchLate(i) \/ Record(i)
                            \/ Terminate(i) \/ Collect(i)
                            \/ Destroyed(i) \/ Lost(i)

Spec == Init /\ [][Next]_custody
=============================================================================
