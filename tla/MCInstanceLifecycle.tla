------------------------ MODULE MCInstanceLifecycle ------------------------
(* InstanceLifecycle for TLC: the values of its constants.  Where k2 is a  *)
(* cluster, its name has whitespace in it.                                 *)
EXTENDS InstanceLifecycle

CONSTANTS k1, k2, n1, i1, i2, f1, spaced

(* What another party may have tagged an instance with: another cluster    *)
(* under the same NodeClaim name, ours second, a cluster name with a space *)
(* in it, or nothing.                                                      *)
MCForeignTags == { InstanceTags("elsewhere", n1, Pool, Class),
                   << Tag(TagClusterPrefix, "elsewhere") >> \o InstanceTags(k1, n1, Pool, Class),
                   InstanceTags(spaced, n1, Pool, Class),
                   << Tag(TagClusterPrefix, k1) >> }

AnyOrder   == [i \in Instances |-> 0]
StuckFirst == [i \in Instances |-> IF i \in Stuck THEN 0 ELSE 1]

=============================================================================
