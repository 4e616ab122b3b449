------------------------------ MODULE Ownership ------------------------------
(***************************************************************************)
(* The ownership metadata of pkg/vultr/tags.go.                            *)
(*                                                                         *)
(* Vultr tags are a flat list of strings, so the provider writes ownership *)
(* as `key=value' entries and reads it back by prefix.  A tag is modelled  *)
(* as the pair the code takes apart: the prefix it carries and the rest.   *)
(***************************************************************************)
EXTENDS Naturals, Sequences

CONSTANTS
    Spaced,     \* tag values with a space, tab or line break in them
    Empty,      \* the empty tag value
    NoValue     \* what a lookup that answers "not ok" returns

TagClusterPrefix   == "karpenter-cluster="
TagNodeClaimPrefix == "karpenter-nodeclaim="
TagNodePoolPrefix  == "karpenter-nodepool="
TagNodeClassPrefix == "karpenter-nodeclass="

(* The tag `prefix + value'.                                               *)
Tag(prefix, value) == [prefix |-> prefix, value |-> value]

(* The tag list applied to every instance this provider creates.           *)
InstanceTags(clusterName, nodeClaim, nodePool, nodeClass) ==
    << Tag(TagClusterPrefix, clusterName),
       Tag(TagNodeClaimPrefix, nodeClaim),
       Tag(TagNodePoolPrefix, nodePool),
       Tag(TagNodeClassPrefix, nodeClass) >>

(* The value of the first tag carrying the prefix: a set of at most one.   *)
LeadingValues(tags, prefix) ==
    { tags[n].value : n \in { m \in DOMAIN tags :
                                /\ tags[m].prefix = prefix
                                /\ \A l \in 1 .. (m - 1) : tags[l].prefix # prefix } }

(* TagValue gives up on the first match when it has whitespace in it: a    *)
(* later tag with the same prefix is not looked at.                        *)
TagValue(tags, prefix) ==
    IF LeadingValues(tags, prefix) \subseteq Spaced
    THEN NoValue
    ELSE CHOOSE value \in LeadingValues(tags, prefix) : TRUE

(* Mutant: the cluster tag is not looked at.                               *)
NodeClaimNameAnyCluster(tags, clusterName) ==
    LET name == TagValue(tags, TagNodeClaimPrefix)
    IN  IF name = Empty THEN NoValue ELSE name

(* The NodeClaim an instance was created for by the named installation.    *)
NodeClaimName(tags, clusterName) ==
    LET cluster == TagValue(tags, TagClusterPrefix)
        name    == TagValue(tags, TagNodeClaimPrefix)
    IN  IF cluster \in {NoValue, Empty} \/ cluster # clusterName \/ name = Empty
        THEN NoValue
        ELSE name
=============================================================================
