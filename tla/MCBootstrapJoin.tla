--------------------------- MODULE MCBootstrapJoin ---------------------------
(* Callers are alike, and so are the tokens that kubeadm would accept.     *)
EXTENDS BootstrapJoin, TLC

Alike == Permutations(Callers) \cup Permutations(Tokens \ Malformed)

=============================================================================
