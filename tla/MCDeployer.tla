----------------------------- MODULE MCDeployer -----------------------------
(* Instances of Deployer for TLC.  Calls are interchangeable.              *)
EXTENDS Deployer, TLC

CONSTANTS d1, d2, k1, k2, n1, n2, n3

Symmetric == Permutations({d1, d2}) \union Permutations({k1, k2})

=============================================================================
