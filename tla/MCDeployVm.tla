----------------------------- MODULE MCDeployVm -----------------------------
(* Instances of DeployVm for TLC: one call that fails over between two      *)
(* nodes, and two calls that share a node.                                 *)
EXTENDS DeployVm

CONSTANTS c1, c2, n1, n2

(* One call, two candidates.                                               *)
FailoverCandidates == [c \in Calls |-> <<n1, n2>>]

(* Every call is placed on the same node.                                  *)
SharedCandidates == [c \in Calls |-> <<n1>>]

MCContracts ==
    UNION {{<<c, i, k>> : i \in 1 .. Len(Candidates[c]), k \in Kinds} : c \in Calls}

MCNodeOf == [d \in MCContracts |-> Candidates[d[1]][d[2]]]

(* Random keys and seeds: every deployment hashes to a value of its own.   *)
OwnHashes == MCContracts
OwnHashOf == [d \in MCContracts |-> d]

(* One full VM's hash is the same on every candidate node.                 *)
SameOnAllNodes == {<<c, k>> : c \in Calls, k \in Kinds}
SameOnAllNodesOf == [d \in MCContracts |-> <<d[1], d[3]>>]

(* Networks have keys of their own; the calls ask for the same full VM.    *)
EqualVmsOf ==
    [d \in MCContracts |-> IF d[3] = "vm" THEN <<c1, "vm">> ELSE <<d[1], d[3]>>]

(* A stopped deployment settles as a broken one does but for the verdict;  *)
(* the failover run has both.                                              *)
NeverHalted == \A d \in Contracts : zos[d] # "halted"

=============================================================================
