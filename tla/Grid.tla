-------------------------------- MODULE Grid --------------------------------
(***************************************************************************)
(* The outside world the grid client talks to while it deploys:            *)
(*                                                                         *)
(*   - TFChain, which owns the contracts (chain);                          *)
(*   - grid_proxy, an HTTP index of the chain that lags behind it (listed);*)
(*   - the zos nodes that host the deployments (zos), reached over RMB     *)
(*     with requests that may be late or lost (inflight).                  *)
(*                                                                         *)
(* None of it is code of this repository: it is what the calls made by     *)
(* grid_client/mod.rs, and the error texts that file tells apart           *)
(* ("deployment not found", "contract not found", "exists"), reveal of it. *)
(***************************************************************************)

CONSTANTS
    Contracts,  \* the extrinsics that create a node contract, one name each
    Nodes,      \* zos nodes
    Hashes,     \* deployment hashes
    NodeOf,     \* the node a contract is made for
    HashOf      \* the deployment hash a contract carries

ASSUME GridAssumption ==
    /\ NodeOf \in [Contracts -> Nodes]
    /\ HashOf \in [Contracts -> Hashes]

VARIABLES
    chain,      \* what TFChain knows of each contract
    listed,     \* contracts grid_proxy shows in state Created
    zos,        \* the deployment a node holds for each contract
    inflight,   \* zos.deployment.deploy requests a node may still receive
    cancelling  \* contracts with a cancel_contract extrinsic in the pool

gridVars == <<chain, listed, zos, inflight, cancelling>>

(* A contract is unknown, waits in the transaction pool, exists, was       *)
(* cancelled, or its extrinsic failed.                                     *)
ChainStates == {"none", "pooled", "created", "cancelled", "dropped"}

(* A deployment is absent, has workloads that are not all settled, is all  *)
(* "ok", has an "error", or was stopped ("deleted", "paused", "unchanged").*)
ZosStates == {"absent", "init", "ok", "error", "halted"}

GridTypeOK ==
    /\ chain \in [Contracts -> ChainStates]
    /\ listed \in SUBSET Contracts
    /\ zos \in [Contracts -> ZosStates]
    /\ inflight \in SUBSET Contracts
    /\ cancelling \in SUBSET Contracts

GridInit ==
    /\ chain = [d \in Contracts |-> "none"]
    /\ listed = {}
    /\ zos = [d \in Contracts |-> "absent"]
    /\ inflight = {}
    /\ cancelling = {}

-----------------------------------------------------------------------------
(* Queries and commands the client's steps use.                            *)

(* grid_proxy /contracts?node_id=n&deployment_hash=h&state=Created          *)
Matching(n, h) == {d \in listed : NodeOf[d] = n /\ HashOf[d] = h}

(* grid_proxy cannot tell d and e apart: a query for one finds the other.   *)
Alike(d, e) == NodeOf[d] = NodeOf[e] /\ HashOf[d] = HashOf[e]

(* No other contract of d's node carries d's hash.  A network's hash covers *)
(* a random key and a vm-light's a random seed unless the caller supplies   *)
(* them; a full VM's is a function of the request.                         *)
OwnHash(d) == \A e \in Contracts : Alike(e, d) => e = d

(* What a node does with a deploy request: it verifies the contract on     *)
(* chain and refuses a deployment that it already holds.                   *)
Hosted(d) == IF chain[d] = "created" /\ zos[d] = "absent"
             THEN [zos EXCEPT ![d] = "init"]
             ELSE zos

-----------------------------------------------------------------------------
(* Steps of the outside world.  The chain decides on every extrinsic; two  *)
(* cancellations of one contract that are pooled together count as one.    *)

(* A pooled extrinsic is included in a finalized block.                    *)
IncludeTx(d) ==
    /\ chain[d] = "pooled"
    /\ chain' = [chain EXCEPT ![d] = "created"]
    /\ UNCHANGED <<listed, zos, inflight, cancelling>>

(* A pooled extrinsic is dropped, or fails when it is executed.            *)
DropTx(d) ==
    /\ chain[d] = "pooled"
    /\ chain' = [chain EXCEPT ![d] = "dropped"]
    /\ UNCHANGED <<listed, zos, inflight, cancelling>>

(* A pooled cancellation is included: the contract is gone.  The call that *)
(* asked for it may have stopped watching long before.                     *)
IncludeCancel(d) ==
    /\ d \in cancelling
    /\ chain[d] \in {"created", "cancelled"}
    /\ chain' = [chain EXCEPT ![d] = "cancelled"]
    /\ cancelling' = cancelling \ {d}
    /\ UNCHANGED <<listed, zos, inflight>>

(* A pooled cancellation is dropped, or fails when it is executed.         *)
DropCancel(d) ==
    /\ d \in cancelling
    /\ cancelling' = cancelling \ {d}
    /\ UNCHANGED <<chain, listed, zos, inflight>>

(* grid_proxy catches up with the chain.                                   *)
ProxySync(d) ==
    /\ (d \in listed) # (chain[d] = "created")
    /\ listed' = IF chain[d] = "created" THEN listed \union {d} ELSE listed \ {d}
    /\ UNCHANGED <<chain, zos, inflight, cancelling>>

(* A delayed deploy request reaches its node.                              *)
DeliverDeploy(d) ==
    /\ d \in inflight
    /\ inflight' = inflight \ {d}
    /\ zos' = Hosted(d)
    /\ UNCHANGED <<chain, listed, cancelling>>

(* A delayed deploy request is lost or expires.                            *)
LoseDeploy(d) ==
    /\ d \in inflight
    /\ inflight' = inflight \ {d}
    /\ UNCHANGED <<chain, listed, zos, cancelling>>

(* A node provisions, or later breaks or stops, a deployment it holds.     *)
Provision(d, s) ==
    /\ zos[d] \in {"init", "ok"}
    /\ s \in {"ok", "error", "halted"} \ {zos[d]}
    /\ zos' = [zos EXCEPT ![d] = s]
    /\ UNCHANGED <<chain, listed, inflight, cancelling>>

(* The chain decides on an extrinsic that concerns d.                      *)
ChainDecides(d) == IncludeTx(d) \/ DropTx(d) \/ IncludeCancel(d) \/ DropCancel(d)

GridStep(d) ==
    \/ ChainDecides(d)
    \/ ProxySync(d)
    \/ DeliverDeploy(d)
    \/ LoseDeploy(d)
    \/ \E s \in ZosStates : Provision(d, s)

=============================================================================
