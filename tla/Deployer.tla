------------------------------ MODULE Deployer ------------------------------
(***************************************************************************)
(* Deployer::deploy and Deployer::cancel (deployer.rs) over MockSubstrate  *)
(* (subi.rs) and MockNodeClient (node.rs), called by several threads.      *)
(*                                                                         *)
(* The substrate keeps each of its maps under a mutex of its own, so every *)
(* lock/unlock pair is an action and other threads run in between.  Nodes  *)
(* are registered before the substrate is shared (add_node takes &mut      *)
(* self), and so is a fixture of contracts and hashes (add_contract, set_  *)
(* contract_hash); a test's insert_deployment belongs to the fixture.      *)
(***************************************************************************)
EXTENDS Naturals

CONSTANTS
    Deploys,     \* calls of deploy
    Cancels,     \* calls of cancel
    Nodes,       \* node ids a caller can name
    Registered,  \* nodes the substrate knows
    Hashes,      \* "name:node:solution_type"
    Fixture,     \* contract ids that add_contract may have been called with
    MaxId,       \* bound on contract ids
    NoId,        \* where there is no contract id
    NoNode       \* node_id() of a name contract

Ids == 0 .. MaxId

ASSUME DeployerAssumption ==
    /\ MaxId \in Nat
    /\ Registered \subseteq Nodes
    /\ Fixture \subseteq Ids
    /\ NoId \notin Ids
    /\ NoNode \notin Nodes

VARIABLES
    status,      \* contracts: state of each contract, "none" where no entry
    place,       \* contracts: the node of each contract
    listed,      \* node_contracts: how often a node's vector holds an id
    hashes,      \* contract_hashes, NoId where no entry
    nextId,      \* next_contract_id
    deployments, \* ids of the deployments in each MockNodeClientState
    pc, node, hash, id,    \* each deploy call: where, on what, contract_id
    cpc, target, \* each cancel call
    before       \* history: deploys that had returned when a cancel started

substrateVars == <<status, place, listed, hashes, nextId>>
deployVars == <<pc, node, hash, id>>
cancelVars == <<cpc, target, before>>
vars == <<substrateVars, deployments, deployVars, cancelVars>>

(* A call in one of these has drawn its contract id.                       *)
Drawn == {"insert", "push", "hash", "build", "put", "returned"}

(* Types; a node's vector never holds an id twice.                         *)
TypeOK ==
    /\ status \in [Ids -> {"none", "created", "deleted"}]
    /\ place \in [Ids -> Nodes \union {NoNode}]
    /\ listed \in [Nodes -> [Ids -> 0 .. 1]]
    /\ hashes \in [Nodes \X Hashes -> Ids \union {NoId}]
    /\ nextId \in 0 .. MaxId + 1
    /\ deployments \in [Nodes -> SUBSET Ids]
    /\ pc \in [Deploys -> {"idle", "take", "failed"} \union Drawn]
    /\ node \in [Deploys -> Nodes]
    /\ hash \in [Deploys -> Hashes]
    /\ id \in [Deploys -> Ids \union {NoId}]
    /\ \A t \in Deploys : pc[t] \in Drawn => id[t] \in Ids
    /\ cpc \in [Cancels -> {"idle", "delete", "cancelled", "failed"}]
    /\ target \in [Cancels -> Ids \union {NoId}]
    /\ \A c \in Cancels : cpc[c] # "idle" => target[c] \in Ids
    /\ before \in [Cancels -> SUBSET Deploys]

(* add_contract, once for each contract of a fixture: the contract is      *)
(* entered, listed under its node if it has one, and the counter, 1 from   *)
(* new() and 0 from default(), is moved past it.                           *)
AddedContracts ==
    /\ status \in [Ids -> {"none", "created", "deleted"}]
    /\ place \in [Ids -> Nodes \union {NoNode}]
    /\ \A i \in Ids : status[i] # "none" => i \in Fixture
    /\ \A i \in Ids : status[i] = "none" => place[i] = NoNode
    /\ listed = [n \in Nodes |-> [i \in Ids |-> IF place[i] = n THEN 1 ELSE 0]]
    /\ nextId \in 0 .. MaxId + 1
    /\ \A i \in Ids : status[i] # "none" => i < nextId
    /\ nextId > 1 => status[nextId - 1] # "none"

(* set_contract_hash and insert_deployment, for contracts of the fixture.  *)
AddedEntries ==
    /\ hashes \in [Nodes \X Hashes -> Fixture \union {NoId}]
    /\ \A k \in Nodes \X Hashes : hashes[k] # NoId => place[hashes[k]] = k[1]
    /\ deployments \in [Nodes -> SUBSET Fixture]
    /\ \A n \in Nodes : \A i \in deployments[n] : place[i] = n

Init ==
    /\ AddedContracts
    /\ AddedEntries
    /\ pc = [t \in Deploys |-> "idle"]
    /\ node \in [Deploys -> Nodes]
    /\ hash \in [Deploys -> Hashes]
    /\ id = [t \in Deploys |-> NoId]
    /\ cpc = [c \in Cancels |-> "idle"]
    /\ target = [c \in Cancels |-> NoId]
    /\ before = [c \in Cancels |-> {}]

-----------------------------------------------------------------------------
Goto(t, l) == pc' = [pc EXCEPT ![t] = l]

(* deployment_put and deployment_delete of the client of node n.           *)
WithDeployment(n, i) == [deployments EXCEPT ![n] = @ \union {i}]
WithoutDeployment(n, i) == [deployments EXCEPT ![n] = @ \ {i}]

(* get_node_twin and the node check of create_node_contract: nodes does    *)
(* not change between the two.                                             *)
Begin(t) ==
    /\ pc[t] = "idle"
    /\ Goto(t, IF node[t] \in Registered THEN "take" ELSE "failed")
    /\ UNCHANGED <<substrateVars, deployments, node, hash, id, cancelVars>>

(* Mutant of TakeId: the counter is read and written back in two steps, so *)
(* that the increment of another thread can be lost.                       *)
TakeIdLoadStore(t) ==
    /\ pc[t] = "take" /\ nextId <= MaxId
    /\ id' = [id EXCEPT ![t] = nextId]
    /\ nextId' \in {nextId, nextId + 1}
    /\ Goto(t, "insert")
    /\ UNCHANGED <<status, place, listed, hashes, deployments, node, hash, cancelVars>>

(* next_contract_id.fetch_add.                                             *)
TakeId(t) ==
    /\ pc[t] = "take" /\ nextId <= MaxId
    /\ id' = [id EXCEPT ![t] = nextId]
    /\ nextId' = nextId + 1
    /\ Goto(t, "insert")
    /\ UNCHANGED <<status, place, listed, hashes, deployments, node, hash, cancelVars>>

(* The entry in contracts.                                                 *)
InsertContract(t) ==
    /\ pc[t] = "insert"
    /\ status' = [status EXCEPT ![id[t]] = "created"]
    /\ place' = [place EXCEPT ![id[t]] = node[t]]
    /\ Goto(t, "push")
    /\ UNCHANGED <<listed, hashes, nextId, deployments, node, hash, id, cancelVars>>

(* The entry in node_contracts.                                            *)
PushNodeContract(t) ==
    /\ pc[t] = "push"
    /\ listed' = [listed EXCEPT ![node[t]][id[t]] = @ + 1]
    /\ Goto(t, "hash")
    /\ UNCHANGED <<status, place, hashes, nextId, deployments, node, hash, id, cancelVars>>

(* The entry in contract_hashes, over an older one of the same key.        *)
InsertHash(t) ==
    /\ pc[t] = "hash"
    /\ hashes' = [hashes EXCEPT ![<<node[t], hash[t]>>] = id[t]]
    /\ Goto(t, "build")
    /\ UNCHANGED <<status, place, listed, nextId, deployments, node, hash, id, cancelVars>>

(* Mutant of Build: a failure is cleaned up by cancelling the contract that*)
(* get_contract_with_hash finds.                                           *)
BuildCleansUp(t) ==
    /\ pc[t] = "build"
    /\ \/ Goto(t, "put") /\ status' = status
       \/ /\ Goto(t, "failed")
          /\ status' = [status EXCEPT ![hashes[<<node[t], hash[t]>>]] = "deleted"]
    /\ UNCHANGED <<place, listed, hashes, nextId, deployments, node, hash, id, cancelVars>>

(* zos_deployment, which refuses some deployments; the contract stays.     *)
Build(t) ==
    /\ pc[t] = "build"
    /\ Goto(t, "put") \/ Goto(t, "failed")
    /\ UNCHANGED <<substrateVars, deployments, node, hash, id, cancelVars>>

(* get_node_client finds the registered node, and deployment_put inserts,  *)
(* unless the contract is 0: then deploy fails, and the contract stays.    *)
Put(t) ==
    /\ pc[t] = "put"
    /\ \/ /\ id[t] # 0
          /\ deployments' = WithDeployment(node[t], id[t])
          /\ Goto(t, "returned")
       \/ /\ id[t] = 0
          /\ Goto(t, "failed") /\ deployments' = deployments
    /\ UNCHANGED <<substrateVars, node, hash, id, cancelVars>>

-----------------------------------------------------------------------------
HasReturned == {t \in Deploys : pc[t] = "returned"}

(* Mutant of StartCancel: a contract that is deleted already is done.      *)
StartCancelOnce(c, i) ==
    /\ cpc[c] = "idle"
    /\ target' = [target EXCEPT ![c] = i]
    /\ before' = [before EXCEPT ![c] = HasReturned]
    /\ IF status[i] = "none"
       THEN cpc' = [cpc EXCEPT ![c] = "failed"] /\ status' = status
       ELSE /\ status' = [status EXCEPT ![i] = "deleted"]
            /\ cpc' = [cpc EXCEPT ![c] = IF status[i] = "deleted" THEN "cancelled" ELSE "delete"]
    /\ UNCHANGED <<place, listed, hashes, nextId, deployments, deployVars>>

(* cancel_contract: ensure_contract_canceled marks the contract, also one  *)
(* that is deleted already; an unknown id is an error.                     *)
StartCancel(c, i) ==
    /\ cpc[c] = "idle"
    /\ target' = [target EXCEPT ![c] = i]
    /\ before' = [before EXCEPT ![c] = HasReturned]
    /\ IF status[i] = "none"
       THEN cpc' = [cpc EXCEPT ![c] = "failed"] /\ status' = status
       ELSE cpc' = [cpc EXCEPT ![c] = "delete"] /\ status' = [status EXCEPT ![i] = "deleted"]
    /\ UNCHANGED <<place, listed, hashes, nextId, deployments, deployVars>>

(* get_contract (a contract is never removed), then deployment_delete on   *)
(* its node, if it has one; get_node_client refuses an unregistered node.  *)
EndCancel(c) ==
    LET n == place[target[c]] IN
    /\ cpc[c] = "delete"
    /\ cpc' = [cpc EXCEPT ![c] = IF n \in Nodes \ Registered THEN "failed" ELSE "cancelled"]
    /\ deployments' = IF n \in Registered
                      THEN WithoutDeployment(n, target[c])
                      ELSE deployments
    /\ UNCHANGED <<substrateVars, deployVars, target, before>>

-----------------------------------------------------------------------------
DeployStep(t) ==
    \/ Begin(t) \/ TakeId(t)
    \/ InsertContract(t) \/ PushNodeContract(t) \/ InsertHash(t)
    \/ Build(t) \/ Put(t)

AllFinished ==
    /\ \A t \in Deploys : pc[t] \in {"returned", "failed"}
    /\ \A c \in Cancels : cpc[c] \in {"cancelled", "failed"}
    /\ UNCHANGED vars

Next ==
    \/ \E t \in Deploys : DeployStep(t)
    \/ \E c \in Cancels : EndCancel(c) \/ \E i \in Ids : StartCancel(c, i)
    \/ AllFinished

Spec == Init /\ [][Next]_vars

-----------------------------------------------------------------------------
(* The three maps create_node_contract fills under three locks agree at    *)
(* every moment in the direction readers follow them: what get_node_       *)
(* contracts lists is a contract of that node, and what get_contract_with_ *)
(* hash answers is listed under the node it was asked for.                 *)
IndexesAgree ==
    \A n \in Nodes :
        /\ \A i \in Ids : listed[n][i] > 0 => status[i] # "none" /\ place[i] = n
        /\ \A h \in Hashes : hashes[<<n, h>>] # NoId => listed[n][hashes[<<n, h>>]] > 0

(* What deploy returned is there until somebody cancels it: a contract of  *)
(* its own that exists, listed once under its node, with its deployment,   *)
(* whatever other calls with the same node and hash do or fail to do.      *)
DeployedIsLive ==
    \A t \in HasReturned :
        (\A c \in Cancels : cpc[c] # "idle" => target[c] # id[t]) =>
            /\ status[id[t]] = "created"
            /\ place[id[t]] = node[t]
            /\ listed[node[t]][id[t]] = 1
            /\ id[t] \in deployments[node[t]]
            /\ \A u \in HasReturned : id[u] = id[t] => u = t

(* A cancel that returned Ok of a contract that deploy had returned before *)
(* leaves no deployment, also when another cancel of it is half done.  (A  *)
(* cancel during the deploy may come too early: the deployment is put      *)
(* after it.)                                                              *)
CancelledIsUndeployed ==
    \A c \in Cancels : cpc[c] = "cancelled" =>
        \A t \in before[c] : id[t] = target[c] =>
            \A n \in Nodes : id[t] \notin deployments[n]

=============================================================================
