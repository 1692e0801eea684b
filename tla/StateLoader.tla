---------------------------- MODULE StateLoader -----------------------------
(***************************************************************************)
(* State (state.rs): an index of the nodes a user has contracts on, and    *)
(* the networks, deployments and clusters that its load_* methods rebuild  *)
(* from what those nodes hold (workloads.rs turns a workload back into a   *)
(* typed value).                                                           *)
(*                                                                         *)
(* A load is one synchronous call, but it asks one node after the other,   *)
(* in the iteration order of a hash map, while the nodes move on: each     *)
(* answer of a node is an action.                                          *)
(***************************************************************************)
EXTENDS Naturals, Sequences

CONSTANTS
    Nodes,       \* zos nodes
    NetNames,    \* network names
    Subnets,     \* parsed subnets
    Ids,         \* contract ids
    IdSets,      \* the sets of contract ids a caller stores or removes
    Catalog,     \* the deployments a node may hold
    Grids,       \* what the nodes hold to begin with
    MaxHeld,     \* bound: how many deployments a node holds
    MaxChanges,  \* bound: how often the nodes change
    DeplNames,   \* deployment names
    NoNode,      \* node id 0
    NoSubnet,    \* the empty string of get_node_subnet
    NoId         \* no entry in node_deployment_id

NetTypes == {"network", "network-light"}
MachineTypes == {"zmachine", "zmachine-light"}

(* What the loaders can tell apart of a workload.  parses: serde accepts   *)
(* its data and metadata ("user_accesses": null, which GridClient writes,  *)
(* is refused).  access: the node of the first user access; wg: that       *)
(* access has a subnet.  port: the listen port is not 0.  form: flat is    *)
(* what workloads.rs writes, nested what GridClient writes.                *)
NetWorkloads ==
    [type : NetTypes, name : NetNames, parses : BOOLEAN, subnet : Subnets,
     access : Nodes \union {NoNode}, wg : BOOLEAN, port : BOOLEAN]
Machines ==
    [type : MachineTypes, net : NetNames, form : {"flat", "nested"},
     master : BOOLEAN]

(* meta: the metadata are on the deployment, only in the chain's contract, *)
(* or in neither place (or not JSON).                                      *)
ASSUME LoaderAssumption ==
    /\ \A ids \in IdSets : ids \subseteq Ids
    /\ \A d \in Catalog :
          /\ d.cid \in Ids /\ d.name \in DeplNames
          /\ d.meta \in {"own", "chain", "bad"}
          /\ d.nets \in Seq(NetWorkloads) /\ d.machines \in Seq(Machines)
    /\ Grids \subseteq [Nodes -> Seq(Catalog)]
    /\ MaxHeld \in Nat /\ MaxChanges \in Nat
    /\ NoNode \notin Nodes /\ NoSubnet \notin Subnets /\ NoId \notin Ids

VARIABLES
    keys, index,      \* current_node_deployments: its keys, its (distinct) ids
    networks,         \* NetworkState: network -> node -> subnet
    grid, changes,    \* what each node holds, and how often that changed
    op, pc,           \* the call in progress and what it is doing
    net, type,        \* the network being loaded and its workload type
    todo,             \* nodes still to be asked
    answers,          \* what the nodes asked so far have answered
    first,            \* the first of them that has the network
    endpoint,         \* node whose public endpoint was asked for last (none: "")
    wanted,           \* nodes whose subnet the call looks up in the end
    dname, cluster,   \* load_k8s: deployment name, node -> machines found
    result,           \* outcome of the last call
    before, quiet     \* history: networks at the start; no change since

callVars == <<op, pc, net, type, todo, answers, first, endpoint, wanted, dname,
              cluster, result, before>>
loaderVars == <<keys, index, networks, grid, changes, quiet, callVars>>

NoRanges == [n \in Nodes |-> NoSubnet]
NoCluster == [n \in Nodes |-> <<>>]
NoAnswers == [n \in Nodes |-> <<>>]
Fresh == [ok |-> FALSE, ids |-> [n \in Nodes |-> NoId], peer |-> NoNode,
          host |-> NoNode, ranges |-> NoRanges]

LoaderInit ==
    /\ keys = {} /\ index = [n \in Nodes |-> {}]
    /\ networks = [m \in NetNames |-> NoRanges]
    /\ grid \in Grids /\ changes = 0
    /\ op = "none" /\ pc = "idle" /\ net \in NetNames /\ type = "network"
    /\ todo = {} /\ answers = NoAnswers /\ first = NoNode /\ endpoint = NoNode /\ wanted = {}
    /\ dname \in DeplNames /\ cluster = NoCluster
    /\ result = Fresh /\ before = networks /\ quiet = FALSE

-----------------------------------------------------------------------------
(* Between calls: the contract index, and NetworkState::delete_network.    *)

StoreContractIds(n, ids) ==
    /\ pc = "idle"
    /\ keys' = keys \union {n}
    /\ index' = [index EXCEPT ![n] = @ \union ids]
    /\ quiet' = FALSE
    /\ UNCHANGED <<networks, grid, changes, callVars>>

(* The node stays a key when its last id goes, and goes on being asked.    *)
RemoveContractIds(n, ids) ==
    /\ pc = "idle" /\ n \in keys
    /\ index' = [index EXCEPT ![n] = @ \ ids]
    /\ UNCHANGED <<keys, networks, grid, changes, quiet, callVars>>

DeleteNetwork(m) ==
    /\ pc = "idle" /\ networks[m] # NoRanges
    /\ networks' = [networks EXCEPT ![m] = NoRanges]
    /\ before' = networks' /\ quiet' = FALSE
    /\ UNCHANGED <<keys, index, grid, changes, op, pc, net, type, todo, answers,
                   first, endpoint, wanted, dname, cluster, result>>

-----------------------------------------------------------------------------
(* Reading a node's deployment_list.                                       *)

(* Positions of the workloads of deployment d that are network m of type   *)
(* t; the first one counts.                                                *)
Hits(d, m, t) == {j \in DOMAIN d.nets : d.nets[j].type = t /\ d.nets[j].name = m}
Hit(d, m, t) == d.nets[CHOOSE j \in Hits(d, m, t) : \A k \in Hits(d, m, t) : j <= k]

(* Positions of the deployments that have the network, and the first and   *)
(* the last of them.                                                       *)
Matches(ds, m, t) == {i \in DOMAIN ds : Hits(ds[i], m, t) # {}}
FirstOf(ds, m, t) ==
    ds[CHOOSE i \in Matches(ds, m, t) : \A k \in Matches(ds, m, t) : i <= k]
LastOf(ds, m, t) ==
    ds[CHOOSE i \in Matches(ds, m, t) : \A k \in Matches(ds, m, t) : k <= i]

(* resolve_metadata and parse_deployment_data run on every deployment,     *)
(* new_network_from_workload (or ..._light_...) on those that match.       *)
Unreadable(ds) ==
    \E i \in DOMAIN ds :
        \/ ds[i].meta = "bad"
        \/ Hits(ds[i], net, type) # {} /\ ~Hit(ds[i], net, type).parses

(* get_workload_in_deployment with an empty workload name: positions that  *)
(* end its loop; it stops at the first.                                    *)
Stops(ds, dn) == {i \in DOMAIN ds : ds[i].meta = "bad" \/ ds[i].name = dn}
Found(ds, dn) == ds[CHOOSE i \in Stops(ds, dn) : \A k \in Stops(ds, dn) : i <= k]
IsFound(n, dn) ==
    n \in keys /\ Stops(grid[n], dn) # {} /\ Found(grid[n], dn).meta # "bad"

-----------------------------------------------------------------------------
(* Calls.  Any of them may also fail: a node does not answer, an flist's   *)
(* checksum cannot be fetched.                                             *)

Begin(o) ==
    /\ pc = "idle"
    /\ op' = o
    /\ before' = networks /\ quiet' = TRUE
    /\ UNCHANGED <<keys, index, networks, grid, changes>>

(* Ask every indexed node for network m of type t.                         *)
StartScan(m, t) ==
    /\ pc' = "scan" /\ net' = m /\ type' = t
    /\ todo' = keys /\ answers' = NoAnswers /\ first' = NoNode /\ endpoint' = NoNode

ScanUnchanged == UNCHANGED <<net, type, todo, answers, first, endpoint>>

(* The call returns an error, and its local variables are gone.            *)
Error ==
    /\ pc' = "idle" /\ result' = Fresh
    /\ todo' = {} /\ answers' = NoAnswers /\ first' = NoNode /\ endpoint' = NoNode
    /\ UNCHANGED <<net, type>>

(* load_network_from_grid and load_network_light_from_grid.                *)
LoadNetwork(m, t) ==
    /\ Begin("network")
    /\ StartScan(m, t)
    /\ result' = Fresh /\ wanted' = keys /\ cluster' = NoCluster
    /\ UNCHANGED dname

(* load_deployment_from_grid up to its network: the deployment is found by *)
(* its resolved metadata and then rebuilt from its own, and every machine  *)
(* must be in flat form.  The last machine names the network.              *)
LoadDeployment(n, dn) ==
    /\ Begin("deployment")
    /\ wanted' = {n}
    /\ LET d == Found(grid[n], dn)
           rebuilds == /\ IsFound(n, dn) /\ d.meta = "own"
                       /\ \A i \in DOMAIN d.machines : d.machines[i].form = "flat"
       IN \/ Error
          \/ /\ rebuilds /\ d.machines = <<>>
             /\ pc' = "idle" /\ result' = [Fresh EXCEPT !.ok = TRUE]
             /\ answers' = NoAnswers /\ first' = NoNode
             /\ UNCHANGED <<net, type, todo, endpoint>>
          \/ /\ rebuilds /\ d.machines # <<>>
             /\ StartScan(d.machines[Len(d.machines)].net, "network")
             /\ result' = Fresh
    /\ cluster' = NoCluster /\ UNCHANGED dname

(* load_k8s_from_grid: one lookup per node of the cluster.                 *)
LoadK8s(ns, dn) ==
    /\ Begin("k8s")
    /\ pc' = "find" /\ todo' = ns /\ dname' = dn /\ result' = Fresh
    /\ wanted' = {} /\ answers' = NoAnswers /\ first' = NoNode /\ endpoint' = NoNode
    /\ cluster' = NoCluster
    /\ UNCHANGED <<net, type>>

(* The zmachines of a deployment, by their position in it.                 *)
K8sMachines(d) ==
    [i \in {j \in DOMAIN d.machines : d.machines[j].type = "zmachine"} |-> d.machines[i]]

(* Every zmachine must have an env (nested form).                          *)
FindK8sNode(n) ==
    /\ pc = "find" /\ n \in todo
    /\ LET ms == K8sMachines(Found(grid[n], dname))
       IN \/ /\ IsFound(n, dname)
             /\ \A i \in DOMAIN ms : ms[i].form = "nested"
             /\ cluster' = [cluster EXCEPT ![n] = ms]
             /\ todo' = todo \ {n}
             /\ UNCHANGED <<pc, result, net, type, answers, first, endpoint>>
          \/ Error /\ cluster' = NoCluster
    /\ UNCHANGED <<keys, index, networks, grid, changes, op, wanted, dname,
                   before, quiet>>

(* The clusters are visited in some order, and of several masters the last *)
(* visited stays (the others are in no list).  No master is an error.      *)
MasterNodes == {n \in Nodes : \E i \in DOMAIN cluster[n] : cluster[n][i].master}
WorkerNodes == {n \in Nodes : \E i \in DOMAIN cluster[n] : ~cluster[n][i].master}
MasterOf(n) ==
    LET masters == {i \in DOMAIN cluster[n] : cluster[n][i].master}
    IN cluster[n][CHOOSE i \in masters : \A k \in masters : k <= i]

AssembleK8s ==
    /\ pc = "find" /\ todo = {}
    /\ \/ \E m \in MasterNodes :
             /\ StartScan(MasterOf(m).net, "network")
             /\ wanted' = {m} \union WorkerNodes
             /\ result' = result
       \/ MasterNodes = {} /\ Error /\ wanted' = {}
    /\ UNCHANGED <<keys, index, networks, grid, changes, op, dname, cluster,
                   before, quiet>>

-----------------------------------------------------------------------------
(* The scan.                                                               *)

(* The load has failed: the call too, unless load_deployment_from_grid can *)
(* try again with light networks.                                          *)
Abort ==
    IF op = "deployment" /\ type = "network"
    THEN StartScan(net, "network-light") /\ result' = result
    ELSE Error

(* Mutant of Asked: every node that has the network is its public node.    *)
AskedAny(n, ds) ==
    IF type = "network" /\ Matches(ds, net, type) # {} THEN {n, NoNode} ELSE {endpoint}

(* get_node_endpoint of a node that is the public node of its own network; *)
(* the answer may be an empty string, as that of the trait's own method.   *)
Asked(n, ds) ==
    IF /\ type = "network"
       /\ \E i \in Matches(ds, net, type) : Hit(ds[i], net, type).access = n
    THEN {n, NoNode} ELSE {endpoint}

ReadNode(n) ==
    /\ pc = "scan" /\ n \in todo
    /\ \/ /\ ~Unreadable(grid[n])
          /\ todo' = todo \ {n}
          /\ answers' = [answers EXCEPT ![n] = grid[n]]
          /\ first' = IF first = NoNode /\ Matches(grid[n], net, type) # {}
                       THEN n ELSE first
          /\ endpoint' \in Asked(n, grid[n])
          /\ UNCHANGED <<pc, net, type, result>>
       \/ Abort
    /\ UNCHANGED <<keys, index, networks, grid, changes, op, wanted, dname,
                   cluster, before, quiet>>

(* The networks found are merged into the first one: in its maps the last  *)
(* one of each node counts.                                                *)
Has(n) == Matches(answers[n], net, type) # {}
FirstNet == Hit(FirstOf(answers[first], net, type), net, type)

(* Mutant of NodesIpRange: an entry that is there is kept.                 *)
NodesIpRangeKeep ==
    [n \in Nodes |-> IF Has(n) THEN Hit(FirstOf(answers[n], net, type), net, type).subnet
                     ELSE NoSubnet]

NodesIpRange ==
    [n \in Nodes |-> IF Has(n) THEN Hit(LastOf(answers[n], net, type), net, type).subnet
                     ELSE NoSubnet]

NodeDeploymentId ==
    [n \in Nodes |-> IF Has(n) THEN LastOf(answers[n], net, type).cid ELSE NoId]

(* WireGuard access: wanted when the first network has an access subnet    *)
(* and the endpoint is not empty; port and peer key are those of the first *)
(* network's public node, and the port must be there.  The port of a       *)
(* network without one does not replace an earlier network's.              *)
WantsAccess == type = "network" /\ FirstNet.wg /\ endpoint # NoNode
PortMissing ==
    \A n \in Nodes : n = FirstNet.access =>
        \A i \in Matches(answers[n], net, type) : ~Hit(answers[n][i], net, type).port

NothingUsable == first # NoNode => WantsAccess /\ PortMissing

(* Mutant of RangesKnown: what has no subnet is skipped.                   *)
RangesKnownAny == TRUE

(* assign_nodes_ip_range of load_k8s: every machine's node has a subnet.   *)
RangesKnown == \A n \in wanted : NodesIpRange[n] # NoSubnet

(* Mutant of EndScan: what was merged is stored although the load fails.   *)
EndScanStoresFirst ==
    /\ pc = "scan" /\ todo = {}
    /\ networks' = [networks EXCEPT ![net] = NodesIpRange]
    /\ IF NothingUsable THEN Abort
       ELSE /\ pc' = "idle" /\ ScanUnchanged
            /\ result' = [Fresh EXCEPT !.ok = TRUE]
    /\ UNCHANGED <<keys, index, grid, changes, op, wanted, dname, cluster,
                   before, quiet>>

(* Mutant of EndScan: the subnets of other nodes that are known are kept.  *)
EndScanMerges ==
    /\ pc = "scan" /\ todo = {}
    /\ \/ NothingUsable /\ Abort /\ networks' = networks
       \/ /\ ~NothingUsable
          /\ networks' = [networks EXCEPT ![net] =
                [n \in Nodes |-> IF NodesIpRange[n] = NoSubnet THEN @[n]
                                 ELSE NodesIpRange[n]]]
          /\ pc' = "idle" /\ ScanUnchanged
          /\ result' = [Fresh EXCEPT !.ok = TRUE, !.ids = NodeDeploymentId,
                                     !.ranges = NodesIpRange]
    /\ UNCHANGED <<keys, index, grid, changes, op, wanted, dname, cluster,
                   before, quiet>>

(* All nodes have answered.  update_network_subnets replaces the entry of  *)
(* the network, and then the call reads its own answer from there.         *)
EndScan ==
    /\ pc = "scan" /\ todo = {}
    /\ \/ NothingUsable /\ Abort /\ networks' = networks
       \/ /\ ~NothingUsable
          /\ networks' = [networks EXCEPT ![net] = NodesIpRange]
          /\ pc' = "idle" /\ ScanUnchanged
          /\ result' =
                IF op = "k8s" /\ ~RangesKnown THEN Fresh
                ELSE [ok |-> TRUE,
                      ids |-> NodeDeploymentId,
                      peer |-> IF WantsAccess THEN FirstNet.access ELSE NoNode,
                      host |-> IF WantsAccess THEN endpoint ELSE NoNode,
                      ranges |-> [n \in Nodes |-> IF n \in wanted
                                    THEN NodesIpRange[n] ELSE NoSubnet]]
    /\ UNCHANGED <<keys, index, grid, changes, op, wanted, dname, cluster,
                   before, quiet>>

-----------------------------------------------------------------------------
(* The nodes change what they hold: a deployment is added or goes away.    *)
GridChanges(n) ==
    /\ changes < MaxChanges
    /\ changes' = changes + 1 /\ quiet' = FALSE
    /\ \/ \E d \in Catalog : Len(grid[n]) < MaxHeld /\ grid' = [grid EXCEPT ![n] = Append(@, d)]
       \/ grid[n] # <<>> /\ grid' = [grid EXCEPT ![n] = Tail(@)]
    /\ UNCHANGED <<keys, index, networks, callVars>>

LoaderNext ==
    \/ \E n \in Nodes, ids \in IdSets : StoreContractIds(n, ids) \/ RemoveContractIds(n, ids)
    \/ \E m \in NetNames : DeleteNetwork(m) \/ \E t \in NetTypes : LoadNetwork(m, t)
    \/ \E n \in Nodes, dn \in DeplNames : LoadDeployment(n, dn)
    \/ \E ns \in SUBSET Nodes, dn \in DeplNames : LoadK8s(ns, dn)
    \/ \E n \in Nodes : FindK8sNode(n) \/ ReadNode(n) \/ GridChanges(n)
    \/ AssembleK8s
    \/ EndScan

LoaderSpec == LoaderInit /\ [][LoaderNext]_loaderVars

-----------------------------------------------------------------------------
(* A load has ended well and scanned the nodes.                            *)
Loaded == pc = "idle" /\ result.ok /\ first # NoNode

(* load_network_from_grid, with whatever order the hash map has: while the *)
(* nodes stand still, the subnets it leaves in NetworkState are those of   *)
(* the network workloads the indexed nodes hold (the last one, where a     *)
(* node holds several), and nothing of an earlier load or of a network of  *)
(* the other type is left among them.                                      *)
LoadedAsHeld ==
    Loaded /\ quiet =>
        \A n \in Nodes :
            networks[net][n] =
                IF n \notin keys \/ Matches(grid[n], net, type) = {} THEN NoSubnet
                ELSE Hit(LastOf(grid[n], net, type), net, type).subnet

(* node_deployment_id and nodes_ip_range of a loaded network are filled by *)
(* different code, but the contract of a node and its subnet are those of  *)
(* one and the same deployment: cancelling that contract frees that subnet.*)
IdMatchesSubnet ==
    Loaded /\ op = "network" =>
        \A n \in Nodes :
            /\ result.ids[n] = NoId <=> result.ranges[n] = NoSubnet
            /\ result.ids[n] # NoId =>
                  \E d \in Catalog :
                      /\ d.cid = result.ids[n] /\ Hits(d, net, type) # {}
                      /\ Hit(d, net, type).subnet = result.ranges[n]

(* A failed load leaves NetworkState as it was, however far it came (for   *)
(* load_k8s_from_grid only until its network is loaded).                   *)
FailedLoadKeepsNetworks ==
    pc = "idle" /\ ~result.ok /\ op # "k8s" => networks = before

(* The WireGuard configuration combines an endpoint and the port and key   *)
(* of a peer, found in different passes.  As long as the networks of the   *)
(* nodes agree on their public node, they are those of one node.           *)
AccessIsOneNode ==
    /\ Loaded
    /\ \A n \in Nodes : \A i \in Matches(answers[n], net, type) :
          Hit(answers[n][i], net, type).access = FirstNet.access
    => result.host = result.peer

(* A cluster that load_k8s_from_grid returns has a subnet for the node of  *)
(* its master and of each of its workers, although machines and networks   *)
(* were read at different times.                                           *)
ClusterIsAddressed ==
    Loaded /\ op = "k8s" =>
        /\ \A n \in WorkerNodes : result.ranges[n] # NoSubnet
        /\ \E n \in MasterNodes : result.ranges[n] # NoSubnet
=============================================================================
