-------------------------- MODULE StateLoaderProofs -------------------------
(***************************************************************************)
(* Proofs about StateLoader: what a load of a network leaves in            *)
(* NetworkState and what it answers, however the nodes change meanwhile.   *)
(***************************************************************************)
EXTENDS StateLoader, WellFoundedInduction, TLAPS

-----------------------------------------------------------------------------
(* First and last positions.                                               *)

(* A set of numbers that is not empty has a least one.                     *)
LEMMA FirstPosition ==
    ASSUME NEW T, T \subseteq Nat, T # {}
    PROVE  \E x \in T : \A y \in T : x <= y
<1>1. PICK x \in T : \A y \in T : ~(<<y, x>> \in OpToRel(<, Nat))
  BY NatLessThanWellFounded, WFMin, Zenon
<1>2. \A y \in T : ~(y < x)
  BY <1>1 DEF OpToRel
<1> QED
  BY <1>2

(* And a bounded one a greatest.                                           *)
LEMMA LastPosition ==
    ASSUME NEW k \in Nat, NEW T, T \subseteq 1 .. k, T # {}
    PROVE  \E x \in T : \A y \in T : y <= x
<1> DEFINE R == {k - x : x \in T}
<1>1. R \subseteq Nat /\ R # {}
  <2>1. \A x \in T : k - x \in Nat
    OBVIOUS
  <2> QED
    BY <2>1
<1>2. PICK r \in R : \A q \in R : r <= q
  BY <1>1, FirstPosition
<1>3. PICK x \in T : r = k - x
  BY <1>2
<1>4. \A y \in T : k - x <= k - y
  BY <1>2, <1>3
<1>5. x \in Int /\ \A y \in T : y \in Int
  OBVIOUS
<1> QED
  BY <1>4, <1>5

(* The network workload that is read from a deployment is one of its own.  *)
LEMMA HitIsNetwork ==
    ASSUME NEW d \in Catalog, NEW m, NEW t, Hits(d, m, t) # {}
    PROVE  Hit(d, m, t) \in NetWorkloads
<1> DEFINE j == CHOOSE j \in Hits(d, m, t) : \A k \in Hits(d, m, t) : j <= k
<1>1. d.nets \in Seq(NetWorkloads)
  BY LoaderAssumption
<1>2. Hits(d, m, t) \subseteq DOMAIN d.nets /\ DOMAIN d.nets \subseteq Nat
  BY <1>1 DEF Hits
<1>3. \E x \in Hits(d, m, t) : \A y \in Hits(d, m, t) : x <= y
  BY <1>2, FirstPosition
<1>4. j \in DOMAIN d.nets
  BY <1>2, <1>3
<1>5. d.nets[j] \in NetWorkloads
  BY <1>1, <1>4
<1> QED
  BY <1>5 DEF Hit

(* The last deployment with the network is one the node holds.             *)
LEMMA LastIsHeld ==
    ASSUME NEW ds \in Seq(Catalog), NEW m, NEW t, Matches(ds, m, t) # {}
    PROVE  LastOf(ds, m, t) \in Catalog /\ Hits(LastOf(ds, m, t), m, t) # {}
<1> DEFINE i == CHOOSE i \in Matches(ds, m, t) : \A k \in Matches(ds, m, t) : k <= i
<1>1. Matches(ds, m, t) \subseteq 1 .. Len(ds) /\ Len(ds) \in Nat
  BY DEF Matches
<1>2. \E x \in Matches(ds, m, t) : \A y \in Matches(ds, m, t) : y <= x
  BY <1>1, LastPosition
<1>3. i \in Matches(ds, m, t)
  BY <1>2
<1> HIDE DEF i
<1>4. ds[i] \in Catalog /\ Hits(ds[i], m, t) # {}
  BY <1>3 DEF Matches
<1> QED
  BY <1>4 DEF LastOf, i

(* So its contract and its subnet are there.                               *)
LEMMA LastHasSubnet ==
    ASSUME NEW ds \in Seq(Catalog), NEW m, NEW t, Matches(ds, m, t) # {}
    PROVE  /\ LastOf(ds, m, t).cid \in Ids
           /\ Hit(LastOf(ds, m, t), m, t).subnet \in Subnets
<1>1. PICK d \in Catalog : d = LastOf(ds, m, t) /\ Hits(d, m, t) # {}
  BY LastIsHeld
<1>2. Hit(d, m, t) \in NetWorkloads
  BY <1>1, HitIsNetwork
<1>3. Hit(d, m, t).subnet \in Subnets
  BY <1>2 DEF NetWorkloads
<1>4. d.cid \in Ids
  BY LoaderAssumption
<1> QED
  BY <1>1, <1>3, <1>4

(* What get_workload_in_deployment finds is a deployment of the node.      *)
LEMMA FoundIsHeld ==
    ASSUME NEW ds \in Seq(Catalog), NEW dn, Stops(ds, dn) # {}
    PROVE  Found(ds, dn) \in Catalog
<1> DEFINE i == CHOOSE i \in Stops(ds, dn) : \A k \in Stops(ds, dn) : i <= k
<1>1. Stops(ds, dn) \subseteq DOMAIN ds /\ DOMAIN ds \subseteq Nat
  BY DEF Stops
<1>2. \E x \in Stops(ds, dn) : \A y \in Stops(ds, dn) : x <= y
  BY <1>1, FirstPosition
<1>3. i \in DOMAIN ds
  BY <1>1, <1>2
<1> QED
  BY <1>3 DEF Found

-----------------------------------------------------------------------------
(* The inductive invariant.                                                *)

(* f is a list of machines with gaps.                                      *)
IsMachineList(f) ==
    /\ \E k \in Nat : DOMAIN f \subseteq 1 .. k
    /\ \A i \in DOMAIN f : f[i] \in Machines

LoaderType ==
    /\ pc \in {"idle", "find", "scan"}
    /\ keys \subseteq Nodes /\ wanted \subseteq Nodes /\ todo \subseteq Nodes
    /\ networks \in [NetNames -> [Nodes -> Subnets \union {NoSubnet}]]
    /\ grid \in [Nodes -> Seq(Catalog)] /\ answers \in [Nodes -> Seq(Catalog)]
    /\ net \in NetNames
    /\ first \in Nodes \union {NoNode} /\ endpoint \in Nodes \union {NoNode}
    /\ DOMAIN cluster = Nodes /\ \A n \in Nodes : IsMachineList(cluster[n])

(* Nothing is stored before the scan has ended.                            *)
CallStoresNothing == pc # "idle" => networks = before

(* The answers are those of the indexed nodes that were asked, and while   *)
(* the nodes stand still they are what those hold now.                     *)
AnswersAreHeld ==
    pc = "scan" =>
        /\ todo \subseteq keys
        /\ \A n \in Nodes : n \notin keys \/ n \in todo => answers[n] = <<>>
        /\ quiet => \A n \in keys \ todo : answers[n] = grid[n]

(* The call will look up the subnets of the nodes it is about (only        *)
(* load_k8s_from_grid looks for machines first).                           *)
WantedIsRight ==
    /\ pc = "find" => op = "k8s"
    /\ pc = "scan" /\ op = "network" => wanted = keys
    /\ pc = "scan" /\ op = "k8s" => \E m \in MasterNodes : wanted = {m} \union WorkerNodes

(* The node whose endpoint was asked for is the public node of a network   *)
(* that it has.                                                            *)
EndpointIsAccess ==
    pc = "scan" /\ endpoint # NoNode =>
        \E i \in Matches(answers[endpoint], net, type) :
            Hit(answers[endpoint][i], net, type).access = endpoint

LoaderInv ==
    /\ LoaderType /\ CallStoresNothing /\ AnswersAreHeld /\ WantedIsRight
    /\ EndpointIsAccess
    /\ LoadedAsHeld /\ IdMatchesSubnet /\ FailedLoadKeepsNetworks /\ AccessIsOneNode
    /\ ClusterIsAddressed

(* Before a node was asked, no machine of a cluster is known.              *)
LEMMA NoMachines ==
    DOMAIN NoCluster = Nodes /\ \A n \in Nodes : IsMachineList(NoCluster[n])
<1>1. DOMAIN <<>> = {}
  OBVIOUS
<1>2. IsMachineList(<<>>)
  BY <1>1 DEF IsMachineList
<1> QED
  BY <1>2 DEF NoCluster

(* Nothing is stored, loaded or asked for at first.                        *)
LEMMA LoaderStarts == LoaderInit => LoaderInv
<1> SUFFICES ASSUME LoaderInit PROVE LoaderInv
  OBVIOUS
<1>1. LoaderType
  BY NoMachines, LoaderAssumption DEF LoaderInit, LoaderType, NoRanges, NoAnswers
<1>2. pc = "idle" /\ ~Loaded /\ networks = before
  BY DEF LoaderInit, Loaded
<1> QED
  BY <1>1, <1>2 DEF LoaderInv, CallStoresNothing, AnswersAreHeld, WantedIsRight,
     EndpointIsAccess, LoadedAsHeld, IdMatchesSubnet, FailedLoadKeepsNetworks,
     AccessIsOneNode, ClusterIsAddressed

(* What a load promises holds of a call that is not over, or has failed.   *)
LEMMA NotLoaded ==
    ASSUME ~Loaded'
    PROVE  LoadedAsHeld' /\ IdMatchesSubnet' /\ AccessIsOneNode' /\ ClusterIsAddressed'
BY DEF LoadedAsHeld, IdMatchesSubnet, AccessIsOneNode, ClusterIsAddressed

(* Between calls.                                                          *)
LEMMA StoreKeeps ==
    ASSUME LoaderInv, NEW n \in Nodes, NEW ids \in IdSets, StoreContractIds(n, ids)
    PROVE  LoaderInv'
<1> USE DEF LoaderInv
<1>1. LoaderType'
  BY DEF LoaderType, StoreContractIds, callVars
<1>2. CallStoresNothing' /\ AnswersAreHeld' /\ WantedIsRight' /\ EndpointIsAccess'
  BY DEF CallStoresNothing, AnswersAreHeld, WantedIsRight, EndpointIsAccess,
         StoreContractIds, callVars
<1>3. LoadedAsHeld'
  BY DEF LoadedAsHeld, StoreContractIds
<1>4. IdMatchesSubnet' /\ FailedLoadKeepsNetworks'
  BY DEF IdMatchesSubnet, FailedLoadKeepsNetworks, Loaded, StoreContractIds, callVars
<1>5. AccessIsOneNode' /\ ClusterIsAddressed'
  BY DEF AccessIsOneNode, ClusterIsAddressed, Loaded, FirstNet, MasterNodes, WorkerNodes,
         StoreContractIds, callVars
<1> QED
  BY <1>1, <1>2, <1>3, <1>4, <1>5

(* remove_contract_ids changes the index of one node and no load.          *)
LEMMA RemoveKeeps ==
    ASSUME LoaderInv, NEW n \in Nodes, NEW ids \in IdSets, RemoveContractIds(n, ids)
    PROVE  LoaderInv'
<1> USE DEF LoaderInv
<1>1. LoaderType'
  BY DEF LoaderType, RemoveContractIds, callVars
<1>2. CallStoresNothing' /\ AnswersAreHeld' /\ WantedIsRight' /\ EndpointIsAccess'
  BY DEF CallStoresNothing, AnswersAreHeld, WantedIsRight, EndpointIsAccess,
         RemoveContractIds, callVars
<1>3. LoadedAsHeld'
  BY DEF LoadedAsHeld, Loaded, RemoveContractIds, callVars
<1>4. IdMatchesSubnet' /\ FailedLoadKeepsNetworks'
  BY DEF IdMatchesSubnet, FailedLoadKeepsNetworks, Loaded, RemoveContractIds, callVars
<1>5. AccessIsOneNode' /\ ClusterIsAddressed'
  BY DEF AccessIsOneNode, ClusterIsAddressed, Loaded, FirstNet, MasterNodes, WorkerNodes,
         RemoveContractIds, callVars
<1> QED
  BY <1>1, <1>2, <1>3, <1>4, <1>5

(* delete_network removes one stored network and no load.                  *)
LEMMA DeleteKeeps ==
    ASSUME LoaderInv, NEW m \in NetNames, DeleteNetwork(m)
    PROVE  LoaderInv'
<1> USE DEF LoaderInv
<1>1. LoaderType'
  BY DEF LoaderType, DeleteNetwork, NoRanges
<1>2. CallStoresNothing' /\ AnswersAreHeld' /\ WantedIsRight' /\ EndpointIsAccess'
  BY DEF CallStoresNothing, AnswersAreHeld, WantedIsRight, EndpointIsAccess,
         DeleteNetwork
<1>3. LoadedAsHeld'
  BY DEF LoadedAsHeld, DeleteNetwork
<1>4. IdMatchesSubnet' /\ FailedLoadKeepsNetworks'
  BY DEF IdMatchesSubnet, FailedLoadKeepsNetworks, Loaded, DeleteNetwork
<1>5. AccessIsOneNode' /\ ClusterIsAddressed'
  BY DEF AccessIsOneNode, ClusterIsAddressed, Loaded, FirstNet, MasterNodes, WorkerNodes,
         DeleteNetwork
<1> QED
  BY <1>1, <1>2, <1>3, <1>4, <1>5

(* The nodes change at any time.                                           *)
LEMMA GridChangeKeeps ==
    ASSUME LoaderInv, NEW n \in Nodes, GridChanges(n)
    PROVE  LoaderInv'
<1> USE DEF LoaderInv
<1>1. grid' \in [Nodes -> Seq(Catalog)]
  <2>1. grid[n] \in Seq(Catalog)
    BY DEF LoaderType
  <2>2. \A d \in Catalog : Append(grid[n], d) \in Seq(Catalog)
    BY <2>1
  <2>3. grid[n] # <<>> => Tail(grid[n]) \in Seq(Catalog)
    BY <2>1
  <2> QED
    BY <2>2, <2>3 DEF LoaderType, GridChanges
<1>2. LoaderType'
  BY <1>1 DEF LoaderType, GridChanges, callVars
<1>3. ~quiet' /\ UNCHANGED <<keys, index, networks, callVars>>
  BY DEF GridChanges
<1>4. CallStoresNothing' /\ AnswersAreHeld' /\ WantedIsRight' /\ EndpointIsAccess'
  BY <1>3 DEF CallStoresNothing, AnswersAreHeld, WantedIsRight, EndpointIsAccess,
              MasterNodes, WorkerNodes, callVars
<1>5. LoadedAsHeld'
  BY <1>3 DEF LoadedAsHeld
<1>6. IdMatchesSubnet' /\ FailedLoadKeepsNetworks'
  BY <1>3 DEF IdMatchesSubnet, FailedLoadKeepsNetworks, Loaded, callVars
<1>7. AccessIsOneNode' /\ ClusterIsAddressed'
  BY <1>3 DEF AccessIsOneNode, ClusterIsAddressed, Loaded, FirstNet, MasterNodes,
              WorkerNodes, callVars
<1> QED
  BY <1>2, <1>4, <1>5, <1>6, <1>7

-----------------------------------------------------------------------------
(* A call begins, or goes on, with nothing loaded yet.                     *)

(* A scan that has just been started satisfies what is said of a scan.     *)
LEMMA ScanStarts ==
    ASSUME LoaderInv, NEW m \in NetNames, NEW t, StartScan(m, t),
           UNCHANGED <<keys, grid>>, wanted' \subseteq Nodes,
           networks' = before', networks' = networks,
           DOMAIN cluster' = Nodes, \A n \in Nodes : IsMachineList(cluster'[n]),
           WantedIsRight'
    PROVE  LoaderInv'
<1> USE DEF LoaderInv
<1>1. LoaderType'
  BY DEF LoaderType, StartScan, NoAnswers
<1>2. ~Loaded'
  BY DEF Loaded, StartScan
<1>3. AnswersAreHeld' /\ EndpointIsAccess'
  BY DEF AnswersAreHeld, EndpointIsAccess, StartScan, NoAnswers
<1>4. CallStoresNothing' /\ FailedLoadKeepsNetworks'
  BY DEF CallStoresNothing, FailedLoadKeepsNetworks
<1> QED
  BY <1>1, <1>2, <1>3, <1>4, NotLoaded

(* A call that returns an error leaves what was loaded before.             *)
LEMMA ErrorKeeps ==
    ASSUME LoaderInv, Error, UNCHANGED <<keys, grid>>, wanted' \subseteq Nodes,
           networks' = before', networks' = networks,
           DOMAIN cluster' = Nodes, \A n \in Nodes : IsMachineList(cluster'[n])
    PROVE  LoaderInv'
<1> USE DEF LoaderInv
<1>1. LoaderType'
  BY DEF LoaderType, Error, NoAnswers
<1>2. ~Loaded'
  BY DEF Loaded, Error
<1>3. AnswersAreHeld' /\ EndpointIsAccess' /\ WantedIsRight'
  BY DEF AnswersAreHeld, EndpointIsAccess, WantedIsRight, Error
<1>4. CallStoresNothing' /\ FailedLoadKeepsNetworks'
  BY DEF CallStoresNothing, FailedLoadKeepsNetworks
<1> QED
  BY <1>1, <1>2, <1>3, <1>4, NotLoaded

(* load_network_from_grid begins: it will ask the nodes of the index.      *)
LEMMA LoadNetworkKeeps ==
    ASSUME LoaderInv, NEW m \in NetNames, NEW t \in NetTypes, LoadNetwork(m, t)
    PROVE  LoaderInv'
<1>1. StartScan(m, t)
  BY DEF LoadNetwork
<1>2. /\ UNCHANGED <<keys, grid, networks>> /\ before' = networks /\ op' = "network"
      /\ wanted' = keys /\ cluster' = NoCluster
  BY DEF LoadNetwork, Begin
<1>3. WantedIsRight'
  BY <1>1, <1>2 DEF WantedIsRight, StartScan
<1>4. keys \subseteq Nodes
  BY DEF LoaderInv, LoaderType
<1> QED
  BY <1>1, <1>2, <1>3, <1>4, NoMachines, ScanStarts

(* load_deployment_from_grid begins: it fails, ends, or starts a scan.     *)
LEMMA LoadDeploymentKeeps ==
    ASSUME LoaderInv, NEW n \in Nodes, NEW dn \in DeplNames, LoadDeployment(n, dn)
    PROVE  LoaderInv'
<1> DEFINE d == Found(grid[n], dn)
           rebuilds == /\ IsFound(n, dn) /\ d.meta = "own"
                       /\ \A i \in DOMAIN d.machines : d.machines[i].form = "flat"
<1>1. /\ UNCHANGED <<keys, grid, networks>> /\ before' = networks /\ op' = "deployment"
      /\ wanted' = {n} /\ cluster' = NoCluster
  BY DEF LoadDeployment, Begin
<1>2. DOMAIN cluster' = Nodes /\ \A k \in Nodes : IsMachineList(cluster'[k])
  BY <1>1, NoMachines
<1>3. CASE Error
  BY <1>1, <1>2, <1>3, ErrorKeeps
<1>4. CASE /\ pc' = "idle" /\ result' = [Fresh EXCEPT !.ok = TRUE]
           /\ answers' = NoAnswers /\ first' = NoNode
           /\ UNCHANGED <<net, type, todo, endpoint>>
  <2>1. ~Loaded'
    BY <1>4 DEF Loaded
  <2>2. LoaderType'
    BY <1>1, <1>2, <1>4 DEF LoaderInv, LoaderType, NoAnswers
  <2>3. /\ CallStoresNothing' /\ AnswersAreHeld' /\ WantedIsRight' /\ EndpointIsAccess'
        /\ FailedLoadKeepsNetworks'
    BY <1>1, <1>4 DEF CallStoresNothing, AnswersAreHeld, WantedIsRight, EndpointIsAccess,
                      FailedLoadKeepsNetworks
  <2> QED
    BY <2>1, <2>2, <2>3, NotLoaded DEF LoaderInv
<1>5. CASE /\ rebuilds /\ d.machines # <<>>
           /\ StartScan(d.machines[Len(d.machines)].net, "network")
  <2>1. grid[n] \in Seq(Catalog) /\ Stops(grid[n], dn) # {}
    BY <1>5 DEF LoaderInv, LoaderType, IsFound
  <2>2. PICK ds \in Seq(Catalog) : ds = grid[n]
    BY <2>1
  <2>3. d \in Catalog
    BY <2>1, <2>2, FoundIsHeld
  <2>4. d.machines \in Seq(Machines)
    BY <2>3, LoaderAssumption
  <2>5. d.machines[Len(d.machines)] \in Machines
    BY <1>5, <2>4
  <2>6. PICK m \in NetNames : m = d.machines[Len(d.machines)].net
    BY <2>5 DEF Machines
  <2>7. StartScan(m, "network")
    BY <1>5, <2>6
  <2>8. WantedIsRight'
    BY <1>1, <2>7 DEF WantedIsRight, StartScan
  <2> QED
    BY <1>1, <1>2, <2>7, <2>8, ScanStarts
<1> QED
  BY <1>3, <1>4, <1>5 DEF LoadDeployment

(* load_k8s_from_grid begins: it looks for machines on the given nodes.    *)
LEMMA LoadK8sKeeps ==
    ASSUME LoaderInv, NEW ns \in SUBSET Nodes, NEW dn \in DeplNames, LoadK8s(ns, dn)
    PROVE  LoaderInv'
<1>1. /\ UNCHANGED <<keys, grid, networks, net, type>> /\ before' = networks
      /\ op' = "k8s" /\ pc' = "find" /\ todo' = ns /\ wanted' = {} /\ cluster' = NoCluster
      /\ answers' = NoAnswers /\ first' = NoNode /\ endpoint' = NoNode
  BY DEF LoadK8s, Begin
<1>2. LoaderType'
  BY <1>1, NoMachines DEF LoaderInv, LoaderType, NoAnswers
<1>3. ~Loaded'
  BY <1>1 DEF Loaded
<1>4. /\ CallStoresNothing' /\ AnswersAreHeld' /\ WantedIsRight' /\ EndpointIsAccess'
      /\ FailedLoadKeepsNetworks'
  BY <1>1 DEF CallStoresNothing, AnswersAreHeld, WantedIsRight, EndpointIsAccess,
              FailedLoadKeepsNetworks
<1> QED
  BY <1>2, <1>3, <1>4, NotLoaded DEF LoaderInv

(* The zmachines of a deployment are a list with gaps.                     *)
LEMMA MachinesAreListed ==
    ASSUME NEW d \in Catalog
    PROVE  IsMachineList(K8sMachines(d))
<1>1. d.machines \in Seq(Machines)
  BY LoaderAssumption
<1>2. /\ DOMAIN d.machines \subseteq 1 .. Len(d.machines) /\ Len(d.machines) \in Nat
      /\ \A i \in DOMAIN d.machines : d.machines[i] \in Machines
  BY <1>1
<1> DEFINE S == {j \in DOMAIN d.machines : d.machines[j].type = "zmachine"}
<1>3. DOMAIN K8sMachines(d) = S /\ \A i \in S : K8sMachines(d)[i] = d.machines[i]
  BY DEF K8sMachines
<1>4. S \subseteq 1 .. Len(d.machines) /\ \A i \in S : d.machines[i] \in Machines
  BY <1>2
<1> HIDE DEF S
<1> QED
  BY <1>2, <1>3, <1>4 DEF IsMachineList

(* One node was asked for the machines of the cluster.                     *)
LEMMA FindK8sKeeps ==
    ASSUME LoaderInv, NEW n \in Nodes, FindK8sNode(n)
    PROVE  LoaderInv'
<1>1. /\ UNCHANGED <<keys, networks, grid, op, wanted, before>> /\ pc = "find"
  BY DEF FindK8sNode
<1>2. networks = before /\ wanted \subseteq Nodes
  BY <1>1 DEF LoaderInv, CallStoresNothing, LoaderType
<1>3. CASE /\ IsFound(n, dname)
           /\ cluster' = [cluster EXCEPT ![n] = K8sMachines(Found(grid[n], dname))]
           /\ todo' = todo \ {n}
           /\ UNCHANGED <<pc, result, net, type, answers, first, endpoint>>
  <2>1. grid[n] \in Seq(Catalog) /\ Stops(grid[n], dname) # {}
    BY <1>3 DEF LoaderInv, LoaderType, IsFound
  <2>2. PICK ds \in Seq(Catalog) : ds = grid[n]
    BY <2>1
  <2>3. PICK dn : dn = dname
    OBVIOUS
  <2>4. PICK d \in Catalog : d = Found(grid[n], dname)
    BY <2>1, <2>2, <2>3, FoundIsHeld
  <2>5. IsMachineList(K8sMachines(Found(grid[n], dname)))
    BY <2>4, MachinesAreListed
  <2>6. DOMAIN cluster' = Nodes /\ \A k \in Nodes : IsMachineList(cluster'[k])
    <3>1. DOMAIN cluster = Nodes /\ \A k \in Nodes : IsMachineList(cluster[k])
      BY DEF LoaderInv, LoaderType
    <3>2. cluster'[n] = K8sMachines(Found(grid[n], dname))
      BY <1>3, <3>1
    <3>3. \A k \in Nodes : k # n => cluster'[k] = cluster[k]
      BY <1>3, <3>1
    <3>4. DOMAIN cluster' = Nodes
      BY <1>3, <3>1
    <3> QED
      BY <2>5, <3>1, <3>2, <3>3, <3>4
  <2>7. LoaderType'
    BY <1>1, <1>3, <2>6 DEF LoaderInv, LoaderType
  <2>8. ~Loaded'
    BY <1>1, <1>3 DEF Loaded
  <2>9. /\ CallStoresNothing' /\ AnswersAreHeld' /\ WantedIsRight' /\ EndpointIsAccess'
        /\ FailedLoadKeepsNetworks'
    BY <1>1, <1>2, <1>3 DEF LoaderInv, CallStoresNothing, AnswersAreHeld, WantedIsRight,
                            EndpointIsAccess, FailedLoadKeepsNetworks
  <2> QED
    BY <2>7, <2>8, <2>9, NotLoaded DEF LoaderInv
<1>4. CASE Error /\ cluster' = NoCluster
  BY <1>1, <1>2, <1>4, NoMachines, ErrorKeeps
<1> QED
  BY <1>3, <1>4 DEF FindK8sNode

(* The master of a cluster is one of its machines.                         *)
LEMMA MasterIsMachine ==
    ASSUME LoaderType, NEW m \in MasterNodes
    PROVE  MasterOf(m) \in Machines
<1> DEFINE masters == {i \in DOMAIN cluster[m] : cluster[m][i].master}
           i == CHOOSE i \in masters : \A k \in masters : k <= i
<1>1. IsMachineList(cluster[m])
  BY DEF LoaderType, MasterNodes
<1>2. PICK k \in Nat : DOMAIN cluster[m] \subseteq 1 .. k
  BY <1>1 DEF IsMachineList
<1>3. masters \subseteq 1 .. k /\ masters # {}
  BY <1>2 DEF MasterNodes
<1>4. PICK T : T = masters
  OBVIOUS
<1>5. \E x \in T : \A y \in T : y <= x
  BY <1>3, <1>4, LastPosition
<1>6. i \in masters
  BY <1>4, <1>5
<1>7. cluster[m][i] \in Machines
  BY <1>1, <1>6 DEF IsMachineList
<1> QED
  BY <1>7 DEF MasterOf

(* The cluster is assembled: the nodes of its machines will be scanned.    *)
LEMMA AssembleKeeps ==
    ASSUME LoaderInv, AssembleK8s
    PROVE  LoaderInv'
<1>1. /\ UNCHANGED <<keys, networks, grid, op, cluster, before>> /\ pc = "find"
  BY DEF AssembleK8s
<1>2. /\ networks = before /\ DOMAIN cluster = Nodes
      /\ \A n \in Nodes : IsMachineList(cluster[n])
  BY <1>1 DEF LoaderInv, CallStoresNothing, LoaderType
<1>3. ASSUME NEW m \in MasterNodes, StartScan(MasterOf(m).net, "network"),
             wanted' = {m} \union WorkerNodes
      PROVE  LoaderInv'
  <2>1. MasterOf(m) \in Machines
    BY MasterIsMachine DEF LoaderInv
  <2>2. PICK k \in NetNames : k = MasterOf(m).net
    BY <2>1 DEF Machines
  <2>3. StartScan(k, "network")
    BY <1>3, <2>2
  <2>4. wanted' \subseteq Nodes
    BY <1>3 DEF MasterNodes, WorkerNodes
  <2>5. MasterNodes' = MasterNodes /\ WorkerNodes' = WorkerNodes
    BY <1>1 DEF MasterNodes, WorkerNodes
  <2>6. \E x \in MasterNodes' : wanted' = {x} \union WorkerNodes'
    BY <1>3, <2>5
  <2>7. op' = "network" => wanted' = keys'
    BY <1>1 DEF LoaderInv, WantedIsRight
  <2>8. WantedIsRight'
    BY <1>3, <2>6, <2>7 DEF WantedIsRight, StartScan
  <2> QED
    BY <1>1, <1>2, <2>3, <2>4, <2>8, ScanStarts
<1>4. CASE Error /\ wanted' = {}
  BY <1>1, <1>2, <1>4, ErrorKeeps
<1> QED
  BY <1>3, <1>4 DEF AssembleK8s

-----------------------------------------------------------------------------
(* The scan.                                                               *)

LEMMA AbortKeeps ==
    ASSUME LoaderInv, pc = "scan", Abort,
           UNCHANGED <<keys, networks, grid, op, wanted, cluster, before>>
    PROVE  LoaderInv'
<1>1. /\ networks = before /\ DOMAIN cluster = Nodes /\ wanted \subseteq Nodes
      /\ \A n \in Nodes : IsMachineList(cluster[n])
  BY DEF LoaderInv, CallStoresNothing, LoaderType
<1>2. CASE op = "deployment" /\ StartScan(net, "network-light")
  <2>1. PICK m \in NetNames : m = net
    BY DEF LoaderInv, LoaderType
  <2>2. StartScan(m, "network-light")
    BY <1>2, <2>1
  <2>3. WantedIsRight'
    BY <1>2 DEF WantedIsRight, StartScan
  <2> QED
    BY <1>1, <2>2, <2>3, ScanStarts
<1>3. CASE Error
  BY <1>1, <1>3, ErrorKeeps
<1> QED
  BY <1>2, <1>3 DEF Abort

(* One node answered a scan: its answer is kept, or the load is given up.  *)
LEMMA ReadNodeKeeps ==
    ASSUME LoaderInv, NEW n \in Nodes, ReadNode(n)
    PROVE  LoaderInv'
<1>1. /\ UNCHANGED <<keys, networks, grid, op, wanted, cluster, before, quiet>>
      /\ pc = "scan" /\ n \in todo
  BY DEF ReadNode
<1>2. CASE Abort
  BY <1>1, <1>2, AbortKeeps
<1>3. CASE /\ todo' = todo \ {n}
           /\ answers' = [answers EXCEPT ![n] = grid[n]]
           /\ first' = IF first = NoNode /\ Matches(grid[n], net, type) # {}
                       THEN n ELSE first
           /\ endpoint' \in Asked(n, grid[n])
           /\ UNCHANGED <<pc, net, type, result>>
  <2>1. LoaderType'
    BY <1>1, <1>3 DEF LoaderInv, LoaderType, Asked
  <2>2. ~Loaded' /\ CallStoresNothing' /\ FailedLoadKeepsNetworks'
    BY <1>1, <1>3 DEF LoaderInv, Loaded, CallStoresNothing, FailedLoadKeepsNetworks
  <2>3. /\ answers'[n] = grid[n] /\ answers[n] = <<>>
        /\ \A k \in Nodes : k # n => answers'[k] = answers[k]
    BY <1>1, <1>3 DEF LoaderInv, LoaderType, AnswersAreHeld
  <2>4. AnswersAreHeld'
    BY <1>1, <1>3, <2>3 DEF LoaderInv, LoaderType, AnswersAreHeld
  <2>5. WantedIsRight'
    BY <1>1, <1>3 DEF LoaderInv, WantedIsRight, MasterNodes, WorkerNodes
  <2>6. EndpointIsAccess'
    <3>1. CASE /\ endpoint' = n
               /\ \E i \in Matches(grid[n], net, type) : Hit(grid[n][i], net, type).access = n
      BY <1>3, <2>3, <3>1 DEF EndpointIsAccess
    <3>2. CASE endpoint' = endpoint
      <4>1. Matches(<<>>, net, type) = {}
        BY DEF Matches
      <4>2. endpoint # NoNode =>
               /\ endpoint \in Nodes /\ endpoint # n
               /\ \E i \in Matches(answers[endpoint], net, type) :
                     Hit(answers[endpoint][i], net, type).access = endpoint
        BY <1>1, <2>3, <4>1 DEF LoaderInv, LoaderType, EndpointIsAccess
      <4>3. endpoint # NoNode => answers'[endpoint] = answers[endpoint]
        BY <2>3, <4>2
      <4> QED
        BY <1>3, <3>2, <4>2, <4>3 DEF EndpointIsAccess
    <3>3. CASE endpoint' = NoNode
      BY <3>3, <1>1 DEF EndpointIsAccess
    <3> QED
      BY <1>3, <3>1, <3>2, <3>3 DEF Asked
  <2> QED
    BY <1>1, <1>3, <2>1, <2>2, <2>4, <2>5, <2>6, NotLoaded DEF LoaderInv
<1> QED
  BY <1>2, <1>3 DEF ReadNode

(* What the merged maps hold for a node.                                   *)
LEMMA RangeOfNode ==
    ASSUME LoaderType, NEW n \in Nodes
    PROVE  /\ NodesIpRange[n] = IF Has(n)
                 THEN Hit(LastOf(answers[n], net, type), net, type).subnet ELSE NoSubnet
           /\ NodeDeploymentId[n] = IF Has(n) THEN LastOf(answers[n], net, type).cid ELSE NoId
           /\ Has(n) => /\ NodesIpRange[n] \in Subnets /\ NodeDeploymentId[n] \in Ids
                        /\ LastOf(answers[n], net, type) \in Catalog
                        /\ Hits(LastOf(answers[n], net, type), net, type) # {}
<1>1. PICK ds \in Seq(Catalog) : ds = answers[n]
  BY DEF LoaderType
<1>2. PICK m, t : m = net /\ t = type
  OBVIOUS
<1>3. Has(n) => /\ LastOf(ds, m, t).cid \in Ids
                /\ Hit(LastOf(ds, m, t), m, t).subnet \in Subnets
                /\ LastOf(ds, m, t) \in Catalog /\ Hits(LastOf(ds, m, t), m, t) # {}
  BY <1>1, <1>2, LastHasSubnet, LastIsHeld DEF Has
<1>4. /\ NodesIpRange[n] = IF Has(n)
            THEN Hit(LastOf(answers[n], net, type), net, type).subnet ELSE NoSubnet
      /\ NodeDeploymentId[n] = IF Has(n) THEN LastOf(answers[n], net, type).cid ELSE NoId
  BY DEF NodesIpRange, NodeDeploymentId
<1> QED
  BY <1>1, <1>2, <1>3, <1>4

(* The last answer is in: the network is merged and stored.                *)
LEMMA EndScanKeeps ==
    ASSUME LoaderInv, EndScan
    PROVE  LoaderInv'
<1>1. /\ UNCHANGED <<keys, grid, op, wanted, cluster, before, quiet>>
      /\ pc = "scan" /\ todo = {}
  BY DEF EndScan
<1>2. CASE Abort /\ networks' = networks
  BY <1>1, <1>2, AbortKeeps
<1> DEFINE loaded == [ok |-> TRUE,
                      ids |-> NodeDeploymentId,
                      peer |-> IF WantsAccess THEN FirstNet.access ELSE NoNode,
                      host |-> IF WantsAccess THEN endpoint ELSE NoNode,
                      ranges |-> [n \in Nodes |-> IF n \in wanted
                                    THEN NodesIpRange[n] ELSE NoSubnet]]
<1>3. CASE /\ ~NothingUsable
           /\ networks' = [networks EXCEPT ![net] = NodesIpRange]
           /\ pc' = "idle" /\ ScanUnchanged
           /\ result' = IF op = "k8s" /\ ~RangesKnown THEN Fresh ELSE loaded
  <2>1. /\ UNCHANGED <<net, type, todo, answers, first, endpoint>>
        /\ networks'[net] = NodesIpRange /\ pc' = "idle"
    BY <1>3 DEF ScanUnchanged, LoaderInv, LoaderType
  <2>2. LoaderType
    BY DEF LoaderInv
  <2>3. \A n \in Nodes : NodesIpRange[n] \in Subnets \union {NoSubnet}
    BY <2>2, RangeOfNode
  <2>4. LoaderType'
    <3>1. NodesIpRange \in [Nodes -> Subnets \union {NoSubnet}]
      BY <2>3 DEF NodesIpRange
    <3> HIDE DEF loaded
    <3> QED
      BY <1>1, <1>3, <2>1, <2>2, <3>1 DEF LoaderType
  <2>5. /\ CallStoresNothing' /\ AnswersAreHeld' /\ WantedIsRight' /\ EndpointIsAccess'
    BY <2>1 DEF CallStoresNothing, AnswersAreHeld, WantedIsRight, EndpointIsAccess
  <2>6. FailedLoadKeepsNetworks'
    BY <1>1, <1>3 DEF FailedLoadKeepsNetworks
  <2>7. LoadedAsHeld'
    <3> SUFFICES ASSUME quiet, NEW n \in Nodes
                 PROVE  NodesIpRange[n] =
                           IF n \notin keys \/ Matches(grid[n], net, type) = {} THEN NoSubnet
                           ELSE Hit(LastOf(grid[n], net, type), net, type).subnet
      BY <1>1, <2>1 DEF LoadedAsHeld
    <3>1. CASE n \in keys
      <4>1. answers[n] = grid[n]
        BY <1>1, <3>1 DEF LoaderInv, AnswersAreHeld
      <4> QED
        BY <2>2, <3>1, <4>1, RangeOfNode DEF Has
    <3>2. CASE n \notin keys
      <4>1. answers[n] = <<>>
        BY <1>1, <3>2 DEF LoaderInv, AnswersAreHeld
      <4>2. ~Has(n)
        BY <4>1 DEF Has, Matches
      <4> QED
        BY <2>2, <3>2, <4>2, RangeOfNode
    <3> QED
      BY <3>1, <3>2
  <2>8. IdMatchesSubnet'
    <3> SUFFICES ASSUME op = "network", NEW n \in Nodes
                 PROVE  /\ loaded.ids[n] = NoId <=> loaded.ranges[n] = NoSubnet
                        /\ loaded.ids[n] # NoId =>
                              \E d \in Catalog :
                                  /\ d.cid = loaded.ids[n] /\ Hits(d, net, type) # {}
                                  /\ Hit(d, net, type).subnet = loaded.ranges[n]
      BY <1>1, <1>3, <2>1 DEF IdMatchesSubnet
    <3>1. wanted = keys
      BY <1>1 DEF LoaderInv, WantedIsRight
    <3>2. Has(n) => n \in wanted
      <4>1. n \notin keys => answers[n] = <<>>
        BY <1>1 DEF LoaderInv, AnswersAreHeld
      <4> QED
        BY <3>1, <4>1 DEF Has, Matches
    <3>3. CASE Has(n)
      <4>1. /\ loaded.ids[n] = LastOf(answers[n], net, type).cid
            /\ loaded.ranges[n] = Hit(LastOf(answers[n], net, type), net, type).subnet
            /\ loaded.ids[n] \in Ids /\ loaded.ranges[n] \in Subnets
        BY <2>2, <3>2, <3>3, RangeOfNode
      <4>2. /\ LastOf(answers[n], net, type) \in Catalog
            /\ Hits(LastOf(answers[n], net, type), net, type) # {}
        BY <2>2, <3>3, RangeOfNode
      <4> QED
        BY <4>1, <4>2, LoaderAssumption
    <3>4. CASE ~Has(n)
      BY <2>2, <3>4, RangeOfNode
    <3> QED
      BY <3>3, <3>4
  <2>9. AccessIsOneNode'
    <3> SUFFICES ASSUME \A n \in Nodes : \A i \in Matches(answers[n], net, type) :
                           Hit(answers[n][i], net, type).access = FirstNet.access
                 PROVE  loaded.host = loaded.peer
      BY <1>3, <2>1 DEF AccessIsOneNode, Loaded, FirstNet, Fresh
    <3>1. CASE WantsAccess
      <4>1. endpoint \in Nodes
        BY <2>2, <3>1 DEF LoaderType, WantsAccess
      <4>2. \E i \in Matches(answers[endpoint], net, type) :
               Hit(answers[endpoint][i], net, type).access = endpoint
        BY <1>1, <3>1 DEF LoaderInv, EndpointIsAccess, WantsAccess
      <4>3. FirstNet.access = endpoint
        BY <4>1, <4>2
      <4> QED
        BY <3>1, <4>3
    <3>2. CASE ~WantsAccess
      BY <3>2
    <3> QED
      BY <3>1, <3>2
  <2>10. ClusterIsAddressed'
    <3> SUFFICES ASSUME op = "k8s", RangesKnown
                 PROVE  /\ \A n \in WorkerNodes : loaded.ranges[n] # NoSubnet
                        /\ \E n \in MasterNodes : loaded.ranges[n] # NoSubnet
      BY <1>1, <1>3, <2>1 DEF ClusterIsAddressed, Loaded, Fresh, MasterNodes, WorkerNodes
    <3>1. PICK m \in MasterNodes : wanted = {m} \union WorkerNodes
      BY <1>1 DEF LoaderInv, WantedIsRight
    <3>2. wanted \subseteq Nodes
      BY <2>2 DEF LoaderType
    <3>3. \A n \in wanted : loaded.ranges[n] # NoSubnet
      BY <3>2 DEF RangesKnown
    <3> HIDE DEF loaded
    <3> QED
      BY <3>1, <3>3
  <2> QED
    BY <2>4, <2>5, <2>6, <2>7, <2>8, <2>9, <2>10 DEF LoaderInv
<1> QED
  BY <1>2, <1>3 DEF EndScan

-----------------------------------------------------------------------------
(* No step of a load or of a node breaks what the loads rely on.           *)
LEMMA LoaderStep == LoaderInv /\ [LoaderNext]_loaderVars => LoaderInv'
<1> SUFFICES ASSUME LoaderInv, [LoaderNext]_loaderVars PROVE LoaderInv'
  OBVIOUS
<1>1. CASE UNCHANGED loaderVars
  <2>1. LoaderType' /\ CallStoresNothing' /\ AnswersAreHeld' /\ FailedLoadKeepsNetworks'
    BY <1>1 DEF loaderVars, callVars, LoaderInv, LoaderType, CallStoresNothing,
                AnswersAreHeld, FailedLoadKeepsNetworks
  <2>2. WantedIsRight' /\ EndpointIsAccess' /\ ClusterIsAddressed'
    BY <1>1 DEF loaderVars, callVars, LoaderInv, WantedIsRight, EndpointIsAccess,
                ClusterIsAddressed, Loaded, MasterNodes, WorkerNodes
  <2>3. LoadedAsHeld' /\ IdMatchesSubnet' /\ AccessIsOneNode'
    BY <1>1 DEF loaderVars, callVars, LoaderInv, LoadedAsHeld, IdMatchesSubnet,
                AccessIsOneNode, Loaded, FirstNet
  <2> QED
    BY <2>1, <2>2, <2>3 DEF LoaderInv
<1>2. CASE LoaderNext
  BY <1>2, StoreKeeps, RemoveKeeps, DeleteKeeps, LoadNetworkKeeps, LoadDeploymentKeeps,
     LoadK8sKeeps, FindK8sKeeps, ReadNodeKeeps, GridChangeKeeps, AssembleKeeps, EndScanKeeps
  DEF LoaderNext
<1> QED
  BY <1>1, <1>2

(* What the loads rely on holds at any moment.                             *)
LEMMA LoaderInvariant == LoaderSpec => []LoaderInv
BY LoaderStarts, LoaderStep, PTL DEF LoaderSpec

(* While the nodes stand still, load_network_from_grid leaves exactly what *)
(* they hold in NetworkState, whatever order they are asked in.            *)
THEOREM LoadsWhatIsHeld == LoaderSpec => []LoadedAsHeld
<1>1. LoaderInv => LoadedAsHeld
  BY DEF LoaderInv
<1> QED
  BY LoaderInvariant, <1>1, PTL

(* Contract and subnet of a node in a loaded network are of one deployment,*)
(* also when the nodes change during the load.                             *)
THEOREM IdsMatchSubnets == LoaderSpec => []IdMatchesSubnet
<1>1. LoaderInv => IdMatchesSubnet
  BY DEF LoaderInv
<1> QED
  BY LoaderInvariant, <1>1, PTL

(* A failed load_network_from_grid or load_deployment_from_grid leaves     *)
(* NetworkState as it was, its second attempt with light networks included.*)
THEOREM FailedLoadsStoreNothing == LoaderSpec => []FailedLoadKeepsNetworks
<1>1. LoaderInv => FailedLoadKeepsNetworks
  BY DEF LoaderInv
<1> QED
  BY LoaderInvariant, <1>1, PTL

(* Endpoint, port and key of a WireGuard configuration are those of one    *)
(* node, as long as the networks found agree on their public node.         *)
THEOREM AccessIsOfOneNode == LoaderSpec => []AccessIsOneNode
<1>1. LoaderInv => AccessIsOneNode
  BY DEF LoaderInv
<1> QED
  BY LoaderInvariant, <1>1, PTL

(* Every machine of a cluster load_k8s_from_grid returns has a subnet,     *)
(* although machines and networks are read at different times.             *)
THEOREM ClustersAreAddressed == LoaderSpec => []ClusterIsAddressed
<1>1. LoaderInv => ClusterIsAddressed
  BY DEF LoaderInv
<1> QED
  BY LoaderInvariant, <1>1, PTL
=============================================================================
