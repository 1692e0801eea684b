------------------------------ MODULE Requests ------------------------------
(***************************************************************************)
(* From a request to signed deployments and back (grid_client/types.rs,    *)
(* grid_client/deployment.rs and the building steps of grid_client/mod.rs):*)
(* validation, names and addresses left to the client, workloads, the      *)
(* challenge that is signed and whose hash the chain holds, and what is    *)
(* read back from the node.  Contracts, failures and waiting are the       *)
(* subject of DeployVm and Gateway.                                        *)
(***************************************************************************)
EXTENDS Naturals, Sequences, FiniteSets, SequencesExt, Ranks

CONSTANTS
    Senders,       \* concurrent deploy calls
    Requested,     \* requests they may be given
    Seconds,       \* readings of the clock
    Secrets        \* random bytes: keys and seeds

(* A text is a sequence of atoms; an address a text of its octets and its  *)
(* mask.                                                                   *)
None == <<"none">>         \* an Option that is not given
IsBlank(t) == \A i \in DOMAIN t : t[i] = " "

RequestFields == {"kind", "sized", "name", "flist", "entrypoint", "env", "volumes",
                  "mounts", "v4", "v6", "corex", "seed", "net", "fqdn", "backends", "via"}
NetworkFields == {"create", "name", "range", "subnet", "ip", "key"}
VolumeFields == {"name", "size", "mountpoint", "description"}

Text == Seq(STRING)
(* The comma is the one between the members of a JSON object, which the    *)
(* quotes and the escapes of serde_json keep out of every name.            *)
Comma == ","
JsonText == Seq(STRING \ {Comma})

ASSUME RequestsAssumption ==
    /\ Seconds \subseteq Nat /\ (\A s \in Seconds : ToString(s) # Comma)
    /\ IsFiniteSet(Senders) /\ Secrets \subseteq Text
    /\ \A r \in Requested :
          /\ DOMAIN r = RequestFields /\ DOMAIN r.net = NetworkFields
          /\ r.kind \in {"vm", "light", "name", "fqdn"}
          /\ {r.sized, r.v4, r.v6, r.corex, r.net.create} \subseteq BOOLEAN
          /\ r.name \in JsonText /\ r.net.name \in JsonText
          /\ r.flist \in Text /\ r.entrypoint \in Text /\ r.seed \in Text
          /\ r.net.range \in Text /\ r.net.subnet \in Text /\ r.net.ip \in Text
          /\ r.net.key \in Text /\ r.fqdn \in Text /\ r.backends \in Seq(Text)
          /\ DOMAIN r.env \subseteq Nat       \* keys, by their rank
          /\ IsFiniteSet(DOMAIN r.env) /\ \A k \in DOMAIN r.env : r.env[k] \in Text
          /\ r.volumes \in Seq([VolumeFields -> Text])
          /\ r.mounts \in Seq([{"name", "mountpoint"} -> Text])

VARIABLES
    request,       \* what each call deploys
    doing,         \* where it stands
    suffix,        \* the second at which it began on the node
    vmNet, vmIp,   \* the network and the address of its VM
    deployment,    \* what it is deploying
    chainHash,     \* history: the deployments whose hash it registered
    onNode,        \* the deployments its nodes were sent
    outcome

requestVars == <<request, doing, suffix, vmNet, vmIp, deployment, chainHash, onNode, outcome>>

NoDeployment == [contract |-> 0, metadata |-> <<>>, workloads |-> <<>>, signature |-> <<>>]
NoOutcome == [machine |-> 0, publicIp |-> 0, okay |-> {}]

RequestsInit ==
    /\ request \in [Senders -> Requested]
    /\ doing = [c \in Senders |-> "idle"]
    /\ suffix = [c \in Senders |-> 0]
    /\ vmNet = [c \in Senders |-> <<>>] /\ vmIp = [c \in Senders |-> <<>>]
    /\ deployment = [c \in Senders |-> NoDeployment]
    /\ chainHash = [c \in Senders |-> {}] /\ onNode = [c \in Senders |-> {}]
    /\ outcome = [c \in Senders |-> NoOutcome]

-----------------------------------------------------------------------------
IsGateway(r) == r.kind \in {"name", "fqdn"}

(* vm_ip_from_subnet: four octets and a mask, whatever the mask is.        *)
IsSubnet(s) == Len(s) = 5
VmIp(s) == <<s[1], s[2], s[3], "5">>

ValidNetwork(r) ==
    IF r.net.create
    THEN /\ r.kind = "light" => r.net.name = None \/ ~IsBlank(r.net.name)
         /\ r.kind = "vm" => r.net.range = None \/ Last(r.net.range) = "/16"
         /\ r.net.subnet = None \/ IsSubnet(r.net.subnet)
    ELSE ~IsBlank(r.net.name) /\ ~IsBlank(r.net.ip)

ValidVolumes(r) ==
    \A i \in DOMAIN r.volumes :
        /\ ~IsBlank(r.volumes[i].name) /\ ~IsBlank(r.volumes[i].mountpoint)
        /\ r.volumes[i].size # <<"0">>

ValidGateway(r) ==
    /\ ~IsBlank(r.name) /\ r.backends # <<>>
    /\ r.kind = "fqdn" => ~IsBlank(r.fqdn)

(* validate_vm_light_request, validate_vm_request and the two for gateways.*)
(* sized: the amounts, or the ids of the node, are not zero.               *)
Valid(r) ==
    /\ r.sized
    /\ IF IsGateway(r) THEN ValidGateway(r)
       ELSE ~IsBlank(r.flist) /\ ValidVolumes(r) /\ ValidNetwork(r)
    /\ r.kind = "light" => ~IsBlank(r.entrypoint)

OrElse(option, default) == IF option = None THEN default ELSE option

(* `format!("rust_vm_{suffix}")` and its like.                             *)
Named(what, second) == <<what, ToString(second)>>
VmName(c) ==
    OrElse(request[c].name,
           Named(IF request[c].kind = "vm" THEN "rust_vm_" ELSE "rust_vm_light_", suffix[c]))
NetworkName(c) ==
    OrElse(request[c].net.name,
           Named(IF request[c].kind = "vm" THEN "rust_net_" ELSE "rust_net_light_", suffix[c]))

Octet(second) == ToString(10 + (second % 180))
RangeOf(c) ==
    OrElse(request[c].net.range, <<"10", Octet(suffix[c]), "0", "0", "/16">>)
SubnetOf(c) ==
    OrElse(request[c].net.subnet, <<"10", Octet(suffix[c]), "2", "0", "/24">>)

-----------------------------------------------------------------------------
(* A workload has its data in the order of workload_challenge: what comes  *)
(* before the environment, the environment, and what the challenge leaves  *)
(* out.  Amounts, flags and gpus that would only be more atoms of the data *)
(* are not told apart.                                                     *)
Workload(type, name, description, data, env, aside) ==
    [type |-> type, name |-> name, description |-> description, data |-> data,
     env |-> env, aside |-> aside]
NoEnv == <<>>

NetworkWorkload(c, key) ==
    Workload(IF request[c].kind = "vm" THEN "network" ELSE "network-light",
             NetworkName(c), <<"network">>,
             (IF request[c].kind = "vm" THEN RangeOf(c) ELSE <<"<nil>">>)
                \o SubnetOf(c) \o key, NoEnv, <<>>)

VolumeWorkload(v) == Workload("volume", v.name, v.description, v.size, NoEnv, <<>>)

(* `format!("{name}ip")`                                                   *)
PublicIpName(name) == Append(name, "ip")

MountsText(ms) == FlattenSeq([i \in DOMAIN ms |-> ms[i].name \o ms[i].mountpoint])

IpWorkloads(c) ==
    IF request[c].kind = "vm" /\ (request[c].v4 \/ request[c].v6)
    THEN <<Workload("ip", PublicIpName(VmName(c)), <<>>,
                    <<ToString(request[c].v4), ToString(request[c].v6)>>, NoEnv, <<>>)>>
    ELSE <<>>
VolumeWorkloads(c) ==
    [i \in DOMAIN request[c].volumes |-> VolumeWorkload(request[c].volumes[i])]

MachineWorkload(c, seed) ==
    Workload(IF request[c].kind = "vm" THEN "zmachine" ELSE "zmachine-light",
             VmName(c), <<>>,
             request[c].flist
             \o (IF IpWorkloads(c) = <<>> THEN <<>> ELSE PublicIpName(VmName(c)))
             \o vmNet[c] \o vmIp[c] \o seed
             \o MountsText(request[c].volumes)
             \o (IF request[c].kind = "light" THEN MountsText(request[c].mounts) ELSE <<>>)
             \o request[c].entrypoint,
             request[c].env, IF request[c].corex THEN <<"corex">> ELSE <<>>)

(* build_vm and build_vm_light                                             *)
VmWorkloads(c, seed) ==
    IpWorkloads(c) \o VolumeWorkloads(c) \o <<MachineWorkload(c, seed)>>

(* build_gateway_name_proxy and build_gateway_fqdn_proxy                   *)
GatewayWorkload(c) ==
    Workload(request[c].kind, request[c].name, <<"gateway">>,
             (IF request[c].kind = "name" THEN request[c].name ELSE request[c].fqdn)
                \o FlattenSeq(request[c].backends), NoEnv, request[c].via)

(* deployment_metadata is a JSON object.                                   *)
Metadata(kind, name, project) == <<"{", kind, Comma>> \o name \o <<Comma>> \o project \o <<"}">>

-----------------------------------------------------------------------------
(* Mutant of SortedKeys: in the order in which the map is walked.          *)
SortedKeysAsWalked(walk) == walk

(* `keys.sort()` of a HashMap's keys, which are walked in any order.       *)
SortedKeys(walk) == [n \in DOMAIN walk |-> NthOf(Range(walk), n)]

EnvText(env, walk) ==
    FlattenSeq([i \in DOMAIN walk |->
        <<ToString(SortedKeys(walk)[i]), "=">> \o env[SortedKeys(walk)[i]]])

(* workload_challenge, which opens with the workload's version.            *)
WorkloadChallenge(w, walk) ==
    <<"0">> \o w.name \o <<w.type>> \o w.description \o w.data \o EnvText(w.env, walk)

(* Mutant of Challenge: the metadata are left out.                         *)
ChallengeBare(d, walk) ==
    <<"0", "twin", "0">>
    \o FlattenSeq([i \in DOMAIN d.workloads |->
          WorkloadChallenge(d.workloads[i],
                            IF DOMAIN d.workloads[i].env = {} THEN <<>> ELSE walk)])

(* deployment_hash_bytes: the contract id and the signatures are not part  *)
(* of it.  Only one workload of a deployment has an environment.  The md5  *)
(* of two texts is taken to differ when they do.                           *)
Challenge(d, walk) ==
    <<"0", "twin">> \o d.metadata \o <<"0">>
    \o FlattenSeq([i \in DOMAIN d.workloads |->
          WorkloadChallenge(d.workloads[i],
                            IF DOMAIN d.workloads[i].env = {} THEN <<>> ELSE walk)])

(* The orders in which the HashMap of a deployment may be walked.          *)
Walks(d) == SetToSeqs(UNION {DOMAIN d.workloads[i].env : i \in DOMAIN d.workloads})

-----------------------------------------------------------------------------
(* The call reads the clock as it begins on a node.                        *)
Begin(c) ==
    /\ doing[c] = "idle"
    /\ \E s \in Seconds :
          /\ suffix' = [suffix EXCEPT ![c] = s]
          /\ doing' = [doing EXCEPT ![c] =
                IF ~Valid(request[c]) THEN "refused"
                ELSE IF IsGateway(request[c]) THEN "build_gateway"
                ELSE IF request[c].net.create THEN "build_network" ELSE "build_vm"]
    /\ IF request[c].net.create
       THEN UNCHANGED <<vmNet, vmIp>>
       ELSE /\ vmNet' = [vmNet EXCEPT ![c] = request[c].net.name]
            /\ vmIp' = [vmIp EXCEPT ![c] = request[c].net.ip]
    /\ UNCHANGED <<request, deployment, chainHash, onNode, outcome>>

(* sign_deployment and deployment_hash_hex each walk the map; the hash     *)
(* goes to the chain with submit_create_node_contract.                     *)
Register(c, metadata, workloads, next) ==
    LET d == [NoDeployment EXCEPT !.metadata = metadata, !.workloads = workloads]
    IN \E w1, w2 \in Walks(d) :
          /\ deployment' = [deployment EXCEPT ![c] = [d EXCEPT !.signature = Challenge(d, w1)]]
          /\ chainHash' = [chainHash EXCEPT ![c] = @ \union
                {[kind |-> metadata[2], name |-> workloads[Len(workloads)].name,
                  hash |-> Challenge(deployment'[c], w2)]}]
          /\ doing' = [doing EXCEPT ![c] = next]

(* Mutant of BuildNetwork: the VM gets its address from the range.         *)
BuildNetworkInRange(c) ==
    /\ doing[c] = "build_network"
    /\ vmNet' = [vmNet EXCEPT ![c] = NetworkName(c)]
    /\ vmIp' = [vmIp EXCEPT ![c] = VmIp(RangeOf(c))]
    /\ \E random \in Secrets :
          LET w == NetworkWorkload(c, OrElse(request[c].net.key, random))
          IN Register(c, Metadata(w.type, w.name, <<"Network">>), <<w>>, "network")
    /\ UNCHANGED <<request, suffix, onNode, outcome>>

BuildNetwork(c) ==
    /\ doing[c] = "build_network"
    /\ vmNet' = [vmNet EXCEPT ![c] = NetworkName(c)]
    /\ vmIp' = [vmIp EXCEPT ![c] = VmIp(SubnetOf(c))]
    /\ \E random \in Secrets :
          LET w == NetworkWorkload(c, OrElse(request[c].net.key, random))
          IN Register(c, Metadata(w.type, w.name, <<"Network">>), <<w>>, "network")
    /\ UNCHANGED <<request, suffix, onNode, outcome>>

BuildVm(c) ==
    /\ doing[c] = "build_vm"
    /\ \E random \in Secrets :
          LET seed == OrElse(request[c].seed,
                             IF request[c].kind = "light" THEN random ELSE <<>>)
          IN Register(c, Metadata(request[c].kind, VmName(c), VmName(c)),
                      VmWorkloads(c, seed), "vm")
    /\ UNCHANGED <<request, suffix, vmNet, vmIp, onNode, outcome>>

BuildGateway(c) ==
    /\ doing[c] = "build_gateway"
    /\ Register(c, Metadata(request[c].kind, request[c].name, request[c].name),
                <<GatewayWorkload(c)>>, "gateway")
    /\ UNCHANGED <<request, suffix, vmNet, vmIp, onNode, outcome>>

(* The contract is there: its id goes into what the node is sent.          *)
SendDeployment(c) ==
    /\ doing[c] \in {"network", "vm", "gateway"}
    /\ onNode' = [onNode EXCEPT ![c] = @ \union {[deployment[c] EXCEPT !.contract = 1]}]
    /\ doing' = [doing EXCEPT ![c] = IF @ = "network" THEN "build_vm" ELSE "sent"]
    /\ UNCHANGED <<request, suffix, vmNet, vmIp, deployment, chainHash, outcome>>

(* `find(|w| w.name == name)` in a node's answer, which lists workloads of *)
(* ws in an order of its own; 0 if there is none.                          *)
FirstOf(ws, answer, name) ==
    LET S == {k \in DOMAIN answer : ws[answer[k]].name = name}
    IN IF S = {} THEN 0 ELSE answer[CHOOSE k \in S : \A j \in S : k <= j]

(* resolve_public_ips_from_workloads; okay: results that is_okay holds for.*)
(* Only the result of an "ip" workload, or of a machine, has an address.   *)
PublicIpOf(ws, answer, okay, name) ==
    LET i == FirstOf(ws, answer, PublicIpName(name))
    IN IF i \in okay /\ ws[i].type \in {"ip", "zmachine"} THEN i ELSE 0

(* What an answer is read as: the workloads whose results are reported,    *)
(* and those it calls okay.  deploy_gateway_fqdn reads nothing back.       *)
Reading(c, ws, answer, okay) ==
    [machine |-> IF request[c].kind = "fqdn" THEN 0
                 ELSE FirstOf(ws, answer, ws[Len(ws)].name),
     publicIp |-> IF request[c].kind = "vm"
                  THEN PublicIpOf(ws, answer, okay, VmName(c)) ELSE 0,
     okay |-> okay]

(* The workloads are read back, or one of them is in error; a VM that the  *)
(* answer lacks is an error, a gateway has no fqdn then.                   *)
ReadBack(c) ==
    /\ doing[c] = "sent"
    /\ LET ws == deployment[c].workloads
       IN \/ doing' = [doing EXCEPT ![c] = "failed"] /\ UNCHANGED outcome
          \/ \E answer \in SetToAllKPermutations(DOMAIN ws) :
             \E okay \in SUBSET Range(answer) :
                /\ Reading(c, ws, answer, okay).machine = 0 => IsGateway(request[c])
                /\ outcome' = [outcome EXCEPT ![c] = Reading(c, ws, answer, okay)]
                /\ doing' = [doing EXCEPT ![c] = "done"]
    /\ UNCHANGED <<request, suffix, vmNet, vmIp, deployment, chainHash, onNode>>

RequestsNext ==
    \E c \in Senders : \/ Begin(c) \/ BuildNetwork(c) \/ BuildVm(c) \/ BuildGateway(c)
                       \/ SendDeployment(c) \/ ReadBack(c)

RequestsSpec == RequestsInit /\ [][RequestsNext]_requestVars

-----------------------------------------------------------------------------
(* A node finds the signature, and the chain the hash, to be those of the  *)
(* deployment it was sent: whatever order the environment is walked in at  *)
(* each of the three places, and with the contract id filled in since.     *)
HashSurvives ==
    \A c \in Senders : \A d \in onNode[c] : \A walk \in Walks(d) :
        /\ d.signature = Challenge(d, walk)
        /\ \E h \in chainHash[c] : h.hash = Challenge(d, walk)

(* wait_for_contract finds a contract by its hash alone, so one call must  *)
(* not register the hash of another: deployments of different kinds or     *)
(* names never share one, although the challenge strings its fields        *)
(* together without a mark between them.                                   *)
HashTellsApart ==
    \A c, e \in Senders : \A h \in chainHash[c], k \in chainHash[e] :
        h.hash = k.hash => h.kind = k.kind /\ h.name = k.name

(* The range and the subnet in the network workload w that c sent.         *)
RangeLength(c) == IF request[c].kind = "vm" THEN Len(RangeOf(c)) ELSE 1
SentRange(c, w) == SubSeq(w.data, 1, RangeLength(c))
SentSubnet(c, w) == SubSeq(w.data, RangeLength(c) + 1, RangeLength(c) + 5)

(* An address, or a subnet, is inside a subnet with a mask of whole octets.*)
Octets(mask) == IF mask = "/8" THEN 1 ELSE IF mask = "/16" THEN 2 ELSE 3
Inside(a, s) == SubSeq(a, 1, Octets(s[5])) = SubSeq(s, 1, Octets(s[5]))

(* What a call reports is its own, in whatever order the node answers.  A  *)
(* public address is that of an "ip" workload, and the address of this     *)
(* VM's is reported when it is okay, unless a volume is called like it     *)
(* (then there may be none); the machine is the VM, or the gateway, unless *)
(* a volume is called like it (then it may be the volume); and a VM in a   *)
(* network of its own has an address of the subnet that this network was   *)
(* sent with, if the mask is of whole octets: a subnet inside the range,   *)
(* unless the caller chose just one of them.  (`.5` is outside a finer     *)
(* subnet like 10.1.2.128/25, which vm_ip_from_subnet takes.)              *)
OutcomeIsOwn ==
    \A c \in Senders : doing[c] = "done" =>
        LET ws == deployment[c].workloads
            r == request[c]
            Unclaimed(name) == \A i \in DOMAIN r.volumes : r.volumes[i].name # name
        IN /\ outcome[c].publicIp # 0 => ws[outcome[c].publicIp].type = "ip"
           /\ \A i \in outcome[c].okay :
                 ws[i].type = "ip" /\ Unclaimed(ws[i].name) => outcome[c].publicIp = i
           /\ Unclaimed(ws[Len(ws)].name) =>
                 \/ outcome[c].machine = Len(ws)
                 \/ outcome[c].machine = 0 /\ IsGateway(r)
           /\ ~IsGateway(r) /\ r.net.create =>
                 \E d \in onNode[c] :
                    LET w == d.workloads[1]
                    IN /\ w.type \in {"network", "network-light"} /\ w.name = vmNet[c]
                       /\ SentSubnet(c, w)[5] \in {"/8", "/16", "/24"} =>
                             Inside(vmIp[c], SentSubnet(c, w))
                       /\ r.kind = "vm" /\ r.net.range = None /\ r.net.subnet = None =>
                             Inside(SentSubnet(c, w), SentRange(c, w))
=============================================================================
