----------------------------- MODULE Workloads ------------------------------
(***************************************************************************)
(* workloads::Deployment (workloads.rs): a declared deployment becomes a   *)
(* list of zos workloads, a node runs them, the deployment is rebuilt from *)
(* what the node holds, and match_deployments brings it into the order of  *)
(* the declared one.                                                       *)
(***************************************************************************)
EXTENDS Naturals, Sequences, FiniteSets, SequencesExt, Ranks

CONSTANTS
    Declared,      \* declared deployments
    MaxEdits       \* bound: how often the user declares anew

(* The lists of a deployment, in the order zos_deployment chains them.     *)
ListNames == <<"disks", "volumes", "zdbs", "vms", "lights", "qsfs", "gateways">>
Lists == Range(ListNames)

(* A name is a sequence of parts, so that format!("{name}ip") can be told  *)
(* from it and still be somebody's name.  publicIp: of a VM; secret: the   *)
(* password of a zdb.                                                      *)
IpName(name) == Append(name, "ip")

ItemsOf(l) == [name : Seq(STRING), publicIp : IF l = "vms" THEN BOOLEAN ELSE {FALSE},
               secret : BOOLEAN]

ASSUME WorkloadsAssumption ==
    /\ MaxEdits \in Nat
    /\ \A d \in Declared :
          /\ d = [l \in Lists |-> d[l]]
          /\ \A l \in Lists : d[l] \in Seq(ItemsOf(l))

VARIABLES
    declared,      \* the user's deployment
    held,          \* workloads on the node
    loaded,        \* what was rebuilt from them
    stage, edits,
    intended       \* history: the declaration that is to be matched

workloadVars == <<declared, held, loaded, stage, edits, intended>>

NothingDeclared == [l \in Lists |-> <<>>]

WorkloadsInit ==
    /\ declared \in Declared /\ held = <<>> /\ loaded = NothingDeclared
    /\ stage = "declared" /\ edits = 0 /\ intended = NothingDeclared

-----------------------------------------------------------------------------
(* zos_workload of an item: a VM with a public IP is two workloads.        *)
ZosWorkload(l, it) ==
    (IF l = "vms" /\ it.publicIp
     THEN <<[type |-> "ip", name |-> IpName(it.name), secret |-> FALSE]>> ELSE <<>>)
    \o <<[type |-> l, name |-> it.name, secret |-> it.secret]>>

ZosDeployment(d) ==
    FlattenSeq([k \in 1 .. Len(ListNames) |->
        FlattenSeq([i \in DOMAIN d[ListNames[k]] |->
            ZosWorkload(ListNames[k], d[ListNames[k]][i])])])

(* `find(|w| w.name == name)`: the first of that name, whatever its type.  *)
FirstNamed(ws, name) ==
    LET S == {i \in DOMAIN ws : ws[i].name = name}
    IN IF S = {} THEN {} ELSE {ws[CHOOSE i \in S : \A k \in S : i <= k]}

(* resolve_public_ips: the workload must be okay and its result must have  *)
(* an "ip", which that of a machine has too.                               *)
HasPublicIp(ws, name) ==
    \E w \in FirstNamed(ws, IpName(name)) :
        w.okay /\ w.type \in {"ip", "vms", "lights"}

(* new_*_from_workload: passwords are not read back.                       *)
ItemOf(ws, w) == [name |-> w.name,
                  publicIp |-> w.type = "vms" /\ HasPublicIp(ws, w.name),
                  secret |-> FALSE]

(* new_deployment_from_zos_deployment: gateways are passed over.           *)
Rebuilt(ws) ==
    [l \in Lists |->
        IF l = "gateways" THEN <<>>
        ELSE LET own == EntriesAt(ws, {i \in DOMAIN ws : ws[i].type = l})
             IN [i \in DOMAIN own |-> ItemOf(ws, own[i])]]

-----------------------------------------------------------------------------
(* match_deployments keeps one map from names to ranks: lists later in     *)
(* this order overwrite the ranks of earlier ones.                         *)
RankOrder == <<"disks", "volumes", "qsfs", "zdbs", "vms", "lights">>
Base(d, l) ==
    CASE l = "disks" -> 0
      [] l = "volumes" -> Len(d.disks)
      [] l = "qsfs" -> Len(d.disks) + Len(d.volumes)
      [] l = "zdbs" -> Len(d.disks) + Len(d.volumes) + Len(d.qsfs)
      [] l = "vms" -> 1000
      [] l = "lights" -> 2000

(* Where deployment d has that name; the last of them counts.              *)
Places(d, name) ==
    UNION {{<<k, i>> : i \in {j \in DOMAIN d[RankOrder[k]] :
                                 d[RankOrder[k]][j].name = name}} : k \in 1 .. 6}

Rank(d, name) ==
    IF Places(d, name) = {} THEN 10000
    ELSE LET p == CHOOSE x \in Places(d, name) : \A y \in Places(d, name) :
                     y[1] < x[1] \/ (y[1] = x[1] /\ y[2] <= x[2])
         IN Base(d, RankOrder[p[1]]) + p[2] - 1

SortedLike(d, items) ==
    SortedByKey(items, [k \in DOMAIN items |-> Rank(d, items[k].name)])

(* Mutant of Matched: the lists are taken over as they were loaded.        *)
MatchedUnsorted(d, e) ==
    [l \in Lists |-> IF l = "gateways" THEN d[l] ELSE e[l]]

Matched(d, e) ==
    [l \in Lists |-> IF l = "gateways" THEN d[l] ELSE SortedLike(d, e[l])]

-----------------------------------------------------------------------------
(* The node runs the workloads, and each comes out okay or not.            *)
DeployDeclared ==
    /\ stage = "declared"
    /\ \E ok \in [DOMAIN ZosDeployment(declared) -> BOOLEAN] :
          held' = [i \in DOMAIN ok |->
                      LET w == ZosDeployment(declared)[i]
                      IN [type |-> w.type, name |-> w.name, secret |-> w.secret,
                          okay |-> ok[i]]]
    /\ stage' = "deployed"
    /\ UNCHANGED <<declared, loaded, edits, intended>>

Edit(d) ==
    /\ stage = "deployed" /\ edits < MaxEdits
    /\ declared' = d /\ edits' = edits + 1
    /\ UNCHANGED <<held, loaded, stage, intended>>

LoadHeld ==
    /\ stage = "deployed"
    /\ loaded' = Rebuilt(held) /\ stage' = "loaded"
    /\ UNCHANGED <<declared, held, edits, intended>>

MatchDeployments ==
    /\ stage = "loaded"
    /\ intended' = declared
    /\ declared' = Matched(declared, loaded) /\ stage' = "matched"
    /\ UNCHANGED <<held, loaded, edits>>

(* nullify leaves the gateways.                                            *)
Nullify ==
    /\ stage = "matched"
    /\ declared' = [NothingDeclared EXCEPT !.gateways = declared.gateways]
    /\ stage' = "null"
    /\ UNCHANGED <<held, loaded, edits, intended>>

WorkloadsNext ==
    \/ DeployDeclared \/ LoadHeld \/ MatchDeployments \/ Nullify
    \/ \E d \in Declared : Edit(d)

WorkloadsSpec == WorkloadsInit /\ [][WorkloadsNext]_workloadVars

-----------------------------------------------------------------------------
NamesOf(s) == [i \in DOMAIN s |-> s[i].name]
NameSet(d, l) == Range(NamesOf(d[l]))

(* Those of list l of d that are among names, in their order.              *)
NamesAmong(d, l, names) ==
    EntriesAt(NamesOf(d[l]), {i \in DOMAIN d[l] : d[l][i].name \in names})

(* No two workloads of d have one name, also not by way of a public IP:    *)
(* nothing in the code asks for this.                                      *)
Clear(d) ==
    /\ \A l \in Lists : IsInjective(NamesOf(d[l]))
    /\ \A l, m \in Lists : l # m => NameSet(d, l) \intersect NameSet(d, m) = {}
    /\ \A l \in Lists : \A name \in NameSet(d, "vms") : IpName(name) \notin NameSet(d, l)

(* No name means one thing in d and another in e.                          *)
Compatible(d, e) ==
    \A l, m \in Lists : l # m => NameSet(d, l) \intersect NameSet(e, m) = {}

(* Every declared place has a rank below that of a name that is nowhere.   *)
RanksFit(d) == \A l \in Range(RankOrder) : Base(d, l) + Len(d[l]) <= 10000

(* The workloads the node was sent.                                        *)
PlainHeld ==
    [i \in DOMAIN held |-> [type |-> held[i].type, name |-> held[i].name,
                            secret |-> held[i].secret]]

SameItems(d, e) == \A l \in Lists : Range(d[l]) = Range(e[l])

(* When names are told apart (Clear, Compatible) and ranks are too         *)
(* (RanksFit: match_deployments ranks an unknown name 10000), then         *)
(* after load and match_deployments a deployment has what the node holds,  *)
(* what was declared in the declared order and the rest behind it.  When   *)
(* all of it is okay and nothing is declared that cannot be read back      *)
(* (gateways are kept as they are), it is the declared one again, public   *)
(* IPs included, so deploying it once more changes nothing on the node.    *)
MatchRestores ==
    /\ stage = "matched" /\ Clear(intended) /\ Clear(loaded)
    /\ Compatible(intended, loaded) /\ RanksFit(intended)
    =>  /\ \A l \in Lists \ {"gateways"} :
              NamesOf(declared[l]) =
                 NamesAmong(intended, l, NameSet(loaded, l))
                 \o NamesAmong(loaded, l, NameSet(loaded, l) \ NameSet(intended, l))
        /\ /\ \A i \in DOMAIN held : held[i].okay
           /\ \A l \in Lists : \A i \in DOMAIN intended[l] : ~intended[l][i].secret
           /\ \E d \in Declared :
                 SameItems(d, intended) /\ ZosDeployment(d) = PlainHeld
           => declared = intended
=============================================================================
