------------------------------ MODULE MCClient ------------------------------
(* The client's sequential parts for TLC, one of them at work at a time.   *)
EXTENDS Calculator, ClientConfig, Placement, Workloads, Requests

CONSTANTS k1, k2, rent, name, p1, p2, h1, h2, s1, s2

VARIABLE part      \* the part at work; the others stay as they are

-----------------------------------------------------------------------------
MCKindOf == [k \in {k1, k2, rent, name} |->
                IF k = rent THEN "rent" ELSE IF k = name THEN "name" ELSE "node"]

Least == CHOOSE u \in Usages : \A v \in Usages : NoMore(u, v) \/ ~NoMore(v, u)
PricesIdle == little = Least /\ lots = Least /\ poor = 0 /\ rich = 0

OverdueIdle ==
    /\ account = [k \in Owners |-> [state |-> "live", overdraft |-> 0, unbilled |-> 0,
                                    ips |-> FALSE, period |-> 1]]
    /\ nodeContracts = {k1, k2} /\ bills = 0 /\ calls = <<>> /\ overdue = -1 /\ answered = {}

-----------------------------------------------------------------------------
Url(host, slashes) == [host |-> host, slashes |-> slashes]
MCUrls == {Url("", 0), Url("", 1), Url("a", 1), Url("b", 0), Url("x", 0), Url("y", 2),
           Url("z", 0)}
MCUrlLists == {<<>>, <<Url("", 1), Url("b", 0), Url("a", 1)>>}
MCPresets == [n \in {"dev", "main"} |-> [e \in Endpoints |->
                IF n = "dev" THEN <<Url("x", 0)>> ELSE <<Url("y", 2), Url("z", 0)>>]]
MCSpellings == [s \in {"dev", "Mainnet", "moon"} |->
                  IF s = "dev" THEN "dev" ELSE IF s = "Mainnet" THEN "main" ELSE NoPreset]

-----------------------------------------------------------------------------
Want(light, v4, wg) ==
    [light |-> light, amount |-> 1, v4 |-> v4, v6 |-> FALSE, ownPort |-> wg]
MCWants == {Want(FALSE, FALSE, 0), Want(TRUE, FALSE, 0), Want(FALSE, TRUE, 0),
            Want(FALSE, FALSE, 1)}
NodeOf(h, total, used) ==
    [id |-> h, up |-> TRUE, features |-> Features, total |-> total, used |-> used,
     freeIps |-> 1, v4 |-> TRUE, v6 |-> TRUE]
MCListings ==
    {<<NodeOf(h1, 2, 1), NodeOf(h2, 2, 0)>>, <<NodeOf(h1, 1, 2), NodeOf(h2, 2, 0)>>,
     <<[NodeOf(h1, 2, 0) EXCEPT !.freeIps = 0], NodeOf(h2, 2, 0)>>,
     <<[NodeOf(h1, 2, 0) EXCEPT !.up = FALSE]>>, <<>>}

PlacementIdle ==
    /\ want = [c \in Placed |-> Want(FALSE, FALSE, 0)] /\ listing = <<>>
    /\ candidates = [c \in Placed |-> {}] /\ at = [c \in Placed |-> "idle"]
    /\ port = [c \in Placed |-> 0] /\ inUse = [h \in Hosts |-> {}] /\ overlaps = {}

-----------------------------------------------------------------------------
Item(n, ip, secret) == [name |-> n, publicIp |-> ip, secret |-> secret]
Plain(n) == Item(n, FALSE, FALSE)
Vms == [NothingDeclared EXCEPT !.disks = <<Plain(<<"d">>), Plain(<<"e">>)>>,
                               !.vms = <<Item(<<"a">>, TRUE, FALSE), Plain(<<"b">>)>>]
MCDeclared ==
    {Vms,
     [Vms EXCEPT !.disks = Reverse(Vms.disks), !.vms = Reverse(Vms.vms)],
     [Vms EXCEPT !.vms = <<Item(<<"c">>, TRUE, FALSE)>> \o Reverse(Vms.vms)],
     [Vms EXCEPT !.vms[2].name = <<"a", "ip">>],
     [Vms EXCEPT !.zdbs = <<Item(<<"z">>, FALSE, TRUE)>>],
     [Vms EXCEPT !.disks = <<>>, !.qsfs = <<Plain(<<"q">>), Plain(<<"p">>)>>,
                 !.gateways = <<Plain(<<"g">>)>>],
     [NothingDeclared EXCEPT !.volumes = <<Plain(<<"v">>), Plain(<<"u">>)>>,
                             !.lights = <<Plain(<<"l">>), Plain(<<"v">>)>>],
     [NothingDeclared EXCEPT !.volumes = <<Plain(<<"v">>), Plain(<<"u">>)>>,
                             !.lights = <<Plain(<<"l">>), Plain(<<"m">>)>>]}

WorkloadsIdle ==
    /\ declared = NothingDeclared /\ held = <<>> /\ loaded = NothingDeclared
    /\ stage = "declared" /\ edits = 0 /\ intended = NothingDeclared

-----------------------------------------------------------------------------
NewNet == [create |-> TRUE, name |-> None, range |-> None, subnet |-> None, ip |-> <<>>,
           key |-> None]
OldNet == [NewNet EXCEPT !.create = FALSE, !.name = <<"net">>, !.ip = <<"ip">>]
Vol(n, size) == [name |-> n, size |-> size, mountpoint |-> <<"/m">>, description |-> <<>>]

VmRequest ==
    [kind |-> "vm", sized |-> TRUE, name |-> <<"a">>, flist |-> <<"flist">>,
     entrypoint |-> <<"init">>, env |-> (1 :> <<"x">> @@ 2 :> <<"y">>), volumes |-> <<>>,
     mounts |-> <<>>, v4 |-> FALSE, v6 |-> FALSE, corex |-> FALSE, seed |-> None,
     net |-> OldNet, fqdn |-> <<>>, backends |-> <<>>, via |-> <<>>]
MCRequested ==
    {VmRequest, [VmRequest EXCEPT !.corex = TRUE],
     [VmRequest EXCEPT !.name = None, !.net = NewNet, !.volumes = <<Vol(<<"v">>, <<"5">>)>>],
     [VmRequest EXCEPT !.v4 = TRUE, !.volumes = <<Vol(<<"a", "ip">>, <<"5">>)>>],
     [VmRequest EXCEPT !.v6 = TRUE, !.volumes = <<Vol(<<"a">>, <<"5">>)>>],
     [VmRequest EXCEPT !.volumes = <<Vol(<<"v">>, <<"5">>)>>, !.name = <<"0", "a">>],
     [VmRequest EXCEPT !.volumes = <<Vol(<<"v">>, <<"5", "0">>)>>],
     [VmRequest EXCEPT !.volumes = <<Vol(<<" ">>, <<"5">>)>>],
     [VmRequest EXCEPT !.net = [NewNet EXCEPT !.range = <<"10", "3", "0", "0", "/16">>]],
     [VmRequest EXCEPT !.net = [NewNet EXCEPT !.range = <<"10", "3", "0", "0", "/24">>]],
     [VmRequest EXCEPT !.kind = "light", !.net = NewNet, !.name = None,
                       !.mounts = <<[name |-> <<"w">>, mountpoint |-> <<"/w">>]>>],
     [VmRequest EXCEPT !.kind = "light", !.net = [NewNet EXCEPT !.subnet = <<"10", "/24">>]],
     [VmRequest EXCEPT !.kind = "light",
                       !.net = [NewNet EXCEPT !.subnet = <<"10", "1", "2", "128", "/25">>]],
     [VmRequest EXCEPT !.net = [NewNet EXCEPT !.subnet = <<"10", "1", "2", "0", "/16">>]],
     [VmRequest EXCEPT !.kind = "light", !.entrypoint = <<" ">>],
     [VmRequest EXCEPT !.kind = "name", !.backends = <<<<"x">>, <<"y">>>>],
     [VmRequest EXCEPT !.kind = "fqdn", !.backends = <<<<"x", "y">>>>, !.fqdn = <<"a">>],
     [VmRequest EXCEPT !.kind = "name"]}
MCSecrets == {<<"secret">>, <<"random">>}

RequestsIdle ==
    /\ request = [c \in Senders |-> VmRequest]
    /\ doing = [c \in Senders |-> "idle"] /\ suffix = [c \in Senders |-> 0]
    /\ vmNet = [c \in Senders |-> <<>>] /\ vmIp = [c \in Senders |-> <<>>]
    /\ deployment = [c \in Senders |-> NoDeployment]
    /\ chainHash = [c \in Senders |-> {}] /\ onNode = [c \in Senders |-> {}]
    /\ outcome = [c \in Senders |-> NoOutcome]

-----------------------------------------------------------------------------
priceVars == <<little, lots, poor, rich>>

ClientInit ==
    /\ part \in {"prices", "overdue", "config", "placement", "workloads", "requests"}
    /\ IF part = "prices" THEN PricesInit ELSE PricesIdle
    /\ IF part = "overdue" THEN OverdueInit ELSE OverdueIdle
    /\ ConfigInit
    /\ IF part = "placement" THEN PlacementInit ELSE PlacementIdle
    /\ IF part = "workloads" THEN WorkloadsInit ELSE WorkloadsIdle
    /\ IF part = "requests" THEN RequestsInit ELSE RequestsIdle

ClientNext ==
    /\ UNCHANGED part
    /\ \/ part = "overdue" /\ OverdueNext
          /\ UNCHANGED <<configVars, placementVars, workloadVars, requestVars>>
       \/ part = "config" /\ ConfigNext
          /\ UNCHANGED <<calcVars, placementVars, workloadVars, requestVars>>
       \/ part = "placement" /\ PlacementNext
          /\ UNCHANGED <<calcVars, configVars, workloadVars, requestVars>>
       \/ part = "workloads" /\ WorkloadsNext
          /\ UNCHANGED <<calcVars, configVars, placementVars, requestVars>>
       \/ part = "requests" /\ RequestsNext
          /\ UNCHANGED <<calcVars, configVars, placementVars, workloadVars>>

ClientSpec ==
    ClientInit /\ [][ClientNext]_<<part, calcVars, configVars, placementVars, workloadVars,
                                   requestVars>>
=============================================================================
