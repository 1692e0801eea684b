----------------------------- MODULE Placement ------------------------------
(***************************************************************************)
(* Where a VM goes (grid_client/mod.rs): pick_nodes and pick_zmachine_nodes*)
(* filter what grid_proxy lists, and get_free_wg_port chooses a WireGuard  *)
(* port from what the node says is in use; the network is deployed later,  *)
(* and meanwhile other calls do the same.                                  *)
(***************************************************************************)
EXTENDS Naturals, Sequences, FiniteSets

CONSTANTS
    Placed,          \* concurrent deploy calls that create a full network
    Wants,           \* the requirements each call may have
    Listings,        \* the answers of grid_proxy's /nodes
    MaxCandidates,   \* MAX_PLACEMENT_CANDIDATES
    FirstPort, EndPort,   \* 1024 and 32767: the ports are FirstPort .. EndPort - 1
    Hosts,           \* nodes
    MaxAmount        \* u64::MAX for amounts of memory, disk and cores

Features == {"network-light", "zmachine-light", "network", "zmachine", "volume",
             "ip", "ipv4"}

(* total and used stand for each of mru, sru and cru; used may exceed      *)
(* total when a node is overcommitted.  v4, v6: the public configuration   *)
(* is usable.                                                              *)
ProxyNodes == [id : Hosts, up : BOOLEAN, features : SUBSET Features,
               total : 0 .. MaxAmount, used : 0 .. MaxAmount, freeIps : 0 .. 1,
               v4 : BOOLEAN, v6 : BOOLEAN]
(* ownPort: the port the caller gives its network, 0 for none.             *)
Requirements == [light : BOOLEAN, amount : 0 .. MaxAmount, v4 : BOOLEAN, v6 : BOOLEAN,
                 ownPort : 0 .. EndPort]

ASSUME PlacementAssumption ==
    /\ Wants \subseteq Requirements
    /\ Listings \subseteq Seq(ProxyNodes)
    /\ MaxCandidates \in Nat /\ FirstPort \in Nat /\ EndPort \in Nat
    /\ IsFiniteSet(Placed)

VARIABLES
    want, listing,   \* the requirements of each call, grid_proxy's answer
    candidates,      \* nodes each call may try, by their place in the listing
    at,              \* where each call stands
    port,            \* the port it chose on its first candidate, 0 for none
    inUse,           \* node -> ports of the networks on it
    overlaps         \* history: pairs of calls whose choice and deployment
                     \* on one node overlapped

placementVars == <<want, listing, candidates, at, port, inUse, overlaps>>

(* saturating_sub                                                          *)
Free(n) == IF n.total >= n.used THEN n.total - n.used ELSE 0

Fits(n, r) ==
    /\ n.up
    /\ (IF r.light THEN {"network-light", "zmachine-light"}
        ELSE {"network", "zmachine", "volume"}) \subseteq n.features
    /\ Free(n) >= r.amount
    /\ r.v4 => "ip" \in n.features /\ n.freeIps > 0 /\ n.v4
    /\ r.v6 => n.features \intersect {"ip", "ipv4"} # {} /\ n.freeIps > 0 /\ n.v6

(* filter, then take: the first places of the listing whose node fits.     *)
PickNodes(ns, r) ==
    LET fitting == {i \in DOMAIN ns : Fits(ns[i], r)}
    IN {i \in fitting : Cardinality({j \in fitting : j <= i}) <= MaxCandidates}

PlacementInit ==
    /\ want \in [Placed -> Wants] /\ listing \in Listings
    /\ candidates = [c \in Placed |-> {}]
    /\ at = [c \in Placed |-> "idle"]
    /\ port = [c \in Placed |-> 0]
    /\ inUse = [h \in Hosts |-> {}]
    /\ overlaps = {}

(* NotFound when no node fits; grid_proxy may also not answer.             *)
Place(c) ==
    /\ at[c] = "idle"
    /\ \E picked \in {PickNodes(listing, want[c]), {}} :
          candidates' = [candidates EXCEPT ![c] = picked]
    /\ at' = [at EXCEPT ![c] = IF candidates'[c] = {} THEN "failed" ELSE "placed"]
    /\ UNCHANGED <<want, listing, port, inUse, overlaps>>

(* The node of the first candidate.                                        *)
HostOf(c) == listing[CHOOSE i \in candidates[c] : \A j \in candidates[c] : i <= j].id

(* Mutant of FreePorts: what the node answered is not looked at.           *)
FreePortsAll(c) == FirstPort .. (EndPort - 1)

FreePorts(c) == (FirstPort .. (EndPort - 1)) \ inUse[HostOf(c)]

LowestPort(c) == CHOOSE p \in FreePorts(c) : \A q \in FreePorts(c) : p <= q

(* get_free_wg_port: the lowest port that zos.network.list_wg_ports does   *)
(* not show, unless the caller has given one.  An error when none is free  *)
(* or the node does not answer.  A light network has no port.              *)
ChoosePort(c) ==
    /\ at[c] = "placed" /\ ~want[c].light
    /\ \/ /\ want[c].ownPort = 0
          /\ at' = [at EXCEPT ![c] = "failed"] /\ UNCHANGED <<port, overlaps>>
       \/ /\ want[c].ownPort # 0 \/ FreePorts(c) # {}
          /\ port' = [port EXCEPT ![c] =
                IF want[c].ownPort # 0 THEN want[c].ownPort ELSE LowestPort(c)]
          /\ at' = [at EXCEPT ![c] = "chosen"]
          /\ overlaps' = overlaps \union
                {{c, e} : e \in {d \in Placed : at[d] = "chosen" /\ HostOf(d) = HostOf(c)}}
    /\ UNCHANGED <<want, listing, candidates, inUse>>

(* The network with that port is on the node.                              *)
HostNetwork(c) ==
    /\ at[c] = "chosen"
    /\ inUse' = [inUse EXCEPT ![HostOf(c)] = @ \union {port[c]}]
    /\ at' = [at EXCEPT ![c] = "hosted"]
    /\ UNCHANGED <<want, listing, candidates, port, overlaps>>

PlacementNext ==
    \E c \in Placed : Place(c) \/ ChoosePort(c) \/ HostNetwork(c)

PlacementSpec == PlacementInit /\ [][PlacementNext]_placementVars

-----------------------------------------------------------------------------
(* Two networks on a node share a WireGuard port that the client chose for *)
(* both only when the two calls were between choosing and deploying at the *)
(* same time: calls that follow one another never clash.                   *)
ClashNeedsOverlap ==
    \A c, e \in Placed :
        /\ c # e /\ at[c] = "hosted" /\ at[e] = "hosted"
        /\ want[c].ownPort = 0 /\ want[e].ownPort = 0
        /\ HostOf(c) = HostOf(e) /\ port[c] = port[e]
        => {c, e} \in overlaps
=============================================================================
