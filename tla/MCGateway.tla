----------------------------- MODULE MCGateway ------------------------------
(* Instances of Gateway for TLC.  Every node contract of a run is for n1.  *)
EXTENDS Gateway

CONSTANTS g1, g2, g3, g4, n1

MCContracts == UNION {{<<c, k>> : k \in KindsOf(c)} : c \in Calls}
MCNodeOf == [d \in MCContracts |-> IF d[2] = "name" THEN NoNode ELSE n1]

(* All calls ask for the same name and the same deployment: a gateway's    *)
(* hash is a function of the request.                                      *)
SameHashes == Kinds
SameHashOf == [d \in MCContracts |-> d[2]]

(* Two gateways with names run together, or a gateway of the user's own    *)
(* domain and a bare contract, never all four.  In the first pair g2 is    *)
(* given up only when g1 failed or is gone; deploy requests are delayed and*)
(* tried again in the second pair.                                         *)
TwoAtATime ==
    LET started == {c \in Calls : pc[c] # "idle"}
    IN \/ /\ started \subseteq {g1, g2}
          /\ inflight = {} /\ \A c \in started : attempt[c] = 1
          /\ pc[g2] = "cancelDelete" => pc[g1] \in {"failed", "cancelled"}
       \/ started \subseteq {g3, g4}

=============================================================================
