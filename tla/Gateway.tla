------------------------------ MODULE Gateway -------------------------------
(***************************************************************************)
(* The calls of GridClient that create contracts and never roll back       *)
(* (grid_client/mod.rs): deploy_gateway_name, which registers a name and   *)
(* then deploys, deploy_gateway_fqdn, which only deploys, and              *)
(* create_node_contract, which only creates; then cancel_gateway.          *)
(*                                                                         *)
(* As in DeployVm every .await is the boundary of an action and a poll     *)
(* that answers "not yet" is a stuttering step.  A name contract is a      *)
(* contract made for NoNode whose hash is the name.                        *)
(***************************************************************************)
EXTENDS Naturals, Grid

CONSTANTS
    Calls,           \* concurrent or successive calls of one client
    NameCalls,       \* calls of deploy_gateway_name
    CreateCalls,     \* calls of create_node_contract
    MayHang,         \* calls whose RMB requests may never be answered
    MaxAttempts,     \* deploy_and_confirm's 10 attempts
    NoContract,      \* contract id 0
    NoNode           \* where name contracts live

Kinds == {"name", "node"}

(* The contract that call c creates for step k.                            *)
ContractOf(c, k) == <<c, k>>

(* The contracts that call c creates, in this order: name, then node.      *)
KindsOf(c) == IF c \in NameCalls THEN Kinds ELSE {"node"}

ASSUME GatewayAssumption ==
    /\ NameCalls \subseteq Calls
    /\ CreateCalls \subseteq Calls \ NameCalls
    /\ MayHang \subseteq Calls
    /\ MaxAttempts \in Nat \ {0}
    /\ NoContract \notin Contracts
    /\ NoNode \in Nodes
    /\ \A c \in Calls : \A k \in KindsOf(c) :
          /\ ContractOf(c, k) \in Contracts
          /\ (NodeOf[ContractOf(c, k)] = NoNode) <=> (k = "name")

VARIABLES
    pc,         \* where each call stands
    kind,       \* the contract it is working on
    attempt,    \* deploy attempt of deploy_and_confirm
    created,    \* contract ids found so far, NoContract where none was
    hung        \* calls blocked for good in an RMB request

callVars == <<pc, kind, attempt, created, hung>>
vars == <<gridVars, callVars>>

Deploying == {"submit", "finalize", "lookup", "deploy", "confirm", "settle",
              "readback"}
Cancelling == {"cancelDelete", "cancelCancel", "cancelWatch"}
Finished == {"returned", "failed", "cancelled", "cancelFailed"}

TypeOK ==
    /\ GridTypeOK
    /\ pc \in [Calls -> {"idle"} \union Deploying \union Cancelling \union Finished]
    /\ kind \in [Calls -> Kinds]
    /\ attempt \in [Calls -> 1 .. MaxAttempts]
    /\ created \in [Calls -> [Kinds -> Contracts \union {NoContract}]]
    /\ hung \in SUBSET Calls

FirstKind(c) == IF c \in NameCalls THEN "name" ELSE "node"

Init ==
    /\ GridInit
    /\ pc = [c \in Calls |-> "idle"]
    /\ kind = [c \in Calls |-> FirstKind(c)]
    /\ attempt = [c \in Calls |-> 1]
    /\ created = [c \in Calls |-> [k \in Kinds |-> NoContract]]
    /\ hung = {}

-----------------------------------------------------------------------------
Submitted(c) == ContractOf(c, kind[c])
Current(c) == created[c][kind[c]]

Goto(c, l) == pc' = [pc EXCEPT ![c] = l]

(* Validation and ensure_twin_relay.                                       *)
Start(c) ==
    /\ pc[c] = "idle"
    /\ Goto(c, "submit") \/ Goto(c, "failed")
    /\ UNCHANGED <<gridVars, kind, attempt, created, hung>>

(* submit_create_name_contract, or sign, hash and                          *)
(* submit_create_node_contract.                                            *)
Submit(c) ==
    /\ pc[c] = "submit"
    /\ \/ /\ Goto(c, "finalize")
          /\ chain' = [chain EXCEPT ![Submitted(c)] = "pooled"]
       \/ /\ Goto(c, "failed")
          /\ chain' = chain
    /\ UNCHANGED <<listed, zos, inflight, cancelling, kind, attempt, created, hung>>

(* Mutant of Finalized: finality is awaited, success is not checked.       *)
FinalizedUnchecked(c) ==
    /\ pc[c] = "finalize"
    /\ chain[Submitted(c)] # "pooled"
    /\ Goto(c, "lookup")
    /\ UNCHANGED <<gridVars, kind, attempt, created, hung>>

(* wait_for_finalized_success reports what became of the extrinsic.        *)
Finalized(c) ==
    /\ pc[c] = "finalize"
    /\ \/ chain[Submitted(c)] \in {"created", "cancelled"} /\ Goto(c, "lookup")
       \/ chain[Submitted(c)] = "dropped" /\ Goto(c, "failed")
    /\ UNCHANGED <<gridVars, kind, attempt, created, hung>>

(* wait_for_name_contract (by name) and wait_for_contract (by node and     *)
(* hash): the first match of grid_proxy, or an error.                      *)
Lookup(c) ==
    /\ pc[c] = "lookup"
    /\ \/ \E d \in Matching(NodeOf[Submitted(c)], HashOf[Submitted(c)]) :
             /\ created' = [created EXCEPT ![c][kind[c]] = d]
             /\ kind' = [kind EXCEPT ![c] = "node"]
             /\ Goto(c, CASE kind[c] = "name" -> "submit"
                          [] c \in CreateCalls -> "returned"
                          [] OTHER -> "deploy")
       \/ Goto(c, "failed") /\ UNCHANGED <<created, kind>>
    /\ UNCHANGED <<gridVars, attempt, hung>>

(* One zos.deployment.deploy call; only an "exists" answer is acted on.    *)
Deploy(c) ==
    /\ pc[c] = "deploy"
    /\ \/ /\ zos[Current(c)] # "absent"
          /\ Goto(c, "settle")
          /\ UNCHANGED <<zos, inflight>>
       \/ /\ Goto(c, "confirm")
          /\ \/ zos' = Hosted(Current(c)) /\ inflight' = inflight
             \/ zos' = zos /\ inflight' = inflight \union {Current(c)}
             \/ zos' = zos /\ inflight' = inflight
    /\ UNCHANGED <<chain, listed, cancelling, kind, attempt, created, hung>>

(* Mutant of Confirm: the attempts are never counted.                      *)
ConfirmForever(c) ==
    /\ pc[c] = "confirm"
    /\ Goto(c, IF zos[Current(c)] # "absent" THEN "settle" ELSE "deploy")
    /\ UNCHANGED <<gridVars, kind, attempt, created, hung>>

(* Mutant of Confirm: one attempt too many.                                *)
ConfirmOneMore(c) ==
    /\ pc[c] = "confirm"
    /\ \/ zos[Current(c)] # "absent" /\ Goto(c, "settle") /\ attempt' = attempt
       \/ /\ attempt[c] <= MaxAttempts
          /\ attempt' = [attempt EXCEPT ![c] = @ + 1]
          /\ Goto(c, "deploy")
       \/ Goto(c, "failed") /\ attempt' = attempt
    /\ UNCHANGED <<gridVars, kind, created, hung>>

(* The zos.deployment.get polls: visible, missing for 30 s, or an error.   *)
Confirm(c) ==
    /\ pc[c] = "confirm"
    /\ \/ zos[Current(c)] # "absent" /\ Goto(c, "settle") /\ attempt' = attempt
       \/ /\ attempt[c] < MaxAttempts
          /\ attempt' = [attempt EXCEPT ![c] = @ + 1]
          /\ Goto(c, "deploy")
       \/ Goto(c, "failed") /\ attempt' = attempt
    /\ UNCHANGED <<gridVars, kind, created, hung>>

(* wait_for_workloads on the single gateway workload: ok, error and stopped*)
(* all return Ok, and the answer is discarded.  Only deploy_gateway_name   *)
(* reads the deployment back.                                              *)
Settle(c) ==
    /\ pc[c] = "settle"
    /\ \/ /\ zos[Current(c)] \in {"ok", "error", "halted"}
          /\ Goto(c, IF c \in NameCalls THEN "readback" ELSE "returned")
       \/ Goto(c, "failed")
    /\ UNCHANGED <<gridVars, kind, attempt, created, hung>>

(* zos.deployment.get for the assigned FQDN; a workload without one gives  *)
(* the empty string, not an error.                                         *)
ReadBack(c) ==
    /\ pc[c] = "readback"
    /\ \/ zos[Current(c)] # "absent" /\ Goto(c, "returned")
       \/ Goto(c, "failed")
    /\ UNCHANGED <<gridVars, kind, attempt, created, hung>>

-----------------------------------------------------------------------------
(* cancel_gateway: delete the deployment on the node (best effort), cancel *)
(* its contract, then the name contract; the first failure ends it and the *)
(* caller may call it again with the same outcome.  A bare node contract   *)
(* is given up with cancel_contract.                                       *)

(* Mutant of StartCancel: the name contract goes first.                    *)
StartCancelNameFirst(c) ==
    /\ pc[c] \in {"returned", "cancelFailed"}
    /\ kind' = [kind EXCEPT ![c] = FirstKind(c)]
    /\ Goto(c, IF c \in NameCalls THEN "cancelCancel" ELSE "cancelDelete")
    /\ UNCHANGED <<gridVars, attempt, created, hung>>

StartCancel(c) ==
    /\ pc[c] \in {"returned", "cancelFailed"}
    /\ kind' = [kind EXCEPT ![c] = "node"]
    /\ Goto(c, IF c \in CreateCalls THEN "cancelCancel" ELSE "cancelDelete")
    /\ UNCHANGED <<gridVars, attempt, created, hung>>

CancelDelete(c) ==
    /\ pc[c] = "cancelDelete"
    /\ zos' \in {zos, [zos EXCEPT ![Current(c)] = "absent"]}
    /\ Goto(c, "cancelCancel")
    /\ UNCHANGED <<chain, listed, inflight, cancelling, kind, attempt, created, hung>>

(* cancel_contract is an extrinsic like the one that created the contract: *)
(* it is submitted, and watched until the chain has decided.               *)
CancelCancel(c) ==
    /\ pc[c] = "cancelCancel"
    /\ \/ cancelling' = cancelling \union {Current(c)} /\ Goto(c, "cancelWatch")
       \/ cancelling' = cancelling /\ Goto(c, "cancelFailed")
    /\ UNCHANGED <<chain, listed, zos, inflight, kind, attempt, created, hung>>

(* Mutant of CancelNext: only the deployment's contract is cancelled.      *)
CancelNextNodeOnly(c) ==
    /\ Goto(c, "cancelled")
    /\ kind' = kind

(* The name contract's turn, or the end.                                   *)
CancelNext(c) ==
    IF kind[c] = "node" /\ created[c]["name"] # NoContract
    THEN kind' = [kind EXCEPT ![c] = "name"] /\ Goto(c, "cancelCancel")
    ELSE kind' = kind /\ Goto(c, "cancelled")

(* The chain has decided; a contract that was gone already may be refused. *)
CancelWatch(c) ==
    /\ pc[c] = "cancelWatch"
    /\ Current(c) \notin cancelling
    /\ \/ chain[Current(c)] = "cancelled" /\ CancelNext(c)
       \/ Goto(c, "cancelFailed") /\ kind' = kind
    /\ UNCHANGED <<gridVars, attempt, created, hung>>

-----------------------------------------------------------------------------
(* The chain connection breaks while an extrinsic is being watched: it may *)
(* have been included, or still be.                                        *)
WatchLost(c) ==
    /\ \/ pc[c] = "finalize" /\ Goto(c, "failed")
       \/ pc[c] = "cancelWatch" /\ Goto(c, "cancelFailed")
    /\ UNCHANGED <<gridVars, kind, attempt, created, hung>>

(* A zos.deployment command that is never answered: see Hang in DeployVm.  *)
Hang(c) ==
    /\ c \in MayHang \ hung
    /\ pc[c] \in {"deploy", "confirm", "settle", "readback", "cancelDelete"}
    /\ hung' = hung \union {c}
    /\ UNCHANGED <<gridVars, pc, kind, attempt, created>>

(* The steps a call takes by itself.  A call that hangs takes none.        *)
CallStep(c) ==
    /\ c \notin hung
    /\ \/ Submit(c) \/ Finalized(c) \/ Lookup(c) \/ Deploy(c) \/ Confirm(c)
       \/ Settle(c) \/ ReadBack(c) \/ CancelDelete(c) \/ CancelCancel(c) \/ CancelWatch(c)

(* TFChain registers a name once: it refuses a name that another contract  *)
(* holds.                                                                  *)
NameFree(d) ==
    NodeOf[d] = NoNode =>
        \A e \in Contracts :
            NodeOf[e] = NoNode /\ HashOf[e] = HashOf[d] => chain[e] # "created"

WorldStep(d) ==
    /\ GridStep(d)
    /\ chain[d] = "pooled" /\ chain'[d] = "created" => NameFree(d)
    /\ UNCHANGED callVars

(* No call is at work: each has returned, hangs or was not made.           *)
AllFinished ==
    /\ \A c \in Calls : pc[c] \in Finished \union {"idle"} \/ c \in hung
    /\ UNCHANGED vars

Next ==
    \/ \E c \in Calls : Start(c) \/ CallStep(c) \/ WatchLost(c) \/ Hang(c) \/ StartCancel(c)
    \/ \E d \in Contracts : WorldStep(d)
    \/ AllFinished

Spec == Init /\ [][Next]_vars

(* As in DeployVm: calls that do not hang keep running, the chain          *)
(* eventually decides on an extrinsic, and a call learns what became of its*)
(* own cancellation though others may ask for the same one again.          *)
Fairness ==
    /\ \A c \in Calls : SF_vars(CallStep(c))
    /\ \A d \in Contracts : WF_vars(ChainDecides(d) /\ WorldStep(d))

FairSpec == Spec /\ Fairness

-----------------------------------------------------------------------------
(* An outcome that has a name holds that name alone: two gateways that     *)
(* deploy_gateway_name returned and nobody cancelled never share a name    *)
(* contract, though the lookup asks by name and may answer from the past.  *)
NamesNotShared ==
    \A c, e \in NameCalls :
        c # e /\ pc[c] = "returned" /\ pc[e] = "returned" =>
            created[c]["name"] # created[e]["name"]

(* When cancel_gateway returned Ok nothing of the outcome is left on chain,*)
(* also when it is a retry after a partial failure.                        *)
CancelledIsGone ==
    \A c \in Calls : pc[c] = "cancelled" =>
        \A k \in Kinds : created[c][k] # NoContract =>
            chain[created[c][k]] = "cancelled"

(* A gateway's name stays registered as long as its contract exists:       *)
(* cancel_gateway gives up the name last, also in a retry, and no other    *)
(* call with the same name takes it away.                                  *)
NameOutlivesGateway ==
    \A c \in NameCalls :
        /\ \A k \in Kinds : created[c][k] = ContractOf(c, k)
        /\ chain[created[c]["node"]] = "created"
        => chain[created[c]["name"]] = "created"

(* Every call returns, and so does every cancellation, unless an RMB       *)
(* request of the call's own is never answered.                            *)
EveryCallReturns ==
    \A c \in Calls :
        pc[c] \in Deploying \union Cancelling ~> pc[c] \in Finished \/ c \in hung

(* How the lease of a call at l stands, and the contracts a call knows of. *)
PhaseAt(l) ==
    CASE l \in Deploying -> "working"
      [] l = "returned" -> "held"
      [] l \in Cancelling \union {"cancelFailed"} -> "ending"
      [] l = "cancelled" -> "ended"
      [] OTHER -> l
KnownTo(c) == {created[c][k] : k \in Kinds} \ {NoContract}

L == INSTANCE Lease
        WITH RollsBack <- {},
             phase <- [c \in Calls |-> PhaseAt(pc[c])],
             known <- [c \in Calls |-> KnownTo(c)],
             asked <- cancelling,
             gone <- {d \in Contracts : chain[d] = "cancelled"},
             reported <- {}

(* The gateway calls and their cancellation implement Lease without the    *)
(* rollback: a failed call touches nothing, so what it created is not lost *)
(* to another call, and only cancel_gateway, down to the last contract,    *)
(* ends what a call returned.                                              *)
KeepsLease == L!LeaseSpec

(* wait_for_name_contract looks for "a freshly-created name contract": the *)
(* name contract of a returned gateway is the one its call created.        *)
NameIsFresh ==
    \A c \in NameCalls : pc[c] = "returned" =>
        created[c]["name"] = ContractOf(c, "name")

=============================================================================
