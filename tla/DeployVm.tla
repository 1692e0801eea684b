------------------------------ MODULE DeployVm ------------------------------
(***************************************************************************)
(* GridClient::deploy_vm and deploy_vm_light (grid_client/mod.rs): place a *)
(* VM, create its network and VM contracts, deploy them over RMB, wait for *)
(* the workloads, and on failure roll back and try the next candidate;     *)
(* then cancel_deployment_outcome on what was returned.                    *)
(*                                                                         *)
(* Several calls run concurrently.  Every .await of the code is the        *)
(* boundary of an action.  A poll that answers "not yet" changes nothing   *)
(* and is a stuttering step, so a deadline needs no counter: it is the     *)
(* alternative that is always open while the poll runs.                    *)
(***************************************************************************)
EXTENDS Naturals, Sequences, Grid

CONSTANTS
    Calls,           \* concurrent deploy calls
    Candidates,      \* the nodes each call's placement returned, in order
    CreatesNetwork,  \* calls with NetworkTarget::Create
    MultiWorkload,   \* calls whose VM deployment has two or more workloads
    MayHang,         \* calls whose RMB requests may never be answered
    MaxAttempts,     \* deploy_and_confirm's 10 attempts
    NoContract       \* contract id 0

Kinds == {"network", "vm"}

(* The contract that call c's i-th candidate gets for deployment kind k.   *)
ContractOf(c, i, k) == <<c, i, k>>

ASSUME DeployAssumption ==
    /\ Candidates \in [Calls -> Seq(Nodes) \ {<<>>}]
    /\ CreatesNetwork \subseteq Calls
    /\ MultiWorkload \subseteq Calls
    /\ MayHang \subseteq Calls
    /\ MaxAttempts \in Nat \ {0}
    /\ NoContract \notin Contracts
    /\ \A c \in Calls : \A i \in 1 .. Len(Candidates[c]) : \A k \in Kinds :
          /\ ContractOf(c, i, k) \in Contracts
          /\ NodeOf[ContractOf(c, i, k)] = Candidates[c][i]

VARIABLES
    pc,         \* where each call stands
    kind,       \* the deployment the call is working on
    cand,       \* index of the candidate node being tried
    attempt,    \* deploy attempt of deploy_and_confirm
    created,    \* contract ids found so far, NoContract where none was
    sawError,   \* the VM's workload changes held an "error"
    traced,     \* contracts whose cancellation was reported as failed
    hung        \* calls blocked for good in an RMB request

callVars == <<pc, kind, cand, attempt, created, sawError, traced, hung>>
vars == <<gridVars, callVars>>

(* Steps of a placement attempt that has not failed.                       *)
Deploying == {"submit", "finalize", "lookup", "deploy", "confirm", "settle",
              "readback"}
Undoing == {"undoDelete", "undoCancel", "undoWatch"}
Cancelling == {"cancelDelete", "cancelCancel", "cancelWatch"}
Finished == {"returned", "failed", "cancelled", "cancelFailed"}

Pcs == {"idle", "undone"} \union Deploying \union Undoing
          \union Cancelling \union Finished

TypeOK ==
    /\ GridTypeOK
    /\ pc \in [Calls -> Pcs]
    /\ kind \in [Calls -> Kinds]
    /\ cand \in [Calls -> Nat]
    /\ \A c \in Calls : cand[c] \in 1 .. Len(Candidates[c])
    /\ attempt \in [Calls -> 1 .. MaxAttempts]
    /\ created \in [Calls -> [Kinds -> Contracts \union {NoContract}]]
    /\ sawError \in [Calls -> BOOLEAN]
    /\ traced \in SUBSET Contracts
    /\ hung \in SUBSET Calls

FirstKind(c) == IF c \in CreatesNetwork THEN "network" ELSE "vm"

Nothing == [k \in Kinds |-> NoContract]

Init ==
    /\ GridInit
    /\ pc = [c \in Calls |-> "idle"]
    /\ kind = [c \in Calls |-> FirstKind(c)]
    /\ cand = [c \in Calls |-> 1]
    /\ attempt = [c \in Calls |-> 1]
    /\ created = [c \in Calls |-> Nothing]
    /\ sawError = [c \in Calls |-> FALSE]
    /\ traced = {}
    /\ hung = {}

-----------------------------------------------------------------------------
(* The extrinsic of the current step and the contract it works on.         *)
Submitted(c) == ContractOf(c, cand[c], kind[c])
Current(c) == created[c][kind[c]]

Goto(c, l) == pc' = [pc EXCEPT ![c] = l]

(* The attempt's error return: roll back what `created` holds, VM first.   *)
Fail(c) ==
    /\ Goto(c, "undoDelete")
    /\ kind' = [kind EXCEPT ![c] = "vm"]

-----------------------------------------------------------------------------
(* Validation and placement: an error ends the call before it does anything.*)
Start(c) ==
    /\ pc[c] = "idle"
    /\ \/ Goto(c, "submit")
       \/ Goto(c, "failed")
    /\ UNCHANGED <<gridVars, kind, cand, attempt, created, sawError, traced, hung>>

(* Names, subnet, WireGuard port, signature and hash of the deployment can *)
(* fail; otherwise the create_node_contract extrinsic is submitted.        *)
Submit(c) ==
    /\ pc[c] = "submit"
    /\ \/ /\ Goto(c, "finalize")
          /\ chain' = [chain EXCEPT ![Submitted(c)] = "pooled"]
          /\ kind' = kind
       \/ /\ Fail(c)
          /\ chain' = chain
    /\ UNCHANGED <<listed, zos, inflight, cancelling, cand, attempt, created, sawError, traced, hung>>

(* wait_for_finalized_success reports what became of the extrinsic.        *)
Finalized(c) ==
    /\ pc[c] = "finalize"
    /\ \/ /\ chain[Submitted(c)] \in {"created", "cancelled"}
          /\ Goto(c, "lookup")
          /\ kind' = kind
       \/ /\ chain[Submitted(c)] = "dropped"
          /\ Fail(c)
    /\ UNCHANGED <<gridVars, cand, attempt, created, sawError, traced, hung>>

(* Mutant of Lookup: the query leaves the deployment hash out.             *)
LookupAnyHash(c) ==
    /\ pc[c] = "lookup"
    /\ \/ \E d \in {e \in listed : NodeOf[e] = Candidates[c][cand[c]]} :
             /\ created' = [created EXCEPT ![c][kind[c]] = d]
             /\ attempt' = [attempt EXCEPT ![c] = 1]
             /\ Goto(c, "deploy")
             /\ kind' = kind
       \/ Fail(c) /\ UNCHANGED <<created, attempt>>
    /\ UNCHANGED <<gridVars, cand, sawError, traced, hung>>

(* Mutant of Lookup: the query leaves the node out.                        *)
LookupAnyNode(c) ==
    /\ pc[c] = "lookup"
    /\ \/ \E d \in {e \in listed : HashOf[e] = HashOf[Submitted(c)]} :
             /\ created' = [created EXCEPT ![c][kind[c]] = d]
             /\ attempt' = [attempt EXCEPT ![c] = 1]
             /\ Goto(c, "deploy")
             /\ kind' = kind
       \/ Fail(c) /\ UNCHANGED <<created, attempt>>
    /\ UNCHANGED <<gridVars, cand, sawError, traced, hung>>

(* wait_for_contract: the first match is taken and pushed to `created`; an *)
(* HTTP or parse error, or the 45 s deadline, fails the attempt.           *)
Lookup(c) ==
    /\ pc[c] = "lookup"
    /\ \/ \E d \in Matching(Candidates[c][cand[c]], HashOf[Submitted(c)]) :
             /\ created' = [created EXCEPT ![c][kind[c]] = d]
             /\ attempt' = [attempt EXCEPT ![c] = 1]
             /\ Goto(c, "deploy")
             /\ kind' = kind
       \/ /\ Fail(c)
          /\ UNCHANGED <<created, attempt>>
    /\ UNCHANGED <<gridVars, cand, sawError, traced, hung>>

(* One zos.deployment.deploy call.  Only an "exists" answer is acted on;   *)
(* any other answer, error or silence leads to the confirmation polls.     *)
Deploy(c) ==
    /\ pc[c] = "deploy"
    /\ \/ /\ zos[Current(c)] # "absent"
          /\ Goto(c, "settle")
          /\ UNCHANGED <<zos, inflight>>
       \/ /\ Goto(c, "confirm")
          /\ \/ zos' = Hosted(Current(c)) /\ inflight' = inflight
             \/ zos' = zos /\ inflight' = inflight \union {Current(c)}
             \/ zos' = zos /\ inflight' = inflight
    /\ UNCHANGED <<chain, listed, cancelling, kind, cand, attempt, created, sawError, traced, hung>>

(* Mutant of Confirm: deploy_and_confirm never runs out of attempts.       *)
ConfirmUnlimited(c) ==
    /\ pc[c] = "confirm"
    /\ \/ zos[Current(c)] # "absent" /\ Goto(c, "settle") /\ UNCHANGED <<kind, attempt>>
       \/ /\ attempt' = [attempt EXCEPT ![c] = @ + 1]
          /\ Goto(c, "deploy")
          /\ kind' = kind
       \/ Fail(c) /\ attempt' = attempt
    /\ UNCHANGED <<gridVars, cand, created, sawError, traced, hung>>

(* The zos.deployment.get polls after a deploy call: visible, missing for  *)
(* 30 s (the next attempt, if one is left), or an error of another kind.   *)
Confirm(c) ==
    /\ pc[c] = "confirm"
    /\ \/ /\ zos[Current(c)] # "absent"
          /\ Goto(c, "settle")
          /\ UNCHANGED <<kind, attempt>>
       \/ /\ attempt[c] < MaxAttempts
          /\ attempt' = [attempt EXCEPT ![c] = @ + 1]
          /\ Goto(c, "deploy")
          /\ kind' = kind
       \/ /\ Fail(c)
          /\ attempt' = attempt
    /\ UNCHANGED <<gridVars, cand, created, sawError, traced, hung>>

(* wait_for_workloads answers "ok" when exactly one workload name is "ok": *)
(* with one workload when the deployment is ok, with more only while the   *)
(* others are not ok yet.                                                  *)
SettlesOk(c) ==
    IF kind[c] = "vm" /\ c \in MultiWorkload
    THEN zos[Current(c)] = "init"
    ELSE zos[Current(c)] = "ok"

(* wait_for_workloads returns Ok also for an "error" or a stopped workload;*)
(* the network's result is discarded, the VM's is remembered.  A deadline  *)
(* or an RMB error fails the attempt.                                      *)
Settle(c) ==
    /\ pc[c] = "settle"
    /\ \/ /\ SettlesOk(c) \/ zos[Current(c)] \in {"error", "halted"}
          /\ IF kind[c] = "network"
             THEN /\ Goto(c, "submit")
                  /\ kind' = [kind EXCEPT ![c] = "vm"]
                  /\ sawError' = sawError
             ELSE /\ Goto(c, "readback")
                  /\ kind' = kind
                  /\ sawError' = [sawError EXCEPT ![c] = zos[Current(c)] = "error"]
       \/ /\ Fail(c)
          /\ sawError' = sawError
    /\ UNCHANGED <<gridVars, cand, attempt, created, traced, hung>>

(* zos.deployment.get for the addresses, then the verdict on the changes.  *)
ReadBack(c) ==
    /\ pc[c] = "readback"
    /\ \/ /\ zos[Current(c)] # "absent"
          /\ ~sawError[c]
          /\ Goto(c, "returned")
          /\ kind' = kind
       \/ Fail(c)
    /\ sawError' = [sawError EXCEPT ![c] = FALSE]
    /\ UNCHANGED <<gridVars, cand, attempt, created, traced, hung>>

-----------------------------------------------------------------------------
(* rollback_contracts: newest first, delete on the node (best effort), then*)
(* cancel on chain; id 0 is skipped and an error is only traced.           *)

(* A best-effort zos.deployment.delete of the current contract.            *)
DeleteOnNode(c) ==
    zos' \in {zos, [zos EXCEPT ![Current(c)] = "absent"]}

UndoDelete(c) ==
    /\ pc[c] = "undoDelete"
    /\ IF Current(c) # NoContract
       THEN /\ DeleteOnNode(c)
            /\ Goto(c, "undoCancel")
            /\ kind' = kind
       ELSE /\ zos' = zos
            /\ Goto(c, IF kind[c] = "vm" THEN "undoDelete" ELSE "undone")
            /\ kind' = [kind EXCEPT ![c] = "network"]
    /\ UNCHANGED <<chain, listed, inflight, cancelling, cand, attempt, created, sawError, traced, hung>>

(* cancel_contract is an extrinsic like the one that created the contract: *)
(* it is submitted and watched.  The next entry's turn, or the end.        *)
UndoNext(c) ==
    /\ Goto(c, IF kind[c] = "vm" THEN "undoDelete" ELSE "undone")
    /\ kind' = [kind EXCEPT ![c] = "network"]

(* Mutant of UndoTraces: a failed cancellation ends the rollback.          *)
UndoTracesAndStops(c) ==
    /\ traced' = traced \union {Current(c)}
    /\ Goto(c, "undone")
    /\ kind' = [kind EXCEPT ![c] = "network"]

(* The cancellation could not be submitted, was refused, or is no longer   *)
(* watched: the error is traced and the loop goes on.                      *)
UndoTraces(c) ==
    /\ traced' = traced \union {Current(c)}
    /\ UndoNext(c)

UndoCancel(c) ==
    /\ pc[c] = "undoCancel"
    /\ \/ /\ cancelling' = cancelling \union {Current(c)}
          /\ Goto(c, "undoWatch")
          /\ UNCHANGED <<kind, traced>>
       \/ /\ UndoTraces(c)
          /\ cancelling' = cancelling
    /\ UNCHANGED <<chain, listed, zos, inflight, cand, attempt, created, sawError, hung>>

(* The chain has decided; a contract that was gone already may be refused. *)
UndoWatch(c) ==
    /\ pc[c] = "undoWatch"
    /\ Current(c) \notin cancelling
    /\ \/ chain[Current(c)] = "cancelled" /\ UndoNext(c) /\ traced' = traced
       \/ UndoTraces(c)
    /\ UNCHANGED <<gridVars, cand, attempt, created, sawError, hung>>

(* Mutant of Advance: the failed candidate is tried again.                 *)
AdvanceNowhere(c) ==
    /\ pc[c] = "undone"
    /\ IF cand[c] < Len(Candidates[c])
       THEN /\ kind' = [kind EXCEPT ![c] = FirstKind(c)]
            /\ created' = [created EXCEPT ![c] = Nothing]
            /\ Goto(c, "submit")
       ELSE Goto(c, "failed") /\ UNCHANGED <<kind, created>>
    /\ UNCHANGED <<gridVars, cand, attempt, sawError, traced, hung>>

(* Mutant of Advance: `created` is not a list of each attempt's own.       *)
AdvanceKeepsCreated(c) ==
    /\ pc[c] = "undone"
    /\ IF cand[c] < Len(Candidates[c])
       THEN /\ cand' = [cand EXCEPT ![c] = @ + 1]
            /\ kind' = [kind EXCEPT ![c] = FirstKind(c)]
            /\ Goto(c, "submit")
       ELSE Goto(c, "failed") /\ UNCHANGED <<cand, kind>>
    /\ UNCHANGED <<gridVars, attempt, created, sawError, traced, hung>>

(* deploy_with_failover: the next candidate starts with an empty `created`,*)
(* the last one's error is the call's.  A fixed placement has one candidate.*)
Advance(c) ==
    /\ pc[c] = "undone"
    /\ IF cand[c] < Len(Candidates[c])
       THEN /\ cand' = [cand EXCEPT ![c] = @ + 1]
            /\ kind' = [kind EXCEPT ![c] = FirstKind(c)]
            /\ created' = [created EXCEPT ![c] = Nothing]
            /\ Goto(c, "submit")
       ELSE /\ Goto(c, "failed")
            /\ UNCHANGED <<cand, kind, created>>
    /\ UNCHANGED <<gridVars, attempt, sawError, traced, hung>>

-----------------------------------------------------------------------------
(* cancel_deployment_outcome: VM then network; the first cancellation that *)
(* fails ends it, and the caller may call it again with the same outcome.  *)

(* Mutant of StartCancel: creation order, so the network goes first.        *)
StartCancelNetworkFirst(c) ==
    /\ pc[c] \in {"returned", "cancelFailed"}
    /\ Goto(c, "cancelDelete")
    /\ kind' = [kind EXCEPT ![c] = FirstKind(c)]
    /\ UNCHANGED <<gridVars, cand, attempt, created, sawError, traced, hung>>

StartCancel(c) ==
    /\ pc[c] \in {"returned", "cancelFailed"}
    /\ Goto(c, "cancelDelete")
    /\ kind' = [kind EXCEPT ![c] = "vm"]
    /\ UNCHANGED <<gridVars, cand, attempt, created, sawError, traced, hung>>

CancelDelete(c) ==
    /\ pc[c] = "cancelDelete"
    /\ IF Current(c) # NoContract
       THEN /\ DeleteOnNode(c)
            /\ Goto(c, "cancelCancel")
            /\ kind' = kind
       ELSE /\ zos' = zos
            /\ Goto(c, IF kind[c] = "vm" THEN "cancelDelete" ELSE "cancelled")
            /\ kind' = [kind EXCEPT ![c] = "network"]
    /\ UNCHANGED <<chain, listed, inflight, cancelling, cand, attempt, created, sawError, traced, hung>>

CancelNext(c) ==
    /\ Goto(c, IF kind[c] = "vm" THEN "cancelDelete" ELSE "cancelled")
    /\ kind' = [kind EXCEPT ![c] = "network"]

CancelCancel(c) ==
    /\ pc[c] = "cancelCancel"
    /\ \/ cancelling' = cancelling \union {Current(c)} /\ Goto(c, "cancelWatch")
       \/ cancelling' = cancelling /\ Goto(c, "cancelFailed")
    /\ UNCHANGED <<chain, listed, zos, inflight, kind, cand, attempt, created, sawError,
                   traced, hung>>

(* Mutant of CancelWatch: an error of cancel_contract is ignored.          *)
CancelWatchIgnoresError(c) ==
    /\ pc[c] = "cancelWatch"
    /\ Current(c) \notin cancelling
    /\ CancelNext(c)
    /\ UNCHANGED <<gridVars, cand, attempt, created, sawError, traced, hung>>

CancelWatch(c) ==
    /\ pc[c] = "cancelWatch"
    /\ Current(c) \notin cancelling
    /\ \/ chain[Current(c)] = "cancelled" /\ CancelNext(c)
       \/ Goto(c, "cancelFailed") /\ kind' = kind
    /\ UNCHANGED <<gridVars, cand, attempt, created, sawError, traced, hung>>

-----------------------------------------------------------------------------
(* The chain connection breaks while an extrinsic is being watched: it may *)
(* have been included, or still be.                                        *)
WatchLost(c) ==
    /\ \/ pc[c] = "finalize" /\ Fail(c) /\ traced' = traced
       \/ pc[c] = "undoWatch" /\ UndoTraces(c)
       \/ pc[c] = "cancelWatch" /\ Goto(c, "cancelFailed") /\ UNCHANGED <<kind, traced>>
    /\ UNCHANGED <<gridVars, cand, attempt, created, sawError, hung>>

(* The steps that hold an RMB request: get_free_wg_port for a new network, *)
(* and every zos.deployment command.                                       *)
InRmb(c) ==
    \/ pc[c] \in {"deploy", "confirm", "settle", "readback"}
    \/ pc[c] = "submit" /\ kind[c] = "network"
    \/ pc[c] \in {"undoDelete", "cancelDelete"} /\ Current(c) # NoContract

(* rmb_call waits for the socket's mutex, connects and sends without a     *)
(* deadline: a relay that accepts the connection and falls silent, or      *)
(* another call that waits for it, can keep the request there forever.     *)
Hang(c) ==
    /\ c \in MayHang \ hung
    /\ InRmb(c)
    /\ hung' = hung \union {c}
    /\ UNCHANGED <<gridVars, pc, kind, cand, attempt, created, sawError, traced>>

(* The steps a call takes by itself.  A call that hangs takes none.        *)
CallStep(c) ==
    /\ c \notin hung
    /\ \/ Submit(c) \/ Finalized(c) \/ Lookup(c)
       \/ Deploy(c) \/ Confirm(c) \/ Settle(c) \/ ReadBack(c)
       \/ UndoDelete(c) \/ UndoCancel(c) \/ UndoWatch(c) \/ Advance(c)
       \/ CancelDelete(c) \/ CancelCancel(c) \/ CancelWatch(c)

WorldStep(d) == GridStep(d) /\ UNCHANGED callVars

(* Every call has returned or hangs: the system may stop.                  *)
AllFinished ==
    /\ \A c \in Calls : pc[c] \in Finished \/ c \in hung
    /\ UNCHANGED vars

Next ==
    \/ \E c \in Calls : Start(c) \/ CallStep(c) \/ WatchLost(c) \/ Hang(c) \/ StartCancel(c)
    \/ \E d \in Contracts : WorldStep(d)
    \/ AllFinished

Spec == Init /\ [][Next]_vars

(* Calls that do not hang keep running: every other await has a deadline   *)
(* or an error.  The chain eventually decides on an extrinsic, and says so *)
(* (wait_for_finalized has no deadline of its own): a call learns what     *)
(* became of its own cancellation though others, that found the same       *)
(* contract, may ask for it again and again.                               *)
Fairness ==
    /\ \A c \in Calls : SF_vars(CallStep(c))
    /\ \A d \in Contracts : WF_vars(ChainDecides(d) /\ UNCHANGED callVars)

FairSpec == Spec /\ Fairness

-----------------------------------------------------------------------------
(* When the rollback of a failed attempt is over, every contract it knew   *)
(* of is cancelled on chain, or the failure to cancel it was traced        *)
(* (rollback_contracts), so deploy_with_failover may advance.              *)
RollbackComplete ==
    \A c \in Calls : pc[c] \in {"undone", "failed"} =>
        \A k \in Kinds : created[c][k] # NoContract =>
            \/ chain[created[c][k]] = "cancelled"
            \/ created[c][k] \in traced

(* What deploy_vm returned is there, each contract whose hash no other     *)
(* contract of the node carries: it exists on chain and the node holds its *)
(* deployment, whatever other calls roll back meanwhile and whatever late  *)
(* cancellations of earlier attempts are included.  Only a call whose      *)
(* request hashes the same can find it, and so take it away.               *)
OutcomeIsLive ==
    \A c \in Calls : pc[c] = "returned" =>
        \A k \in Kinds :
            LET d == ContractOf(c, cand[c], k)
            IN  IF k = "vm" \/ c \in CreatesNetwork
                THEN OwnHash(d) => /\ created[c][k] = d
                                   /\ chain[d] = "created"
                                   /\ zos[d] # "absent"
                ELSE created[c][k] = NoContract

(* No VM is left on a network the client took away: the network's contract *)
(* is cancelled, or its cancellation pooled, only after the VM's (reverse  *)
(* creation order), unless the VM's cancellation failed and was traced.    *)
(* The network's hash is its own; the VM's may be shared.                  *)
NetworkOutlivesVm ==
    \A c \in Calls :
        LET network == ContractOf(c, cand[c], "network")
            vm == created[c]["vm"]
        IN  /\ c \in CreatesNetwork /\ OwnHash(network)
            /\ vm # NoContract
            /\ network \in cancelling \/ chain[network] = "cancelled"
            => chain[vm] = "cancelled" \/ vm \in traced

(* A cancel_deployment_outcome that returned Ok left nothing of the        *)
(* outcome on chain, also when it is a retry after a partial failure.      *)
CancelledIsGone ==
    \A c \in Calls : pc[c] = "cancelled" =>
        \A k \in Kinds : created[c][k] # NoContract =>
            chain[created[c][k]] = "cancelled"

(* Every deploy call returns, and so does every cancellation, through all  *)
(* candidates, attempts and rollbacks, unless an RMB request of the call's *)
(* own is never answered.                                                  *)
EveryCallReturns ==
    \A c \in Calls :
        pc[c] \in Deploying \union Undoing \union Cancelling
            ~> pc[c] \in Finished \/ c \in hung

(* How the lease of a call at l stands, and the contracts a call knows of. *)
PhaseAt(l) ==
    CASE l \in Deploying -> "working"
      [] l \in Undoing \union {"undone"} -> "undoing"
      [] l = "returned" -> "held"
      [] l \in Cancelling \union {"cancelFailed"} -> "ending"
      [] l = "cancelled" -> "ended"
      [] OTHER -> l
KnownTo(c) == {created[c][k] : k \in Kinds} \ {NoContract}

L == INSTANCE Lease
        WITH RollsBack <- Calls,
             phase <- [c \in Calls |-> PhaseAt(pc[c])],
             known <- [c \in Calls |-> KnownTo(c)],
             asked <- cancelling,
             gone <- {d \in Contracts : chain[d] = "cancelled"},
             reported <- traced

(* Deploying, failing over, rolling back and cancelling implement Lease: a *)
(* call has only contracts cancelled that it knows, leaves an attempt      *)
(* behind only when each of them is cancelled or reported, never ends what *)
(* it returned before its caller asked for that; a cancellation it stopped *)
(* watching may still be included later.                                   *)
KeepsLease == L!LeaseSpec

(* "On failure the per-node deploy path already rolls back any contracts   *)
(* it created" (deploy_with_failover): a failed attempt leaves no contract *)
(* of its own on chain whose cancellation was not even attempted.          *)
FailureLeavesNothing ==
    \A c \in Calls : pc[c] \in {"undone", "failed"} =>
        \A k \in Kinds : chain[ContractOf(c, cand[c], k)] = "created" =>
            ContractOf(c, cand[c], k) \in traced

=============================================================================
