---------------------------- MODULE WorkloadWait ----------------------------
(***************************************************************************)
(* GridClient::wait_for_workloads and workloads_from_get                   *)
(* (grid_client/mod.rs): poll a node until the workloads of one deployment *)
(* settle.                                                                 *)
(*                                                                         *)
(* zos.deployment.changes answers with the history of the deployment, an   *)
(* entry per state a workload has been in; zos.deployment.get with the     *)
(* current state of each workload.  The node goes on working between the   *)
(* two calls of a round.                                                   *)
(***************************************************************************)
EXTENDS Naturals, FiniteSets

CONSTANTS
    Names,       \* names a workload can have
    NoView       \* no reply was examined

ASSUME WaitAssumption == IsFiniteSet(Names) /\ Names # {}

VARIABLES
    workloads,\* names of the deployment's workloads
    state,    \* the node's current state of each workload
    history,  \* the states each workload has been in
    late,     \* the 180 s deadline has passed
    pc,       \* "changes", "get" or "returned"
    view,     \* the last list of workloads the client examined
    result,   \* "none", "settled" (an Ok list), "timeout" or "failed"
    hung      \* the RMB request of this round is never answered

vars == <<workloads, state, history, late, pc, view, result, hung>>

(* "deleted", "paused" and "unchanged" are one case: "stopped".            *)
States == {"init", "ok", "error", "stopped"}
Entries == workloads \X States

(* The reply to zos.deployment.get.                                        *)
Current == {<<w, state[w]>> : w \in workloads}

(* The wait starts on a deployment the node has confirmed; its workloads   *)
(* may have got anywhere, and the node may not report changes yet.         *)
Init ==
    /\ workloads \in SUBSET Names \ {{}}
    /\ state \in [workloads -> {"init", "ok"}]
    /\ history \in {{}, workloads \X {"init"} \union Current}
    /\ late = FALSE
    /\ pc = "changes"
    /\ view = NoView
    /\ result = "none"
    /\ hung = FALSE

-----------------------------------------------------------------------------
(* The node provisions a workload, or it breaks or stops later; a history  *)
(* that is reported at all is complete (external).                         *)
Provision(w, s) ==
    /\ state[w] \in {"init", "ok"} /\ s \notin {state[w], "init"}
    /\ state' = [state EXCEPT ![w] = s]
    /\ UNCHANGED <<workloads, late, pc, view, result, hung>>
    /\ \/ history = {} /\ history' = {}
       \/ history' = history \union (workloads \X {"init"}) \union Current \union Current'

(* The names with an "ok" entry: the keys of ok_workloads.                 *)
OkNames(list) == {w \in workloads : <<w, "ok">> \in list}

(* An "error" or stopped entry ends the scan of the list at once.          *)
Stops(list) == \E e \in list : e[2] \in {"error", "stopped"}

(* Mutants of Settles: ok_workloads is compared otherwise, or not at all.  *)
SettlesAtMostOne(list) == Stops(list) \/ (list # {} /\ Cardinality(OkNames(list)) <= 1)
SettlesOnlyOnStop(list) == Stops(list)

(* The test both functions apply to a list of workloads.                   *)
Settles(list) ==
    \/ Stops(list)
    \/ list # {} /\ Cardinality(OkNames(list)) = 1

(* The clock passes the deadline, at any point of a round.                 *)
Clock ==
    /\ ~late
    /\ late' = TRUE
    /\ UNCHANGED <<workloads, state, history, pc, view, result, hung>>

Return(r) == pc' = "returned" /\ result' = r

(* Mutant of NextRound: the deadline is not looked at.                     *)
NextRoundAlways == pc' = "changes" /\ result' = result

(* Past the deadline the wait times out, before it another round starts.   *)
NextRound ==
    IF late THEN Return("timeout") ELSE pc' = "changes" /\ result' = result

(* One zos.deployment.changes call: a list that settles is returned, an    *)
(* empty one and a retryable error ("not found", relay closed, RMB timeout)*)
(* lead to the deployment itself, any other error is final.                *)
PollChanges ==
    /\ pc = "changes" /\ ~hung
    /\ \/ /\ view' = history
          /\ CASE Settles(history) -> Return("settled")
               [] history = {} -> pc' = "get" /\ result' = result
               [] OTHER -> NextRound
       \/ /\ view' = view
          /\ \/ pc' = "get" /\ result' = result
             \/ Return("failed")
    /\ UNCHANGED <<workloads, state, history, late, hung>>

(* workloads_from_get, and the deadline check after it.                    *)
PollGet ==
    /\ pc = "get" /\ ~hung
    /\ \/ /\ view' = Current
          /\ IF Settles(Current) THEN Return("settled") ELSE NextRound
       \/ /\ view' = view
          /\ NextRound \/ Return("failed")
    /\ UNCHANGED <<workloads, state, history, late, hung>>

(* rmb_call has no deadline for the mutex, the connection and the sends: a *)
(* poll may never end, and the loop looks at its own deadline only between *)
(* polls.                                                                  *)
Hang ==
    /\ pc # "returned" /\ ~hung
    /\ hung' = TRUE
    /\ UNCHANGED <<workloads, state, history, late, pc, view, result>>

Over == (pc = "returned" \/ hung) /\ UNCHANGED vars

Next ==
    \/ PollChanges
    \/ PollGet
    \/ \E w \in workloads : \E s \in States : Provision(w, s)
    \/ Clock
    \/ Hang
    \/ Over

(* Time passes, and a poll that does not hang ends.                        *)
Spec == Init /\ [][Next]_vars /\ WF_vars(PollChanges \/ PollGet) /\ WF_vars(Clock)

-----------------------------------------------------------------------------
(* A list is returned only when it decides something: some workload in it  *)
(* is "ok", in "error" or stopped, never a deployment that is still all    *)
(* "init" and never an empty reply.                                        *)
SettledIsConclusive ==
    result = "settled" => \E e \in view : e[2] # "init"

(* With one workload the wait gives up only on a deployment that, the last *)
(* time it looked, was not up.                                             *)
OneTimeoutMeansNotUp ==
    Cardinality(workloads) = 1 /\ result = "timeout" /\ view # NoView =>
        OkNames(view) # workloads

(* The wait ends, deployed or not, unless one of its polls never does.     *)
WaitEnds == <>(pc = "returned" \/ hung)

(* A wait that is traced as "timed out waiting for deployment changes"     *)
(* was not for a deployment that had been seen up.                         *)
TimeoutMeansNotUp ==
    result = "timeout" /\ view # NoView => OkNames(view) # workloads

=============================================================================
