------------------------- MODULE WorkloadWaitProofs -------------------------
(***************************************************************************)
(* Machine-checked proofs about WorkloadWait, for any set of workloads and *)
(* any course of the node's provisioning.                                  *)
(***************************************************************************)
EXTENDS WorkloadWait, FiniteSetTheorems, TLAPS

(* The inductive invariant.  The test Settles decides between the two ends *)
(* of a wait: what was examined last settles exactly when the wait returned*)
(* it, although the node has moved on since.                               *)
Decided ==
    /\ pc # "returned" => result = "none"
    /\ result = "settled" => Settles(view)
    /\ result # "settled" /\ view # NoView => ~Settles(view)

(* A wait that starts has examined nothing.                                *)
LEMMA InitDecided == Init => Decided
BY DEF Init, Decided

(* An empty list does not settle.                                          *)
LEMMA EmptyIsOpen == ~Settles({})
BY DEF Settles, Stops

(* A step that examines a list and returns it exactly when it settles.     *)
LEMMA ExaminedDecides ==
    ASSUME NEW list, workloads' = workloads, view' = list, result = "none",
           \/ Settles(list) /\ Return("settled")
           \/ ~Settles(list) /\ NextRound
           \/ ~Settles(list) /\ pc' = "get" /\ result' = result
    PROVE  Decided'
<1>1. Settles(view)' => Settles(list)
    BY DEF Settles, Stops, OkNames
<1>2. Settles(list) => Settles(view)'
    BY DEF Settles, Stops, OkNames
<1> QED
    BY <1>1, <1>2 DEF Decided, Return, NextRound

(* A step that examines nothing does not settle.                           *)
LEMMA UnexaminedDecides ==
    ASSUME Decided, workloads' = workloads, view' = view,
           \/ result' = result /\ (pc' # "returned" => result = "none")
           \/ result = "none" /\ (NextRound \/ Return("failed"))
    PROVE  Decided'
<1>1. Settles(view)' <=> Settles(view)
    BY DEF Settles, Stops, OkNames
<1> QED
    BY <1>1 DEF Decided, Return, NextRound

(* Every step preserves Decided.                                           *)
LEMMA NextDecided == Decided /\ [Next]_vars => Decided'
<1> SUFFICES ASSUME Decided, [Next]_vars PROVE Decided'
    OBVIOUS
<1>1. CASE PollChanges
    <2>0. result = "none" /\ workloads' = workloads
        BY <1>1 DEF PollChanges, Decided
    <2>1. CASE /\ view' = history
               /\ CASE Settles(history) -> Return("settled")
                    [] history = {} -> pc' = "get" /\ result' = result
                    [] OTHER -> NextRound
        <3>1. CASE Settles(history)
            <4>1. history # {}
                BY <3>1, EmptyIsOpen
            <4>2. Return("settled")
                BY <2>1, <3>1, <4>1
            <4> QED
                BY <2>0, <2>1, <3>1, <4>2, ExaminedDecides
        <3>2. CASE ~Settles(history)
            <4>1. (pc' = "get" /\ result' = result) \/ NextRound
                BY <2>1, <3>2
            <4> QED
                BY <2>0, <2>1, <3>2, <4>1, ExaminedDecides
        <3> QED
            BY <3>1, <3>2
    <2>2. CASE view' = view /\ ((pc' = "get" /\ result' = result) \/ Return("failed"))
        BY <2>0, <2>2, UnexaminedDecides
    <2> QED
        BY <1>1, <2>1, <2>2 DEF PollChanges
<1>2. CASE PollGet
    <2>0. result = "none" /\ workloads' = workloads
        BY <1>2 DEF PollGet, Decided
    <2>1. CASE view' = Current /\ IF Settles(Current) THEN Return("settled") ELSE NextRound
        <3>1. \/ Settles(Current) /\ Return("settled")
              \/ ~Settles(Current) /\ NextRound
            BY <2>1
        <3>2. PICK list : list = Current
            OBVIOUS
        <3> QED
            BY <2>0, <2>1, <3>1, <3>2, ExaminedDecides
    <2>2. CASE view' = view /\ (NextRound \/ Return("failed"))
        BY <2>0, <2>2, UnexaminedDecides
    <2> QED
        BY <1>2, <2>1, <2>2 DEF PollGet
<1>3. CASE UNCHANGED <<workloads, pc, view, result>>
    BY <1>3, UnexaminedDecides DEF Decided
<1> QED
    BY <1>1, <1>2, <1>3 DEF Next, Provision, Clock, Hang, Over, vars

(* Decided holds throughout.                                               *)
LEMMA DecidedAlways == Spec => []Decided
BY InitDecided, NextDecided, PTL DEF Spec

(* wait_for_workloads answers Ok only with a list in which some workload   *)
(* is beyond "init", for every set of workloads.                           *)
THEOREM SettledDecides == Spec => []SettledIsConclusive
<1>1. Decided => SettledIsConclusive
    <2> SUFFICES ASSUME Settles(view) PROVE \E e \in view : e[2] # "init"
        BY DEF Decided, SettledIsConclusive
    <2>1. CASE Stops(view)
        BY <2>1 DEF Stops
    <2>2. CASE Cardinality(OkNames(view)) = 1
        <3>1. OkNames(view) # {}
            BY <2>2, FS_EmptySet
        <3>2. PICK w \in workloads : <<w, "ok">> \in view
            BY <3>1 DEF OkNames
        <3>3. <<w, "ok">>[2] # "init"
            OBVIOUS
        <3> QED
            BY <3>2, <3>3
    <2> QED
        BY <2>1, <2>2 DEF Settles
<1> QED
    BY <1>1, DecidedAlways, PTL

(* The wait for a deployment with one workload times out only when the     *)
(* last look found that workload not up, however the deadline falls.       *)
THEOREM OneTimesOutDown == Spec => []OneTimeoutMeansNotUp
<1>1. Decided => OneTimeoutMeansNotUp
    <2> SUFFICES ASSUME Cardinality(workloads) = 1, ~Settles(view), OkNames(view) = workloads
                 PROVE  FALSE
        BY DEF Decided, OneTimeoutMeansNotUp
    <2>1. view # {}
        <3>1. workloads # {}
            BY FS_EmptySet
        <3> QED
            BY <3>1 DEF OkNames
    <2> QED
        BY <2>1 DEF Settles
<1> QED
    BY <1>1, DecidedAlways, PTL

=============================================================================
