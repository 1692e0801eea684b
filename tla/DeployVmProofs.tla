--------------------------- MODULE DeployVmProofs ---------------------------
(***************************************************************************)
(* Machine-checked proofs about DeployVm, for any number of calls,         *)
(* candidates, nodes and attempts.                                         *)
(***************************************************************************)
EXTENDS DeployVm, GridProofs

(* A step of a call.                                                       *)
Step(c) ==
    Start(c) \/ CallStep(c) \/ WatchLost(c) \/ Hang(c) \/ StartCancel(c)

-----------------------------------------------------------------------------
(* The inductive invariants.                                               *)

(* A call that works on a contract has one.                                *)
HasCurrent ==
    \A c \in Calls :
        pc[c] \in {"deploy", "confirm", "settle", "readback", "undoCancel",
                   "undoWatch", "cancelCancel", "cancelWatch"}
            => Current(c) # NoContract

(* Call c has not submitted the extrinsic of candidate i and kind k yet.   *)
NotSubmitted(c, i, k) ==
    \/ i > cand[c]
    \/ /\ i = cand[c]
       /\ \/ pc[c] \in {"idle", "submit"} /\ k = kind[c]
          \/ pc[c] \in Deploying \union {"idle"} /\ kind[c] = "network" /\ k = "vm"

(* An extrinsic that was not submitted left no mark on the chain.          *)
Fresh ==
    \A c \in Calls : \A i \in 1 .. Len(Candidates[c]) : \A k \in Kinds :
        NotSubmitted(c, i, k) => chain[ContractOf(c, i, k)] = "none"

Gone(c, k) ==
    created[c][k] # NoContract => chain[created[c][k]] = "cancelled"

Handled(c, k) ==
    created[c][k] # NoContract =>
        chain[created[c][k]] = "cancelled" \/ created[c][k] \in traced

(* What a call has already cancelled, at each point of its two undo loops. *)
Accounted(c) ==
    /\ pc[c] = "idle" => \A k \in Kinds : created[c][k] = NoContract
    /\ pc[c] \in Undoing /\ kind[c] = "network" => Handled(c, "vm")
    /\ pc[c] \in {"undone", "failed"} => \A k \in Kinds : Handled(c, k)
    /\ pc[c] \in Cancelling /\ kind[c] = "network" => Gone(c, "vm")
    /\ pc[c] = "cancelled" => \A k \in Kinds : Gone(c, k)

AllAccounted == \A c \in Calls : Accounted(c)

(* The invariant behind RollbackComplete and CancelledIsGone.              *)
Bookkeeping == TypeOK /\ HasCurrent /\ Fresh /\ AllAccounted

-----------------------------------------------------------------------------
(* Facts about the constants and about single steps.                       *)

(* The contracts two steps submit are the same only if call, candidate and *)
(* kind are.                                                               *)
LEMMA ContractOfInjective ==
    ASSUME NEW c, NEW i, NEW k, NEW cc, NEW ii, NEW kk,
           ContractOf(c, i, k) = ContractOf(cc, ii, kk)
    PROVE  c = cc /\ i = ii /\ k = kk
BY DEF ContractOf

(* Every call has at least one candidate.                                  *)
LEMMA CandidatesNonEmpty ==
    ASSUME NEW c \in Calls
    PROVE  Len(Candidates[c]) \in Nat /\ 1 \in 1 .. Len(Candidates[c])
<1>1. Candidates[c] \in Seq(Nodes) /\ Candidates[c] # <<>>
    BY DeployAssumption
<1> QED
    BY <1>1

(* Every step of a call keeps the state well typed and its contract known. *)
LEMMA CallStepType ==
    ASSUME TypeOK, HasCurrent, NEW c \in Calls, Step(c)
    PROVE  TypeOK' /\ HasCurrent'
<1>a. "network" \in Kinds /\ "vm" \in Kinds /\ FirstKind(c) \in Kinds
    BY DEF Kinds, FirstKind
<1>b. 1 \in 1 .. MaxAttempts
    BY DeployAssumption
<1>c. Nothing \in [Kinds -> Contracts \union {NoContract}]
    BY DEF Nothing
<1>d. pc[c] \in {"deploy", "confirm", "settle", "readback", "undoCancel", "undoWatch",
                "cancelCancel", "cancelWatch"}
         => Current(c) \in Contracts
    BY <1>a DEF TypeOK, HasCurrent, Current
<1> USE <1>a, <1>b, <1>c DEF TypeOK, HasCurrent, Current, Goto, Fail, gridVars
<1>1. CASE Start(c)
    BY <1>1 DEF Start, GridTypeOK, Pcs, Deploying, Finished
<1>2. CASE Submit(c)
    <2>1. GridTypeOK'
        BY <1>2 DEF Submit, GridTypeOK, ChainStates
    <2> QED
        BY <1>2, <2>1 DEF Submit, Pcs, Deploying, Undoing
<1>3. CASE Finalized(c)
    BY <1>3 DEF Finalized, GridTypeOK, Pcs, Deploying, Undoing
<1>4. CASE WatchLost(c)
    <2>1. traced' \in SUBSET Contracts
        BY <1>4, <1>d DEF WatchLost, UndoTraces
    <2>2. pc' \in [Calls -> Pcs] /\ kind' \in [Calls -> Kinds]
        BY <1>4 DEF WatchLost, UndoTraces, UndoNext, Pcs, Undoing, Finished
    <2>3. HasCurrent'
        BY <1>4 DEF WatchLost, UndoTraces, UndoNext
    <2> QED
        BY <1>4, <2>1, <2>2, <2>3 DEF WatchLost, GridTypeOK
<1>5. CASE Lookup(c)
    <2>1. CASE Fail(c)
        BY <2>1, <1>5 DEF Lookup, GridTypeOK, Pcs, Undoing
    <2>2. ASSUME NEW d \in listed, created' = [created EXCEPT ![c][kind[c]] = d],
                 attempt' = [attempt EXCEPT ![c] = 1], Goto(c, "deploy"), kind' = kind,
                 UNCHANGED <<gridVars, cand, sawError, traced, hung>>
          PROVE  TypeOK' /\ HasCurrent'
       <3>1. d \in Contracts /\ d # NoContract
            BY DeployAssumption DEF GridTypeOK
       <3>2. created' \in [Calls -> [Kinds -> Contracts \union {NoContract}]]
            BY <2>2, <3>1
       <3>3. pc' \in [Calls -> Pcs]
            BY <2>2 DEF Pcs, Deploying
       <3>4. HasCurrent'
            BY <2>2, <3>1
       <3>5. QED BY <2>2, <3>2, <3>3, <3>4 DEF GridTypeOK
    <2> QED
        BY <1>5, <2>1, <2>2 DEF Lookup, Matching
<1>6. CASE Deploy(c)
    <2>1. GridTypeOK'
        BY <1>6, <1>d DEF Deploy, Hosted, GridTypeOK, ZosStates
    <2> QED
        BY <1>6, <2>1 DEF Deploy, Pcs, Deploying
<1>7. CASE Confirm(c)
    <2>1. attempt' \in [Calls -> 1 .. MaxAttempts]
        <3>1. CASE attempt' = attempt
            BY <3>1
        <3>2. CASE /\ attempt[c] < MaxAttempts
                   /\ attempt' = [attempt EXCEPT ![c] = attempt[c] + 1]
            <4>1. attempt[c] + 1 \in 1 .. MaxAttempts
                BY <3>2, DeployAssumption
            <4> QED
                BY <3>2, <4>1
        <3> QED
            BY <1>7, <3>1, <3>2 DEF Confirm
    <2>2. HasCurrent' 
       BY <1>7 DEF Confirm
    <2>3. pc' \in [Calls -> Pcs] /\ kind' \in [Calls -> Kinds]
        BY <1>7 DEF Confirm, Pcs, Deploying, Undoing
    <2> QED
        BY <1>7, <2>1, <2>2, <2>3 DEF Confirm, GridTypeOK
<1>8. CASE Settle(c)
    <2>2. HasCurrent' 
       BY <1>8 DEF Settle
    <2> QED 
    BY <1>8, <2>2 DEF Settle, GridTypeOK, Pcs, Deploying, Undoing
<1>9. CASE ReadBack(c)
    BY <1>9 DEF ReadBack, GridTypeOK, Pcs, Undoing, Finished
<1>10. CASE UndoDelete(c)
    <2>1. GridTypeOK'
        BY <1>10 DEF UndoDelete, DeleteOnNode, GridTypeOK, ZosStates
    <2> QED
        BY <1>10, <2>1 DEF UndoDelete, Pcs, Undoing
<1>11. CASE UndoCancel(c)
    <2>1. GridTypeOK' /\ traced' \in SUBSET Contracts
        BY <1>11, <1>d DEF UndoCancel, UndoTraces, GridTypeOK
    <2>2. pc' \in [Calls -> Pcs] /\ kind' \in [Calls -> Kinds]
        BY <1>11 DEF UndoCancel, UndoTraces, UndoNext, Pcs, Undoing
    <2>3. HasCurrent'
        BY <1>11 DEF UndoCancel, UndoTraces, UndoNext
    <2> QED
        BY <1>11, <2>1, <2>2, <2>3 DEF UndoCancel
<1>16. CASE UndoWatch(c)
    <2>1. traced' \in SUBSET Contracts
        BY <1>16, <1>d DEF UndoWatch, UndoTraces
    <2>2. pc' \in [Calls -> Pcs] /\ kind' \in [Calls -> Kinds]
        BY <1>16 DEF UndoWatch, UndoTraces, UndoNext, Pcs, Undoing
    <2>3. HasCurrent'
        BY <1>16 DEF UndoWatch, UndoTraces, UndoNext
    <2> QED
        BY <1>16, <2>1, <2>2, <2>3 DEF UndoWatch, GridTypeOK
<1>12. CASE Advance(c)
    <2>1. CASE cand[c] < Len(Candidates[c])
       <3>1. cand' = [cand EXCEPT ![c] = cand[c] + 1]
         BY <1>12, <2>1 DEF Advance
       <3>2. cand' \in [Calls -> Nat] /\ \A x \in Calls : cand'[x] \in 1 .. Len(Candidates[x])
         BY <2>1, <3>1, CandidatesNonEmpty
       <3>3. created' \in [Calls -> [Kinds -> Contracts \union {NoContract}]]
         BY <1>12, <2>1 DEF Advance
       <3>4. QED BY <1>12, <2>1, <3>2, <3>3 DEF Advance, GridTypeOK, Pcs, Deploying
    <2>2. CASE ~(cand[c] < Len(Candidates[c]))
       BY <1>12, <2>2 DEF Advance, GridTypeOK, Pcs, Finished
    <2> QED
        BY <2>1, <2>2
<1>13. CASE StartCancel(c)
    BY <1>13 DEF StartCancel, GridTypeOK, Pcs, Cancelling
<1>14. CASE CancelDelete(c)
    <2>1. GridTypeOK'
        BY <1>14 DEF CancelDelete, DeleteOnNode, GridTypeOK, ZosStates
    <2> QED
        BY <1>14, <2>1 DEF CancelDelete, Pcs, Cancelling, Finished
<1>15. CASE CancelCancel(c)
    <2>1. GridTypeOK'
        BY <1>15, <1>d DEF CancelCancel, GridTypeOK
    <2> QED
        BY <1>15, <2>1 DEF CancelCancel, Pcs, Cancelling, Finished
<1>17. CASE CancelWatch(c)
    <2>1. pc' \in [Calls -> Pcs]
        BY <1>17 DEF CancelWatch, CancelNext, Pcs, Cancelling, Finished
    <2>2. kind' \in [Calls -> Kinds]
        BY <1>17 DEF CancelWatch, CancelNext
    <2>3. HasCurrent'
        BY <1>17 DEF CancelWatch, CancelNext
    <2> QED
        BY <1>17, <2>1, <2>2, <2>3 DEF CancelWatch, GridTypeOK
<1>18. CASE Hang(c)
    BY <1>18 DEF Hang, GridTypeOK
<1> QED
    BY <1>1, <1>2, <1>3, <1>4, <1>5, <1>6, <1>7, <1>8, <1>9, <1>10, <1>11, <1>12,
       <1>13, <1>14, <1>15, <1>16, <1>17, <1>18 DEF Step, CallStep

(* A step of one call leaves the other calls alone.                        *)
LEMMA CallStepFrame ==
    ASSUME TypeOK, NEW c \in Calls, NEW x \in Calls, x # c, Step(c)
    PROVE  /\ pc'[x] = pc[x] /\ kind'[x] = kind[x]
           /\ cand'[x] = cand[x] /\ created'[x] = created[x]
<1> USE DEF TypeOK, Goto, Fail
<1>1. CASE Start(c) \/ Submit(c) \/ Finalized(c) \/ Lookup(c) \/ Deploy(c) \/ Hang(c)
    BY <1>1 DEF Start, Submit, Finalized, Lookup, Deploy, Hang
<1>2. CASE Confirm(c) \/ Settle(c) \/ ReadBack(c) \/ UndoDelete(c) \/ Advance(c)
    BY <1>2 DEF Confirm, Settle, ReadBack, UndoDelete, Advance
<1>3. CASE UndoCancel(c) \/ UndoWatch(c) \/ WatchLost(c)
    BY <1>3 DEF UndoCancel, UndoWatch, WatchLost, UndoTraces, UndoNext
<1>4. CASE StartCancel(c) \/ CancelDelete(c) \/ CancelCancel(c) \/ CancelWatch(c)
    BY <1>4 DEF StartCancel, CancelDelete, CancelCancel, CancelWatch, CancelNext
<1> QED
    BY <1>1, <1>2, <1>3, <1>4 DEF Step, CallStep

(* A call's step pools the extrinsic it submits and asks for the           *)
(* cancellation of what it works on; what was traced stays traced.         *)
LEMMA CallStepChain ==
    ASSUME TypeOK, HasCurrent, NEW c \in Calls, Step(c)
    PROVE  /\ traced \subseteq traced'
           /\ \A d \in Contracts :
                 \/ chain'[d] = chain[d]
                 \/ Submit(c) /\ d = Submitted(c) /\ chain'[d] = "pooled"
           /\ \/ cancelling' = cancelling
              \/ /\ UndoCancel(c) \/ CancelCancel(c)
                 /\ cancelling' = cancelling \union {Current(c)}
<1> USE DEF TypeOK, GridTypeOK, gridVars
<1>1. CASE Submit(c)
    BY <1>1 DEF Submit
<1>2. CASE UndoCancel(c)
    BY <1>2 DEF UndoCancel, UndoTraces
<1>3. CASE CancelCancel(c)
    BY <1>3 DEF CancelCancel
<1>4. CASE UndoWatch(c) \/ WatchLost(c)
    BY <1>4 DEF UndoWatch, WatchLost, UndoTraces
<1>5. CASE UNCHANGED <<chain, traced, cancelling>>
    BY <1>5
<1> QED
    BY <1>1, <1>2, <1>3, <1>4, <1>5 DEF Step, CallStep, Start, Finalized, Lookup, Deploy,
       Confirm, Settle, ReadBack, UndoDelete, Advance, StartCancel, CancelDelete,
       CancelWatch, Hang

(* Where a call stands in its undo loops survives the steps of others.     *)
LEMMA AccountedFrame ==
    ASSUME TypeOK, NEW x \in Calls, Accounted(x),
           pc'[x] = pc[x], kind'[x] = kind[x], created'[x] = created[x],
           traced \subseteq traced',
           \A d \in Contracts : chain[d] = "cancelled" => chain'[d] = "cancelled"
    PROVE  Accounted(x)'
BY DEF TypeOK, Kinds, Accounted, Gone, Handled

-----------------------------------------------------------------------------
(* Bookkeeping is inductive.                                               *)

(* Bookkeeping holds before any call has started.                          *)
LEMMA InitBookkeeping == Init => Bookkeeping
<1> SUFFICES ASSUME Init PROVE Bookkeeping
    OBVIOUS
<1>1. TypeOK
    <2>1. GridTypeOK
        BY DEF Init, GridInit, GridTypeOK, ChainStates, ZosStates
    <2>2. pc \in [Calls -> Pcs] /\ kind \in [Calls -> Kinds]
        BY DEF Init, Pcs, Kinds, FirstKind
    <2>3. cand \in [Calls -> Nat] /\ \A c \in Calls : cand[c] \in 1 .. Len(Candidates[c])
        BY CandidatesNonEmpty DEF Init
    <2>4. attempt \in [Calls -> 1 .. MaxAttempts]
        BY DeployAssumption DEF Init
    <2> QED
        BY <2>1, <2>2, <2>3, <2>4 DEF Init, TypeOK, Nothing
<1>2. HasCurrent
    BY DEF Init, HasCurrent
<1>3. Fresh
    BY DeployAssumption DEF Init, GridInit, Fresh
<1>4. AllAccounted
    BY DEF Init, AllAccounted, Accounted, Nothing, Undoing, Cancelling
<1> QED
    BY <1>1, <1>2, <1>3, <1>4 DEF Bookkeeping

(* Only the step that submits an extrinsic ends its freshness.             *)
LEMMA CallStepFresh ==
    ASSUME Bookkeeping, NEW c \in Calls, TypeOK', Step(c)
    PROVE  Fresh'
<1> SUFFICES ASSUME NEW x \in Calls, NEW i \in 1 .. Len(Candidates[x]),
                    NEW k \in Kinds, NotSubmitted(x, i, k)'
             PROVE  chain'[ContractOf(x, i, k)] = "none"
    BY DEF Fresh
<1>1. ContractOf(x, i, k) \in Contracts
    BY DeployAssumption
<1>2. NotSubmitted(x, i, k)
    <2>1. CASE x # c
        BY <2>1, CallStepFrame DEF Bookkeeping, NotSubmitted
    <2>2. CASE x = c
        <3> USE <2>2 DEF Bookkeeping, TypeOK, NotSubmitted, Goto, Fail
        <3>1. CASE Advance(c)
            <4>1. CASE cand' = [cand EXCEPT ![c] = cand[c] + 1]
                <5>1. cand'[c] = cand[c] + 1 /\ cand[c] \in Nat /\ i \in Nat
                    BY <4>1, CandidatesNonEmpty
                <5>2. i >= cand'[c]
                    BY <5>1
                <5> QED
                    BY <5>1, <5>2
            <4>2. CASE pc' = [pc EXCEPT ![c] = "failed"] /\ UNCHANGED <<cand, kind>>
                BY <4>2 DEF Deploying
            <4> QED
                BY <3>1, <4>1, <4>2 DEF Advance
        <3>2. CASE Start(c)
            BY <3>2 DEF Start, Deploying
        <3>3. CASE Settle(c)
            BY <3>3 DEF Settle, Deploying
        <3>4. CASE Submit(c) \/ Finalized(c) \/ Lookup(c) \/ Deploy(c)
            BY <3>4 DEF Submit, Finalized, Lookup, Deploy, Deploying
        <3>5. CASE Confirm(c) \/ ReadBack(c) \/ Hang(c)
            BY <3>5 DEF Confirm, ReadBack, Hang, Deploying
        <3>6. CASE UndoDelete(c) \/ UndoCancel(c) \/ UndoWatch(c) \/ WatchLost(c)
            BY <3>6 DEF UndoDelete, UndoCancel, UndoWatch, WatchLost, UndoTraces, UndoNext,
               Deploying
        <3>7. CASE StartCancel(c) \/ CancelDelete(c) \/ CancelCancel(c) \/ CancelWatch(c)
            BY <3>7 DEF StartCancel, CancelDelete, CancelCancel, CancelWatch, CancelNext,
               Deploying
        <3> QED
            BY <3>1, <3>2, <3>3, <3>4, <3>5, <3>6, <3>7 DEF Step, CallStep
    <2> QED
        BY <2>1, <2>2
<1>3. chain[ContractOf(x, i, k)] = "none"
    BY <1>2 DEF Bookkeeping, Fresh
<1>4. ~(/\ Submit(c)
        /\ ContractOf(x, i, k) = Submitted(c)
        /\ chain'[ContractOf(x, i, k)] = "pooled")
    <2> SUFFICES ASSUME Submit(c), ContractOf(x, i, k) = Submitted(c),
                        chain'[ContractOf(x, i, k)] = "pooled"
                 PROVE  FALSE
        OBVIOUS
    <2>1. x = c /\ i = cand[c] /\ k = kind[c]
        BY ContractOfInjective DEF Submitted
    <2>2. pc'[c] = "finalize" /\ kind' = kind /\ cand' = cand
        BY <1>3 DEF Submit, Goto, Bookkeeping, TypeOK
    <2> QED
        BY <2>1, <2>2 DEF NotSubmitted, Bookkeeping, TypeOK
<1> QED
    BY <1>1, <1>3, <1>4, CallStepChain DEF Bookkeeping

(* Each step of the undo loops records what it has dealt with.             *)
LEMMA CallStepAccounted ==
    ASSUME Bookkeeping, NEW c \in Calls, TypeOK', Step(c)
    PROVE  AllAccounted'
<1>1. \A d \in Contracts : chain[d] = "cancelled" => chain'[d] = "cancelled"
    <2> SUFFICES ASSUME NEW d \in Contracts, chain[d] = "cancelled"
                 PROVE  chain'[d] = "cancelled"
        OBVIOUS
    <2>1. ~(Submit(c) /\ d = Submitted(c))
        <3> SUFFICES ASSUME Submit(c), d = Submitted(c) PROVE FALSE
            OBVIOUS
        <3>1. NotSubmitted(c, cand[c], kind[c])
            BY DEF Submit, NotSubmitted
        <3> QED
            BY <3>1 DEF Bookkeeping, TypeOK, Fresh, Submitted
    <2> QED
        BY <2>1, CallStepChain DEF Bookkeeping
<1>2. traced \subseteq traced'
    BY CallStepChain DEF Bookkeeping
<1>3. ASSUME NEW x \in Calls, x # c PROVE Accounted(x)'
    BY <1>1, <1>2, <1>3, CallStepFrame, AccountedFrame DEF Bookkeeping, AllAccounted
<1>4. Accounted(c)'
    <2>a. Accounted(c) /\ TypeOK /\ HasCurrent
        BY DEF Bookkeeping, AllAccounted
    <2> USE <2>a, <1>1, <1>2 DEF TypeOK, Accounted, Handled, Gone, Goto, Fail,
            Undoing, Cancelling, Kinds
    <2>1. CASE Start(c) \/ Submit(c) \/ Finalized(c) \/ Hang(c)
        BY <2>1 DEF Start, Submit, Finalized, Hang
    <2>2. CASE Lookup(c) \/ Deploy(c) \/ Confirm(c)
        BY <2>2 DEF Lookup, Deploy, Confirm
    <2>3. CASE Settle(c) \/ ReadBack(c)
        BY <2>3 DEF Settle, ReadBack
    <2>4. CASE UndoDelete(c)
        BY <2>4 DEF UndoDelete, Current
    <2>5. CASE UndoCancel(c)
        BY <2>5 DEF UndoCancel, UndoTraces, UndoNext, Current
    <2>6. CASE UndoWatch(c)
        BY <2>6 DEF UndoWatch, UndoTraces, UndoNext, Current, gridVars
    <2>7. CASE WatchLost(c)
        BY <2>7 DEF WatchLost, UndoTraces, UndoNext, Current
    <2>8. CASE Advance(c)
        BY <2>8 DEF Advance, gridVars
    <2>9. CASE StartCancel(c)
        BY <2>9 DEF StartCancel
    <2>10. CASE CancelDelete(c)
        BY <2>10 DEF CancelDelete, Current
    <2>11. CASE CancelCancel(c)
        BY <2>11 DEF CancelCancel
    <2>12. CASE CancelWatch(c)
        BY <2>12 DEF CancelWatch, CancelNext, Current, gridVars
    <2> QED
        BY <2>1, <2>2, <2>3, <2>4, <2>5, <2>6, <2>7, <2>8, <2>9, <2>10, <2>11, <2>12
           DEF Step, CallStep
<1> QED
    BY <1>3, <1>4 DEF AllAccounted

(* Every step of a call or of the outside world preserves Bookkeeping.     *)
LEMMA NextBookkeeping == Bookkeeping /\ [Next]_vars => Bookkeeping'
<1> SUFFICES ASSUME Bookkeeping, [Next]_vars PROVE Bookkeeping'
    OBVIOUS
<1>1. ASSUME NEW c \in Calls, Step(c)
      PROVE  Bookkeeping'
    <2>1. TypeOK' /\ HasCurrent'
        BY <1>1, CallStepType DEF Bookkeeping
    <2>2. Fresh'
        BY <1>1, <2>1, CallStepFresh
    <2>3. AllAccounted'
        BY <1>1, <2>1, CallStepAccounted
    <2> QED
        BY <2>1, <2>2, <2>3 DEF Bookkeeping
<1>2. ASSUME NEW d \in Contracts, WorldStep(d)
      PROVE  Bookkeeping'
    <2>1. GridTypeOK' /\ UNCHANGED callVars
        BY <1>2, GridStepType DEF WorldStep, Bookkeeping, TypeOK
    <2>2. TypeOK' /\ HasCurrent'
        BY <2>1 DEF callVars, Bookkeeping, TypeOK, HasCurrent, Current
    <2>3. \A e \in Contracts :
             /\ chain[e] = "cancelled" => chain'[e] = "cancelled"
             /\ chain[e] = "none" => chain'[e] = "none"
        BY <1>2, GridStepChain DEF WorldStep, Bookkeeping, TypeOK
    <2>4. Fresh'
        BY <2>1, <2>3, DeployAssumption DEF callVars, Bookkeeping, Fresh, NotSubmitted
    <2>5. ASSUME NEW x \in Calls PROVE Accounted(x)'
        <3>1. /\ pc'[x] = pc[x] /\ kind'[x] = kind[x] /\ created'[x] = created[x]
              /\ traced \subseteq traced'
            BY <2>1 DEF callVars
        <3> QED
            BY <3>1, <2>3, AccountedFrame DEF Bookkeeping, AllAccounted
    <2> QED
        BY <2>2, <2>4, <2>5 DEF Bookkeeping, AllAccounted
<1>3. CASE UNCHANGED vars
    BY <1>3 DEF vars, gridVars, callVars, Bookkeeping, TypeOK, GridTypeOK, HasCurrent,
       Current, Fresh, NotSubmitted, AllAccounted, Accounted, Handled, Gone
<1> QED
    BY <1>1, <1>2, <1>3 DEF Next, Step, AllFinished

(* The state of the client and of its surroundings stays well typed; in    *)
(* particular no step ever deploys, traces or looks up contract id 0.      *)
THEOREM TypeCorrect == Spec => []TypeOK
<1>1. Bookkeeping => TypeOK
    BY DEF Bookkeeping
<1> QED
    BY <1>1, InitBookkeeping, NextBookkeeping, PTL DEF Spec

(* rollback_contracts is complete for every call, whatever fails and       *)
(* whatever other calls do: a failed attempt's known contracts are all     *)
(* cancelled, or traced as not cancelled.  No assumption on hashes.        *)
THEOREM RollbackIsComplete == Spec => []RollbackComplete
<1>1. Bookkeeping => RollbackComplete
    BY DEF Bookkeeping, AllAccounted, Accounted, Handled, RollbackComplete
<1> QED
    BY <1>1, InitBookkeeping, NextBookkeeping, PTL DEF Spec

(* An Ok from cancel_deployment_outcome means that nothing of the outcome  *)
(* is left on chain, however many retries it took.                         *)
THEOREM CancelIsComplete == Spec => []CancelledIsGone
<1>1. Bookkeeping => CancelledIsGone
    BY DEF Bookkeeping, AllAccounted, Accounted, Gone, CancelledIsGone
<1> QED
    BY <1>1, InitBookkeeping, NextBookkeeping, PTL DEF Spec


-----------------------------------------------------------------------------
(* What a call knows of, whatever the hashes are.                          *)

Seeking == {"idle", "submit", "finalize", "lookup"}

(* A call never knows the contract it is looking for, nor a VM contract    *)
(* while it deploys the network; what it returns has a VM contract, and a  *)
(* network contract if it makes the network.                               *)
Knows(c) ==
    /\ pc[c] \in Seeking => Current(c) = NoContract
    /\ pc[c] = "idle" => kind[c] = FirstKind(c)
    /\ pc[c] \in Deploying \union {"idle"} /\ kind[c] = "network" =>
          c \in CreatesNetwork /\ created[c]["vm"] = NoContract
    /\ c \notin CreatesNetwork => created[c]["network"] = NoContract
    /\ pc[c] \in Deploying \union {"returned"} /\ kind[c] = "vm" /\ c \in CreatesNetwork =>
          created[c]["network"] # NoContract
    /\ pc[c] \in {"readback", "returned"} => kind[c] = "vm"
    /\ pc[c] \in Cancelling \union {"returned", "cancelFailed"} =>
          created[c]["vm"] # NoContract

(* The invariant behind KeepsLease.                                        *)
LeaseInv == Bookkeeping /\ \A c \in Calls : Knows(c)

(* A call's steps preserve what it knows.                                  *)
LEMMA CallStepKnows ==
    ASSUME LeaseInv, NEW c \in Calls, Step(c)
    PROVE  Knows(c)'
<1>a. /\ TypeOK /\ GridTypeOK /\ Knows(c) /\ Accounted(c) /\ HasCurrent
      /\ kind[c] \in {"network", "vm"}
      /\ created[c] \in [Kinds -> Contracts \union {NoContract}]
    BY DEF LeaseInv, Bookkeeping, AllAccounted, TypeOK, Kinds
<1> USE <1>a DEF Knows, Seeking, Deploying, Cancelling, Current, Goto, Fail, TypeOK, Kinds
<1>1. CASE Start(c) \/ Submit(c)
    BY <1>1 DEF Start, Submit, FirstKind
<1>2. CASE Finalized(c) \/ Hang(c)
    BY <1>2 DEF Finalized, Hang
<1>3. CASE Lookup(c)
    BY <1>3, DeployAssumption DEF Lookup, Matching, GridTypeOK
<1>4. CASE Deploy(c) \/ Confirm(c)
    BY <1>4 DEF Deploy, Confirm
<1>5. CASE Settle(c)
    BY <1>5 DEF Settle, HasCurrent
<1>6. CASE ReadBack(c)
    BY <1>6 DEF ReadBack, HasCurrent
<1>7. CASE UndoDelete(c) \/ UndoCancel(c)
    BY <1>7 DEF UndoDelete, UndoCancel, UndoTraces, UndoNext
<1>8. CASE UndoWatch(c) \/ WatchLost(c)
    BY <1>8 DEF UndoWatch, WatchLost, UndoTraces, UndoNext
<1>9. CASE Advance(c)
    <2>1. \/ pc'[c] = "failed" /\ created'[c] = created[c]
          \/ pc'[c] = "submit" /\ created'[c] = Nothing /\ kind'[c] = FirstKind(c)
        BY <1>9 DEF Advance
    <2> QED
        BY <2>1 DEF Nothing, FirstKind
<1>10. CASE StartCancel(c) \/ CancelDelete(c)
    BY <1>10 DEF StartCancel, CancelDelete
<1>11. CASE CancelCancel(c) \/ CancelWatch(c)
    BY <1>11 DEF CancelCancel, CancelWatch, CancelNext
<1> QED
    BY <1>1, <1>2, <1>3, <1>4, <1>5, <1>6, <1>7, <1>8, <1>9, <1>10, <1>11 DEF Step, CallStep

(* LeaseInv holds before any call has started.                             *)
LEMMA InitLeaseInv == Init => LeaseInv
BY InitBookkeeping DEF LeaseInv, Init, Knows, Seeking, Cancelling, Deploying, Current,
   FirstKind, Nothing, Kinds

(* Every step preserves LeaseInv.                                          *)
LEMMA NextLeaseInv == LeaseInv /\ [Next]_vars => LeaseInv'
<1> SUFFICES ASSUME LeaseInv, [Next]_vars, NEW x \in Calls
             PROVE  Knows(x)'
    BY NextBookkeeping DEF LeaseInv
<1>1. ASSUME NEW c \in Calls, Step(c)
      PROVE  Knows(x)'
    <2>1. CASE x = c
        BY <1>1, <2>1, CallStepKnows
    <2>2. CASE x # c
        BY <1>1, <2>2, CallStepFrame DEF LeaseInv, Bookkeeping, Knows, Current
    <2> QED
        BY <2>1, <2>2
<1>2. CASE UNCHANGED callVars
    BY <1>2 DEF LeaseInv, Knows, Current, callVars
<1> QED
    BY <1>1, <1>2 DEF Next, Step, WorldStep, AllFinished, vars

-----------------------------------------------------------------------------
(* Who may take a contract away.                                           *)

(* grid_proxy lists, and the chain is asked to cancel, only contracts that *)
(* were on chain.                                                          *)
ListedIncluded == \A d \in listed : chain[d] \in {"created", "cancelled"}
PendingIncluded == \A d \in cancelling : chain[d] \in {"created", "cancelled"}

(* A call's lookup returned a contract that was on chain and that looks    *)
(* like the one it submitted.                                              *)
Matched(c) ==
    \A k \in Kinds : created[c][k] # NoContract =>
        /\ Alike(created[c][k], ContractOf(c, cand[c], k))
        /\ chain[created[c][k]] \in {"created", "cancelled"}

Touched(d) == d \in cancelling \/ chain[d] = "cancelled"

(* The attempt is being undone or the outcome given up, or that is over.   *)
LettingGo == Undoing \union Cancelling \union {"undone", "failed", "cancelFailed", "cancelled"}

(* A contract whose hash is its own is touched by the call that made it,   *)
(* when it lets go of it, and a network only once the VM is dealt with;    *)
(* until then the node hosts what the call has seen settled.               *)
Keeps(c) ==
    \A k \in Kinds :
        LET d == ContractOf(c, cand[c], k)
        IN  OwnHash(d) =>
              /\ Touched(d) => /\ pc[c] \in LettingGo
                               /\ k = "network" => Handled(c, "vm")
              /\ /\ pc[c] \in Deploying \union {"returned"}
                 /\ created[c][k] # NoContract
                 /\ kind[c] # k \/ pc[c] = "returned"
                 => zos[d] # "absent"

(* The invariant behind OutcomeIsLive and NetworkOutlivesVm.               *)
Ownership ==
    /\ LeaseInv
    /\ ListedIncluded /\ PendingIncluded
    /\ \A c \in Calls : Matched(c) /\ Keeps(c)

(* Ownership holds before any call has started.                            *)
LEMMA InitOwnership == Init => Ownership
<1> SUFFICES ASSUME Init PROVE Ownership
    OBVIOUS
<1>1. \A c \in Calls : \A k \in Kinds :
          created[c][k] = NoContract /\ ContractOf(c, cand[c], k) \in Contracts
    BY InitBookkeeping, DeployAssumption DEF Bookkeeping, TypeOK, Init, Nothing
<1>2. \A c \in Calls : Matched(c) /\ Keeps(c)
    BY <1>1 DEF Init, GridInit, Matched, Keeps, Touched
<1> QED
    BY <1>2, InitLeaseInv DEF Init, GridInit, Ownership, ListedIncluded, PendingIncluded

(* What a call found under a hash that is its own is what it submitted.    *)
LEMMA FoundIsOwn ==
    ASSUME Ownership, NEW c \in Calls, NEW k \in Kinds, created[c][k] # NoContract,
           NEW d \in Contracts, OwnHash(d),
           d = created[c][k] \/ d = ContractOf(c, cand[c], k)
    PROVE  created[c][k] = d /\ ContractOf(c, cand[c], k) = d
<1>1. ContractOf(c, cand[c], k) \in Contracts /\ created[c][k] \in Contracts
    BY DeployAssumption DEF Ownership, LeaseInv, Bookkeeping, TypeOK
<1>2. Alike(created[c][k], ContractOf(c, cand[c], k))
    BY DEF Ownership, Matched
<1> QED
    BY <1>1, <1>2, AlikeOwn

(* An extrinsic is submitted once: what is on chain was submitted before.  *)
LEMMA SubmitIsFresh ==
    ASSUME Bookkeeping, NEW c \in Calls, Submit(c)
    PROVE  chain[Submitted(c)] = "none"
<1>1. NotSubmitted(c, cand[c], kind[c])
    BY DEF Submit, NotSubmitted
<1> QED
    BY <1>1 DEF Bookkeeping, TypeOK, Fresh, Submitted

(* No step takes a contract off the chain's books.                         *)
LEMMA NextIncluded ==
    ASSUME Bookkeeping, [Next]_vars, NEW d \in Contracts
    PROVE  /\ chain[d] \in {"created", "cancelled"} => chain'[d] \in {"created", "cancelled"}
           /\ chain[d] = "cancelled" => chain'[d] = "cancelled"
<1>1. ASSUME NEW c \in Calls, Step(c)
      PROVE  chain[d] \in {"created", "cancelled"} => chain'[d] = chain[d]
    BY <1>1, CallStepChain, SubmitIsFresh DEF Bookkeeping
<1>2. ASSUME NEW e \in Contracts, WorldStep(e)
      PROVE  \/ chain'[d] = chain[d]
             \/ chain[d] = "pooled"
             \/ chain[d] = "created" /\ chain'[d] = "cancelled"
    BY <1>2, GridStepChain DEF WorldStep, Bookkeeping, TypeOK
<1>3. CASE UNCHANGED vars
    BY <1>3 DEF vars, gridVars
<1> QED
    BY <1>1, <1>2, <1>3 DEF Next, Step, AllFinished

(* The listing and the pending cancellations keep to what was on chain.    *)
LEMMA NextListed ==
    ASSUME Ownership, [Next]_vars
    PROVE  ListedIncluded' /\ PendingIncluded'
<1>a. /\ Bookkeeping /\ TypeOK /\ GridTypeOK /\ HasCurrent
      /\ listed \subseteq Contracts /\ cancelling \subseteq Contracts
      /\ \A d \in listed \union cancelling : chain[d] \in {"created", "cancelled"}
    BY DEF Ownership, LeaseInv, Bookkeeping, TypeOK, GridTypeOK, ListedIncluded,
       PendingIncluded
<1>b. \A d \in Contracts : chain[d] \in {"created", "cancelled"}
                              => chain'[d] \in {"created", "cancelled"}
    BY <1>a, NextIncluded
<1>1. ASSUME NEW c \in Calls, Step(c)
      PROVE  ListedIncluded' /\ PendingIncluded'
    <2>1. listed' = listed
        BY <1>1 DEF Step, CallStep, Start, Submit, Finalized, WatchLost, Lookup, Deploy,
           Confirm, Settle, ReadBack, UndoDelete, UndoCancel, UndoWatch, Advance, StartCancel,
           CancelDelete, CancelCancel, CancelWatch, Hang, gridVars
    <2>2. ASSUME NEW d \in cancelling', d \notin cancelling
          PROVE  d \in Contracts /\ chain[d] \in {"created", "cancelled"}
        <3>1. d = Current(c) /\ pc[c] \in {"undoCancel", "cancelCancel"}
            BY <1>a, <1>1, <2>2, CallStepChain DEF UndoCancel, CancelCancel
        <3>2. kind[c] \in Kinds /\ d = created[c][kind[c]] /\ d # NoContract
            BY <1>a, <3>1 DEF HasCurrent, Current, TypeOK
        <3>3. d \in Contracts
            BY <1>a, <3>2 DEF TypeOK
        <3> QED
            BY <3>2, <3>3 DEF Ownership, Matched
    <2> QED
        BY <1>a, <1>b, <2>1, <2>2 DEF ListedIncluded, PendingIncluded
<1>2. ASSUME NEW e \in Contracts, WorldStep(e)
      PROVE  ListedIncluded' /\ PendingIncluded'
    <2>1. GridStep(e)
        BY <1>2 DEF WorldStep
    <2>2. cancelling' \subseteq cancelling
        BY <1>a, <2>1, GridStepChain
    <2>3. \A d \in listed' : d \in listed \/ (chain[d] = "created" /\ chain' = chain)
        BY <1>a, <2>1, GridStepListed
    <2> QED
        BY <1>a, <1>b, <2>2, <2>3 DEF ListedIncluded, PendingIncluded
<1>3. CASE UNCHANGED vars
    BY <1>a, <1>3 DEF vars, gridVars, ListedIncluded, PendingIncluded
<1> QED
    BY <1>1, <1>2, <1>3 DEF Next, Step, AllFinished

(* What a call found keeps looking like what it submitted.                 *)
LEMMA NextMatched ==
    ASSUME Ownership, [Next]_vars, NEW x \in Calls
    PROVE  Matched(x)'
<1>a. /\ Bookkeeping /\ TypeOK /\ GridTypeOK /\ Matched(x)
      /\ created[x] \in [Kinds -> Contracts \union {NoContract}]
      /\ \A d \in Contracts : chain[d] \in {"created", "cancelled"}
                              => chain'[d] \in {"created", "cancelled"}
    BY NextIncluded DEF Ownership, LeaseInv, Bookkeeping, TypeOK
<1>b. ASSUME created'[x] = created[x], cand'[x] = cand[x]
      PROVE  Matched(x)'
    <2> SUFFICES ASSUME NEW k \in Kinds, created[x][k] # NoContract
                 PROVE  /\ Alike(created[x][k], ContractOf(x, cand[x], k))
                        /\ chain'[created[x][k]] \in {"created", "cancelled"}
        BY <1>b DEF Matched, Alike
    <2> QED
        BY <1>a DEF Matched
<1>1. ASSUME NEW c \in Calls, Step(c)
      PROVE  Matched(x)'
    <2>1. CASE x # c
        BY <1>a, <1>b, <1>1, <2>1, CallStepFrame
    <2>2. CASE x = c /\ Lookup(c)
        <3>1. CASE UNCHANGED <<created, cand>>
            BY <1>b, <3>1
        <3>2. ASSUME NEW d \in Matching(Candidates[c][cand[c]], HashOf[Submitted(c)]),
                     created' = [created EXCEPT ![c][kind[c]] = d],
                     UNCHANGED <<gridVars, cand>>
              PROVE  Matched(x)'
            <4>1. d \in listed /\ d \in Contracts /\ chain[d] \in {"created", "cancelled"}
                BY <1>a, <3>2 DEF Matching, GridTypeOK, Ownership, ListedIncluded
            <4>2. kind[c] \in Kinds /\ cand[c] \in 1 .. Len(Candidates[c])
                BY <1>a DEF TypeOK
            <4>3. NodeOf[Submitted(c)] = Candidates[c][cand[c]]
                BY <4>2, DeployAssumption DEF Submitted
            <4>4. Alike(d, ContractOf(c, cand[c], kind[c]))
                BY <4>3 DEF Matching, Alike, Submitted
            <4>5. ASSUME NEW k \in Kinds, created'[c][k] # NoContract
                  PROVE  /\ Alike(created'[c][k], ContractOf(c, cand[c], k))
                         /\ chain[created'[c][k]] \in {"created", "cancelled"}
                <5>1. CASE k = kind[c]
                    BY <1>a, <2>2, <3>2, <4>1, <4>4, <5>1 DEF TypeOK
                <5>2. CASE k # kind[c]
                    <6>1. created'[c][k] = created[c][k]
                        BY <1>a, <2>2, <3>2, <5>2 DEF TypeOK
                    <6> QED
                        BY <1>a, <2>2, <4>5, <6>1 DEF Matched
                <5> QED
                    BY <5>1, <5>2
            <4> QED
                BY <2>2, <3>2, <4>5 DEF Matched, Alike, gridVars
        <3> QED
            BY <2>2, <3>1, <3>2 DEF Lookup
    <2>3. CASE x = c /\ Advance(c)
        <3>1. CASE created' = [created EXCEPT ![c] = Nothing]
            BY <1>a, <2>3, <3>1 DEF Matched, Nothing, TypeOK
        <3> QED
            BY <1>b, <2>3, <3>1 DEF Advance
    <2>4. CASE x = c /\ UNCHANGED <<created, cand>>
        BY <1>b, <2>4
    <2> QED
        BY <1>1, <2>1, <2>2, <2>3, <2>4 DEF Step, CallStep, Start, Submit, Finalized,
           WatchLost, Deploy, Confirm, Settle, ReadBack, UndoDelete, UndoCancel, UndoWatch,
           StartCancel, CancelDelete, CancelCancel, CancelWatch, Hang
<1>2. CASE UNCHANGED callVars
    BY <1>b, <1>2 DEF callVars
<1> QED
    BY <1>1, <1>2 DEF Next, Step, WorldStep, AllFinished, vars

(* What another call or the world does to a contract whose hash is its own.*)
LEMMA KeepsFrame ==
    ASSUME Ownership, NEW x \in Calls,
           pc'[x] = pc[x], kind'[x] = kind[x], cand'[x] = cand[x],
           created'[x] = created[x], traced \subseteq traced',
           \A d \in Contracts : chain[d] = "cancelled" => chain'[d] = "cancelled",
           \A d \in Contracts : OwnHash(d) /\ (\E k \in Kinds : d = ContractOf(x, cand[x], k))
              => /\ d \in cancelling' \/ chain'[d] = "cancelled" => Touched(d)
                 /\ zos[d] # "absent" => zos'[d] # "absent"
    PROVE  Keeps(x)'
<1>1. /\ Keeps(x) /\ created[x]["vm"] \in Contracts \union {NoContract}
      /\ \A k \in Kinds : ContractOf(x, cand[x], k) \in Contracts
    BY DeployAssumption DEF Ownership, LeaseInv, Bookkeeping, TypeOK, Kinds
<1>2. Handled(x, "vm") => Handled(x, "vm")'
    BY <1>1 DEF Handled
<1> SUFFICES ASSUME NEW k \in Kinds, NEW d \in Contracts, d = ContractOf(x, cand[x], k),
                    OwnHash(d)
             PROVE  /\ d \in cancelling' \/ chain'[d] = "cancelled" =>
                          /\ pc'[x] \in LettingGo
                          /\ k = "network" => Handled(x, "vm")'
                    /\ /\ pc'[x] \in Deploying \union {"returned"}
                       /\ created'[x][k] # NoContract
                       /\ kind'[x] # k \/ pc'[x] = "returned"
                       => zos'[d] # "absent"
    BY <1>1 DEF Keeps, Touched, OwnHash, Alike
<1> QED
    BY <1>1, <1>2 DEF Keeps

(* A call's step touches no contract of another call whose hash is its own,*)
(* and deletes no deployment of it.                                        *)
LEMMA CallStepOthers ==
    ASSUME Ownership, NEW c \in Calls, NEW x \in Calls, x # c, NEW k \in Kinds, Step(c),
           NEW d \in Contracts, d = ContractOf(x, cand[x], k), OwnHash(d)
    PROVE  /\ d \in cancelling' \/ chain'[d] = "cancelled" => Touched(d)
           /\ zos[d] # "absent" => zos'[d] # "absent"
<1>1. NoContract \notin Contracts
    BY DeployAssumption
<1>2. d # Submitted(c)
    BY ContractOfInjective DEF Submitted
<1>3. d # Current(c)
    <2>1. kind[c] \in Kinds
        BY DEF Ownership, LeaseInv, Bookkeeping, TypeOK
    <2> QED
        BY <1>1, <2>1, FoundIsOwn, ContractOfInjective DEF Current
<1>4. zos \in [Contracts -> ZosStates] /\ TypeOK /\ HasCurrent
    BY DEF Ownership, LeaseInv, Bookkeeping, TypeOK, GridTypeOK
<1>5. d \in cancelling' \/ chain'[d] = "cancelled" => Touched(d)
    BY <1>2, <1>3, <1>4, CallStepChain DEF Touched
<1>6. CASE Deploy(c)
    BY <1>4, <1>5, <1>6 DEF Deploy, Hosted
<1>7. CASE UndoDelete(c) \/ CancelDelete(c)
    BY <1>3, <1>4, <1>5, <1>7 DEF UndoDelete, CancelDelete, DeleteOnNode
<1>8. CASE zos' = zos
    BY <1>5, <1>8
<1> QED
    BY <1>6, <1>7, <1>8 DEF Step, CallStep, Start, Submit, Finalized, WatchLost, Lookup,
       Confirm, Settle, ReadBack, UndoCancel, UndoWatch, Advance, StartCancel,
       CancelCancel, CancelWatch, Hang, gridVars

(* The next candidate's contracts were never submitted: nothing touches    *)
(* them.                                                                   *)
LEMMA AdvanceKeeps ==
    ASSUME Ownership, NEW c \in Calls, TypeOK', Advance(c)
    PROVE  Keeps(c)'
<1>a. TypeOK /\ GridTypeOK /\ Fresh /\ Accounted(c)
    BY DEF Ownership, LeaseInv, Bookkeeping, AllAccounted, TypeOK
<1>b. UNCHANGED <<chain, cancelling>>
    BY DEF Advance, gridVars
<1>1. CASE cand' = [cand EXCEPT ![c] = cand[c] + 1] /\ created' = [created EXCEPT ![c] = Nothing]
    <2>1. /\ cand'[c] > cand[c] /\ cand'[c] \in 1 .. Len(Candidates[c])
          /\ \A k \in Kinds : created'[c][k] = NoContract
        BY <1>a, <1>1 DEF TypeOK, Nothing
    <2> SUFFICES ASSUME NEW k \in Kinds, NEW d, d = ContractOf(c, cand'[c], k)
                 PROVE  ~(d \in cancelling' \/ chain'[d] = "cancelled")
        BY <2>1 DEF Keeps, Touched
    <2>2. chain[d] = "none"
        BY <1>a, <2>1 DEF Fresh, NotSubmitted
    <2> QED
        BY <1>b, <2>2 DEF Ownership, PendingIncluded
<1>2. CASE pc' = [pc EXCEPT ![c] = "failed"] /\ UNCHANGED <<cand, created>>
    <2>1. pc'[c] = "failed" /\ pc[c] = "undone"
        BY <1>a, <1>2 DEF TypeOK, Advance
    <2>2. Handled(c, "vm")'
        BY <1>a, <1>b, <1>2, <2>1 DEF Accounted, Handled, Kinds, Advance
    <2> QED
        BY <1>b, <1>2, <2>1, <2>2 DEF Keeps, Touched, LettingGo, Deploying
<1> QED
    BY <1>1, <1>2 DEF Advance, Goto

(* A call touches its own contract only to let go of it.                   *)
LEMMA CallStepTouches ==
    ASSUME Ownership, NEW c \in Calls, Step(c), ~Advance(c), NEW k \in Kinds,
           NEW d \in Contracts, d = ContractOf(c, cand[c], k), OwnHash(d),
           d \in cancelling' \/ chain'[d] = "cancelled"
    PROVE  pc'[c] \in LettingGo /\ (k = "network" => Handled(c, "vm")')
<1>a. /\ TypeOK /\ GridTypeOK /\ HasCurrent /\ Accounted(c) /\ Keeps(c) /\ kind[c] \in Kinds
      /\ created[c]["vm"] \in Contracts \union {NoContract}
    BY DEF Ownership, LeaseInv, Bookkeeping, AllAccounted, TypeOK, Kinds
<1>b. \A e \in Contracts : chain[e] = "cancelled" => chain'[e] = "cancelled"
    BY NextIncluded DEF Ownership, LeaseInv, Next, Step
<1>1. pc[c] \in LettingGo /\ (k = "network" => Handled(c, "vm"))
    <2>1. CASE Touched(d)
        BY <1>a, <2>1 DEF Keeps
    <2>2. CASE ~Touched(d)
        <3>1. /\ UndoCancel(c) \/ CancelCancel(c)
              /\ d = Current(c)
            BY <1>a, <2>2, CallStepChain DEF Touched
        <3>2. kind[c] = k
            <4>1. d = created[c][kind[c]] /\ created[c][kind[c]] # NoContract
                BY <1>a, <3>1 DEF Current, HasCurrent, UndoCancel, CancelCancel
            <4>2. ContractOf(c, cand[c], kind[c]) = d
                BY <1>a, <4>1, FoundIsOwn
            <4> QED
                BY <4>2, ContractOfInjective
        <3>3. pc[c] \in {"undoCancel", "cancelCancel"}
            BY <3>1 DEF UndoCancel, CancelCancel
        <3> QED
            BY <1>a, <3>2, <3>3 DEF LettingGo, Undoing, Cancelling, Accounted, Gone, Handled
    <2> QED
        BY <2>1, <2>2
<1>2. pc'[c] \in LettingGo /\ created' = created
    <2> USE <1>a, <1>1 DEF LettingGo, Undoing, Cancelling, Goto, TypeOK
    <2>1. CASE UndoDelete(c) \/ UndoCancel(c) \/ UndoWatch(c)
        BY <2>1 DEF UndoDelete, UndoCancel, UndoWatch, UndoTraces, UndoNext
    <2>2. CASE StartCancel(c) \/ CancelDelete(c)
        BY <2>2 DEF StartCancel, CancelDelete
    <2>3. CASE CancelCancel(c) \/ CancelWatch(c)
        BY <2>3 DEF CancelCancel, CancelWatch, CancelNext
    <2>4. CASE WatchLost(c) \/ Hang(c)
        BY <2>4 DEF WatchLost, UndoTraces, UndoNext, Hang
    <2>5. CASE Start(c) \/ Submit(c) \/ Finalized(c) \/ Lookup(c) \/ Deploy(c)
               \/ Confirm(c) \/ Settle(c) \/ ReadBack(c)
        BY <2>5 DEF Start, Submit, Finalized, Lookup, Deploy, Confirm, Settle, ReadBack
    <2> QED
        BY <2>1, <2>2, <2>3, <2>4, <2>5 DEF Step, CallStep
<1>3. traced \subseteq traced'
    BY <1>a, CallStepChain
<1> QED
    BY <1>a, <1>b, <1>1, <1>2, <1>3 DEF Handled

(* Until it lets go, a call leaves the deployments it has on their nodes.  *)
LEMMA CallStepHosts ==
    ASSUME Ownership, NEW c \in Calls, Step(c), NEW k \in Kinds,
           NEW d \in Contracts, d = ContractOf(c, cand'[c], k), OwnHash(d),
           pc'[c] \in Deploying \union {"returned"}, created'[c][k] # NoContract,
           kind'[c] # k \/ pc'[c] = "returned"
    PROVE  zos'[d] # "absent"
<1>a. /\ TypeOK /\ zos \in [Contracts -> ZosStates] /\ Keeps(c) /\ Knows(c) /\ Accounted(c)
      /\ kind[c] \in {"network", "vm"} /\ k \in {"network", "vm"}
    BY DEF Ownership, LeaseInv, Bookkeeping, AllAccounted, TypeOK, GridTypeOK, Kinds
<1>b. ASSUME created'[c][k] = created[c][k], cand' = cand, pc[c] \in Deploying \union {"returned"}
      PROVE  /\ kind[c] # k \/ pc[c] = "returned" => zos[d] # "absent"
             /\ d = created[c][k]
    <2>1. d = created[c][k]
        BY <1>b, FoundIsOwn
    <2> QED
        BY <1>a, <1>b, <2>1 DEF Keeps
<1>1. CASE Start(c)
    <2>1. created'[c][k] = NoContract
        BY <1>a, <1>1 DEF Start, Accounted
    <2> QED
        BY <2>1
<1>2. CASE Submit(c) \/ Finalized(c) \/ Confirm(c)
    BY <1>a, <1>b, <1>2 DEF Submit, Finalized, Confirm, Goto, Fail, TypeOK, Deploying, gridVars
<1>3. CASE Lookup(c)
    <2>1. pc'[c] # "returned" /\ kind'[c] = kind[c]
        BY <1>a, <1>3 DEF Lookup, Goto, Fail, TypeOK, Deploying
    <2>2. created'[c][k] = created[c][k]
        BY <1>a, <1>3, <2>1 DEF Lookup, TypeOK
    <2> QED
        BY <1>b, <1>3, <2>1, <2>2 DEF Lookup, gridVars, Deploying
<1>4. CASE Deploy(c)
    <2>1. pc'[c] # "returned" /\ kind'[c] = kind[c] /\ created' = created
        BY <1>a, <1>4 DEF Deploy, Goto, TypeOK
    <2>2. zos[d] # "absent"
        BY <1>b, <1>4, <2>1 DEF Deploy, Deploying
    <2> QED
        BY <1>a, <1>4, <2>2 DEF Deploy, Hosted
<1>5. CASE Settle(c)
    <2>1. pc'[c] \in {"submit", "readback"} /\ zos[Current(c)] # "absent"
        BY <1>a, <1>5 DEF Settle, SettlesOk, Goto, Fail, TypeOK, Deploying
    <2>2. k = "network" => d = Current(c) \/ kind[c] # k
        BY <1>b, <1>5 DEF Settle, Current, Deploying
    <2>3. kind'[c] = "vm"
        BY <1>a, <1>5, <2>1 DEF Settle, Goto, Fail, TypeOK
    <2> QED
        BY <1>a, <1>b, <1>5, <2>1, <2>2, <2>3 DEF Settle, gridVars, Deploying
<1>6. CASE ReadBack(c)
    <2>1. zos[Current(c)] # "absent"
        BY <1>a, <1>6 DEF ReadBack, Goto, Fail, TypeOK, Deploying
    <2>2. d = Current(c) \/ kind[c] # k
        BY <1>b, <1>6 DEF ReadBack, Current, Deploying
    <2> QED
        BY <1>b, <1>6, <2>1, <2>2 DEF ReadBack, gridVars, Deploying
<1>7. CASE Advance(c)
    BY <1>a, <1>7 DEF Advance, Nothing, Goto, TypeOK, Deploying
<1>8. CASE UndoDelete(c) \/ UndoCancel(c) \/ UndoWatch(c) \/ WatchLost(c)
    BY <1>a, <1>8 DEF UndoDelete, UndoCancel, UndoWatch, WatchLost, UndoTraces, UndoNext,
       Goto, Fail, TypeOK, Deploying
<1>9. CASE StartCancel(c) \/ CancelDelete(c) \/ CancelCancel(c) \/ CancelWatch(c)
    BY <1>a, <1>9 DEF StartCancel, CancelDelete, CancelCancel, CancelWatch, CancelNext,
       Goto, TypeOK, Deploying
<1>10. CASE Hang(c)
    BY <1>b, <1>10 DEF Hang, gridVars
<1> QED
    BY <1>1, <1>2, <1>3, <1>4, <1>5, <1>6, <1>7, <1>8, <1>9, <1>10 DEF Step, CallStep

(* Every step preserves Ownership.                                         *)
LEMMA NextOwnership == Ownership /\ [Next]_vars => Ownership'
<1> SUFFICES ASSUME Ownership, [Next]_vars, NEW x \in Calls
             PROVE  Keeps(x)'
    BY NextLeaseInv, NextListed, NextMatched DEF Ownership
<1>a. /\ LeaseInv' /\ LeaseInv /\ TypeOK /\ GridTypeOK
      /\ \A d \in Contracts : chain[d] = "cancelled" => chain'[d] = "cancelled"
    BY NextLeaseInv, NextIncluded DEF Ownership, LeaseInv, Bookkeeping, TypeOK
<1>1. ASSUME NEW c \in Calls, Step(c), x # c
      PROVE  Keeps(x)'
    <2>1. /\ pc'[x] = pc[x] /\ kind'[x] = kind[x]
          /\ cand'[x] = cand[x] /\ created'[x] = created[x]
        BY <1>a, <1>1, CallStepFrame
    <2>2. traced \subseteq traced'
        BY <1>a, <1>1, CallStepChain DEF LeaseInv, Bookkeeping
    <2> QED
        BY <1>a, <1>1, <2>1, <2>2, KeepsFrame, CallStepOthers
<1>2. ASSUME Step(x)
      PROVE  Keeps(x)'
    <2>1. CASE Advance(x)
        BY <1>a, <2>1, AdvanceKeeps DEF LeaseInv, Bookkeeping
    <2>2. CASE ~Advance(x)
        <3>1. cand'[x] = cand[x]
            BY <1>a, <1>2, <2>2 DEF Step, CallStep, Start, Submit, Finalized, WatchLost, Lookup,
               Deploy, Confirm, Settle, ReadBack, UndoDelete, UndoCancel, UndoWatch,
               StartCancel, CancelDelete, CancelCancel, CancelWatch, Hang
        <3> SUFFICES ASSUME NEW k \in Kinds, NEW d \in Contracts,
                            d = ContractOf(x, cand[x], k), OwnHash(d)
                     PROVE  /\ d \in cancelling' \/ chain'[d] = "cancelled" =>
                                  /\ pc'[x] \in LettingGo
                                  /\ k = "network" => Handled(x, "vm")'
                            /\ /\ pc'[x] \in Deploying \union {"returned"}
                               /\ created'[x][k] # NoContract
                               /\ kind'[x] # k \/ pc'[x] = "returned"
                               => zos'[d] # "absent"
            <4>1. \A k \in Kinds : ContractOf(x, cand[x], k) \in Contracts
                BY <1>a, DeployAssumption DEF TypeOK
            <4> QED
                BY <3>1, <4>1 DEF Keeps, Touched, OwnHash, Alike
        <3> QED
            BY <1>2, <2>2, <3>1, CallStepTouches, CallStepHosts
    <2> QED
        BY <2>1, <2>2
<1>3. ASSUME NEW e \in Contracts, WorldStep(e)
      PROVE  Keeps(x)'
    <2>1. GridStep(e) /\ UNCHANGED callVars
        BY <1>3 DEF WorldStep
    <2>2. \A d \in Contracts : d \in cancelling' \/ chain'[d] = "cancelled" => Touched(d)
        BY <1>a, <2>1, GridStepChain DEF Touched
    <2>3. \A d \in Contracts : zos[d] # "absent" => zos'[d] # "absent"
        BY <1>a, <2>1, GridStepHosts
    <2> QED
        BY <1>a, <2>1, <2>2, <2>3, KeepsFrame DEF callVars
<1>4. CASE UNCHANGED vars
    BY <1>a, <1>4, KeepsFrame DEF vars, gridVars, callVars, Touched
<1> QED
    BY <1>1, <1>2, <1>3, <1>4 DEF Next, Step, AllFinished

(* What deploy_vm returned stays on chain and on its node, for any number  *)
(* of concurrent calls that roll back and fail over, each contract whose   *)
(* hash no other contract of its node carries.  Nothing is assumed of the  *)
(* other hashes.                                                           *)
THEOREM OutcomeStaysLive == Spec => []OutcomeIsLive
<1>1. Ownership => OutcomeIsLive
    <2> SUFFICES ASSUME Ownership, NEW c \in Calls, pc[c] = "returned", NEW k \in Kinds,
                        NEW d, d = ContractOf(c, cand[c], k)
                 PROVE  IF k = "vm" \/ c \in CreatesNetwork
                        THEN OwnHash(d) => /\ created[c][k] = d
                                           /\ chain[d] = "created"
                                           /\ zos[d] # "absent"
                        ELSE created[c][k] = NoContract
        BY DEF OutcomeIsLive
    <2>a. /\ TypeOK /\ Knows(c) /\ Keeps(c) /\ k \in {"network", "vm"}
          /\ d \in Contracts
        BY DeployAssumption DEF Ownership, LeaseInv, Bookkeeping, TypeOK, Kinds
    <2>1. CASE k = "network" /\ c \notin CreatesNetwork
        BY <2>a, <2>1 DEF Knows
    <2>2. ASSUME k = "vm" \/ c \in CreatesNetwork, OwnHash(d)
          PROVE  created[c][k] = d /\ chain[d] = "created" /\ zos[d] # "absent"
        <3>1. created[c][k] # NoContract
            BY <2>a, <2>2 DEF Knows, Cancelling
        <3>2. created[c][k] = d
            BY <2>a, <2>2, <3>1, FoundIsOwn
        <3>3. chain[d] \in {"created", "cancelled"}
            BY <3>1, <3>2 DEF Ownership, Matched
        <3>4. zos[d] # "absent"
            BY <2>a, <2>2, <3>1 DEF Keeps
        <3>5. pc[c] \notin LettingGo
            BY DEF LettingGo, Undoing, Cancelling
        <3>6. ~Touched(d)
            BY <2>a, <2>2, <3>5 DEF Keeps
        <3> QED
            BY <3>2, <3>3, <3>4, <3>6 DEF Touched
    <2> QED
        BY <2>a, <2>1, <2>2
<1> QED
    BY <1>1, InitOwnership, NextOwnership, PTL DEF Spec

(* The client never takes a network whose hash is its own from under a VM  *)
(* that it has not dealt with.                                             *)
THEOREM NetworksGoLast == Spec => []NetworkOutlivesVm
<1>1. Ownership => NetworkOutlivesVm
    BY DEF Ownership, Keeps, Touched, Handled, NetworkOutlivesVm, Kinds
<1> QED
    BY <1>1, InitOwnership, NextOwnership, PTL DEF Spec

-----------------------------------------------------------------------------
(* The state of the lease, as DeployVm maps it.                            *)
Phase == [c \in Calls |-> PhaseAt(pc[c])]
Known == [c \in Calls |-> KnownTo(c)]
GoneNow == {d \in Contracts : chain[d] = "cancelled"}

(* The phase of a call, read off where it stands.                          *)
LEMMA PhaseValues ==
    ASSUME NEW l
    PROVE  /\ l \in Deploying => PhaseAt(l) = "working"
           /\ l \in Undoing \union {"undone"} => PhaseAt(l) = "undoing"
           /\ l = "returned" => PhaseAt(l) = "held"
           /\ l \in Cancelling \union {"cancelFailed"} => PhaseAt(l) = "ending"
           /\ l = "cancelled" => PhaseAt(l) = "ended"
           /\ l \in {"idle", "failed"} => PhaseAt(l) = l
<1> USE DEF PhaseAt, Deploying, Undoing, Cancelling
<1>1. l \in Deploying => PhaseAt(l) = "working"
    OBVIOUS
<1>2. l \in Undoing \union {"undone"} => PhaseAt(l) = "undoing"
    OBVIOUS
<1>3. l = "returned" => PhaseAt(l) = "held"
    OBVIOUS
<1>4. l \in Cancelling \union {"cancelFailed"} => PhaseAt(l) = "ending"
    OBVIOUS
<1>5. l = "cancelled" => PhaseAt(l) = "ended"
    OBVIOUS
<1>6. l \in {"idle", "failed"} => PhaseAt(l) = l
    OBVIOUS
<1> QED
    BY <1>1, <1>2, <1>3, <1>4, <1>5, <1>6

(* A step of a call moves the phase and the knowledge of that call alone.  *)
LEMMA CallStepMapped ==
    ASSUME TypeOK, NEW c \in Calls, Step(c)
    PROVE  /\ Phase' = [Phase EXCEPT ![c] = PhaseAt(pc'[c])]
           /\ Known' = [Known EXCEPT ![c] = KnownTo(c)']
<1>1. \A x \in Calls : x # c => pc'[x] = pc[x] /\ created'[x] = created[x]
    BY CallStepFrame DEF Step
<1>2. Phase' = [Phase EXCEPT ![c] = PhaseAt(pc'[c])]
    BY <1>1 DEF Phase
<1>3. \A x \in Calls : x # c => KnownTo(x)' = KnownTo(x)
    BY <1>1 DEF KnownTo
<1>4. Known' = [Known EXCEPT ![c] = KnownTo(c)']
    BY <1>3 DEF Known
<1> QED
    BY <1>2, <1>4

(* The moves of Lease in which contracts and reports stay the same.        *)
LEMMA LeaseMoves ==
    ASSUME TypeOK, NEW c \in Calls, Step(c),
           created' = created, GoneNow' = GoneNow, traced' = traced,
           cancelling' = cancelling
    PROVE  /\ Phase'[c] = Phase[c] => UNCHANGED L!leaseVars
           /\ Phase[c] = "idle" /\ Phase'[c] = "working" => L!Begin(c)
           /\ Phase[c] = "idle" /\ Phase'[c] = "failed" => L!Refuse(c)
           /\ Phase[c] = "working" /\ Phase'[c] = "undoing" => L!Fall(c)
           /\ Phase[c] = "working" /\ Phase'[c] = "held" /\ KnownTo(c) # {} => L!Return(c)
           /\ Phase[c] = "undoing" /\ Phase'[c] = "failed"
                 /\ KnownTo(c) \subseteq GoneNow \union traced => L!GiveUp(c)
           /\ Phase[c] = "held" /\ Phase'[c] = "ending" => L!Cancel(c)
           /\ Phase[c] = "ending" /\ Phase'[c] = "ended"
                 /\ KnownTo(c) # {} /\ KnownTo(c) \subseteq GoneNow => L!End(c)
<1>1. KnownTo(c)' = KnownTo(c)
    BY DEF KnownTo
<1>2. Known' = Known /\ Known[c] = KnownTo(c)
    BY <1>1, CallStepMapped DEF Known
<1>3. Phase' = [Phase EXCEPT ![c] = Phase'[c]]
    BY CallStepMapped DEF Phase
<1>4. Phase'[c] = Phase[c] => Phase' = Phase
    BY <1>3 DEF Phase
<1> USE <1>2, <1>3, <1>4 DEF Phase, Known, GoneNow
<1>5. Phase'[c] = Phase[c] => UNCHANGED L!leaseVars
    BY DEF L!leaseVars
<1>6. Phase[c] = "undoing" /\ Phase'[c] = "failed"
         /\ KnownTo(c) \subseteq GoneNow \union traced => L!GiveUp(c)
    BY DEF L!GiveUp, L!Settled, L!Move
<1>7. Phase[c] = "ending" /\ Phase'[c] = "ended"
         /\ KnownTo(c) # {} /\ KnownTo(c) \subseteq GoneNow => L!End(c)
    BY DEF L!End, L!Move
<1> QED
    BY <1>5, <1>6, <1>7 DEF L!Begin, L!Refuse, L!Fall, L!Return, L!Cancel, L!Move

(* Looking a contract up is acquiring it: nothing known is forgotten.      *)
LEMMA LookupAcquires ==
    ASSUME LeaseInv, NEW c \in Calls, Step(c), Lookup(c)
    PROVE  L!LeaseNext
<1>a. /\ TypeOK /\ GridTypeOK /\ Knows(c) /\ Step(c)
      /\ pc[c] = "lookup" /\ kind[c] \in Kinds /\ Phase[c] = "working"
      /\ created[c] \in [Kinds -> Contracts \union {NoContract}]
    BY PhaseValues DEF LeaseInv, Bookkeeping, TypeOK, Lookup, Phase, Deploying
<1>b. GoneNow' = GoneNow /\ traced' = traced /\ cancelling' = cancelling
    BY DEF Lookup, GoneNow, gridVars
<1>1. CASE Fail(c) /\ created' = created
    <2>1. Phase'[c] = "undoing"
        BY <1>a, <1>1, PhaseValues DEF Phase, Fail, Goto, TypeOK, Undoing
    <2>2. L!Fall(c)
        BY <1>a, <1>b, <1>1, <2>1, LeaseMoves
    <2> QED
        BY <2>2 DEF L!LeaseNext
<1>2. ASSUME NEW d \in listed, created' = [created EXCEPT ![c][kind[c]] = d], Goto(c, "deploy")
      PROVE  L!LeaseNext
    <2>1. d \in Contracts /\ d # NoContract
        BY <1>a, DeployAssumption DEF GridTypeOK
    <2>2. KnownTo(c)' = KnownTo(c) \union {d}
        <3>1. created[c][kind[c]] = NoContract
            BY <1>a DEF Knows, Seeking, Current
        <3>2. \A k \in Kinds : created'[c][k] = IF k = kind[c] THEN d ELSE created[c][k]
            BY <1>a, <1>2 DEF TypeOK
        <3> QED
            BY <1>a, <2>1, <3>1, <3>2 DEF KnownTo
    <2>3. PhaseAt(pc'[c]) = "working"
        BY <1>a, <1>2, PhaseValues DEF Goto, TypeOK, Deploying
    <2>4. L!Acquire(c)
        BY <1>a, <1>b, <2>1, <2>2, <2>3, CallStepMapped
           DEF L!Acquire, L!Move, Phase, Known, GoneNow
    <2> QED
        BY <2>1, <2>4 DEF L!LeaseNext
<1> QED
    BY <1>1, <1>2 DEF Lookup, Matching

(* A call that undoes its attempt, or ends its lease, asks for the         *)
(* cancellation of a contract that it knows.                               *)
LEMMA CancelAsks ==
    ASSUME LeaseInv, NEW c \in Calls, Step(c), UndoCancel(c) \/ CancelCancel(c),
           cancelling' = cancelling \union {Current(c)}, UNCHANGED traced,
           pc'[c] \in {"undoWatch", "cancelWatch"}, PhaseAt(pc'[c]) = PhaseAt(pc[c])
    PROVE  L!LeaseNext
<1>a. /\ TypeOK /\ Step(c) /\ Current(c) # NoContract /\ kind[c] \in Kinds
      /\ pc[c] \in {"undoCancel", "cancelCancel"}
      /\ created' = created /\ chain' = chain
    BY DEF LeaseInv, Bookkeeping, HasCurrent, TypeOK, UndoCancel, CancelCancel
<1>1. PICK d \in Contracts : d = Current(c) /\ d \in KnownTo(c)
    BY <1>a DEF Current, KnownTo, TypeOK
<1>2. Phase[c] \in {"undoing", "ending"} /\ Phase' = Phase
    <2>1. Phase[c] \in {"undoing", "ending"}
        BY <1>a, PhaseValues DEF Phase, Undoing, Cancelling
    <2> QED
        BY <1>a, <2>1, CallStepMapped DEF Phase
<1>3. L!Ask(c)
    BY <1>a, <1>1, <1>2 DEF L!Ask, Phase, KnownTo
<1> QED
    BY <1>3 DEF L!LeaseNext

(* A cancellation that is traced as failed is reported.                    *)
LEMMA TraceReports ==
    ASSUME LeaseInv, NEW c \in Calls, Step(c), UndoTraces(c),
           pc[c] \in {"undoCancel", "undoWatch"},
           UNCHANGED <<chain, cancelling, created>>
    PROVE  L!LeaseNext
<1>a. TypeOK /\ Current(c) # NoContract /\ kind[c] \in Kinds
    BY DEF LeaseInv, Bookkeeping, HasCurrent, TypeOK
<1>1. PICK d \in Contracts : d = Current(c) /\ d \in KnownTo(c)
    BY <1>a DEF Current, KnownTo, TypeOK
<1>2. Phase[c] = "undoing" /\ Phase' = Phase
    <2>1. pc'[c] \in {"undoDelete", "undone"}
        BY <1>a DEF UndoTraces, UndoNext, Goto, TypeOK
    <2>2. PhaseAt(pc'[c]) = "undoing" /\ PhaseAt(pc[c]) = "undoing"
        BY <2>1, PhaseValues DEF Undoing
    <2> QED
        BY <1>a, <2>2, CallStepMapped DEF Phase
<1>3. L!Report(c)
    BY <1>1, <1>2 DEF L!Report, UndoTraces, Phase, KnownTo
<1> QED
    BY <1>3 DEF L!LeaseNext

(* The next candidate, or the call's failure, comes when every contract of *)
(* the attempt is cancelled or its cancellation was reported as failed.    *)
LEMMA AdvanceSettles ==
    ASSUME LeaseInv, NEW c \in Calls, Step(c), Advance(c)
    PROVE  L!LeaseNext
<1>a. /\ TypeOK /\ Accounted(c) /\ Step(c) /\ pc[c] = "undone" /\ Phase[c] = "undoing"
      /\ created[c] \in [Kinds -> Contracts \union {NoContract}]
    BY PhaseValues DEF LeaseInv, Bookkeeping, AllAccounted, TypeOK, Advance, Phase
<1>b. GoneNow' = GoneNow /\ traced' = traced /\ cancelling' = cancelling
    BY DEF Advance, GoneNow, gridVars
<1>c. KnownTo(c) \subseteq GoneNow \union traced
    BY <1>a DEF Accounted, Handled, KnownTo, GoneNow
<1>1. CASE cand[c] < Len(Candidates[c])
    <2>1. Phase' = [Phase EXCEPT ![c] = "working"]
        <3>1. pc'[c] = "submit"
            BY <1>a, <1>1 DEF Advance, Goto, TypeOK
        <3> QED
            BY <1>a, <3>1, CallStepMapped, PhaseValues DEF Deploying
    <2>2. Known' = [Known EXCEPT ![c] = {}]
        <3>1. \A k \in Kinds : created'[c][k] = NoContract
            BY <1>a, <1>1 DEF Advance, Nothing, TypeOK
        <3>2. KnownTo(c)' = {}
            BY <3>1 DEF KnownTo
        <3> QED
            BY <1>a, <3>2, CallStepMapped
    <2>3. L!Retry(c)
        BY <1>a, <1>b, <1>c, <2>1, <2>2
           DEF L!Retry, L!Move, L!Settled, Phase, Known, GoneNow
    <2> QED
        BY <2>3 DEF L!LeaseNext
<1>2. CASE ~(cand[c] < Len(Candidates[c]))
    <2>1. created' = created /\ pc'[c] = "failed"
        BY <1>a, <1>2 DEF Advance, Goto, TypeOK
    <2>2. Phase'[c] = "failed"
        BY <2>1, PhaseValues DEF Phase
    <2>3. L!GiveUp(c)
        BY <1>a, <1>b, <1>c, <2>1, <2>2, LeaseMoves
    <2> QED
        BY <2>3 DEF L!LeaseNext
<1> QED
    BY <1>1, <1>2

(* An Ok for the last cancellation ends the lease; any other answer leaves *)
(* it as it was.                                                           *)
LEMMA CancelWatchEnds ==
    ASSUME LeaseInv, NEW c \in Calls, Step(c), CancelWatch(c)
    PROVE  L!LeaseNext \/ UNCHANGED L!leaseVars
<1>a. /\ TypeOK /\ GridTypeOK /\ HasCurrent /\ Accounted(c) /\ Step(c)
      /\ pc[c] = "cancelWatch" /\ kind[c] \in {"network", "vm"} /\ Phase[c] = "ending"
      /\ created' = created /\ created[c] \in [Kinds -> Contracts \union {NoContract}]
      /\ traced' = traced /\ GoneNow' = GoneNow /\ cancelling' = cancelling
    BY PhaseValues DEF LeaseInv, Bookkeeping, AllAccounted, TypeOK, CancelWatch, Phase, Cancelling, Kinds, GoneNow, gridVars
<1>b. Current(c) # NoContract /\ Current(c) \in Contracts /\ Current(c) \in KnownTo(c)
    BY <1>a DEF HasCurrent, Current, KnownTo, Kinds
<1>1. CASE pc'[c] = "cancelled"
    <2>1. chain[Current(c)] = "cancelled" /\ kind[c] = "network"
        BY <1>a, <1>1 DEF CancelWatch, CancelNext, Goto, TypeOK
    <2>2. KnownTo(c) \subseteq GoneNow
        BY <1>a, <1>b, <2>1 DEF Accounted, Gone, GoneNow, Cancelling, KnownTo, Current, Kinds
    <2>3. Phase'[c] = "ended"
        BY <1>1, PhaseValues DEF Phase
    <2>4. L!End(c)
        BY <1>a, <1>b, <2>2, <2>3, LeaseMoves
    <2> QED
        BY <2>4 DEF L!LeaseNext
<1>2. CASE pc'[c] \in {"cancelDelete", "cancelFailed"}
    <2>1. Phase'[c] = Phase[c]
        BY <1>a, <1>2, PhaseValues DEF Phase, Cancelling
    <2> QED
        BY <1>a, <2>1, LeaseMoves
<1> QED
    BY <1>a, <1>1, <1>2 DEF CancelWatch, CancelNext, Goto, TypeOK

(* Every step of a call is a step of its lease, or none.                   *)
LEMMA CallStepLease ==
    ASSUME LeaseInv, NEW c \in Calls, Step(c)
    PROVE  L!LeaseNext \/ UNCHANGED L!leaseVars
<1>a. /\ TypeOK /\ GridTypeOK /\ HasCurrent /\ Knows(c) /\ Accounted(c)
      /\ kind[c] \in {"network", "vm"}
      /\ created[c] \in [Kinds -> Contracts \union {NoContract}]
    BY DEF LeaseInv, Bookkeeping, AllAccounted, TypeOK, Kinds
<1>b. ASSUME created' = created, GoneNow' = GoneNow, traced' = traced,
             cancelling' = cancelling,
             \/ Phase'[c] = Phase[c]
             \/ Phase[c] = "idle" /\ Phase'[c] \in {"working", "failed"}
             \/ Phase[c] = "working" /\ Phase'[c] = "undoing"
             \/ Phase[c] = "working" /\ Phase'[c] = "held" /\ KnownTo(c) # {}
             \/ Phase[c] = "held" /\ Phase'[c] = "ending"
             \/ Phase[c] = "ending" /\ Phase'[c] = "ended"
                   /\ KnownTo(c) # {} /\ KnownTo(c) \subseteq GoneNow
      PROVE  L!LeaseNext \/ UNCHANGED L!leaseVars
    <2>1. \/ UNCHANGED L!leaseVars
          \/ L!Begin(c) \/ L!Refuse(c) \/ L!Fall(c) \/ L!Return(c) \/ L!Cancel(c) \/ L!End(c)
        BY <1>a, <1>b, LeaseMoves
    <2> QED
        BY <2>1 DEF L!LeaseNext
<1>c. Phase[c] = PhaseAt(pc[c]) /\ Phase'[c] = PhaseAt(pc'[c])
    BY DEF Phase
<1>1. CASE Start(c)
    <2>1. /\ created' = created /\ GoneNow' = GoneNow /\ traced' = traced
          /\ cancelling' = cancelling
        BY <1>1 DEF Start, GoneNow, gridVars
    <2>2. pc[c] = "idle" /\ pc'[c] \in {"submit", "failed"}
        BY <1>a, <1>1 DEF Start, Goto, TypeOK
    <2> QED
        BY <1>b, <1>c, <2>1, <2>2, PhaseValues DEF Deploying
<1>2. CASE Submit(c)
    <2>1. /\ created' = created /\ traced' = traced /\ cancelling' = cancelling
          /\ pc[c] = "submit"
          /\ pc'[c] \in {"finalize", "undoDelete"}
        BY <1>a, <1>2 DEF Submit, Fail, Goto, TypeOK
    <2>2. GoneNow' = GoneNow
        <3>1. NotSubmitted(c, cand[c], kind[c])
            BY <2>1 DEF NotSubmitted
        <3>2. chain[Submitted(c)] = "none"
            BY <1>a, <3>1 DEF LeaseInv, Bookkeeping, Fresh, Submitted, TypeOK
        <3> QED
            BY <1>a, <1>2, <3>2 DEF Submit, GoneNow, GridTypeOK
    <2> QED
        BY <1>b, <1>c, <2>1, <2>2, PhaseValues DEF Deploying, Undoing
<1>3. CASE Finalized(c) \/ (WatchLost(c) /\ pc[c] = "finalize")
    <2>1. /\ created' = created /\ GoneNow' = GoneNow /\ traced' = traced
          /\ cancelling' = cancelling
        BY <1>3 DEF Finalized, WatchLost, GoneNow, gridVars
    <2>2. pc[c] = "finalize" /\ pc'[c] \in {"lookup", "undoDelete"}
        BY <1>a, <1>3 DEF Finalized, WatchLost, Fail, Goto, TypeOK
    <2> QED
        BY <1>b, <1>c, <2>1, <2>2, PhaseValues DEF Deploying, Undoing
<1>4. CASE Lookup(c)
    BY <1>4, LookupAcquires
<1>5. CASE Deploy(c) \/ Confirm(c) \/ Settle(c)
    <2>1. /\ created' = created /\ GoneNow' = GoneNow /\ traced' = traced
          /\ cancelling' = cancelling
        BY <1>5 DEF Deploy, Confirm, Settle, GoneNow, gridVars
    <2>2. /\ pc[c] \in Deploying
          /\ pc'[c] \in Deploying \union {"undoDelete"}
        BY <1>a, <1>5 DEF Deploy, Confirm, Settle, Fail, Goto, TypeOK, Deploying
    <2> QED
        BY <1>b, <1>c, <2>1, <2>2, PhaseValues DEF Undoing
<1>6. CASE ReadBack(c)
    <2>1. /\ created' = created /\ GoneNow' = GoneNow /\ traced' = traced
          /\ cancelling' = cancelling
        BY <1>6 DEF ReadBack, GoneNow, gridVars
    <2>2. pc[c] = "readback" /\ pc'[c] \in {"returned", "undoDelete"}
        BY <1>a, <1>6 DEF ReadBack, Fail, Goto, TypeOK
    <2>3. KnownTo(c) # {}
        BY <1>a, <2>2 DEF HasCurrent, Current, KnownTo, Kinds
    <2> QED
        BY <1>b, <1>c, <2>1, <2>2, <2>3, PhaseValues DEF Deploying, Undoing
<1>7. CASE UndoDelete(c)
    <2>1. /\ created' = created /\ GoneNow' = GoneNow /\ traced' = traced
          /\ cancelling' = cancelling
        BY <1>7 DEF UndoDelete, GoneNow
    <2>2. pc[c] = "undoDelete" /\ pc'[c] \in {"undoDelete", "undoCancel", "undone"}
        BY <1>a, <1>7 DEF UndoDelete, Goto, TypeOK
    <2> QED
        BY <1>b, <1>c, <2>1, <2>2, PhaseValues DEF Undoing
<1>8. CASE UndoCancel(c)
    <2>1. CASE UndoTraces(c) /\ cancelling' = cancelling
        BY <1>8, <2>1, TraceReports DEF UndoCancel
    <2>2. CASE cancelling' = cancelling \union {Current(c)} /\ Goto(c, "undoWatch")
                 /\ UNCHANGED traced
        <3>1. pc'[c] = "undoWatch" /\ pc[c] = "undoCancel"
            BY <1>a, <1>8, <2>2 DEF UndoCancel, Goto, TypeOK
        <3> QED
            BY <1>8, <2>2, <3>1, PhaseValues, CancelAsks DEF Undoing
    <2> QED
        BY <1>8, <2>1, <2>2 DEF UndoCancel
<1>9. CASE Advance(c)
    BY <1>9, AdvanceSettles
<1>10. CASE StartCancel(c)
    <2>1. /\ created' = created /\ GoneNow' = GoneNow /\ traced' = traced
          /\ cancelling' = cancelling
        BY <1>10 DEF StartCancel, GoneNow, gridVars
    <2>2. pc[c] \in {"returned", "cancelFailed"} /\ pc'[c] = "cancelDelete"
        BY <1>a, <1>10 DEF StartCancel, Goto, TypeOK
    <2> QED
        BY <1>b, <1>c, <2>1, <2>2, PhaseValues DEF Cancelling
<1>11. CASE CancelDelete(c)
    <2>1. /\ created' = created /\ GoneNow' = GoneNow /\ traced' = traced
          /\ cancelling' = cancelling
        BY <1>11 DEF CancelDelete, GoneNow
    <2>2. /\ pc[c] = "cancelDelete" /\ pc'[c] \in {"cancelDelete", "cancelCancel", "cancelled"}
          /\ pc'[c] = "cancelled" => kind[c] = "network" /\ Current(c) = NoContract
        BY <1>a, <1>11 DEF CancelDelete, Goto, TypeOK
    <2>3. KnownTo(c) # {}
        BY <1>a, <2>2 DEF Knows, Cancelling, KnownTo, Kinds
    <2>4. pc'[c] = "cancelled" => KnownTo(c) \subseteq GoneNow
        BY <1>a, <2>2 DEF Accounted, Gone, Cancelling, Current, KnownTo, GoneNow, Kinds
    <2> QED
        BY <1>b, <1>c, <2>1, <2>2, <2>3, <2>4, PhaseValues DEF Cancelling
<1>12. CASE CancelCancel(c)
    <2>1. pc[c] = "cancelCancel" /\ created' = created /\ GoneNow' = GoneNow /\ traced' = traced
        BY <1>12 DEF CancelCancel, GoneNow
    <2>2. CASE cancelling' = cancelling \union {Current(c)} /\ Goto(c, "cancelWatch")
        <3>1. pc'[c] = "cancelWatch"
            BY <1>a, <2>2 DEF Goto, TypeOK
        <3> QED
            BY <1>12, <2>1, <2>2, <3>1, PhaseValues, CancelAsks DEF Cancelling
    <2>3. CASE cancelling' = cancelling /\ Goto(c, "cancelFailed")
        <3>1. pc'[c] = "cancelFailed"
            BY <1>a, <2>3 DEF Goto, TypeOK
        <3> QED
            BY <1>b, <1>c, <2>1, <2>3, <3>1, PhaseValues DEF Cancelling
    <2> QED
        BY <1>12, <2>2, <2>3 DEF CancelCancel
<1>13. CASE UndoWatch(c)
    <2>1. CASE UndoTraces(c)
        BY <1>13, <2>1, TraceReports DEF UndoWatch, gridVars
    <2>2. CASE UndoNext(c) /\ traced' = traced
        <3>1. /\ created' = created /\ GoneNow' = GoneNow /\ cancelling' = cancelling
              /\ pc[c] = "undoWatch"
            BY <1>13 DEF UndoWatch, GoneNow, gridVars
        <3>2. pc'[c] \in {"undoDelete", "undone"}
            BY <1>a, <2>2 DEF UndoNext, Goto, TypeOK
        <3> QED
            BY <1>b, <1>c, <2>2, <3>1, <3>2, PhaseValues DEF Undoing
    <2> QED
        BY <1>13, <2>1, <2>2 DEF UndoWatch
<1>14. CASE WatchLost(c) /\ pc[c] # "finalize"
    <2>1. /\ created' = created /\ GoneNow' = GoneNow /\ UNCHANGED <<chain, cancelling>>
        BY <1>14 DEF WatchLost, GoneNow, gridVars
    <2>2. CASE pc[c] = "undoWatch" /\ UndoTraces(c)
        BY <1>14, <2>1, <2>2, TraceReports
    <2>3. CASE pc[c] = "cancelWatch" /\ Goto(c, "cancelFailed") /\ UNCHANGED traced
        <3>1. pc'[c] = "cancelFailed"
            BY <1>a, <2>3 DEF Goto, TypeOK
        <3> QED
            BY <1>b, <1>c, <2>1, <2>3, <3>1, PhaseValues DEF Cancelling
    <2> QED
        BY <1>14, <2>2, <2>3 DEF WatchLost
<1>15. CASE CancelWatch(c)
    BY <1>15, CancelWatchEnds
<1>16. CASE Hang(c)
    <2>1. /\ created' = created /\ GoneNow' = GoneNow /\ traced' = traced
          /\ cancelling' = cancelling
        BY <1>16 DEF Hang, GoneNow, gridVars
    <2> QED
        BY <1>b, <1>c, <1>16, <2>1 DEF Hang
<1> QED
    BY <1>1, <1>2, <1>3, <1>4, <1>5, <1>6, <1>7, <1>8, <1>9, <1>10, <1>11, <1>12, <1>13,
       <1>14, <1>15, <1>16 DEF Step, CallStep

(* Placement attempts, failover, rollback_contracts and                    *)
(* cancel_deployment_outcome implement Lease for every number of calls and *)
(* candidates, also when hashes collide and a call looks up a contract     *)
(* that is not its own: a call touches only contracts it knows, leaves an  *)
(* attempt behind only when each of them is cancelled or reported, and     *)
(* what it returned only once its caller asks for that.                    *)
THEOREM DeployKeepsLease == Spec => KeepsLease
<1>1. Init => L!LeaseInit
    <2>1. ASSUME Init
          PROVE  /\ [c \in Calls |-> PhaseAt(pc[c])] = [c \in Calls |-> "idle"]
                 /\ [c \in Calls |-> KnownTo(c)] = [c \in Calls |-> {}]
                 /\ {d \in Contracts : chain[d] = "cancelled"} = {}
                 /\ traced = {} /\ cancelling = {}
        BY <2>1, PhaseValues DEF Init, GridInit, KnownTo, Nothing
    <2> QED
        BY <2>1 DEF L!LeaseInit
<1>2. LeaseInv /\ [Next]_vars => [L!LeaseNext]_L!leaseVars
    <2> SUFFICES ASSUME LeaseInv, [Next]_vars
                 PROVE  L!LeaseNext \/ UNCHANGED L!leaseVars
        OBVIOUS
    <2>1. ASSUME NEW c \in Calls, Step(c)
          PROVE  L!LeaseNext \/ UNCHANGED L!leaseVars
        BY <2>1, CallStepLease
    <2>2. ASSUME NEW d \in Contracts, WorldStep(d)
          PROVE  L!LeaseNext \/ UNCHANGED L!leaseVars
        <3>1. UNCHANGED <<pc, created, traced>>
            BY <2>2 DEF WorldStep, callVars
        <3>2. \/ cancelling' = cancelling /\ GoneNow' = GoneNow
              \/ /\ d \in cancelling /\ cancelling' = cancelling \ {d}
                 /\ GoneNow' \in {GoneNow, GoneNow \union {d}}
            BY <2>2, GridStepGone DEF WorldStep, LeaseInv, Bookkeeping, TypeOK, GoneNow
        <3>3. CASE cancelling' = cancelling /\ GoneNow' = GoneNow
            BY <3>1, <3>3 DEF L!leaseVars, KnownTo, GoneNow
        <3>4. CASE /\ d \in cancelling /\ cancelling' = cancelling \ {d}
                   /\ GoneNow' \in {GoneNow, GoneNow \union {d}}
            <4>1. L!Answer(d)
                BY <3>1, <3>4 DEF L!Answer, KnownTo, GoneNow
            <4> QED
                BY <3>4, <4>1 DEF L!LeaseNext
        <3> QED
            BY <3>2, <3>3, <3>4
    <2>3. CASE UNCHANGED vars
        BY <2>3 DEF vars, gridVars, callVars, L!leaseVars, KnownTo
    <2> QED
        BY <2>1, <2>2, <2>3 DEF Next, Step, AllFinished
<1> QED
    BY <1>1, <1>2, InitLeaseInv, NextLeaseInv, PTL DEF Spec, KeepsLease, L!LeaseSpec

=============================================================================
