--------------------------- MODULE GatewayProofs ----------------------------
(***************************************************************************)
(* Machine-checked proofs about Gateway, for any number of calls that ask  *)
(* for the same or for different names and deployments.                    *)
(***************************************************************************)
EXTENDS Gateway, GridProofs

-----------------------------------------------------------------------------
(* The inductive invariants.                                               *)

Seeking == {"idle", "submit", "finalize", "lookup"}
Working == {"deploy", "confirm", "settle", "readback"}
Having == Working \union {"returned", "cancelFailed"}

(* A call knows no node contract before it has found one, nor the contract *)
(* it is looking for; then it has one for good, and cancels no id 0.       *)
Knows(c) ==
    /\ pc[c] \in Seeking => created[c]["node"] = NoContract /\ Current(c) = NoContract
    /\ pc[c] \in Having \union Cancelling => created[c]["node"] # NoContract
    /\ pc[c] \in Working => kind[c] = "node"
    /\ pc[c] \in Cancelling => Current(c) # NoContract

(* Only deploy_gateway_name has a name step and a name contract.           *)
KindOK ==
    \A c \in Calls :
        kind[c] = "name" \/ created[c]["name"] # NoContract => c \in NameCalls

(* Call c has not submitted the extrinsic of kind k yet.                   *)
NotSubmitted(c, k) ==
    \/ pc[c] \in {"idle", "submit"} /\ kind[c] \in {k, "name"}
    \/ pc[c] \in {"finalize", "lookup"} /\ kind[c] = "name" /\ k = "node"

(* An extrinsic that was not submitted left no mark on the chain.          *)
Fresh ==
    \A c \in Calls : \A k \in KindsOf(c) :
        NotSubmitted(c, k) => chain[ContractOf(c, k)] = "none"

Gone(c, k) ==
    created[c][k] # NoContract => chain[created[c][k]] = "cancelled"

(* What cancel_gateway has already cancelled.                              *)
Accounted(c) ==
    /\ pc[c] = "cancelDelete" => kind[c] = "node"
    /\ pc[c] \in {"cancelCancel", "cancelWatch"} /\ kind[c] = "name" => Gone(c, "node")
    /\ pc[c] = "cancelled" => \A k \in Kinds : Gone(c, k)

(* The invariant behind CancelledIsGone.                                   *)
Bookkeeping ==
    TypeOK /\ KindOK /\ Fresh /\ \A c \in Calls : Knows(c) /\ Accounted(c)

-----------------------------------------------------------------------------
(* Steps that a call takes.                                                *)
Step(c) == Start(c) \/ CallStep(c) \/ WatchLost(c) \/ Hang(c) \/ StartCancel(c)

(* The contracts of two calls differ.                                      *)
LEMMA ContractOfInjective ==
    ASSUME NEW c, NEW e, NEW k, NEW j, ContractOf(c, k) = ContractOf(e, j)
    PROVE  c = e /\ k = j
BY DEF ContractOf

(* Every step of a call keeps the state well typed.                        *)
LEMMA CallStepType ==
    ASSUME TypeOK, KindOK, NEW c \in Calls, Knows(c), Step(c)
    PROVE  TypeOK' /\ KindOK'
<1>a. "name" \in Kinds /\ "node" \in Kinds
    BY DEF Kinds
<1>b. pc[c] \in Working \union Cancelling => Current(c) \in Contracts
    BY <1>a DEF TypeOK, Knows, Having, Current
<1> USE <1>a DEF TypeOK, KindOK, Goto, gridVars
<1>1. CASE Start(c)
    BY <1>1 DEF Start, GridTypeOK, Deploying, Finished
<1>2. CASE Submit(c)
    <2>1. GridTypeOK'
        BY <1>2 DEF Submit, GridTypeOK, ChainStates
    <2> QED
        BY <1>2, <2>1 DEF Submit, Deploying, Finished
<1>3. CASE Finalized(c)
    BY <1>3 DEF Finalized, GridTypeOK, Deploying, Finished
<1>4. CASE WatchLost(c)
    BY <1>4 DEF WatchLost, GridTypeOK, Deploying, Finished
<1>5. CASE Lookup(c)
    <2>1. CASE Goto(c, "failed") /\ UNCHANGED <<gridVars, created, kind, attempt, hung>>
        BY <2>1 DEF GridTypeOK, Finished
    <2>2. ASSUME NEW d \in listed, created' = [created EXCEPT ![c][kind[c]] = d],
                 kind' = [kind EXCEPT ![c] = "node"],
                 Goto(c, CASE kind[c] = "name" -> "submit"
                           [] c \in CreateCalls -> "returned"
                           [] OTHER -> "deploy"),
                 UNCHANGED <<gridVars, attempt, hung>>
          PROVE  TypeOK' /\ KindOK'
       <3>1. d \in Contracts /\ d # NoContract
            BY GatewayAssumption DEF GridTypeOK
       <3>2. created' \in [Calls -> [Kinds -> Contracts \union {NoContract}]]
            BY <2>2, <3>1
       <3>3. pc' \in [Calls -> {"idle"} \union Deploying \union Cancelling \union Finished]
            BY <2>2 DEF Deploying, Finished
       <3>4. KindOK'
            BY <2>2 DEF Kinds
       <3>5. QED
            BY <2>2, <3>2, <3>3, <3>4 DEF GridTypeOK
    <2> QED
        BY <1>5, <2>1, <2>2 DEF Lookup, Matching
<1>6. CASE Deploy(c)
    <2>1. GridTypeOK'
        BY <1>6, <1>b DEF Deploy, Hosted, GridTypeOK, ZosStates, Working
    <2> QED
        BY <1>6, <2>1 DEF Deploy, Deploying
<1>7. CASE Confirm(c)
    <2>1. attempt' \in [Calls -> 1 .. MaxAttempts]
        <3>1. CASE attempt' = attempt
            BY <3>1
        <3>2. CASE /\ attempt[c] < MaxAttempts
                   /\ attempt' = [attempt EXCEPT ![c] = attempt[c] + 1]
            <4>1. attempt[c] + 1 \in 1 .. MaxAttempts
                BY <3>2, GatewayAssumption
            <4> QED
                BY <3>2, <4>1
        <3> QED
            BY <1>7, <3>1, <3>2 DEF Confirm
    <2>2. KindOK'
        BY <1>7 DEF Confirm
    <2>3. pc' \in [Calls -> {"idle"} \union Deploying \union Cancelling \union Finished]
        BY <1>7 DEF Confirm, Deploying, Finished
    <2> QED
        BY <1>7, <2>1, <2>2, <2>3 DEF Confirm, GridTypeOK
<1>8. CASE Settle(c)
    BY <1>8 DEF Settle, GridTypeOK, Deploying, Finished, ZosStates
<1>9. CASE ReadBack(c)
    BY <1>9 DEF ReadBack, GridTypeOK, Finished
<1>10. CASE StartCancel(c)
    BY <1>10 DEF StartCancel, GridTypeOK, Cancelling
<1>11. CASE CancelDelete(c)
    <2>1. GridTypeOK'
        BY <1>11 DEF CancelDelete, GridTypeOK, ZosStates
    <2> QED
        BY <1>11, <2>1 DEF CancelDelete, Cancelling
<1>12. CASE CancelCancel(c)
    <2>1. GridTypeOK'
        BY <1>12, <1>b DEF CancelCancel, GridTypeOK, Cancelling
    <2> QED
        BY <1>12, <2>1 DEF CancelCancel, Finished, Cancelling
<1>13. CASE CancelWatch(c)
    BY <1>13 DEF CancelWatch, CancelNext, GridTypeOK, Finished, Cancelling
<1>14. CASE Hang(c)
    BY <1>14 DEF Hang, GridTypeOK
<1> QED
    BY <1>1, <1>2, <1>3, <1>4, <1>5, <1>6, <1>7, <1>8, <1>9, <1>10, <1>11,
       <1>12, <1>13, <1>14 DEF Step, CallStep

(* A step of one call leaves the other calls alone.                        *)
LEMMA CallStepFrame ==
    ASSUME TypeOK, NEW c \in Calls, NEW x \in Calls, x # c, Step(c)
    PROVE  pc'[x] = pc[x] /\ kind'[x] = kind[x] /\ created'[x] = created[x]
BY DEF TypeOK, Step, CallStep, Start, Submit, Finalized, WatchLost, Lookup, Deploy,
       Confirm, Settle, ReadBack, StartCancel, CancelDelete, CancelCancel, CancelWatch,
       CancelNext, Hang, Goto

(* A call's step pools the creation it submits, or the cancellation of the *)
(* contract it works on; the rest is up to the chain.                      *)
LEMMA CallStepChain ==
    ASSUME TypeOK, NEW c \in Calls, Step(c)
    PROVE  /\ \A d \in Contracts :
                 \/ chain'[d] = chain[d]
                 \/ Submit(c) /\ d = Submitted(c) /\ chain'[d] = "pooled"
           /\ \/ cancelling' = cancelling
              \/ CancelCancel(c) /\ cancelling' = cancelling \union {Current(c)}
<1> USE DEF TypeOK, GridTypeOK, gridVars
<1>1. CASE Submit(c)
    BY <1>1 DEF Submit
<1>2. CASE CancelCancel(c)
    BY <1>2 DEF CancelCancel
<1>3. CASE UNCHANGED <<chain, cancelling>>
    BY <1>3
<1> QED
    BY <1>1, <1>2, <1>3 DEF Step, CallStep, Start, Finalized, WatchLost, Lookup,
       Deploy, Confirm, Settle, ReadBack, StartCancel, CancelDelete, CancelWatch, Hang

(* A call submits an extrinsic of its own that it has not submitted before.*)
LEMMA SubmitsFresh ==
    ASSUME KindOK, Fresh, NEW c \in Calls, TypeOK, Submit(c)
    PROVE  /\ kind[c] \in KindsOf(c)
           /\ Submitted(c) \in Contracts
           /\ chain[Submitted(c)] = "none"
<1>1. kind[c] \in KindsOf(c)
    BY DEF KindOK, KindsOf, TypeOK, Kinds
<1>2. Submitted(c) \in Contracts
    BY <1>1, GatewayAssumption DEF Submitted
<1>3. chain[Submitted(c)] = "none"
    BY <1>1 DEF Fresh, NotSubmitted, Submit, Submitted
<1> QED
    BY <1>1, <1>2, <1>3

(* A contract that is cancelled stays cancelled.                           *)
LEMMA CancelledStays ==
    ASSUME Bookkeeping, Next, NEW d \in Contracts, chain[d] = "cancelled"
    PROVE  chain'[d] = "cancelled"
<1> USE DEF Bookkeeping
<1>1. ASSUME NEW c \in Calls, Step(c)
      PROVE  chain'[d] = "cancelled"
    BY <1>1, CallStepChain, SubmitsFresh
<1>2. ASSUME NEW e \in Contracts, WorldStep(e)
      PROVE  chain'[d] = "cancelled"
    BY <1>2, GridStepChain DEF WorldStep, TypeOK
<1>3. CASE AllFinished
    BY <1>3 DEF AllFinished, vars, gridVars
<1> QED
    BY <1>1, <1>2, <1>3 DEF Next, Step

(* An extrinsic a call still has to submit was not submitted before.       *)
LEMMA CallStepNotSubmitted ==
    ASSUME TypeOK, KindOK, NEW c \in Calls, Step(c), NEW k \in Kinds,
           NotSubmitted(c, k)'
    PROVE  NotSubmitted(c, k) /\ ~(Submit(c) /\ k = kind[c] /\ pc'[c] = "finalize")
<1> USE DEF TypeOK, NotSubmitted, Goto, Kinds
<1>1. CASE Start(c)
    BY <1>1 DEF Start, Submit
<1>2. CASE Submit(c)
    BY <1>2 DEF Submit
<1>3. CASE Finalized(c)
    BY <1>3 DEF Finalized, Submit
<1>4. CASE Lookup(c)
    BY <1>4 DEF Lookup, Submit
<1>5. CASE Deploy(c) \/ Confirm(c) \/ WatchLost(c) \/ Hang(c)
    BY <1>5 DEF Deploy, Confirm, WatchLost, Hang, Submit
<1>6. CASE Settle(c) \/ ReadBack(c)
    BY <1>6 DEF Settle, ReadBack
<1>7. CASE StartCancel(c) \/ CancelDelete(c) \/ CancelCancel(c) \/ CancelWatch(c)
    BY <1>7 DEF StartCancel, CancelDelete, CancelCancel, CancelWatch, CancelNext
<1> QED
    BY <1>1, <1>2, <1>3, <1>4, <1>5, <1>6, <1>7 DEF Step, CallStep

(* A call's step leaves what it did not submit unmarked.                   *)
LEMMA CallStepFresh ==
    ASSUME TypeOK, KindOK, Fresh, NEW c \in Calls, Step(c)
    PROVE  Fresh'
<1> SUFFICES ASSUME NEW x \in Calls, NEW k \in KindsOf(x), NotSubmitted(x, k)'
             PROVE  chain'[ContractOf(x, k)] = "none"
    BY DEF Fresh
<1>1. k \in Kinds /\ ContractOf(x, k) \in Contracts
    BY GatewayAssumption DEF KindsOf, Kinds
<1>2. NotSubmitted(x, k)
    <2>1. CASE x = c
        BY <2>1, <1>1, CallStepNotSubmitted
    <2>2. CASE x # c
        BY <2>2, CallStepFrame DEF NotSubmitted
    <2> QED
        BY <2>1, <2>2
<1>3. chain[ContractOf(x, k)] = "none"
    BY <1>2 DEF Fresh
<1>4. CASE Submit(c) /\ ContractOf(x, k) = Submitted(c)
    <2>1. x = c /\ k = kind[c]
        BY <1>4, ContractOfInjective DEF Submitted
    <2>2. pc'[c] # "finalize"
        BY <1>4, <2>1, <1>1, CallStepNotSubmitted
    <2> QED
        BY <1>3, <1>4, <2>1, <2>2 DEF Submit, Goto, TypeOK
<1> QED
    BY <1>1, <1>3, <1>4, CallStepChain

(* cancel_gateway records what it has dealt with.                          *)
LEMMA CallStepAccounted ==
    ASSUME Bookkeeping, NEW c \in Calls, Step(c),
           \A d \in Contracts : chain[d] = "cancelled" => chain'[d] = "cancelled"
    PROVE  Accounted(c)'
<1> USE DEF Bookkeeping, TypeOK, Accounted, Gone, Goto, Kinds
<1>1. CASE Start(c) \/ Submit(c) \/ Finalized(c) \/ WatchLost(c) \/ Hang(c)
    BY <1>1 DEF Start, Submit, Finalized, WatchLost, Hang
<1>2. CASE Lookup(c)
    BY <1>2 DEF Lookup
<1>3. CASE Deploy(c) \/ Confirm(c) \/ Settle(c) \/ ReadBack(c)
    BY <1>3 DEF Deploy, Confirm, Settle, ReadBack
<1>4. CASE StartCancel(c) \/ CancelDelete(c)
    BY <1>4 DEF StartCancel, CancelDelete, gridVars
<1>5. CASE CancelCancel(c)
    BY <1>5 DEF CancelCancel
<1>6. CASE CancelWatch(c)
    <2>1. CASE chain[Current(c)] = "cancelled" /\ CancelNext(c)
        <3>1. /\ UNCHANGED <<created, chain>> /\ pc[c] = "cancelWatch"
              /\ chain[created[c][kind[c]]] = "cancelled" /\ kind[c] \in {"name", "node"}
            BY <1>6, <2>1 DEF CancelWatch, Current, gridVars
        <3>2. CASE kind[c] = "node" /\ created[c]["name"] # NoContract
            BY <2>1, <3>1, <3>2 DEF CancelNext
        <3>3. CASE kind[c] = "node" /\ created[c]["name"] = NoContract
            BY <2>1, <3>1, <3>3 DEF CancelNext
        <3>4. CASE kind[c] = "name"
            <4>1. Gone(c, "node") /\ pc'[c] = "cancelled" /\ kind' = kind
                BY <2>1, <3>1, <3>4 DEF CancelNext
            <4> QED
                BY <3>1, <3>4, <4>1
        <3> QED
            BY <3>2, <3>3, <3>4
    <2>2. CASE Goto(c, "cancelFailed")
        BY <2>2
    <2> QED
        BY <1>6, <2>1, <2>2 DEF CancelWatch
<1> QED
    BY <1>1, <1>2, <1>3, <1>4, <1>5, <1>6 DEF Step, CallStep

(* A call's steps preserve what it knows.                                  *)
LEMMA CallStepKnows ==
    ASSUME Bookkeeping, NEW c \in Calls, Step(c)
    PROVE  Knows(c)'
<1>a. /\ TypeOK /\ GridTypeOK /\ Knows(c) /\ Accounted(c)
      /\ kind[c] \in {"name", "node"}
      /\ created[c] \in [Kinds -> Contracts \union {NoContract}]
    BY DEF Bookkeeping, TypeOK, Kinds
<1> USE <1>a DEF Knows, Seeking, Having, Working, Cancelling, Current, Goto, TypeOK, Kinds
<1>1. CASE Start(c) \/ Submit(c)
    BY <1>1 DEF Start, Submit
<1>2. CASE Finalized(c) \/ WatchLost(c) \/ Hang(c)
    BY <1>2 DEF Finalized, WatchLost, Hang
<1>3. CASE Lookup(c)
    <2>1. CASE Goto(c, "failed") /\ UNCHANGED <<created, kind>>
        BY <2>1
    <2>2. ASSUME NEW d \in listed,
                 created' = [created EXCEPT ![c][kind[c]] = d],
                 kind' = [kind EXCEPT ![c] = "node"],
                 Goto(c, CASE kind[c] = "name" -> "submit"
                           [] c \in CreateCalls -> "returned"
                           [] OTHER -> "deploy")
          PROVE  Knows(c)'
        <3>1. d # NoContract /\ pc[c] = "lookup"
            BY <1>3, GatewayAssumption DEF GridTypeOK, Lookup
        <3>2. CASE kind[c] = "name"
            <4>0. c \notin CreateCalls
                BY <3>2, GatewayAssumption DEF Bookkeeping, KindOK
            <4>1. pc'[c] = "submit" /\ kind'[c] = "node"
                BY <2>2, <3>2, <4>0
            <4>2. created'[c]["node"] = created[c]["node"]
                BY <2>2, <3>2
            <4> QED
                BY <3>1, <4>1, <4>2
        <3>3. CASE kind[c] = "node"
            <4>1. pc'[c] \in {"returned", "deploy"} /\ kind'[c] = "node"
                BY <2>2, <3>3
            <4>2. created'[c]["node"] = d
                BY <2>2, <3>3
            <4> QED
                BY <3>1, <4>1, <4>2
        <3> QED
            BY <3>2, <3>3
    <2> QED
        BY <1>3, <2>1, <2>2 DEF Lookup, Matching
<1>4. CASE Deploy(c) \/ Confirm(c) \/ Settle(c) \/ ReadBack(c)
    BY <1>4 DEF Deploy, Confirm, Settle, ReadBack
<1>5. CASE StartCancel(c)
    BY <1>5 DEF StartCancel
<1>6. CASE CancelDelete(c)
    BY <1>6 DEF CancelDelete
<1>7. CASE CancelCancel(c) \/ CancelWatch(c)
    BY <1>7 DEF CancelCancel, CancelWatch, CancelNext
<1> QED
    BY <1>1, <1>2, <1>3, <1>4, <1>5, <1>6, <1>7 DEF Step, CallStep

-----------------------------------------------------------------------------
(* Bookkeeping is inductive.                                               *)

(* Bookkeeping holds before any call has started.                          *)
LEMMA InitBookkeeping == Init => Bookkeeping
<1> SUFFICES ASSUME Init PROVE Bookkeeping
    OBVIOUS
<1>1. TypeOK
    <2>1. attempt \in [Calls -> 1 .. MaxAttempts]
        BY GatewayAssumption DEF Init
    <2>2. kind \in [Calls -> Kinds]
        BY DEF Init, FirstKind, Kinds
    <2> QED
        BY <2>1, <2>2, GridInitType DEF Init, TypeOK, ZosStates
<1>2. KindOK /\ \A c \in Calls : Knows(c)
    BY DEF Init, KindOK, Knows, Having, Working, Cancelling, Current, FirstKind, Kinds
<1>3. Fresh
    BY GatewayAssumption DEF Init, GridInit, Fresh
<1>4. \A c \in Calls : Accounted(c)
    BY DEF Init, Accounted
<1> QED
    BY <1>1, <1>2, <1>3, <1>4 DEF Bookkeeping

(* Every step of a call or of the outside world preserves Bookkeeping.     *)
LEMMA NextBookkeeping == Bookkeeping /\ [Next]_vars => Bookkeeping'
<1> SUFFICES ASSUME Bookkeeping, [Next]_vars PROVE Bookkeeping'
    OBVIOUS
<1>1. ASSUME NEW c \in Calls, Step(c)
      PROVE  Bookkeeping'
    <2>1. \A d \in Contracts : chain[d] = "cancelled" => chain'[d] = "cancelled"
        BY <1>1, CancelledStays DEF Next, Step
    <2>2. Accounted(c)'
        BY <1>1, <2>1, CallStepAccounted
    <2>3. ASSUME NEW x \in Calls, x # c
          PROVE  Accounted(x)' /\ Knows(x)'
        BY <1>1, <2>1, <2>3, CallStepFrame
           DEF Accounted, Gone, Knows, Current, Bookkeeping, TypeOK, Kinds
    <2>4. TypeOK' /\ KindOK'
        BY <1>1, CallStepType DEF Bookkeeping
    <2>5. Fresh' /\ Knows(c)'
        BY <1>1, CallStepFresh, CallStepKnows DEF Bookkeeping
    <2> QED
        BY <2>2, <2>3, <2>4, <2>5 DEF Bookkeeping
<1>2. ASSUME NEW e \in Contracts, WorldStep(e)
      PROVE  Bookkeeping'
    <2>1. \A d \in Contracts :
             \/ chain'[d] = chain[d]
             \/ chain[d] = "pooled" /\ chain'[d] \in {"created", "dropped"}
             \/ chain[d] = "created" /\ chain'[d] = "cancelled"
        BY <1>2, GridStepChain DEF WorldStep, Bookkeeping, TypeOK
    <2>2. UNCHANGED callVars /\ GridTypeOK'
        BY <1>2, GridStepType DEF WorldStep, Bookkeeping, TypeOK
    <2>3. TypeOK' /\ KindOK'
        BY <2>2 DEF Bookkeeping, TypeOK, KindOK, callVars
    <2>4. Fresh'
        BY <2>1, <2>2, GatewayAssumption DEF Bookkeeping, Fresh, NotSubmitted, callVars
    <2>5. ASSUME NEW x \in Calls
          PROVE  Accounted(x)' /\ Knows(x)'
        BY <2>1, <2>2 DEF Bookkeeping, TypeOK, Accounted, Gone, Knows, Current, Kinds, callVars
    <2> QED
        BY <2>3, <2>4, <2>5 DEF Bookkeeping
<1>3. CASE UNCHANGED vars
    BY <1>3 DEF Bookkeeping, TypeOK, GridTypeOK, Knows, KindOK, Current, Fresh,
       NotSubmitted, Accounted, Gone, vars, gridVars, callVars
<1> QED
    BY <1>1, <1>2, <1>3 DEF Next, Step, AllFinished

(* The state of the calls and of their surroundings stays well typed: no   *)
(* step creates, deploys or cancels contract id 0, and the attempts of     *)
(* deploy_and_confirm never exceed their limit.                            *)
THEOREM TypeCorrect == Spec => []TypeOK
<1>1. Bookkeeping => TypeOK
    BY DEF Bookkeeping
<1> QED
    BY <1>1, InitBookkeeping, NextBookkeeping, PTL DEF Spec

(* An Ok from cancel_gateway means that neither the deployment's contract  *)
(* nor the name contract of the outcome is left on chain.                  *)
THEOREM CancelIsComplete == Spec => []CancelledIsGone
<1>1. Bookkeeping => CancelledIsGone
    BY DEF Bookkeeping, Accounted, Gone, CancelledIsGone
<1> QED
    BY <1>1, InitBookkeeping, NextBookkeeping, PTL DEF Spec

-----------------------------------------------------------------------------
(* Who holds a name.                                                       *)

(* grid_proxy lists only contracts that were on chain.                     *)
ListedIncluded == \A d \in listed : chain[d] \in {"created", "cancelled"}

SameName(d, e) == NodeOf[d] = NoNode /\ NodeOf[e] = NoNode /\ HashOf[d] = HashOf[e]

(* TFChain holds a name for one contract at a time.                        *)
NamesUnique ==
    \A d, e \in Contracts :
        SameName(d, e) /\ chain[d] = "created" /\ chain[e] = "created" => d = e

(* The name contract a call of deploy_gateway_name creates.                *)
Own(c) == ContractOf(c, "name")

(* A contract that is cancelled, or that the chain is asked to cancel.     *)
Touched(d) == d \in cancelling \/ chain[d] = "cancelled"

(* A node contract is never taken for a name contract.                     *)
NodeIdOK(c) == created[c]["node"] # NoContract => NodeOf[created[c]["node"]] # NoNode

(* A call's own name contract is touched by nobody but itself, and the     *)
(* id it found is its own contract or one that is cancelled already.       *)
Story(c) ==
    /\ pc[c] = "idle" => kind[c] = "name"
    /\ pc[c] \in {"idle", "submit", "finalize", "lookup"} /\ kind[c] = "name" =>
          created[c]["name"] = NoContract
    /\ pc[c] = "returned" => created[c]["name"] # NoContract
    /\ pc[c] \in {"submit", "finalize", "lookup", "deploy", "confirm", "settle",
                  "readback"} /\ kind[c] = "node" => created[c]["name"] # NoContract
    /\ pc[c] \in {"deploy", "confirm", "settle", "readback"} => kind[c] = "node"
    /\ created[c]["name"] # NoContract => SameName(created[c]["name"], Own(c))
    /\ pc[c] = "lookup" \/ created[c]["name"] # NoContract =>
          chain[Own(c)] \in {"created", "cancelled"}
    /\ Touched(Own(c)) =>
          created[c]["name"] = Own(c) /\ pc[c] \in Cancelling \union {"cancelled", "cancelFailed"}
    /\ created[c]["name"] \notin {NoContract, Own(c)} =>
          chain[created[c]["name"]] = "cancelled"

(* The invariant behind NamesNotShared.                                    *)
NameStory ==
    /\ Bookkeeping
    /\ ListedIncluded
    /\ NamesUnique
    /\ \A c \in Calls : NodeIdOK(c)
    /\ \A c \in NameCalls : Story(c)

(* The name contracts of calls are contracts and name contracts.           *)
LEMMA OwnIsName ==
    ASSUME NEW c \in NameCalls
    PROVE  c \in Calls /\ Own(c) \in Contracts /\ NodeOf[Own(c)] = NoNode
BY GatewayAssumption DEF Own, KindsOf, Kinds

(* NameStory holds before any call has started.                            *)
LEMMA InitNameStory == Init => NameStory
<1> SUFFICES ASSUME Init PROVE NameStory
    OBVIOUS
<1>1. \A d \in Contracts : chain[d] = "none"
    BY DEF Init, GridInit
<1>2. \A c \in Calls : NodeIdOK(c)
    BY DEF Init, NodeIdOK, Kinds
<1>3. \A c \in NameCalls : Story(c)
    BY <1>1, OwnIsName DEF Init, GridInit, Story, Touched, Kinds, FirstKind
<1> QED
    BY <1>1, <1>2, <1>3, InitBookkeeping
       DEF NameStory, ListedIncluded, NamesUnique, Init, GridInit

(* A lookup by name answers with the call's own contract, or with one that *)
(* is cancelled: while the call's own exists no other holds the name.      *)
LEMMA LookupByName ==
    ASSUME NameStory, NEW c \in NameCalls, pc[c] = "lookup", kind[c] = "name",
           NEW d \in Matching(NodeOf[Own(c)], HashOf[Own(c)])
    PROVE  /\ d \in Contracts /\ SameName(d, Own(c))
           /\ d # Own(c) => chain[d] = "cancelled"
<1>1. d \in Contracts /\ chain[d] \in {"created", "cancelled"} /\ SameName(d, Own(c))
    BY OwnIsName DEF NameStory, Bookkeeping, TypeOK, GridTypeOK, ListedIncluded,
       Matching, SameName
<1>2. chain[Own(c)] \in {"created", "cancelled"} /\ created[c]["name"] = NoContract
    BY DEF NameStory, Story
<1>3. Own(c) # NoContract
    BY OwnIsName, GatewayAssumption
<1>4. chain[Own(c)] = "created"
    BY <1>2, <1>3 DEF NameStory, Story, Touched
<1> QED
    BY <1>1, <1>4, OwnIsName DEF NameStory, NamesUnique

(* A call touches no other call's name contract: one that it found by name *)
(* and that is not its own is cancelled already; nor does it touch a name  *)
(* when it cancels a node contract.                                        *)
LEMMA CallStepNames ==
    ASSUME NameStory, NEW c \in Calls, Step(c), NEW e \in NameCalls
    PROVE  /\ \/ chain'[Own(e)] = chain[Own(e)]
              \/ e = c /\ Submit(c) /\ kind[c] = "name" /\ chain'[Own(e)] = "pooled"
           /\ Own(e) \in cancelling' \/ chain'[Own(e)] = "cancelled" =>
              \/ Touched(Own(e))
              \/ /\ e = c /\ CancelCancel(c) /\ kind[c] = "name"
                 /\ created[c]["name"] = Own(c)
<1>1. Own(e) \in Contracts /\ NodeOf[Own(e)] = NoNode /\ e \in Calls /\ TypeOK
    BY OwnIsName DEF NameStory, Bookkeeping
<1>2. CASE CancelCancel(c) /\ Own(e) = Current(c)
    <2>1. Current(c) # NoContract
        BY <1>1, <1>2, GatewayAssumption
    <2>2. kind[c] = "name"
        BY <1>1, <1>2, <2>1 DEF NameStory, NodeIdOK, Current, TypeOK, Kinds
    <2>3. c \in NameCalls
        BY <2>2 DEF NameStory, Bookkeeping, KindOK
    <2>4. Own(e) = Own(c) \/ chain[Own(e)] = "cancelled"
        BY <1>2, <2>1, <2>2, <2>3 DEF NameStory, Story, Current
    <2>5. Own(e) = Own(c) => e = c
        BY ContractOfInjective DEF Own
    <2>6. chain' = chain
        BY <1>2 DEF CancelCancel
    <2> QED
        BY <1>2, <2>2, <2>4, <2>5, <2>6 DEF Current, Touched
<1>3. CASE ~(CancelCancel(c) /\ Own(e) = Current(c))
    <2>1. Own(e) \in cancelling' => Own(e) \in cancelling
        BY <1>1, <1>3, CallStepChain
    <2>2. CASE Submit(c) /\ Own(e) = Submitted(c) /\ chain'[Own(e)] = "pooled"
        <3>1. e = c /\ kind[c] = "name"
            BY <2>2, ContractOfInjective DEF Own, Submitted
        <3> QED
            BY <2>1, <2>2, <3>1 DEF Touched
    <2> QED
        BY <1>1, <2>1, <2>2, CallStepChain DEF Touched
<1> QED
    BY <1>2, <1>3

(* A contract that existed when grid_proxy listed it stays a contract that *)
(* existed, and a step of a call creates none.                             *)
LEMMA CallStepIncluded ==
    ASSUME NameStory, NEW c \in Calls, Step(c), NEW d \in Contracts
    PROVE  /\ chain[d] \in {"created", "cancelled"} => chain'[d] \in {"created", "cancelled"}
           /\ chain'[d] = "created" => chain[d] = "created"
           /\ chain[d] = "cancelled" => chain'[d] = "cancelled"
BY CallStepChain, SubmitsFresh DEF NameStory, Bookkeeping

(* A call's own steps continue its story.                                  *)
LEMMA CallStepStory ==
    ASSUME NameStory, NEW c \in NameCalls, Step(c)
    PROVE  Story(c)'
<1>a. c \in Calls /\ Own(c) \in Contracts /\ NodeOf[Own(c)] = NoNode /\ Own(c) # NoContract
    BY OwnIsName, GatewayAssumption
<1>b. Story(c) /\ TypeOK
    BY DEF NameStory, Bookkeeping
<1>c. created[c]["name"] \in Contracts \union {NoContract} /\ kind[c] \in {"name", "node"}
    BY <1>a, <1>b DEF TypeOK, Kinds
<1>d. /\ \/ chain'[Own(c)] = chain[Own(c)]
         \/ Submit(c) /\ kind[c] = "name" /\ chain'[Own(c)] = "pooled"
      /\ Touched(Own(c))' =>
         \/ Touched(Own(c))
         \/ pc[c] = "cancelCancel" /\ created[c]["name"] = Own(c)
    BY <1>a, CallStepNames DEF Own, Touched, CancelCancel
<1>e. created[c]["name"] # NoContract /\ chain[created[c]["name"]] = "cancelled"
         => chain'[created[c]["name"]] = "cancelled"
    BY <1>a, <1>c, CallStepIncluded
<1>f. c \notin CreateCalls
    BY GatewayAssumption
<1> USE <1>a, <1>b, <1>c, <1>d, <1>e, <1>f DEF Goto, Own, Touched
<1>g. ASSUME created' = created, kind' = kind,
             \/ pc[c] \in {"submit", "finalize", "deploy", "confirm", "settle",
                           "readback", "lookup", "idle"} /\ pc'[c] = "failed"
             \/ pc[c] \in {"deploy", "confirm", "settle", "readback"} /\
                pc'[c] \in {"deploy", "confirm", "settle", "readback", "returned"},
             chain' = chain
      PROVE  Story(c)'
    BY <1>g DEF Story, Cancelling
<1>1. CASE Start(c)
    BY <1>1 DEF Start, Story, TypeOK, gridVars, Cancelling
<1>2. CASE Submit(c)
    <2>1. created' = created /\ kind' = kind /\ pc[c] = "submit"
        BY <1>2 DEF Submit
    <2>2. CASE Goto(c, "failed") /\ chain' = chain
        BY <2>1, <2>2, <1>g DEF TypeOK
    <2>3. CASE Goto(c, "finalize") /\ kind[c] = "name"
        BY <2>1, <2>3 DEF Story, TypeOK, Cancelling
    <2>4. CASE Goto(c, "finalize") /\ kind[c] = "node"
        <3>1. chain'[Own(c)] = chain[Own(c)]
            BY <2>1, <2>4
        <3> QED
            BY <2>1, <2>4, <3>1 DEF Story, TypeOK, Cancelling
    <2> QED
        BY <1>2, <2>2, <2>3, <2>4 DEF Submit
<1>3. CASE Finalized(c)
    <2>1. /\ UNCHANGED <<chain, created, kind>> /\ pc[c] = "finalize"
          /\ \/ pc'[c] = "lookup" /\ chain[Submitted(c)] \in {"created", "cancelled"}
             \/ pc'[c] = "failed"
        BY <1>3 DEF Finalized, TypeOK, gridVars
    <2> QED
        BY <2>1 DEF Story, Submitted, Cancelling
<1>4. CASE WatchLost(c)
    <2>1. /\ UNCHANGED <<chain, cancelling, created, kind>>
          /\ \/ pc[c] = "finalize" /\ pc'[c] = "failed"
             \/ pc[c] = "cancelWatch" /\ pc'[c] = "cancelFailed"
        BY <1>4 DEF WatchLost, TypeOK, gridVars
    <2>2. CASE pc'[c] = "cancelFailed"
        BY <2>1, <2>2 DEF Story, Touched, Cancelling
    <2> QED
        BY <2>1, <2>2, <1>g
<1>5. CASE Lookup(c)
    <2>1. CASE Goto(c, "failed") /\ UNCHANGED <<created, kind>>
        <3>1. UNCHANGED <<chain, created, kind>> /\ pc[c] = "lookup" /\ pc'[c] = "failed"
            BY <1>5, <2>1 DEF Lookup, TypeOK, gridVars
        <3> QED
            BY <3>1, <1>g
    <2>2. ASSUME NEW d \in Matching(NodeOf[Submitted(c)], HashOf[Submitted(c)]),
                 created' = [created EXCEPT ![c][kind[c]] = d],
                 kind' = [kind EXCEPT ![c] = "node"],
                 pc' = [pc EXCEPT ![c] = IF kind[c] = "name" THEN "submit" ELSE "deploy"]
          PROVE  Story(c)'
       <3>1. UNCHANGED <<chain, cancelling>> /\ pc[c] = "lookup"
            BY <1>5 DEF Lookup, gridVars
       <3>2. CASE kind[c] = "name"
            <4>1. d \in Contracts /\ SameName(d, Own(c)) /\ (d # Own(c) => chain[d] = "cancelled")
                BY <2>2, <3>1, <3>2, LookupByName DEF Submitted
            <4>2. d # NoContract
                BY <4>1, GatewayAssumption
            <4>3. created'[c]["name"] = d /\ kind'[c] = "node" /\ pc'[c] = "submit"
                BY <2>2, <3>2 DEF TypeOK, Kinds
            <4>4. chain[Own(c)] = "created"
                BY <3>1, <3>2 DEF Story
            <4> QED
                BY <3>1, <4>1, <4>2, <4>3, <4>4 DEF Story, Cancelling
       <3>3. CASE kind[c] = "node"
            <4>1. created'[c]["name"] = created[c]["name"] /\ kind'[c] = "node" /\ pc'[c] = "deploy"
                BY <2>2, <3>3 DEF TypeOK, Kinds
            <4> QED
                BY <3>1, <3>3, <4>1 DEF Story, Cancelling
       <3> QED
            BY <3>2, <3>3
    <2> QED
        BY <1>5, <2>1, <2>2 DEF Lookup
<1>6. CASE Deploy(c) \/ Confirm(c) \/ Settle(c) \/ ReadBack(c)
    <2>1. /\ created' = created /\ kind' = kind /\ chain' = chain
          /\ pc[c] \in {"deploy", "confirm", "settle", "readback"}
          /\ pc'[c] \in {"deploy", "confirm", "settle", "readback", "returned", "failed"}
        BY <1>6 DEF Deploy, Confirm, Settle, ReadBack, TypeOK, gridVars
    <2> QED
        BY <2>1, <1>g
<1>7. CASE StartCancel(c) \/ CancelDelete(c) \/ CancelCancel(c) \/ CancelWatch(c)
    <2>1. /\ created' = created
          /\ pc[c] \in Cancelling \union {"returned", "cancelFailed"}
          /\ pc'[c] \in Cancelling \union {"cancelled", "cancelFailed"}
        BY <1>7 DEF StartCancel, CancelDelete, CancelCancel, CancelWatch, CancelNext,
           TypeOK, Cancelling
    <2>2. ~Submit(c)
        BY <2>1 DEF Submit, Cancelling
    <2> QED
        BY <2>1, <2>2 DEF Story, Cancelling
<1>8. CASE Hang(c)
    BY <1>8 DEF Hang, Story, Touched, gridVars
<1> QED
    BY <1>1, <1>2, <1>3, <1>4, <1>5, <1>6, <1>7, <1>8 DEF Step, CallStep

(* A node contract found by node and hash is no name contract.             *)
LEMMA CallStepNodeId ==
    ASSUME NameStory, NEW c \in Calls, Step(c)
    PROVE  NodeIdOK(c)'
<1> USE DEF NameStory, Bookkeeping, TypeOK, NodeIdOK, Kinds
<1>1. CASE Lookup(c)
    <2>1. NodeOf[ContractOf(c, "node")] # NoNode
        BY GatewayAssumption DEF KindsOf
    <2> QED
        BY <1>1, <2>1 DEF Lookup, Matching, Submitted
<1>2. CASE created' = created
    BY <1>2
<1> QED
    BY <1>1, <1>2 DEF Step, CallStep, Start, Submit, Finalized, WatchLost, Deploy,
       Confirm, Settle, ReadBack, StartCancel, CancelDelete, CancelCancel, CancelWatch, Hang

(* Every step preserves NameStory.                                         *)
LEMMA NextNameStory == NameStory /\ [Next]_vars => NameStory'
<1> SUFFICES ASSUME NameStory, [Next]_vars PROVE NameStory'
    OBVIOUS
<1>0. Bookkeeping'
    BY NextBookkeeping DEF NameStory
<1>a. TypeOK /\ GridTypeOK /\ GridTypeOK'
    BY <1>0 DEF NameStory, Bookkeeping, TypeOK
<1>1. ASSUME NEW c \in Calls, Step(c)
      PROVE  NameStory'
    <2>1. ListedIncluded'
        <3>1. listed' = listed
            BY <1>1 DEF Step, CallStep, Start, Submit, Finalized, WatchLost, Lookup,
               Deploy, Confirm, Settle, ReadBack, StartCancel, CancelDelete,
               CancelCancel, CancelWatch, Hang, gridVars
        <3> QED
            BY <1>a, <1>1, <3>1, CallStepIncluded DEF NameStory, ListedIncluded, GridTypeOK
    <2>2. NamesUnique'
        BY <1>1, CallStepIncluded DEF NameStory, NamesUnique, SameName
    <2>3. ASSUME NEW x \in Calls
          PROVE  NodeIdOK(x)'
        <3>1. CASE x = c
            BY <1>1, <3>1, CallStepNodeId
        <3>2. CASE x # c
            BY <1>a, <1>1, <3>2, CallStepFrame DEF NameStory, NodeIdOK
        <3> QED
            BY <3>1, <3>2
    <2>4. ASSUME NEW x \in NameCalls
          PROVE  Story(x)'
        <3>1. CASE x = c
            BY <1>1, <3>1, CallStepStory
        <3>2. CASE x # c
            <4>1. /\ x \in Calls /\ Story(x)
                  /\ created[x]["name"] \in Contracts \union {NoContract}
                BY <1>a, OwnIsName DEF NameStory, TypeOK, Kinds
            <4>2. pc'[x] = pc[x] /\ kind'[x] = kind[x] /\ created'[x] = created[x]
                BY <1>a, <1>1, <3>2, <4>1, CallStepFrame
            <4>3. /\ chain'[Own(x)] = chain[Own(x)]
                  /\ Own(x) \in cancelling' => Touched(Own(x))
                BY <1>1, <3>2, CallStepNames
            <4>4. created[x]["name"] # NoContract /\ chain[created[x]["name"]] = "cancelled"
                     => chain'[created[x]["name"]] = "cancelled"
                BY <1>1, <4>1, CallStepIncluded
            <4> QED
                BY <4>1, <4>2, <4>3, <4>4 DEF Story, Touched, Own
        <3> QED
            BY <3>1, <3>2
    <2> QED
        BY <1>0, <2>1, <2>2, <2>3, <2>4 DEF NameStory
<1>2. ASSUME NEW e \in Contracts, WorldStep(e)
      PROVE  NameStory'
    <2>1. /\ cancelling' \subseteq cancelling
          /\ \A d \in Contracts :
                \/ chain'[d] = chain[d]
                \/ d = e /\ chain[d] = "pooled" /\ chain'[d] \in {"created", "dropped"}
                \/ d \in cancelling /\ chain[d] = "created" /\ chain'[d] = "cancelled"
        BY <1>2, <1>a, GridStepChain DEF WorldStep
    <2>2. UNCHANGED <<pc, kind, created>>
        BY <1>2 DEF WorldStep, callVars
    <2>3. ListedIncluded'
        BY <1>2, <1>a, <2>1, GridStepListed
           DEF WorldStep, NameStory, ListedIncluded, GridTypeOK
    <2>4. NamesUnique'
        <3>1. chain[e] = "pooled" /\ chain'[e] = "created" => NameFree(e)
            BY <1>2 DEF WorldStep
        <3> QED
            BY <2>1, <3>1 DEF NameStory, NamesUnique, NameFree, SameName
    <2>5. ASSUME NEW x \in Calls
          PROVE  NodeIdOK(x)'
        BY <2>2 DEF NameStory, NodeIdOK
    <2>6. ASSUME NEW x \in NameCalls
          PROVE  Story(x)'
        <3>1. Story(x) /\ Own(x) \in Contracts
            BY OwnIsName DEF NameStory
        <3>2. created[x]["name"] \in Contracts \union {NoContract}
            BY <1>a, OwnIsName DEF TypeOK, Kinds
        <3> QED
            BY <2>1, <2>2, <3>1, <3>2 DEF Story, Touched, Own
    <2> QED
        BY <1>0, <2>3, <2>4, <2>5, <2>6 DEF NameStory
<1>3. CASE UNCHANGED vars
    BY <1>0, <1>3 DEF NameStory, ListedIncluded, NamesUnique, NodeIdOK, Story, Touched, Own,
       vars, gridVars, callVars
<1> QED
    BY <1>1, <1>2, <1>3 DEF Next, Step, AllFinished

(* Two gateways that deploy_gateway_name returned and nobody cancelled     *)
(* never share a name contract, however many calls ask for the name.       *)
THEOREM NamesAreNotShared == Spec => []NamesNotShared
<1>1. NameStory => NamesNotShared
    <2> SUFFICES ASSUME NameStory, NEW c \in NameCalls, NEW e \in NameCalls,
                        pc[c] = "returned", pc[e] = "returned",
                        created[c]["name"] = created[e]["name"]
                 PROVE  c = e
        BY DEF NamesNotShared
    <2>1. ASSUME NEW x \in NameCalls, pc[x] = "returned"
          PROVE  chain[Own(x)] = "created" /\ SameName(created[x]["name"], Own(x))
        BY <2>1 DEF NameStory, Story, Touched, Cancelling
    <2>2. SameName(Own(c), Own(e))
        BY <2>1 DEF SameName
    <2>3. Own(c) = Own(e)
        BY <2>1, <2>2, OwnIsName DEF NameStory, NamesUnique
    <2> QED
        BY <2>3, ContractOfInjective DEF Own
<1> QED
    BY <1>1, InitNameStory, NextNameStory, PTL DEF Spec

-----------------------------------------------------------------------------
(* In which order a gateway's contracts go.                                *)

(* A call's own name contract is touched only when its node contract is    *)
(* gone.                                                                   *)
NameLast(c) == Touched(Own(c)) => Gone(c, "node")

(* The invariant behind NameOutlivesGateway.                               *)
NamesLast == NameStory /\ \A c \in NameCalls : NameLast(c)

(* A node contract that is gone stays gone, and a call whose own name      *)
(* contract is touched looks for contracts no more.                        *)
LEMMA NextNamesLast == NamesLast /\ [Next]_vars => NamesLast'
<1> SUFFICES ASSUME NamesLast, [Next]_vars, NEW c \in NameCalls,
                    Own(c) \in cancelling' \/ chain'[Own(c)] = "cancelled"
             PROVE  Gone(c, "node")'
    BY NextNameStory DEF NamesLast, NameLast, Touched, Own
<1>1. /\ c \in Calls /\ Own(c) \in Contracts /\ TypeOK /\ Bookkeeping
      /\ Story(c) /\ NameStory
    BY OwnIsName DEF NamesLast, NameStory, Bookkeeping
<1>2. created[c]["node"] \in Contracts \union {NoContract}
    BY <1>1 DEF TypeOK, Kinds
<1>3. \A d \in Contracts : chain[d] = "cancelled" => chain'[d] = "cancelled"
    BY <1>1, CancelledStays DEF vars, gridVars
<1>4. ASSUME created'[c] = created[c], Gone(c, "node")
      PROVE  Gone(c, "node")'
    BY <1>2, <1>3, <1>4 DEF Gone
<1>5. ASSUME NEW e \in Calls, Step(e)
      PROVE  Gone(c, "node")'
    <2>1. CASE Touched(Own(c))
        <3>1. Gone(c, "node") /\ pc[c] \in Cancelling \union {"cancelled", "cancelFailed"}
            BY <1>1, <2>1 DEF NamesLast, NameLast, Story
        <3>2. created'[c] = created[c]
            <4>1. CASE e # c
                BY <1>1, <1>5, <4>1, CallStepFrame
            <4>2. CASE e = c
                BY <1>5, <3>1, <4>2 DEF Cancelling, Step, CallStep, Start, Submit,
                   Finalized, WatchLost, Lookup, Deploy, Confirm, Settle, ReadBack,
                   StartCancel, CancelDelete, CancelCancel, CancelWatch, Hang
            <4> QED
                BY <4>1, <4>2
        <3> QED
            BY <1>4, <3>1, <3>2
    <2>2. CASE CancelCancel(c) /\ kind[c] = "name"
        <3>1. Gone(c, "node")
            BY <1>1, <2>2 DEF Bookkeeping, Accounted, CancelCancel
        <3> QED
            BY <1>4, <2>2, <3>1 DEF CancelCancel
    <2> QED
        BY <1>1, <1>5, <2>1, <2>2, CallStepNames
<1>6. ASSUME NEW e \in Contracts, WorldStep(e)
      PROVE  Gone(c, "node")'
    <2>1. Touched(Own(c))
        BY <1>1, <1>6, GridStepChain DEF WorldStep, TypeOK, Touched
    <2> QED
        BY <1>4, <1>6, <2>1 DEF NamesLast, NameLast, WorldStep, callVars
<1>7. CASE UNCHANGED vars
    BY <1>4, <1>7 DEF NamesLast, NameLast, Touched, vars, gridVars, callVars
<1> QED
    BY <1>5, <1>6, <1>7 DEF Next, Step, AllFinished

(* A gateway that exists has its name, through every retry of a partly     *)
(* failed cancel_gateway and whatever calls for the same name do.          *)
THEOREM NamesGoLast == Spec => []NameOutlivesGateway
<1>1. Init => NamesLast
    BY InitNameStory, OwnIsName DEF NamesLast, NameLast, Touched, Init, GridInit
<1>2. NamesLast => NameOutlivesGateway
    <2> SUFFICES ASSUME NamesLast, NEW c \in NameCalls,
                        \A k \in Kinds : created[c][k] = ContractOf(c, k),
                        chain[created[c]["node"]] = "created"
                 PROVE  chain[created[c]["name"]] = "created"
        BY DEF NameOutlivesGateway
    <2>1. created[c]["name"] = Own(c) /\ created[c]["node"] = ContractOf(c, "node")
        BY DEF Kinds, Own
    <2>2. created[c]["name"] # NoContract /\ created[c]["node"] # NoContract
        BY <2>1, OwnIsName, GatewayAssumption DEF KindsOf, Kinds
    <2>3. chain[Own(c)] \in {"created", "cancelled"}
        BY <2>2 DEF NamesLast, NameStory, Story
    <2>4. chain[Own(c)] # "cancelled"
        BY <2>2 DEF NamesLast, NameLast, Touched, Gone
    <2> QED
        BY <2>1, <2>3, <2>4
<1> QED
    BY <1>1, <1>2, NextNamesLast, PTL DEF Spec

-----------------------------------------------------------------------------
(* Gateway implements Lease.                                               *)

(* The state of the lease, as Gateway maps it.                             *)
Phase == [c \in Calls |-> PhaseAt(pc[c])]
Known == [c \in Calls |-> KnownTo(c)]
GoneNow == {d \in Contracts : chain[d] = "cancelled"}

(* The phase of a call, read off where it stands.                          *)
LEMMA PhaseValues ==
    ASSUME NEW l
    PROVE  /\ l \in Deploying => PhaseAt(l) = "working"
           /\ l = "returned" => PhaseAt(l) = "held"
           /\ l \in Cancelling \union {"cancelFailed"} => PhaseAt(l) = "ending"
           /\ l = "cancelled" => PhaseAt(l) = "ended"
           /\ l \in {"idle", "failed"} => PhaseAt(l) = l
<1> USE DEF PhaseAt, Deploying, Cancelling
<1>1. l \in Deploying => PhaseAt(l) = "working"
    OBVIOUS
<1>2. l = "returned" => PhaseAt(l) = "held"
    OBVIOUS
<1>3. l \in Cancelling \union {"cancelFailed"} => PhaseAt(l) = "ending"
    OBVIOUS
<1>4. l = "cancelled" => PhaseAt(l) = "ended"
    OBVIOUS
<1>5. l \in {"idle", "failed"} => PhaseAt(l) = l
    OBVIOUS
<1> QED
    BY <1>1, <1>2, <1>3, <1>4, <1>5

(* A step of a call moves the phase and the knowledge of that call alone.  *)
LEMMA CallStepMapped ==
    ASSUME TypeOK, NEW c \in Calls, Step(c)
    PROVE  /\ Phase' = [Phase EXCEPT ![c] = PhaseAt(pc'[c])]
           /\ Known' = [Known EXCEPT ![c] = KnownTo(c)']
<1>1. \A x \in Calls : x # c => pc'[x] = pc[x] /\ created'[x] = created[x]
    BY CallStepFrame
<1>2. Phase' = [Phase EXCEPT ![c] = PhaseAt(pc'[c])]
    BY <1>1 DEF Phase
<1>3. \A x \in Calls : x # c => KnownTo(x)' = KnownTo(x)
    BY <1>1 DEF KnownTo
<1>4. Known' = [Known EXCEPT ![c] = KnownTo(c)']
    BY <1>3 DEF Known
<1> QED
    BY <1>2, <1>4

(* The moves of Lease in which the contracts of a call stay the same.      *)
LEMMA LeaseMoves ==
    ASSUME TypeOK, NEW c \in Calls, Step(c), created' = created,
           GoneNow' = GoneNow, cancelling' = cancelling
    PROVE  /\ Phase'[c] = Phase[c] => UNCHANGED L!leaseVars
           /\ Phase[c] = "idle" /\ Phase'[c] = "working" => L!Begin(c)
           /\ Phase[c] = "idle" /\ Phase'[c] = "failed" => L!Refuse(c)
           /\ Phase[c] = "working" /\ Phase'[c] = "failed" => L!Fall(c)
           /\ Phase[c] = "working" /\ Phase'[c] = "held" /\ KnownTo(c) # {} => L!Return(c)
           /\ Phase[c] = "held" /\ Phase'[c] = "ending" => L!Cancel(c)
           /\ Phase[c] = "ending" /\ Phase'[c] = "ended"
                 /\ KnownTo(c) # {} /\ KnownTo(c) \subseteq GoneNow => L!End(c)
<1>1. KnownTo(c)' = KnownTo(c)
    BY DEF KnownTo
<1>2. Known' = Known /\ Known[c] = KnownTo(c)
    BY <1>1, CallStepMapped DEF Known
<1>3. Phase' = [Phase EXCEPT ![c] = Phase'[c]]
    BY CallStepMapped DEF Phase
<1>4. Phase'[c] = Phase[c] => Phase' = Phase
    BY <1>3 DEF Phase
<1> USE <1>2, <1>3, <1>4 DEF Phase, Known, GoneNow
<1>5. Phase'[c] = Phase[c] => UNCHANGED L!leaseVars
    BY DEF L!leaseVars
<1>6. Phase[c] = "ending" /\ Phase'[c] = "ended"
         /\ KnownTo(c) # {} /\ KnownTo(c) \subseteq GoneNow => L!End(c)
    BY DEF L!End, L!Move
<1> QED
    BY <1>5, <1>6 DEF L!Begin, L!Refuse, L!Fall, L!Return, L!Cancel, L!Move

(* Looking a contract up is acquiring it: nothing known is forgotten.      *)
LEMMA LookupAcquires ==
    ASSUME Bookkeeping, NEW c \in Calls, Step(c), Lookup(c)
    PROVE  L!LeaseNext
<1>a. /\ TypeOK /\ GridTypeOK /\ Knows(c)
      /\ pc[c] = "lookup" /\ kind[c] \in Kinds /\ Phase[c] = "working"
      /\ created[c] \in [Kinds -> Contracts \union {NoContract}]
    BY PhaseValues DEF Bookkeeping, TypeOK, Lookup, Phase, Deploying
<1>b. GoneNow' = GoneNow /\ cancelling' = cancelling
    BY DEF Lookup, GoneNow, gridVars
<1>1. CASE Goto(c, "failed") /\ UNCHANGED <<created, kind>>
    <2>1. Phase'[c] = "failed"
        BY <1>a, <1>1, PhaseValues DEF Phase, Goto, TypeOK
    <2>2. L!Fall(c)
        BY <1>a, <1>b, <1>1, <2>1, LeaseMoves
    <2> QED
        BY <2>2 DEF L!LeaseNext
<1>2. ASSUME NEW d \in listed,
             created' = [created EXCEPT ![c][kind[c]] = d],
             Goto(c, CASE kind[c] = "name" -> "submit"
                       [] c \in CreateCalls -> "returned"
                       [] OTHER -> "deploy")
      PROVE  L!LeaseNext
    <2>1. d \in Contracts /\ d # NoContract
        BY <1>a, GatewayAssumption DEF GridTypeOK
    <2>2. KnownTo(c)' = KnownTo(c) \union {d}
        <3>1. created[c][kind[c]] = NoContract
            BY <1>a DEF Knows, Seeking, Current
        <3>2. \A k \in Kinds : created'[c][k] = IF k = kind[c] THEN d ELSE created[c][k]
            BY <1>a, <1>2 DEF TypeOK
        <3> QED
            BY <1>a, <2>1, <3>1, <3>2 DEF KnownTo
    <2>3. pc'[c] \in {"submit", "returned", "deploy"}
        <3>1. c \in CreateCalls => kind[c] # "name"
            BY GatewayAssumption DEF Bookkeeping, KindOK
        <3> QED
            BY <1>a, <1>2, <3>1 DEF Goto, TypeOK
    <2>4. PhaseAt(pc'[c]) \in {"working", "held"}
        BY <2>3, PhaseValues DEF Deploying
    <2>5. L!Acquire(c)
        BY <1>a, <1>b, <2>1, <2>2, <2>4, CallStepMapped
           DEF L!Acquire, L!Move, Phase, Known, GoneNow
    <2> QED
        BY <2>5 DEF L!LeaseNext
<1> QED
    BY <1>1, <1>2 DEF Lookup, Matching

(* Submitting a cancellation asks for a contract that the call knows; one  *)
(* that cannot be submitted leaves the lease ending.                       *)
LEMMA CancelAsks ==
    ASSUME Bookkeeping, NEW c \in Calls, Step(c), CancelCancel(c)
    PROVE  L!LeaseNext \/ UNCHANGED L!leaseVars
<1>a. TypeOK /\ Knows(c) /\ pc[c] = "cancelCancel" /\ kind[c] \in Kinds /\ created' = created
    BY DEF Bookkeeping, TypeOK, CancelCancel
<1>1. Current(c) \in KnownTo(c)
    BY <1>a DEF Knows, Cancelling, KnownTo, Current
<1>2. GoneNow' = GoneNow
    BY DEF CancelCancel, GoneNow
<1>3. pc'[c] \in {"cancelWatch", "cancelFailed"}
    BY <1>a DEF CancelCancel, Goto, TypeOK
<1>4. Phase[c] = "ending" /\ Phase'[c] = "ending"
    BY <1>a, <1>3, PhaseValues DEF Phase, Cancelling
<1>5. CASE cancelling' = cancelling
    BY <1>a, <1>2, <1>4, <1>5, LeaseMoves
<1>6. CASE cancelling' = cancelling \union {Current(c)}
    <2>1. Phase' = Phase
        BY <1>a, <1>4, CallStepMapped DEF Phase
    <2>2. Known' = Known
        BY <1>a DEF Known, KnownTo
    <2>3. L!Ask(c)
        BY <1>1, <1>2, <1>4, <1>6, <2>1, <2>2 DEF L!Ask, Phase, Known, GoneNow
    <2> QED
        BY <2>3 DEF L!LeaseNext
<1> QED
    BY <1>5, <1>6 DEF CancelCancel

(* Learning of a cancellation ends the lease after the last contract.      *)
LEMMA CancelWatchEnds ==
    ASSUME Bookkeeping, NEW c \in Calls, Step(c), CancelWatch(c)
    PROVE  L!LeaseNext \/ UNCHANGED L!leaseVars
<1>a. /\ TypeOK /\ Knows(c) /\ Accounted(c)
      /\ pc[c] = "cancelWatch" /\ kind[c] \in Kinds /\ created' = created
      /\ created[c] \in [Kinds -> Contracts \union {NoContract}]
    BY DEF Bookkeeping, TypeOK, CancelWatch
<1>b. GoneNow' = GoneNow /\ cancelling' = cancelling
    BY DEF CancelWatch, GoneNow, gridVars
<1>c. Phase[c] = "ending"
    BY <1>a, PhaseValues DEF Phase, Cancelling
<1>1. CASE pc'[c] = "cancelled"
    <2>1. chain[Current(c)] = "cancelled" /\ (kind[c] = "name" \/ created[c]["name"] = NoContract)
        BY <1>a, <1>1 DEF CancelWatch, CancelNext, Goto, TypeOK, Kinds
    <2>2. kind[c] = "name" => created[c]["node"] \in GoneNow \union {NoContract}
        BY <1>a DEF Accounted, Gone, GoneNow, Kinds
    <2>3. KnownTo(c) \subseteq GoneNow
        BY <1>a, <2>1, <2>2 DEF KnownTo, Current, GoneNow, Kinds
    <2>4. KnownTo(c) # {}
        BY <1>a DEF Knows, Cancelling, KnownTo, Current
    <2>5. Phase'[c] = "ended"
        BY <1>1, PhaseValues DEF Phase
    <2>6. L!End(c)
        BY <1>a, <1>b, <1>c, <2>3, <2>4, <2>5, LeaseMoves
    <2> QED
        BY <2>6 DEF L!LeaseNext
<1>2. CASE pc'[c] # "cancelled"
    <2>1. pc'[c] \in {"cancelCancel", "cancelFailed"}
        BY <1>a, <1>2 DEF CancelWatch, CancelNext, Goto, TypeOK
    <2>2. Phase'[c] = "ending"
        BY <2>1, PhaseValues DEF Phase, Cancelling
    <2> QED
        BY <1>a, <1>b, <1>c, <2>2, LeaseMoves
<1> QED
    BY <1>1, <1>2

(* Every step of a call is a step of its lease, or none.                   *)
LEMMA CallStepLease ==
    ASSUME Bookkeeping, NEW c \in Calls, Step(c)
    PROVE  L!LeaseNext \/ UNCHANGED L!leaseVars
<1>a. TypeOK /\ GridTypeOK /\ Knows(c)
    BY DEF Bookkeeping, TypeOK
<1>b. ASSUME created' = created, GoneNow' = GoneNow, cancelling' = cancelling,
             \/ Phase'[c] = Phase[c]
             \/ Phase[c] = "idle" /\ Phase'[c] \in {"working", "failed"}
             \/ Phase[c] = "working" /\ Phase'[c] = "failed"
             \/ Phase[c] = "working" /\ Phase'[c] = "held" /\ KnownTo(c) # {}
             \/ Phase[c] = "held" /\ Phase'[c] = "ending"
      PROVE  L!LeaseNext \/ UNCHANGED L!leaseVars
    <2>1. \/ UNCHANGED L!leaseVars
          \/ L!Begin(c) \/ L!Refuse(c) \/ L!Fall(c) \/ L!Return(c) \/ L!Cancel(c)
        BY <1>a, <1>b, LeaseMoves
    <2> QED
        BY <2>1 DEF L!LeaseNext
<1>c. Phase[c] = PhaseAt(pc[c]) /\ Phase'[c] = PhaseAt(pc'[c])
    BY DEF Phase
<1>1. CASE Start(c)
    <2>1. created' = created /\ GoneNow' = GoneNow /\ cancelling' = cancelling
        BY <1>1 DEF Start, GoneNow, gridVars
    <2>2. pc[c] = "idle" /\ pc'[c] \in {"submit", "failed"}
        BY <1>a, <1>1 DEF Start, Goto, TypeOK
    <2> QED
        BY <1>b, <1>c, <2>1, <2>2, PhaseValues DEF Deploying
<1>2. CASE Submit(c)
    <2>1. created' = created /\ pc[c] = "submit" /\ pc'[c] \in {"finalize", "failed"}
        BY <1>a, <1>2 DEF Submit, Goto, TypeOK
    <2>2. GoneNow' = GoneNow /\ cancelling' = cancelling
        <3>1. chain[Submitted(c)] = "none" /\ Submitted(c) \in Contracts
            BY <1>a, <1>2, SubmitsFresh DEF Bookkeeping
        <3> QED
            BY <1>a, <1>2, <3>1 DEF Submit, GoneNow, GridTypeOK
    <2> QED
        BY <1>b, <1>c, <2>1, <2>2, PhaseValues DEF Deploying
<1>3. CASE Finalized(c) \/ WatchLost(c) \/ Hang(c)
    <2>1. created' = created /\ GoneNow' = GoneNow /\ cancelling' = cancelling
        BY <1>3 DEF Finalized, WatchLost, Hang, GoneNow, gridVars
    <2>2. \/ pc[c] = "finalize" /\ pc'[c] \in {"lookup", "failed"}
          \/ pc[c] = "cancelWatch" /\ pc'[c] = "cancelFailed"
          \/ pc' = pc
        BY <1>a, <1>3 DEF Finalized, WatchLost, Hang, Goto, TypeOK
    <2> QED
        BY <1>b, <1>c, <2>1, <2>2, PhaseValues DEF Deploying, Cancelling
<1>4. CASE Lookup(c)
    BY <1>4, LookupAcquires
<1>5. CASE Deploy(c) \/ Confirm(c) \/ Settle(c) \/ ReadBack(c)
    <2>1. created' = created /\ GoneNow' = GoneNow /\ cancelling' = cancelling
        BY <1>5 DEF Deploy, Confirm, Settle, ReadBack, GoneNow, gridVars
    <2>2. /\ pc[c] \in {"deploy", "confirm", "settle", "readback"}
          /\ pc'[c] \in {"deploy", "confirm", "settle", "readback", "returned", "failed"}
        BY <1>a, <1>5 DEF Deploy, Confirm, Settle, ReadBack, Goto, TypeOK
    <2>3. KnownTo(c) # {}
        BY <1>a, <2>2 DEF Knows, Having, Working, KnownTo, Kinds
    <2> QED
        BY <1>b, <1>c, <2>1, <2>2, <2>3, PhaseValues DEF Deploying
<1>6. CASE StartCancel(c) \/ CancelDelete(c)
    <2>1. created' = created /\ GoneNow' = GoneNow /\ cancelling' = cancelling
        BY <1>6 DEF StartCancel, CancelDelete, GoneNow, gridVars
    <2>2. /\ pc[c] \in {"returned", "cancelFailed", "cancelDelete"}
          /\ pc'[c] \in {"cancelDelete", "cancelCancel"}
        BY <1>a, <1>6 DEF StartCancel, CancelDelete, Goto, TypeOK
    <2> QED
        BY <1>b, <1>c, <2>1, <2>2, PhaseValues DEF Cancelling
<1>7. CASE CancelCancel(c) \/ CancelWatch(c)
    BY <1>7, CancelAsks, CancelWatchEnds
<1> QED
    BY <1>1, <1>2, <1>3, <1>4, <1>5, <1>6, <1>7 DEF Step, CallStep

(* The calls that never roll back, their lookups by name or hash and       *)
(* cancel_gateway implement Lease for any number of calls and any sharing  *)
(* of names and hashes: no call forgets a contract it knows, and a lease   *)
(* ends only when every contract of it is cancelled.                       *)
THEOREM GatewayKeepsLease == Spec => KeepsLease
<1>1. Init => L!LeaseInit
    <2>1. ASSUME Init
          PROVE  /\ [c \in Calls |-> PhaseAt(pc[c])] = [c \in Calls |-> "idle"]
                 /\ [c \in Calls |-> KnownTo(c)] = [c \in Calls |-> {}]
                 /\ {d \in Contracts : chain[d] = "cancelled"} = {}
                 /\ cancelling = {}
        BY <2>1, PhaseValues DEF Init, GridInit, KnownTo
    <2> QED
        BY <2>1 DEF L!LeaseInit
<1>2. Bookkeeping /\ [Next]_vars => [L!LeaseNext]_L!leaseVars
    <2> SUFFICES ASSUME Bookkeeping, [Next]_vars
                 PROVE  L!LeaseNext \/ UNCHANGED L!leaseVars
        OBVIOUS
    <2>1. ASSUME NEW c \in Calls, Step(c)
          PROVE  L!LeaseNext \/ UNCHANGED L!leaseVars
        BY <2>1, CallStepLease
    <2>2. ASSUME NEW d \in Contracts, WorldStep(d)
          PROVE  L!LeaseNext \/ UNCHANGED L!leaseVars
        <3>1. UNCHANGED <<pc, created>>
            BY <2>2 DEF WorldStep, callVars
        <3>2. \/ cancelling' = cancelling /\ GoneNow' = GoneNow
              \/ /\ d \in cancelling /\ cancelling' = cancelling \ {d}
                 /\ GoneNow' \in {GoneNow, GoneNow \union {d}}
            BY <2>2, GridStepGone DEF WorldStep, Bookkeeping, TypeOK, GoneNow
        <3>3. CASE cancelling' = cancelling /\ GoneNow' = GoneNow
            BY <3>1, <3>3 DEF L!leaseVars, KnownTo, GoneNow
        <3>4. CASE /\ d \in cancelling /\ cancelling' = cancelling \ {d}
                   /\ GoneNow' \in {GoneNow, GoneNow \union {d}}
            <4>1. L!Answer(d)
                BY <3>1, <3>4 DEF L!Answer, KnownTo, GoneNow
            <4> QED
                BY <3>4, <4>1 DEF L!LeaseNext
        <3> QED
            BY <3>2, <3>3, <3>4
    <2>3. CASE UNCHANGED vars
        BY <2>3 DEF vars, gridVars, callVars, L!leaseVars, KnownTo
    <2> QED
        BY <2>1, <2>2, <2>3 DEF Next, Step, AllFinished
<1> QED
    BY <1>1, <1>2, InitBookkeeping, NextBookkeeping, PTL DEF Spec, KeepsLease, L!LeaseSpec

=============================================================================
