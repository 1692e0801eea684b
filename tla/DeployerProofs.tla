--------------------------- MODULE DeployerProofs ---------------------------
(***************************************************************************)
(* Proofs about Deployer, for any number of calls, nodes and contracts.    *)
(***************************************************************************)
EXTENDS Deployer, TLAPS

(* An id that was not drawn has left no mark.                              *)
Unmarked(i) ==
    /\ status[i] = "none"
    /\ \A n \in Nodes : listed[n][i] = 0 /\ i \notin deployments[n]

Unused == \A i \in Ids : i >= nextId => Unmarked(i)

(* A call's id is below the counter and nobody else's.                     *)
OwnIds ==
    /\ \A t \in Deploys : id[t] # NoId => id[t] < nextId
    /\ \A t \in Deploys : pc[t] \in {"idle", "take"} => id[t] = NoId
    /\ \A t, u \in Deploys : id[t] # NoId /\ id[t] = id[u] => t = u

(* The contract of a call is entered under the call's node.                *)
Entered(t) == status[id[t]] # "none" /\ place[id[t]] = node[t]

NotPut(t) == \A n \in Nodes : id[t] \notin deployments[n]

(* What a call has left in the maps at each point.                         *)
Staged ==
    \A t \in Deploys :
        /\ pc[t] \in Drawn \union {"take"} => node[t] \in Registered
        /\ pc[t] = "insert" => Unmarked(id[t])
        /\ pc[t] \in Drawn \ {"insert"} => Entered(t)
        /\ pc[t] = "push" => \A n \in Nodes : listed[n][id[t]] = 0
        /\ pc[t] \in {"hash", "build", "put", "returned"} => listed[node[t]][id[t]] = 1
        /\ pc[t] \in {"push", "hash", "build", "put"} => NotPut(t)

(* A deployment sits on the node of its contract.                          *)
Located ==
    \A n \in Nodes : \A i \in deployments[n] : status[i] # "none" /\ place[i] = n

Untargeted(t) == \A c \in Cancels : cpc[c] # "idle" => target[c] # id[t]

(* Nothing of a call is taken away unless a cancel names its contract.     *)
Kept ==
    \A t \in Deploys : Untargeted(t) =>
        /\ pc[t] \in Drawn \ {"insert"} => status[id[t]] = "created"
        /\ pc[t] = "returned" => id[t] \in deployments[node[t]]

BeforeReturned == \A c \in Cancels : \A t \in before[c] : pc[t] = "returned"

(* The inductive invariant.                                                *)
Books ==
    /\ TypeOK
    /\ Unused
    /\ OwnIds
    /\ Staged
    /\ Located
    /\ IndexesAgree
    /\ Kept
    /\ BeforeReturned
    /\ CancelledIsUndeployed

(* The books are in order with what the fixtures entered before sharing.   *)
LEMMA BooksInit == Init => Books
<1> SUFFICES ASSUME Init PROVE Books
  OBVIOUS
<1> USE DeployerAssumption DEF Init, AddedContracts, AddedEntries
<1>1. TypeOK
  BY DEF TypeOK, Drawn
<1>2. Unused
  BY <1>1 DEF Unused, Unmarked, TypeOK, Ids
<1>3. OwnIds
  BY <1>1 DEF OwnIds, TypeOK
<1>4. Staged
  BY DEF Staged, Drawn
<1>5. Located
  BY DEF Located
<1>6. IndexesAgree
  BY DEF IndexesAgree
<1>7. Kept /\ BeforeReturned /\ CancelledIsUndeployed
  BY DEF Kept, BeforeReturned, CancelledIsUndeployed, Drawn
<1> QED
  BY <1>1, <1>2, <1>3, <1>4, <1>5, <1>6, <1>7 DEF Books

(* Every step of a deploy keeps the books.                                 *)
LEMMA BooksDeploy ==
    ASSUME Books, NEW t \in Deploys, DeployStep(t) PROVE Books'
<1> USE DeployerAssumption DEF Goto, WithDeployment
<1>1. CASE Begin(t)
  <2>1. TypeOK'
    BY <1>1 DEF Books, TypeOK, Begin, substrateVars, cancelVars, Drawn, Ids
  <2>2. Unused' /\ Located' /\ IndexesAgree'
    BY <1>1 DEF Books, Begin, Unused, Unmarked, Located, IndexesAgree, substrateVars
  <2>3. OwnIds'
    BY <1>1 DEF Books, Begin, OwnIds, TypeOK, substrateVars
  <2>4. Staged'
    BY <1>1 DEF Books, Begin, Staged, Entered, NotPut, Unmarked, TypeOK, substrateVars, Drawn
  <2>5. Kept' /\ BeforeReturned' /\ CancelledIsUndeployed'
    BY <1>1 DEF Books, Begin, Kept, Untargeted, BeforeReturned, CancelledIsUndeployed,
                TypeOK, substrateVars, cancelVars, Drawn
  <2> QED
    BY <2>1, <2>2, <2>3, <2>4, <2>5 DEF Books
<1>2. CASE TakeId(t)
  <2>1. TypeOK'
    BY <1>2 DEF Books, TypeOK, TakeId, cancelVars, Drawn, Ids
  <2>2. Unused' /\ Located' /\ IndexesAgree'
    BY <1>2 DEF Books, TakeId, Unused, Unmarked, Located, IndexesAgree, TypeOK, Ids
  <2>3. OwnIds'
    BY <1>2 DEF Books, TakeId, OwnIds, TypeOK, Ids
  <2>4. Unmarked(nextId)
    BY <1>2 DEF Books, TakeId, Unused, TypeOK, Ids
  <2>5. Staged'
    BY <1>2, <2>4 DEF Books, TakeId, Staged, Entered, NotPut, Unmarked, TypeOK, Drawn
  <2>6. Kept' /\ BeforeReturned'
    BY <1>2 DEF Books, TakeId, Kept, Untargeted, BeforeReturned, TypeOK, cancelVars, Drawn
  <2>7. CancelledIsUndeployed'
    BY <1>2 DEF Books, TakeId, BeforeReturned, CancelledIsUndeployed, TypeOK, cancelVars
  <2> QED
    BY <2>1, <2>2, <2>3, <2>5, <2>6, <2>7 DEF Books
<1>3. CASE InsertContract(t)
  <2>1. id[t] \in Ids /\ id[t] < nextId /\ node[t] \in Nodes /\ Unmarked(id[t])
    BY <1>3 DEF Books, InsertContract, TypeOK, OwnIds, Staged, Drawn
  <2>2. \A u \in Deploys : u # t => id[u] # id[t]
    BY <2>1 DEF Books, OwnIds, Ids
  <2>3. TypeOK'
    BY <1>3, <2>1 DEF Books, TypeOK, InsertContract, cancelVars, Drawn
  <2>4. Unused' /\ OwnIds'
    BY <1>3, <2>1 DEF Books, InsertContract, Unused, Unmarked, OwnIds, TypeOK, Ids
  <2>5. Located' /\ IndexesAgree'
    BY <1>3, <2>1 DEF Books, InsertContract, Located, IndexesAgree, Unmarked, TypeOK
  <2>6. Staged'
    BY <1>3, <2>1, <2>2 DEF Books, InsertContract, Staged, Entered, NotPut, Unmarked, TypeOK, Drawn
  <2>7. Kept' /\ BeforeReturned' /\ CancelledIsUndeployed'
    BY <1>3, <2>1, <2>2 DEF Books, InsertContract, Kept, Untargeted, BeforeReturned,
                CancelledIsUndeployed, TypeOK, cancelVars, Drawn
  <2> QED
    BY <2>3, <2>4, <2>5, <2>6, <2>7 DEF Books
<1>4. CASE PushNodeContract(t)
  <2>1. /\ id[t] \in Ids /\ id[t] < nextId /\ node[t] \in Nodes
        /\ Entered(t) /\ \A n \in Nodes : listed[n][id[t]] = 0
    BY <1>4 DEF Books, PushNodeContract, TypeOK, OwnIds, Staged, Drawn
  <2>2. \A u \in Deploys : u # t => id[u] # id[t]
    BY <2>1 DEF Books, OwnIds, Ids
  <2>3. /\ \A n \in Nodes, i \in Ids :
             listed'[n][i] = IF n = node[t] /\ i = id[t] THEN 1 ELSE listed[n][i]
        /\ listed' \in [Nodes -> [Ids -> 0 .. 1]]
    BY <1>4, <2>1 DEF Books, PushNodeContract, TypeOK
  <2>4. TypeOK'
    BY <1>4, <2>3 DEF Books, TypeOK, PushNodeContract, cancelVars, Drawn
  <2>5. Unused' /\ OwnIds'
    BY <1>4, <2>1, <2>3 DEF Books, PushNodeContract, Unused, Unmarked, OwnIds, TypeOK, Ids
  <2>6. Located' /\ IndexesAgree'
    <3>1. Located'
      BY <1>4 DEF Books, PushNodeContract, Located
    <3>2. \A n \in Nodes : \A i \in Ids : listed'[n][i] > 0 => status'[i] # "none" /\ place'[i] = n
      BY <1>4, <2>1, <2>3 DEF Books, PushNodeContract, IndexesAgree, Entered
    <3>3. \A n \in Nodes : \A h \in Hashes : hashes[<<n, h>>] # NoId => listed'[n][hashes[<<n, h>>]] > 0
      BY <2>1, <2>3 DEF Books, IndexesAgree, TypeOK
    <3> QED
      BY <1>4, <3>1, <3>2, <3>3 DEF PushNodeContract, IndexesAgree
  <2>7. Staged'
    BY <1>4, <2>1, <2>2, <2>3 DEF Books, PushNodeContract, Staged, Entered, NotPut, Unmarked, TypeOK, Drawn
  <2>8. Kept' /\ BeforeReturned' /\ CancelledIsUndeployed'
    BY <1>4 DEF Books, PushNodeContract, Kept, Untargeted, BeforeReturned,
                CancelledIsUndeployed, TypeOK, cancelVars, Drawn
  <2> QED
    BY <2>4, <2>5, <2>6, <2>7, <2>8 DEF Books
<1>5. CASE InsertHash(t)
  <2>1. id[t] \in Ids /\ node[t] \in Nodes /\ listed[node[t]][id[t]] = 1
    BY <1>5 DEF Books, InsertHash, TypeOK, Staged, Drawn
  <2>2. TypeOK'
    BY <1>5, <2>1 DEF Books, TypeOK, InsertHash, cancelVars, Drawn
  <2>3. Unused' /\ OwnIds' /\ Located'
    BY <1>5 DEF Books, InsertHash, Unused, Unmarked, OwnIds, Located, TypeOK
  <2>4. IndexesAgree'
    BY <1>5, <2>1 DEF Books, InsertHash, IndexesAgree, TypeOK
  <2>5. Staged'
    BY <1>5 DEF Books, InsertHash, Staged, Entered, NotPut, Unmarked, TypeOK, Drawn
  <2>6. Kept' /\ BeforeReturned' /\ CancelledIsUndeployed'
    BY <1>5 DEF Books, InsertHash, Kept, Untargeted, BeforeReturned,
                CancelledIsUndeployed, TypeOK, cancelVars, Drawn
  <2> QED
    BY <2>2, <2>3, <2>4, <2>5, <2>6 DEF Books
<1>6. CASE Build(t)
  <2>0. /\ UNCHANGED <<substrateVars, deployments, node, hash, id, cancelVars>>
        /\ pc[t] = "build"
        /\ pc' = [pc EXCEPT ![t] = "put"] \/ pc' = [pc EXCEPT ![t] = "failed"]
    BY <1>6 DEF Build
  <2>1. TypeOK'
    <3>1. CASE pc' = [pc EXCEPT ![t] = "put"]
      BY <2>0, <3>1 DEF Books, TypeOK, substrateVars, cancelVars, Drawn
    <3>2. CASE pc' = [pc EXCEPT ![t] = "failed"]
      BY <2>0, <3>2 DEF Books, TypeOK, substrateVars, cancelVars, Drawn
    <3> QED
      BY <2>0, <3>1, <3>2
  <2>2. Unused' /\ OwnIds' /\ Located' /\ IndexesAgree'
    BY <1>6 DEF Books, Build, Unused, Unmarked, OwnIds, Located, IndexesAgree, TypeOK, substrateVars
  <2>3. Staged'
    BY <1>6 DEF Books, Build, Staged, Entered, NotPut, Unmarked, TypeOK, substrateVars, Drawn
  <2>4. Kept' /\ BeforeReturned' /\ CancelledIsUndeployed'
    BY <1>6 DEF Books, Build, Kept, Untargeted, BeforeReturned,
                CancelledIsUndeployed, TypeOK, substrateVars, cancelVars, Drawn
  <2> QED
    BY <2>1, <2>2, <2>3, <2>4 DEF Books
<1>7. CASE Put(t) /\ id[t] = 0
  <2>1. /\ UNCHANGED <<substrateVars, deployments, node, hash, id, cancelVars>>
        /\ pc[t] = "put" /\ pc' = [pc EXCEPT ![t] = "failed"]
    BY <1>7 DEF Put
  <2>2. TypeOK'
    BY <2>1 DEF Books, TypeOK, substrateVars, cancelVars, Drawn
  <2>3. Unused' /\ OwnIds' /\ Located' /\ IndexesAgree'
    BY <2>1 DEF Books, Unused, Unmarked, OwnIds, Located, IndexesAgree, TypeOK, substrateVars
  <2>4. Staged'
    BY <2>1 DEF Books, Staged, Entered, NotPut, Unmarked, TypeOK, substrateVars, Drawn
  <2>5. Kept' /\ BeforeReturned' /\ CancelledIsUndeployed'
    BY <2>1 DEF Books, Kept, Untargeted, BeforeReturned, CancelledIsUndeployed,
                TypeOK, substrateVars, cancelVars, Drawn
  <2> QED
    BY <2>2, <2>3, <2>4, <2>5 DEF Books
<1>8. CASE Put(t) /\ id[t] # 0
  <2>0. /\ UNCHANGED <<substrateVars, node, hash, id, cancelVars>>
        /\ pc[t] = "put" /\ pc' = [pc EXCEPT ![t] = "returned"]
        /\ deployments' = [deployments EXCEPT ![node[t]] = @ \union {id[t]}]
    BY <1>8 DEF Put
  <2>1. id[t] \in Ids /\ id[t] < nextId /\ node[t] \in Nodes /\ Entered(t)
    BY <2>0 DEF Books, TypeOK, OwnIds, Staged, Drawn
  <2>2. \A u \in Deploys : u # t => id[u] # id[t]
    BY <2>1 DEF Books, OwnIds, Ids
  <2>3. TypeOK'
    BY <2>0, <2>1 DEF Books, TypeOK, substrateVars, cancelVars, Drawn
  <2>4. Unused' /\ OwnIds'
    BY <2>0, <2>1 DEF Books, Unused, Unmarked, OwnIds, TypeOK, substrateVars, Ids
  <2>5. Located' /\ IndexesAgree'
    BY <2>0, <2>1 DEF Books, Located, IndexesAgree, Entered, TypeOK, substrateVars
  <2>6. Staged'
    BY <2>0, <2>1, <2>2 DEF Books, Staged, Entered, NotPut, Unmarked, TypeOK, substrateVars, Drawn
  <2>7. Kept'
    BY <2>0, <2>1 DEF Books, Kept, Untargeted, TypeOK, substrateVars, cancelVars, Drawn
  <2>8. BeforeReturned' /\ CancelledIsUndeployed'
    BY <2>0, <2>2 DEF Books, BeforeReturned, CancelledIsUndeployed, TypeOK, cancelVars
  <2> QED
    BY <2>3, <2>4, <2>5, <2>6, <2>7, <2>8 DEF Books
<1> QED
  BY <1>1, <1>2, <1>3, <1>4, <1>5, <1>6, <1>7, <1>8 DEF DeployStep

(* So does the first half of a cancel, which marks the contract deleted,   *)
LEMMA BooksStartCancel ==
    ASSUME Books, NEW c \in Cancels, NEW i \in Ids, StartCancel(c, i) PROVE Books'
<1>1. TypeOK'
  BY DEF Books, TypeOK, StartCancel, HasReturned, deployVars
<1>2. /\ \A j \in Ids : (status'[j] = "none") <=> (status[j] = "none")
      /\ \A j \in Ids : j # i => status'[j] = status[j]
  BY DEF Books, TypeOK, StartCancel
<1>3. Unused' /\ OwnIds' /\ Located' /\ IndexesAgree'
  BY <1>2 DEF Books, StartCancel, Unused, Unmarked, OwnIds, Located, IndexesAgree, TypeOK, deployVars
<1>4. Staged'
  BY <1>2 DEF Books, StartCancel, Staged, Entered, NotPut, Unmarked, TypeOK, deployVars, Drawn
<1>5. Kept'
  <2> SUFFICES ASSUME NEW t \in Deploys, Untargeted(t)'
               PROVE  /\ pc[t] \in Drawn \ {"insert"} => status'[id[t]] = "created"
                      /\ pc[t] = "returned" => id[t] \in deployments[node[t]]
    BY DEF Kept, StartCancel, deployVars
  <2>1. Untargeted(t) /\ id[t] # i
    BY DEF Books, TypeOK, Untargeted, StartCancel, deployVars
  <2> QED
    BY <1>2, <2>1 DEF Books, Kept, TypeOK
<1>6. BeforeReturned' /\ CancelledIsUndeployed'
  BY DEF Books, StartCancel, HasReturned, BeforeReturned, CancelledIsUndeployed, TypeOK, deployVars
<1> QED
  BY <1>1, <1>3, <1>4, <1>5, <1>6 DEF Books

(* and the second half, which deletes the deployment.                      *)
LEMMA BooksEndCancel ==
    ASSUME Books, NEW c \in Cancels, EndCancel(c) PROVE Books'
<1> USE DeployerAssumption DEF WithoutDeployment
<1>1. target[c] \in Ids /\ cpc[c] # "idle"
  BY DEF Books, TypeOK, EndCancel
<1>2. /\ \A n \in Nodes : deployments'[n] \subseteq deployments[n]
      /\ \A n \in Nodes : \A j \in Ids : j # target[c] /\ j \in deployments[n] => j \in deployments'[n]
      /\ deployments' \in [Nodes -> SUBSET Ids]
  BY DEF Books, TypeOK, EndCancel
<1>3. TypeOK'
  BY <1>1, <1>2 DEF Books, TypeOK, EndCancel, substrateVars, deployVars
<1>4. Unused' /\ OwnIds' /\ Located' /\ IndexesAgree'
  BY <1>2 DEF Books, EndCancel, Unused, Unmarked, OwnIds, Located, IndexesAgree, TypeOK, substrateVars, deployVars
<1>5. Staged'
  BY <1>2 DEF Books, EndCancel, Staged, Entered, NotPut, Unmarked, TypeOK, substrateVars, deployVars, Drawn
<1>6. Kept'
  BY <1>1, <1>2 DEF Books, EndCancel, Kept, Untargeted, TypeOK, substrateVars, deployVars, Drawn
<1>7. BeforeReturned'
  BY DEF Books, EndCancel, BeforeReturned, deployVars
<1>8. cpc'[c] = "cancelled" => \A n \in Nodes : target[c] \notin deployments'[n]
  BY DEF Books, EndCancel, Located, TypeOK
<1>9. CancelledIsUndeployed'
  BY <1>2, <1>8 DEF Books, EndCancel, CancelledIsUndeployed, TypeOK, substrateVars, deployVars
<1> QED
  BY <1>3, <1>4, <1>5, <1>6, <1>7, <1>9 DEF Books

(* No step of a deploy or of a cancel brings the books into disorder.      *)
LEMMA BooksNext == Books /\ [Next]_vars => Books'
<1> SUFFICES ASSUME Books, [Next]_vars PROVE Books'
  OBVIOUS
<1>1. CASE UNCHANGED vars
  BY <1>1 DEF Books, TypeOK, Unused, Unmarked, OwnIds, Staged, Entered, NotPut, Located,
              IndexesAgree, Kept, Untargeted, BeforeReturned, CancelledIsUndeployed,
              vars, substrateVars, deployVars, cancelVars
<1>2. ASSUME NEW t \in Deploys, DeployStep(t) PROVE Books'
  BY <1>2, BooksDeploy
<1>3. ASSUME NEW c \in Cancels, EndCancel(c) PROVE Books'
  BY <1>3, BooksEndCancel
<1>4. ASSUME NEW c \in Cancels, NEW i \in Ids, StartCancel(c, i) PROVE Books'
  BY <1>4, BooksStartCancel
<1>5. CASE AllFinished
  BY <1>1, <1>5 DEF AllFinished
<1> QED
  BY <1>1, <1>2, <1>3, <1>4, <1>5 DEF Next

(* The books are in order at any moment, for any number of threads.        *)
LEMMA BooksAlways == Spec => []Books
  BY BooksInit, BooksNext, PTL DEF Spec

(* The maps hold contract ids only, from wherever the counter starts, and  *)
(* a node's vector never holds one twice.                                  *)
THEOREM TypeCorrect == Spec => []TypeOK
  BY BooksAlways, PTL DEF Books

(* The maps of MockSubstrate agree for any number of threads that create   *)
(* contracts in it, although each map has a lock of its own.               *)
THEOREM IndexesAlwaysAgree == Spec => []IndexesAgree
  BY BooksAlways, PTL DEF Books

(* What Deployer::deploy returned stays until a cancel names it, for any   *)
(* number of concurrent calls, equal or not.                               *)
THEOREM DeployedStaysLive == Spec => []DeployedIsLive
<1>1. Books => DeployedIsLive
  BY DeployerAssumption
  DEF Books, DeployedIsLive, HasReturned, Untargeted, Kept, Staged, Entered, OwnIds, TypeOK, Drawn
<1> QED
  BY <1>1, BooksAlways, PTL

(* An Ok from Deployer::cancel, called with what deploy returned, means    *)
(* that the deployment is gone for good.                                   *)
THEOREM CancelUndeploys == Spec => []CancelledIsUndeployed
  BY BooksAlways, PTL DEF Books

=============================================================================
