----------------------------- MODULE GridProofs -----------------------------
(* Facts about the outside world that the proofs of its clients share.     *)
EXTENDS Grid, TLAPS

(* The world starts well typed.                                            *)
LEMMA GridInitType == GridInit => GridTypeOK
BY DEF GridInit, GridTypeOK, ChainStates, ZosStates

(* A step of the outside world keeps its own variables well typed.         *)
LEMMA GridStepType ==
    ASSUME GridTypeOK, NEW d \in Contracts, GridStep(d)
    PROVE  GridTypeOK'
<1> USE DEF GridTypeOK, ChainStates, ZosStates
<1>1. CASE ChainDecides(d)
    BY <1>1 DEF ChainDecides, IncludeTx, DropTx, IncludeCancel, DropCancel
<1>2. CASE ProxySync(d) \/ DeliverDeploy(d) \/ LoseDeploy(d)
    BY <1>2 DEF ProxySync, DeliverDeploy, LoseDeploy, Hosted
<1>3. CASE \E s \in ZosStates : Provision(d, s)
    BY <1>3 DEF Provision
<1> QED
    BY <1>1, <1>2, <1>3 DEF GridStep

(* The outside world decides on pooled extrinsics and on nothing else: it  *)
(* creates what waits to be created and cancels what waits to be cancelled.*)
LEMMA GridStepChain ==
    ASSUME GridTypeOK, NEW e \in Contracts, GridStep(e)
    PROVE  /\ cancelling' \subseteq cancelling
           /\ \A d \in Contracts :
                 \/ chain'[d] = chain[d]
                 \/ d = e /\ chain[d] = "pooled" /\ chain'[d] \in {"created", "dropped"}
                 \/ d = e /\ d \in cancelling /\ chain[d] = "created" /\ chain'[d] = "cancelled"
<1> USE DEF GridTypeOK
<1>1. CASE ChainDecides(e)
    BY <1>1 DEF ChainDecides, IncludeTx, DropTx, IncludeCancel, DropCancel
<1>2. CASE UNCHANGED <<chain, cancelling>>
    BY <1>2
<1> QED
    BY <1>1, <1>2 DEF GridStep, ProxySync, DeliverDeploy, LoseDeploy, Provision

(* A world step that decides on a cancellation does nothing else to the    *)
(* contracts that are gone; any other world step leaves them alone.        *)
LEMMA GridStepGone ==
    ASSUME GridTypeOK, NEW e \in Contracts, GridStep(e)
    PROVE  LET gone == {d \in Contracts : chain[d] = "cancelled"}
           IN  \/ cancelling' = cancelling /\ gone' = gone
               \/ /\ e \in cancelling /\ cancelling' = cancelling \ {e}
                  /\ gone' \in {gone, gone \union {e}}
<1> DEFINE gone == {d \in Contracts : chain[d] = "cancelled"}
<1> SUFFICES \/ cancelling' = cancelling /\ gone' = gone
             \/ /\ e \in cancelling /\ cancelling' = cancelling \ {e}
                /\ gone' \in {gone, gone \union {e}}
    OBVIOUS
<1> USE DEF GridTypeOK
<1>1. CASE IncludeTx(e) \/ DropTx(e)
    BY <1>1 DEF IncludeTx, DropTx
<1>2. CASE IncludeCancel(e)
    BY <1>2 DEF IncludeCancel
<1>3. CASE DropCancel(e)
    BY <1>3 DEF DropCancel
<1>4. CASE UNCHANGED <<chain, cancelling>>
    BY <1>4
<1> QED
    BY <1>1, <1>2, <1>3, <1>4 DEF GridStep, ChainDecides, ProxySync, DeliverDeploy,
       LoseDeploy, Provision

(* grid_proxy lists a contract only once it exists.                        *)
LEMMA GridStepListed ==
    ASSUME GridTypeOK, NEW e \in Contracts, GridStep(e)
    PROVE  \A d \in listed' : d \in listed \/ (chain[d] = "created" /\ chain' = chain)
<1>1. CASE ProxySync(e)
    BY <1>1 DEF ProxySync
<1>2. CASE listed' = listed
    BY <1>2
<1> QED
    BY <1>1, <1>2 DEF GridStep, ChainDecides, IncludeTx, DropTx, IncludeCancel, DropCancel,
       DeliverDeploy, LoseDeploy, Provision

(* A node never loses what it holds by itself.                             *)
LEMMA GridStepHosts ==
    ASSUME GridTypeOK, NEW e \in Contracts, GridStep(e)
    PROVE  \A d \in Contracts : zos[d] # "absent" => zos'[d] # "absent"
BY DEF GridTypeOK, GridStep, ChainDecides, IncludeTx, DropTx, IncludeCancel, DropCancel,
   ProxySync, DeliverDeploy, LoseDeploy, Provision, Hosted

(* A lookup for a contract whose hash is its own finds that contract; and  *)
(* a lookup that finds such a contract was looking for it.                 *)
LEMMA AlikeOwn ==
    ASSUME NEW d \in Contracts, NEW e \in Contracts, Alike(d, e), OwnHash(d) \/ OwnHash(e)
    PROVE  d = e
BY DEF Alike, OwnHash

=============================================================================
