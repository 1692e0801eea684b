---------------------------- MODULE RmbCallProofs ---------------------------
(***************************************************************************)
(* Machine-checked proofs about RmbCall, for any number of concurrent calls.*)
(***************************************************************************)
EXTENDS RmbCall, SequenceTheorems, TLAPS

(* A reply in the session's inbox comes from a request the node handled.   *)
RepliesHandled == \A m \in inbox : m # Garbage => m.uid \in handled

(* The inductive invariant: the three properties and where replies are from.*)
Separation ==
    /\ TypeOK
    /\ SocketPresent
    /\ RepliesHandled
    /\ NoCrossTalk
    /\ OkWasHandled

(* Leaving the mutex's queue keeps it a queue of calls.                    *)
LEMMA RemoveWaiter ==
    ASSUME NEW S, NEW s \in Seq(S), NEW i \in 1 .. Len(s)
    PROVE  SubSeq(s, 1, i - 1) \o SubSeq(s, i + 1, Len(s)) \in Seq(S)
<1>1. SubSeq(s, 1, i - 1) \in Seq(S)
    BY SubSeqProperties
<1>2. SubSeq(s, i + 1, Len(s)) \in Seq(S)
    BY SubSeqProperties
<1> QED
    BY <1>1, <1>2

(* Separation holds of a client that has made no call.                     *)
LEMMA InitSeparation == Init => Separation
BY RmbAssumption DEF Init, Separation, TypeOK, SocketPresent, RepliesHandled,
   NoCrossTalk, OkWasHandled, InCall

(* Every step keeps the state well typed.                                  *)
LEMMA NextType == TypeOK /\ [Next]_vars => TypeOK'
<1> SUFFICES ASSUME TypeOK, [Next]_vars PROVE TypeOK'
    OBVIOUS
<1> USE DEF TypeOK, InCall, Goto, Return
<1>1. ASSUME NEW c \in Calls, Begin(c) PROVE TypeOK'
    <2>1. waiters' \in Seq(Calls)
        BY <1>1 DEF Begin
    <2> QED
        BY <1>1, <2>1 DEF Begin
<1>2. ASSUME NEW c \in Calls, Acquire(c) PROVE TypeOK'
    <2>1. waiters' \in Seq(Calls)
        BY <1>2 DEF Acquire
    <2> QED
        BY <1>2, <2>1 DEF Acquire
<1>3. ASSUME NEW c \in Calls, Connect(c) PROVE TypeOK'
    BY <1>3 DEF Connect
<1>4. ASSUME NEW c \in Calls, Send(c) PROVE TypeOK'
    BY <1>4 DEF Send
<1>5. ASSUME NEW c \in Calls, Receive(c) PROVE TypeOK'
    <2> PICK m \in inbox :
          /\ inbox' = inbox \ {m}
          /\ IF m = Garbage
             THEN Return(c, "err") /\ answer' = answer
             ELSE IF m.uid # c \/ Outcome(c, m.body) = "none"
             THEN UNCHANGED <<pc, result, holder, answer>>
             ELSE Return(c, Outcome(c, m.body)) /\ answer' = [answer EXCEPT ![c] = m.uid]
        BY <1>5 DEF Receive
    <2>1. Outcome(c, m.body) \in {"ok", "err", "none"}
        BY DEF Outcome
    <2>2. CASE m = Garbage
        BY <1>5, <2>2 DEF Receive
    <2>3. CASE m # Garbage /\ (m.uid # c \/ Outcome(c, m.body) = "none")
        BY <1>5, <2>3 DEF Receive
    <2>4. CASE m # Garbage /\ ~(m.uid # c \/ Outcome(c, m.body) = "none")
        <3>1. Return(c, Outcome(c, m.body)) /\ answer' = [answer EXCEPT ![c] = c]
            BY <2>4
        <3>2. result' \in [Calls -> {"none", "ok", "err", "dropped"}]
            BY <2>1, <3>1
        <3>3. answer' \in [Calls -> Calls \union {NoCall}]
            BY <3>1
        <3> QED
            BY <1>5, <3>1, <3>2, <3>3 DEF Receive
    <2> QED
        BY <2>2, <2>3, <2>4
<1>6. ASSUME NEW c \in Calls, Timeout(c) \/ LeaveLoop(c) \/ StreamError(c) PROVE TypeOK'
    BY <1>6 DEF Timeout, LeaveLoop, StreamError
<1>7. ASSUME NEW c \in Calls, DropWaiter(c) PROVE TypeOK'
    <2>1. waiters' \in Seq(Calls)
        BY <1>7, RemoveWaiter DEF DropWaiter
    <2> QED
        BY <1>7, <2>1 DEF DropWaiter
<1>8. ASSUME NEW c \in Calls, DropHolder(c) PROVE TypeOK'
    BY <1>8 DEF DropHolder
<1>9. ASSUME NEW c \in Calls, NodeReply(c) \/ LoseRequest(c) PROVE TypeOK'
    BY <1>9 DEF NodeReply, LoseRequest, Replies
<1>10. CASE RelayFrame \/ RelayClose
    BY <1>10 DEF RelayFrame, RelayClose
<1>11. CASE UNCHANGED vars
    BY <1>11 DEF vars
<1> QED
    BY <1>1, <1>2, <1>3, <1>4, <1>5, <1>6, <1>7, <1>8, <1>9, <1>10, <1>11
       DEF Next, CallStep, AllDone

(* Every step preserves the separation of the calls.                       *)
LEMMA NextSeparation == Separation /\ [Next]_vars => Separation'
<1> SUFFICES ASSUME Separation, [Next]_vars PROVE Separation'
    OBVIOUS
<1>a. TypeOK'
    BY NextType DEF Separation
<1>b. \A m \in inbox : m # Garbage => m \in Replies
    BY DEF Separation, TypeOK
<1>c. NoCall \notin Calls
    BY RmbAssumption
<1> USE <1>a, <1>c DEF Separation, TypeOK, SocketPresent, RepliesHandled, NoCrossTalk,
        OkWasHandled, InCall, Goto, Return
<1>1. ASSUME NEW c \in Calls, Begin(c) PROVE Separation'
    BY <1>1 DEF Begin
<1>2. ASSUME NEW c \in Calls, Acquire(c) PROVE Separation'
    BY <1>2 DEF Acquire
<1>3. ASSUME NEW c \in Calls, Connect(c) PROVE Separation'
    BY <1>3 DEF Connect
<1>4. ASSUME NEW c \in Calls, Send(c) PROVE Separation'
    BY <1>4 DEF Send
<1>5. ASSUME NEW c \in Calls, Receive(c) PROVE Separation'
    <2> PICK m \in inbox :
          /\ inbox' = inbox \ {m}
          /\ IF m = Garbage
             THEN Return(c, "err") /\ answer' = answer
             ELSE IF m.uid # c \/ Outcome(c, m.body) = "none"
             THEN UNCHANGED <<pc, result, holder, answer>>
             ELSE Return(c, Outcome(c, m.body)) /\ answer' = [answer EXCEPT ![c] = m.uid]
        BY <1>5 DEF Receive
    <2>1. UNCHANGED <<waiters, link, requests, handled>>
        BY <1>5 DEF Receive
    <2>2. CASE m = Garbage
        BY <1>5, <2>1, <2>2 DEF Receive
    <2>3. CASE m # Garbage /\ (m.uid # c \/ Outcome(c, m.body) = "none")
        BY <2>1, <2>3
    <2>4. CASE m # Garbage /\ ~(m.uid # c \/ Outcome(c, m.body) = "none")
        <3>1. m.uid = c /\ c \in handled
            BY <1>b, <2>4
        <3> QED
            BY <1>5, <2>1, <2>4, <3>1 DEF Receive
    <2> QED
        BY <2>2, <2>3, <2>4
<1>6. ASSUME NEW c \in Calls, Timeout(c) \/ LeaveLoop(c) \/ StreamError(c) PROVE Separation'
    BY <1>6 DEF Timeout, LeaveLoop, StreamError
<1>7. ASSUME NEW c \in Calls, DropWaiter(c) PROVE Separation'
    BY <1>7 DEF DropWaiter
<1>8. ASSUME NEW c \in Calls, DropHolder(c) PROVE Separation'
    BY <1>8 DEF DropHolder
<1>9. ASSUME NEW c \in Calls, NodeReply(c) \/ LoseRequest(c) PROVE Separation'
    BY <1>9 DEF NodeReply, LoseRequest
<1>10. CASE RelayFrame \/ RelayClose
    BY <1>10 DEF RelayFrame, RelayClose
<1>11. CASE UNCHANGED vars
    BY <1>11 DEF vars
<1> QED
    BY <1>1, <1>2, <1>3, <1>4, <1>5, <1>6, <1>7, <1>8, <1>9, <1>10, <1>11
       DEF Next, CallStep, AllDone

(* No call is answered by another call's reply, for any number of calls,   *)
(* reconnects, late replies and dropped futures.                           *)
THEOREM CallsAreSeparate == Spec => []NoCrossTalk
<1>1. Separation => NoCrossTalk
    BY DEF Separation
<1> QED
    BY <1>1, InitSeparation, NextSeparation, PTL DEF Spec

(* An Ok value was produced by the node for this very request.             *)
THEOREM OkIsFromTheNode == Spec => []OkWasHandled
<1>1. Separation => OkWasHandled
    BY DEF Separation
<1> QED
    BY <1>1, InitSeparation, NextSeparation, PTL DEF Spec

(* The two "relay socket missing" errors of rmb_call are unreachable.      *)
THEOREM SocketIsNeverMissing == Spec => []SocketPresent
<1>1. Separation => SocketPresent
    BY DEF Separation
<1> QED
    BY <1>1, InitSeparation, NextSeparation, PTL DEF Spec

(* Every step keeps the client's, the relay's and the node's state typed.  *)
THEOREM TypeCorrect == Spec => []TypeOK
<1>1. Separation => TypeOK
    BY DEF Separation
<1> QED
    BY <1>1, InitSeparation, NextSeparation, PTL DEF Spec

-----------------------------------------------------------------------------
(* The mutex: the safety half of EveryCallReturns.                         *)

(* The queue without its i-th waiter, entry by entry.                      *)
LEMMA RemovedEntries ==
    ASSUME NEW S, NEW s \in Seq(S), NEW i \in 1 .. Len(s),
           NEW r, r = SubSeq(s, 1, i - 1) \o SubSeq(s, i + 1, Len(s))
    PROVE  /\ Len(r) = Len(s) - 1
           /\ \A j \in 1 .. Len(s) - 1 : r[j] = IF j < i THEN s[j] ELSE s[j + 1]
<1> DEFINE a == SubSeq(s, 1, i - 1)
           b == SubSeq(s, i + 1, Len(s))
<1>1. a \in Seq(S) /\ Len(a) = i - 1 /\ \A j \in 1 .. i - 1 : a[j] = s[j]
    BY SubSeqProperties
<1>2. b \in Seq(S) /\ Len(b) = Len(s) - i /\ \A j \in 1 .. Len(s) - i : b[j] = s[i + j]
    BY SubSeqProperties
<1>0. r = a \o b
    OBVIOUS
<1> HIDE DEF a, b
<1>3. Len(a \o b) = Len(s) - 1
    <2>1. Len(a \o b) = Len(a) + Len(b)
        BY <1>1, <1>2, ConcatProperties
    <2> QED
        BY <1>1, <1>2, <2>1
<1>4. ASSUME NEW j \in 1 .. Len(s) - 1
      PROVE  (a \o b)[j] = IF j < i THEN s[j] ELSE s[j + 1]
    <2>1. CASE j < i
        BY <1>1, <1>2, <2>1
    <2>2. CASE ~(j < i)
        <3>1. (a \o b)[j] = b[j - (i - 1)]
            BY <1>1, <1>2, <2>2
        <3>2. j - (i - 1) \in 1 .. Len(s) - i /\ i + (j - (i - 1)) = j + 1
            BY <2>2
        <3> QED
            BY <1>2, <2>2, <3>1, <3>2
    <2> QED
        BY <2>1, <2>2
<1> QED
    BY <1>0, <1>3, <1>4

(* Only these steps touch the queue; the others leave it as it is.         *)
LEMMA NextMutex == Separation /\ MutexIsSound /\ [Next]_vars => MutexIsSound'
<1> SUFFICES ASSUME Separation, MutexIsSound, [Next]_vars PROVE MutexIsSound'
    OBVIOUS
<1>0. TypeOK /\ NoCall \notin Calls
    BY RmbAssumption DEF Separation
<1> USE <1>0 DEF TypeOK, InCall, Goto, Return
<1>1. ASSUME NEW c \in Calls, Begin(c) PROVE MutexIsSound'
    <2>1. CASE pc' = [pc EXCEPT ![c] = "queued"] /\ waiters' = Append(waiters, c)
                  /\ holder' = holder
        <3>1. /\ Len(waiters') = Len(waiters) + 1 /\ waiters'[Len(waiters) + 1] = c
              /\ \A j \in 1 .. Len(waiters) : waiters'[j] = waiters[j]
            BY <2>1
        <3>2. ~IsWaiting(c) /\ Len(waiters) \in Nat
            BY <1>1 DEF Begin, MutexIsSound
        <3>3. \A x \in Calls : IsWaiting(x)' <=> IsWaiting(x) \/ x = c
            BY <3>1, <3>2 DEF IsWaiting
        <3>4. \A i, j \in 1 .. Len(waiters') : waiters'[i] = waiters'[j] => i = j
            BY <3>1, <3>2 DEF IsWaiting, MutexIsSound
        <3>5. pc[c] = "idle"
            BY <1>1 DEF Begin
        <3> HIDE DEF IsWaiting
        <3> QED
            BY <2>1, <3>3, <3>4, <3>5 DEF MutexIsSound
    <2>2. CASE Return(c, "err") /\ waiters' = waiters
        BY <1>1, <2>2 DEF Begin, MutexIsSound, IsWaiting
    <2> QED
        BY <1>1, <2>1, <2>2 DEF Begin
<1>2. ASSUME NEW c \in Calls, Acquire(c) PROVE MutexIsSound'
    <2>1. /\ Len(waiters) \in Nat \ {0} /\ waiters[1] = c /\ Len(waiters') = Len(waiters) - 1
          /\ \A j \in 1 .. Len(waiters) - 1 : waiters'[j] = waiters[j + 1]
        BY <1>2 DEF Acquire
    <2>2. \A i, j \in 1 .. Len(waiters) : waiters[i] = waiters[j] => i = j
        BY DEF MutexIsSound
    <2>3. ASSUME NEW x \in Calls PROVE IsWaiting(x)' <=> IsWaiting(x) /\ x # c
        <3>1. ASSUME NEW j \in 1 .. Len(waiters'), waiters'[j] = x
              PROVE  IsWaiting(x) /\ x # c
            <4>1. j + 1 \in 1 .. Len(waiters) /\ waiters[j + 1] = x /\ j + 1 # 1
                BY <2>1, <3>1
            <4> QED
                BY <2>1, <2>2, <4>1 DEF IsWaiting
        <3>2. ASSUME NEW j \in 1 .. Len(waiters), waiters[j] = x, x # c
              PROVE  IsWaiting(x)'
            <4>1. j - 1 \in 1 .. Len(waiters') /\ waiters'[j - 1] = x
                BY <2>1, <3>2
            <4> QED
                BY <4>1 DEF IsWaiting
        <3> QED
            BY <3>1, <3>2 DEF IsWaiting
    <2>4. \A i, j \in 1 .. Len(waiters') : waiters'[i] = waiters'[j] => i = j
        BY <2>1, <2>2
    <2>5. pc[c] = "queued" /\ holder = NoCall /\ holder' = c /\ pc'[c] \in InCall
        <3>1. IsWaiting(c)
            BY <2>1 DEF IsWaiting
        <3> QED
            BY <1>2, <3>1 DEF Acquire, MutexIsSound
    <2>6. \A x \in Calls : x # c => pc'[x] = pc[x]
        BY <1>2 DEF Acquire
    <2> HIDE DEF IsWaiting
    <2> QED
        BY <2>3, <2>4, <2>5, <2>6 DEF MutexIsSound
<1>3. ASSUME NEW c \in Calls, DropWaiter(c) PROVE MutexIsSound'
    <2>0. PICK i \in 1 .. Len(waiters) :
             /\ waiters[i] = c
             /\ waiters' = SubSeq(waiters, 1, i - 1) \o SubSeq(waiters, i + 1, Len(waiters))
        BY <1>3 DEF DropWaiter
    <2>1. /\ Len(waiters) \in Nat /\ Len(waiters') = Len(waiters) - 1
          /\ \A j \in 1 .. Len(waiters) - 1 :
                waiters'[j] = IF j < i THEN waiters[j] ELSE waiters[j + 1]
        <3>1. waiters \in Seq(Calls) /\ Len(waiters) \in Nat
            OBVIOUS
        <3>2. ASSUME NEW r,
                     r = SubSeq(waiters, 1, i - 1) \o SubSeq(waiters, i + 1, Len(waiters))
              PROVE  /\ Len(r) = Len(waiters) - 1
                     /\ \A j \in 1 .. Len(waiters) - 1 :
                           r[j] = IF j < i THEN waiters[j] ELSE waiters[j + 1]
            <4> HIDE DEF TypeOK
            <4> QED
                BY ONLY <3>1, <3>2, RemovedEntries, i \in 1 .. Len(waiters)
        <3> QED
            BY <2>0, <3>1, <3>2, Zenon
    <2>2. \A j, k \in 1 .. Len(waiters) : waiters[j] = waiters[k] => j = k
        BY DEF MutexIsSound
    <2>3. ASSUME NEW x \in Calls PROVE IsWaiting(x)' <=> IsWaiting(x) /\ x # c
        <3>1. ASSUME NEW j \in 1 .. Len(waiters'), waiters'[j] = x
              PROVE  IsWaiting(x) /\ x # c
            <4>1. PICK k \in 1 .. Len(waiters) : waiters[k] = x /\ k # i
                <5>1. CASE j < i
                    BY <2>1, <3>1, <5>1
                <5>2. CASE ~(j < i)
                    <6>1. j + 1 \in 1 .. Len(waiters) /\ waiters[j + 1] = x /\ j + 1 # i
                        BY <2>1, <3>1, <5>2
                    <6> QED
                        BY <6>1
                <5> QED
                    BY <5>1, <5>2
            <4> QED
                BY <2>0, <2>2, <4>1 DEF IsWaiting
        <3>2. ASSUME NEW j \in 1 .. Len(waiters), waiters[j] = x, x # c
              PROVE  IsWaiting(x)'
            <4>1. CASE j < i
                <5>1. j \in 1 .. Len(waiters') /\ waiters'[j] = x
                    BY <2>1, <3>2, <4>1
                <5> QED
                    BY <5>1 DEF IsWaiting
            <4>2. CASE j > i
                <5>1. j - 1 \in 1 .. Len(waiters') /\ waiters'[j - 1] = x
                    BY <2>1, <3>2, <4>2
                <5> QED
                    BY <5>1 DEF IsWaiting
            <4> QED
                BY <2>0, <3>2, <4>1, <4>2
        <3> QED
            BY <3>1, <3>2 DEF IsWaiting
    <2>4. \A j, k \in 1 .. Len(waiters') : waiters'[j] = waiters'[k] => j = k
        <3> SUFFICES ASSUME NEW j \in 1 .. Len(waiters'), NEW k \in 1 .. Len(waiters'),
                            waiters'[j] = waiters'[k]
                     PROVE  j = k
            OBVIOUS
        <3> DEFINE up(n) == IF n < i THEN n ELSE n + 1
        <3>1. /\ up(j) \in 1 .. Len(waiters) /\ waiters'[j] = waiters[up(j)]
              /\ up(k) \in 1 .. Len(waiters) /\ waiters'[k] = waiters[up(k)]
            BY <2>1
        <3>2. up(j) = up(k)
            <4> HIDE DEF up
            <4> QED
                BY <2>2, <3>1
        <3> QED
            BY <3>2
    <2>5. pc[c] = "queued" /\ pc'[c] = "done" /\ holder' = holder /\ holder # c
        BY <1>3 DEF DropWaiter, MutexIsSound
    <2>6. \A x \in Calls : x # c => pc'[x] = pc[x]
        BY <1>3 DEF DropWaiter
    <2> HIDE DEF IsWaiting
    <2> QED
        BY <2>3, <2>4, <2>5, <2>6 DEF MutexIsSound
<1>4. ASSUME NEW c \in Calls, pc[c] \in InCall, waiters' = waiters,
             \/ pc' = [pc EXCEPT ![c] = "done"] /\ holder' = IF holder = c THEN NoCall ELSE holder
             \/ \E l \in InCall : pc' = [pc EXCEPT ![c] = l] /\ holder' = holder
      PROVE  MutexIsSound'
    BY <1>4 DEF MutexIsSound, IsWaiting
<1>5. CASE UNCHANGED <<pc, waiters, holder>>
    BY <1>5 DEF MutexIsSound, IsWaiting
<1>6. ASSUME NEW c \in Calls, Connect(c) \/ Send(c) \/ Timeout(c) \/ LeaveLoop(c)
                                 \/ StreamError(c) \/ DropHolder(c)
      PROVE  MutexIsSound'
    BY <1>4, <1>6 DEF Connect, Send, Timeout, LeaveLoop, StreamError, DropHolder
<1>7. ASSUME NEW c \in Calls, Receive(c) PROVE MutexIsSound'
    BY <1>4, <1>5, <1>7 DEF Receive
<1>8. ASSUME NEW c \in Calls, NodeReply(c) \/ LoseRequest(c) PROVE MutexIsSound'
    BY <1>5, <1>8 DEF NodeReply, LoseRequest
<1> QED
    BY <1>1, <1>2, <1>3, <1>5, <1>6, <1>7, <1>8
       DEF Next, CallStep, RelayFrame, RelayClose, AllDone, vars

(* The relay mutex is never lost and no waiter is forgotten, whichever     *)
(* futures are dropped, at whichever await, by any number of callers.      *)
THEOREM MutexIsNeverLost == Spec => []MutexIsSound
<1>1. Init => MutexIsSound
    BY RmbAssumption DEF Init, MutexIsSound, IsWaiting, InCall
<1> QED
    BY <1>1, InitSeparation, NextSeparation, NextMutex, PTL DEF Spec

=============================================================================
