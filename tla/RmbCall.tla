------------------------------ MODULE RmbCall -------------------------------
(***************************************************************************)
(* GridClient::rmb_call and ensure_relay_socket (grid_client/mod.rs): one  *)
(* request and its reply over the single relay connection that all clones  *)
(* of a client share behind a mutex.                                       *)
(*                                                                         *)
(* A call is named by the uid of its envelope.  The relay addresses replies*)
(* to the client's session, which survives a reconnect, so the reply to a  *)
(* call that gave up can reach a later call.  The caller may drop the      *)
(* future of a call at any await.                                          *)
(***************************************************************************)
EXTENDS Naturals, Sequences

CONSTANTS
    Calls,      \* calls, each with a uid of its own
    UnitCalls,  \* calls whose result type R is ()
    NoCall      \* nobody

ASSUME RmbAssumption ==
    /\ UnitCalls \subseteq Calls
    /\ NoCall \notin Calls

VARIABLES
    pc,         \* where each call stands
    result,     \* what a finished call returned
    answer,     \* uid of the reply that made it return, or NoCall
    waiters,    \* calls queued on the mutex, first in first out
    holder,     \* call that holds the mutex guard
    link,       \* the guarded Option: "none", or a socket that is open or ended
    requests,   \* requests the node has not handled yet
    handled,    \* requests the node has handled
    inbox       \* frames the relay has for the client's session

vars == <<pc, result, answer, waiters, holder, link, requests, handled, inbox>>

(* The parts of a reply that rmb_call tells apart: a payload that parses,  *)
(* one that does not (bad JSON, failed decryption), none, an error message.*)
Bodies == {"value", "bad", "empty", "error"}
Replies == [uid : Calls, body : Bodies]
Garbage == [uid |-> NoCall, body |-> "garbage"]

InCall == {"connect", "send", "receive"}

TypeOK ==
    /\ pc \in [Calls -> {"idle", "queued", "done"} \union InCall]
    /\ result \in [Calls -> {"none", "ok", "err", "dropped"}]
    /\ answer \in [Calls -> Calls \union {NoCall}]
    /\ waiters \in Seq(Calls)
    /\ holder \in Calls \union {NoCall}
    /\ link \in {"none", "open", "ended"}
    /\ requests \in SUBSET Calls
    /\ handled \in SUBSET Calls
    /\ inbox \in SUBSET (Replies \union {Garbage})

Init ==
    /\ pc = [c \in Calls |-> "idle"]
    /\ result = [c \in Calls |-> "none"]
    /\ answer = [c \in Calls |-> NoCall]
    /\ waiters = <<>>
    /\ holder = NoCall
    /\ link = "none"
    /\ requests = {}
    /\ handled = {}
    /\ inbox = {}

-----------------------------------------------------------------------------
Goto(c, l) == pc' = [pc EXCEPT ![c] = l]

(* Mutant of Return: the guard outlives the call.                          *)
ReturnKeepsGuard(c, r) ==
    /\ Goto(c, "done")
    /\ result' = [result EXCEPT ![c] = r]
    /\ holder' = holder

(* The call returns r and its guard, if it has one, is released.           *)
Return(c, r) ==
    /\ Goto(c, "done")
    /\ result' = [result EXCEPT ![c] = r]
    /\ holder' = IF holder = c THEN NoCall ELSE holder

(* The destination twin is fetched and the envelope built, stamped and     *)
(* signed before the mutex is asked for.                                   *)
Begin(c) ==
    /\ pc[c] = "idle"
    /\ \/ /\ Goto(c, "queued")
          /\ waiters' = Append(waiters, c)
          /\ UNCHANGED <<result, holder>>
       \/ Return(c, "err") /\ waiters' = waiters
    /\ UNCHANGED <<answer, link, requests, handled, inbox>>

(* The mutex serves its waiters in order; ensure_relay_socket returns at   *)
(* once when there is a socket.                                            *)
Acquire(c) ==
    /\ holder = NoCall
    /\ waiters # <<>> /\ Head(waiters) = c
    /\ holder' = c
    /\ waiters' = Tail(waiters)
    /\ Goto(c, IF link = "none" THEN "connect" ELSE "send")
    /\ UNCHANGED <<result, answer, link, requests, handled, inbox>>

(* ensure_relay_socket connects with a fresh token.                        *)
Connect(c) ==
    /\ pc[c] = "connect"
    /\ \/ /\ link' = "open"
          /\ Goto(c, "send")
          /\ UNCHANGED <<result, holder>>
       \/ Return(c, "err") /\ link' = link
    /\ UNCHANGED <<answer, waiters, requests, handled, inbox>>

(* Mutant of Send: the guard's scope ends with the write.                  *)
SendReleases(c) ==
    /\ pc[c] = "send"
    /\ \/ /\ Goto(c, "receive")
          /\ requests' = requests \union {c}
          /\ holder' = NoCall
          /\ UNCHANGED <<result, link>>
       \/ Return(c, "err") /\ link' = "none" /\ requests' = requests
    /\ UNCHANGED <<answer, waiters, handled, inbox>>

(* The frame is written; on an ended connection it may vanish silently.    *)
(* A write error drops the socket.                                         *)
Send(c) ==
    /\ pc[c] = "send"
    /\ \/ /\ Goto(c, "receive")
          /\ requests' \in {requests \union {c}} \union
                           (IF link = "ended" THEN {requests} ELSE {})
          /\ UNCHANGED <<result, holder, link>>
       \/ Return(c, "err") /\ link' = "none" /\ requests' = requests
    /\ UNCHANGED <<answer, waiters, handled, inbox>>

(* The outcome of a reply that carries the call's uid.  A value call skips *)
(* a reply without a payload; past the deadline it fails, as LeaveLoop does.*)
Outcome(c, body) ==
    IF body = "error" THEN "err"
    ELSE IF c \in UnitCalls THEN "ok"
    ELSE CASE body = "value" -> "ok" [] body = "bad" -> "err" [] OTHER -> "none"

(* Mutant of Receive: the uid of a reply is not compared.                  *)
ReceiveAnyUid(c) ==
    /\ pc[c] = "receive"
    /\ link # "none"
    /\ \E m \in inbox :
          /\ inbox' = inbox \ {m}
          /\ IF m = Garbage
             THEN Return(c, "err") /\ answer' = answer
             ELSE Return(c, Outcome(c, m.body)) /\ answer' = [answer EXCEPT ![c] = m.uid]
    /\ UNCHANGED <<waiters, link, requests, handled>>

(* One frame is read: an undecodable one is an error, another call's reply *)
(* is discarded, its own decides.  The socket stays.                       *)
Receive(c) ==
    /\ pc[c] = "receive"
    /\ link # "none"
    /\ \E m \in inbox :
          /\ inbox' = inbox \ {m}
          /\ IF m = Garbage
             THEN Return(c, "err") /\ answer' = answer
             ELSE IF m.uid # c \/ Outcome(c, m.body) = "none"
             THEN UNCHANGED <<pc, result, holder, answer>>
             ELSE Return(c, Outcome(c, m.body)) /\ answer' = [answer EXCEPT ![c] = m.uid]
    /\ UNCHANGED <<waiters, link, requests, handled>>

(* tokio's timeout fires while the socket is read.                         *)
Timeout(c) ==
    /\ pc[c] = "receive"
    /\ Return(c, "err")
    /\ link' = "none"
    /\ UNCHANGED <<answer, waiters, requests, handled, inbox>>

(* Mutant of LeaveLoop: Ok without a look at the result type.              *)
LeaveLoopOk(c) ==
    /\ pc[c] = "receive"
    /\ link' = link
    /\ Return(c, "ok")
    /\ UNCHANGED <<answer, waiters, requests, handled, inbox>>

(* The deadline has passed when the loop comes round, or the stream ended: *)
(* the code after the loop answers Ok(()) to a unit call.                  *)
LeaveLoop(c) ==
    /\ pc[c] = "receive"
    /\ \/ link' = link
       \/ link = "ended" /\ link' = "none"
    /\ Return(c, IF c \in UnitCalls THEN "ok" ELSE "err")
    /\ UNCHANGED <<answer, waiters, requests, handled, inbox>>

(* The stream reports an error.                                            *)
StreamError(c) ==
    /\ pc[c] = "receive"
    /\ link = "ended"
    /\ Return(c, "err")
    /\ link' = "none"
    /\ UNCHANGED <<answer, waiters, requests, handled, inbox>>

(* The caller drops the future of a call that waits for the mutex.         *)
DropWaiter(c) ==
    /\ pc[c] = "queued"
    /\ \E i \in 1 .. Len(waiters) :
          /\ waiters[i] = c
          /\ waiters' = SubSeq(waiters, 1, i - 1) \o SubSeq(waiters, i + 1, Len(waiters))
    /\ Return(c, "dropped")
    /\ UNCHANGED <<answer, link, requests, handled, inbox>>

(* Mutant of DropHolder: the exchange runs in a task of its own, so that it*)
(* and its guard outlive the future.                                       *)
DropHolderDetached(c) ==
    /\ pc[c] \in InCall
    /\ Goto(c, "done")
    /\ result' = [result EXCEPT ![c] = "dropped"]
    /\ requests' \in {requests, requests \union {c}}
    /\ UNCHANGED <<answer, waiters, holder, link, handled, inbox>>

(* The caller drops the future of a call that holds the guard: the socket  *)
(* stays in place, and a frame that was being written may still go out.    *)
DropHolder(c) ==
    /\ pc[c] \in InCall
    /\ Return(c, "dropped")
    /\ requests' \in {requests} \union
                     (IF pc[c] = "send" THEN {requests \union {c}} ELSE {})
    /\ UNCHANGED <<answer, waiters, link, handled, inbox>>

-----------------------------------------------------------------------------
(* The relay and the node (external).                                      *)

(* The node handles a request, in time or long after, and replies.         *)
NodeReply(c) ==
    /\ c \in requests
    /\ requests' = requests \ {c}
    /\ handled' = handled \union {c}
    /\ \E b \in Bodies : inbox' = inbox \union {[uid |-> c, body |-> b]}
    /\ UNCHANGED <<pc, result, answer, waiters, holder, link>>

(* A request expires or is lost on the way.                                *)
LoseRequest(c) ==
    /\ c \in requests
    /\ requests' = requests \ {c}
    /\ UNCHANGED <<pc, result, answer, waiters, holder, link, handled, inbox>>

(* A frame is lost; a frame that is not an envelope arrives.               *)
RelayFrame ==
    /\ \/ \E m \in inbox : inbox' = inbox \ {m}
       \/ link = "open" /\ Garbage \notin inbox /\ inbox' = inbox \union {Garbage}
    /\ UNCHANGED <<pc, result, answer, waiters, holder, link, requests, handled>>

(* The relay closes the connection, or it breaks.                          *)
RelayClose ==
    /\ link = "open"
    /\ link' = "ended"
    /\ UNCHANGED <<pc, result, answer, waiters, holder, requests, handled, inbox>>

-----------------------------------------------------------------------------
CallStep(c) ==
    \/ Acquire(c) \/ Connect(c) \/ Send(c) \/ Receive(c)
    \/ Timeout(c) \/ LeaveLoop(c) \/ StreamError(c)

AllDone == (\A c \in Calls : pc[c] = "done") /\ UNCHANGED vars

Next ==
    \/ \E c \in Calls : Begin(c) \/ CallStep(c) \/ DropWaiter(c) \/ DropHolder(c)
                       \/ NodeReply(c) \/ LoseRequest(c)
    \/ RelayFrame
    \/ RelayClose
    \/ AllDone

Spec == Init /\ [][Next]_vars

(* The mutex is handed over, and a receive has a deadline.  Connecting and *)
(* writing have none in the code, so they are not assumed to end.          *)
Fairness ==
    \A c \in Calls :
        /\ WF_vars(Acquire(c))
        /\ WF_vars(Timeout(c) \/ LeaveLoop(c))

FairSpec == Spec /\ Fairness

-----------------------------------------------------------------------------
IsWaiting(c) == \E i \in 1 .. Len(waiters) : waiters[i] = c

(* The mutex under rmb_call serves everyone once: nobody waits without     *)
(* being in its queue, nobody is in it twice or after its future was       *)
(* dropped, and whoever holds the guard is still in rmb_call and will      *)
(* release it.                                                             *)
MutexIsSound ==
    /\ \A c \in Calls : pc[c] = "queued" <=> IsWaiting(c)
    /\ \A i, j \in 1 .. Len(waiters) : waiters[i] = waiters[j] => i = j
    /\ \A c \in Calls : pc[c] \in InCall <=> holder = c

(* No call returns on the strength of another call's reply, although they  *)
(* share the session and late replies outlive the calls they answer.       *)
NoCrossTalk ==
    \A c \in Calls : answer[c] # NoCall => answer[c] = c /\ c \in handled

(* A value call that returned Ok was handled by the node.                  *)
OkWasHandled ==
    \A c \in Calls \ UnitCalls : result[c] = "ok" => c \in handled /\ answer[c] = c

(* The errors "relay socket missing after connect" and "relay socket       *)
(* missing while waiting" cannot occur: whoever talks to the relay holds   *)
(* the guard, and nobody else takes the socket away meanwhile.             *)
SocketPresent ==
    \A c \in Calls :
        /\ pc[c] \in InCall => holder = c
        /\ pc[c] \in {"send", "receive"} => link # "none"

(* Every call that asked for the mutex returns, whatever the relay and the *)
(* node do, unless some holder hangs in connect_async or in send, which    *)
(* rmb_call awaits without a deadline.                                     *)
EveryCallReturns ==
    (\A c \in Calls : []<>(pc[c] \notin {"connect", "send"})) =>
        (\A c \in Calls : pc[c] = "queued" ~> pc[c] = "done")

(* "the JSON reply is deserialized into R" (node_call): an Ok result comes *)
(* from a reply.                                                           *)
OkMeansReply == \A c \in Calls : result[c] = "ok" => answer[c] = c

=============================================================================
