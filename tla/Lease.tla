-------------------------------- MODULE Lease -------------------------------
(***************************************************************************)
(* What GridClient promises about the contracts its calls pay for, without *)
(* saying how: a call comes to know contracts, and lets go of them only by *)
(* releasing them or reporting that it could not.  DeployVm and Gateway    *)
(* implement this specification.                                           *)
(***************************************************************************)
CONSTANTS
    Calls,        \* deploy calls
    Contracts,    \* contracts they may come to know
    RollsBack     \* calls that undo a failed attempt (gateways do not)

VARIABLES
    phase,        \* where each call stands
    known,        \* contracts each call knows of
    asked,        \* contracts whose cancellation waits for the chain
    gone,         \* contracts that are cancelled on chain
    reported      \* contracts whose cancellation was reported as failed

leaseVars == <<phase, known, asked, gone, reported>>

Phases == {"idle", "working", "undoing", "failed", "held", "ending", "ended"}

LeaseInit ==
    /\ phase = [c \in Calls |-> "idle"]
    /\ known = [c \in Calls |-> {}]
    /\ asked = {}
    /\ gone = {}
    /\ reported = {}

Move(c, from, to) ==
    /\ phase[c] \in from
    /\ phase' = [phase EXCEPT ![c] = to]

Begin(c) ==
    /\ Move(c, {"idle"}, "working")
    /\ UNCHANGED <<known, asked, gone, reported>>

Refuse(c) ==
    /\ Move(c, {"idle"}, "failed")
    /\ UNCHANGED <<known, asked, gone, reported>>

Acquire(c) ==
    /\ Move(c, {"working"}, "working") \/ Move(c, {"working"}, "held")
    /\ \E d \in Contracts : known' = [known EXCEPT ![c] = @ \union {d}]
    /\ UNCHANGED <<asked, gone, reported>>

(* The call returns what it knows to its caller.                           *)
Return(c) ==
    /\ Move(c, {"working"}, "held")
    /\ known[c] # {}
    /\ UNCHANGED <<known, asked, gone, reported>>

Fall(c) ==
    /\ Move(c, {"working"}, IF c \in RollsBack THEN "undoing" ELSE "failed")
    /\ UNCHANGED <<known, asked, gone, reported>>

(* Nobody but a call that undoes its attempt or ends its lease asks for a  *)
(* cancellation, and only for a contract that it knows.                    *)
Ask(c) ==
    /\ phase[c] \in {"undoing", "ending"}
    /\ \E d \in known[c] : asked' = asked \union {d}
    /\ UNCHANGED <<phase, known, gone, reported>>

(* An undo that fails, or whose answer is lost, is reported.               *)
Report(c) ==
    /\ phase[c] = "undoing"
    /\ \E d \in known[c] : reported' = reported \union {d}
    /\ UNCHANGED <<phase, known, asked, gone>>

(* The chain grants or refuses what it was asked, in its own time: a call  *)
(* may have reported the contract and gone on.                             *)
Answer(d) ==
    /\ asked' = asked \ {d}
    /\ gone' \in {gone, gone \union {d}}
    /\ UNCHANGED <<phase, known, reported>>

Settled(c) == known[c] \subseteq gone \union reported

Retry(c) ==
    /\ Move(c, {"undoing"}, "working")
    /\ Settled(c)
    /\ known' = [known EXCEPT ![c] = {}]
    /\ UNCHANGED <<asked, gone, reported>>

GiveUp(c) ==
    /\ Move(c, {"undoing"}, "failed")
    /\ Settled(c)
    /\ UNCHANGED <<known, asked, gone, reported>>

Cancel(c) ==
    /\ Move(c, {"held"}, "ending")
    /\ UNCHANGED <<known, asked, gone, reported>>

(* The lease ends when nothing it held is left.                            *)
End(c) ==
    /\ Move(c, {"ending"}, "ended")
    /\ known[c] # {} /\ known[c] \subseteq gone
    /\ UNCHANGED <<known, asked, gone, reported>>

LeaseNext ==
    \/ \E c \in Calls :
          \/ Begin(c) \/ Refuse(c) \/ Acquire(c) \/ Return(c) \/ Fall(c)
          \/ Ask(c) \/ Report(c) \/ Retry(c) \/ GiveUp(c) \/ Cancel(c) \/ End(c)
    \/ \E d \in asked : Answer(d)

LeaseSpec == LeaseInit /\ [][LeaseNext]_leaseVars
=============================================================================
