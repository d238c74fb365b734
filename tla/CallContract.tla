---------------------------- MODULE CallContract ----------------------------
(***************************************************************************)
(* What a client and the endpoint's author may rely on for one call (an    *)
(* rpc or a channel), whatever happens to the connections: the handler     *)
(* runs at most once, a call succeeds only after its own handler returned, *)
(* and a call that was answered or failed never changes its outcome.       *)
(*                                                                         *)
(* A failed call says nothing of the handler: it may have run, be running, *)
(* or start later.                                                         *)
(***************************************************************************)
CONSTANT Calls

VARIABLES caller, handler

Init ==
    /\ caller = [c \in Calls |-> "none"]
    /\ handler = [c \in Calls |-> "none"]

Issue(c) ==
    /\ caller[c] = "none"
    /\ caller' = [caller EXCEPT ![c] = "pending"]
    /\ UNCHANGED handler

(* The transport refuses the call. *)
Refuse(c) ==
    /\ caller[c] = "none"
    /\ caller' = [caller EXCEPT ![c] = "failed"]
    /\ UNCHANGED handler

Start(c) ==
    /\ caller[c] # "none"
    /\ handler[c] = "none"
    /\ handler' = [handler EXCEPT ![c] = "running"]
    /\ UNCHANGED caller

Settle(c) ==
    /\ handler[c] = "running"
    /\ \E outcome \in {"returned", "threw"} : handler' = [handler EXCEPT ![c] = outcome]
    /\ UNCHANGED caller

Succeed(c) ==
    /\ caller[c] = "pending"
    /\ handler[c] = "returned"
    /\ caller' = [caller EXCEPT ![c] = "succeeded"]
    /\ UNCHANGED handler

(* Losing the connection fails several calls at once. *)
Fail(lost) ==
    /\ \A c \in lost : caller[c] = "pending"
    /\ caller' = [c \in Calls |-> IF c \in lost THEN "failed" ELSE caller[c]]
    /\ UNCHANGED handler

Next ==
    \/ \E c \in Calls : Issue(c) \/ Refuse(c) \/ Start(c) \/ Settle(c) \/ Succeed(c)
    \/ \E lost \in SUBSET Calls : Fail(lost)

Spec == Init /\ [][Next]_<<caller, handler>>
=============================================================================
