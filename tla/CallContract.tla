----------------------------- MODULE CallContract -----------------------------
(***************************************************************************)
(* What the client library promises of a call, whichever transport carries *)
(* it: a call that was started gets exactly one verdict, a "reply" only    *)
(* after the service answered THIS call, a "timeout" only when the         *)
(* deadline of THIS call has expired.                                      *)
(***************************************************************************)
EXTENDS Integers

CONSTANT MaxCalls

VARIABLES
    issued,     (* how many calls were started                              *)
    verdict,    (* the verdict of each call, "none" until it has one        *)
    answered,   (* the calls the service answered                           *)
    expired     (* the calls whose deadline passed                          *)

vars == <<issued, verdict, answered, expired>>

Init ==
    /\ issued = 0
    /\ verdict = [c \in 1..MaxCalls |-> "none"]
    /\ answered = {}
    /\ expired = {}

Pending(c) == c \in 1..issued /\ verdict[c] = "none"

Settle(c, v) == verdict' = [verdict EXCEPT ![c] = v]

(* A call starts, and is settled at once if it is oneway or not sent.      *)
Issue(c) ==
    /\ c = issued + 1
    /\ issued' = c
    /\ \/ UNCHANGED verdict
       \/ \E v \in {"sent", "error"} : Settle(c, v)
    /\ UNCHANGED <<answered, expired>>

(* The service answers a call: this is not yet seen by the caller.         *)
Answer(c) ==
    /\ c \in 1..issued
    /\ answered' = answered \cup {c}
    /\ UNCHANGED <<issued, verdict, expired>>

(* The deadline of a call passes, and settles it if it is pending.         *)
Expire(c) ==
    /\ c \in 1..issued
    /\ expired' = expired \cup {c}
    /\ \/ UNCHANGED verdict
       \/ Pending(c) /\ Settle(c, "timeout")
    /\ UNCHANGED <<issued, answered>>

(* A pending call is settled by its reply or by a failure.                 *)
Resolve(c) ==
    /\ Pending(c)
    /\ \/ Settle(c, "exception")
       \/ Settle(c, "error")
       \/ c \in answered /\ Settle(c, "reply")
    /\ UNCHANGED <<issued, answered, expired>>

Next == \E c \in 1..MaxCalls : Issue(c) \/ Answer(c) \/ Expire(c) \/ Resolve(c)

Spec == Init /\ [][Next]_vars
==============================================================================
