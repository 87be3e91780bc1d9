--------------------------- MODULE AsyncMethodCall ---------------------------
(***************************************************************************)
(* The asynchronous calls of one client: TAsyncMethodCall objects and the  *)
(* TAsyncClientManager that numbers, registers and completes them.         *)
(*                                                                         *)
(* A call is identified by its sequence id.  This module has the state of  *)
(* the calls and one operator per method of the two classes; the transport *)
(* modules extend it and say when the methods are called.  The result      *)
(* handler is the application's: it runs BEFORE the call is unregistered   *)
(* and marked completed, and it may throw (parameter "thrown"), in which   *)
(* case the rest of the method does not run.                               *)
(***************************************************************************)
EXTENDS Integers, Sequences

CONSTANTS MaxCalls,   (* bound: calls the application makes                 *)
          MaxThrows   (* bound: times the result handler of one call throws *)

ASSUME CallAssumption == MaxCalls \in Nat \ {0} /\ MaxThrows \in Nat

VARIABLES
    seqidGenerator,   (* the last sequence id given out                     *)
    oneway,           (* the calls made oneway                              *)
    registered,       (* the keys of seqid2MethodCall                       *)
    completed,        (* the calls whose "completed" flag is set            *)
    results,          (* history: what each result handler was invoked with *)
    throws,           (* history: how often each result handler threw       *)
    timer             (* the response timer of each call                    *)

callVars == <<seqidGenerator, oneway, registered, completed, results, throws, timer>>

Calls == 1..MaxCalls

(* "sent" is the success of a oneway call, "reply" and "exception" come    *)
(* from a response, "error" from sending or decoding, "timeout" from the   *)
(* response timer.                                                         *)
Outcomes == {"sent", "reply", "exception", "error", "timeout"}

TimerStates == {"unset", "armed", "fired", "cancelled"}

Started == 1..seqidGenerator

CallsInit ==
    /\ seqidGenerator = 0
    /\ oneway = {}
    /\ registered = {}
    /\ completed = {}
    /\ results = [c \in Calls |-> <<>>]
    /\ throws = [c \in Calls |-> 0]
    /\ timer = [c \in Calls |-> "unset"]

------------------------------------------------------------------------------
(* Mutants of OnComplete: the call stays registered; its flag is not set;  *)
(* its timer is not cancelled.                                             *)
OnComplete_StaysRegistered(c, map, tm) ==
    /\ registered' = map
    /\ completed' = completed \cup {c}
    /\ timer' = [tm EXCEPT ![c] = IF @ = "armed" THEN "cancelled" ELSE @]

OnComplete_NotMarked(c, map, tm) ==
    /\ registered' = map \ {c}
    /\ UNCHANGED completed
    /\ timer' = [tm EXCEPT ![c] = IF @ = "armed" THEN "cancelled" ELSE @]

OnComplete_TimerRuns(c, map, tm) ==
    /\ registered' = map \ {c}
    /\ completed' = completed \cup {c}
    /\ timer' = tm

(* onComplete: unregister, cancel a timer that is still armed, set the     *)
(* flag.  map and tm are the registry and the timers at that point.        *)
(* unregisterMethodCall throws when the call is not in the map.            *)
OnComplete(c, map, tm) ==
    /\ registered' = map \ {c}
    /\ IF c \in map
       THEN /\ completed' = completed \cup {c}
            /\ timer' = [tm EXCEPT ![c] = IF @ = "armed" THEN "cancelled" ELSE @]
       ELSE /\ UNCHANGED completed
            /\ timer' = tm

(* The result handler is invoked; onComplete follows unless it throws.     *)
HandleResult(c, outcome, thrown, map, tm) ==
    /\ thrown => throws[c] < MaxThrows
    /\ results' = [results EXCEPT ![c] = Append(@, outcome)]
    /\ throws' = [throws EXCEPT ![c] = IF thrown THEN @ + 1 ELSE @]
    /\ IF thrown
       THEN registered' = map /\ timer' = tm /\ UNCHANGED completed
       ELSE OnComplete(c, map, tm)

(* Mutant of OnError: a completed call is told again.                      *)
OnError_ToldAgain(c, outcome, thrown, tm) == HandleResult(c, outcome, thrown, registered, tm)

(* onError, and the part of responseReady that follows getResult: nothing  *)
(* happens to a call that has completed.                                   *)
OnError(c, outcome, thrown, tm) ==
    IF c \in completed
    THEN ~thrown /\ timer' = tm /\ UNCHANGED <<registered, completed, results, throws>>
    ELSE HandleResult(c, outcome, thrown, registered, tm)

(* Mutant of NewCall: the sequence id is not advanced.                     *)
NewCall_SameSeqid(c, isOneway) ==
    /\ c = seqidGenerator + 1
    /\ UNCHANGED seqidGenerator
    /\ oneway' = IF isOneway THEN oneway \cup {c} ELSE oneway

(* A new call takes the next sequence id.                                  *)
NewCall(c, isOneway) ==
    /\ c = seqidGenerator + 1
    /\ seqidGenerator' = c
    /\ oneway' = IF isOneway THEN oneway \cup {c} ELSE oneway

(* start, when write_args or flush threw: the call was registered, and its *)
(* handler is told at once.                                                *)
StartFailed(c, isOneway, thrown) ==
    /\ NewCall(c, isOneway)
    /\ HandleResult(c, "error", thrown, registered \cup {c}, timer)

(* start, when the message was flushed: a oneway call is complete, any     *)
(* other call waits with the timer state tm that flush left.               *)
StartFlushed(c, isOneway, thrown, tm) ==
    /\ NewCall(c, isOneway)
    /\ IF isOneway
       THEN HandleResult(c, "sent", thrown, registered \cup {c}, tm)
       ELSE /\ ~thrown
            /\ registered' = registered \cup {c}
            /\ timer' = tm
            /\ UNCHANGED <<completed, results, throws>>

------------------------------------------------------------------------------
(* A response as the client sees it: one whose message header cannot be    *)
(* read is "garbled", one whose body makes getResult throw something other *)
(* than a TException is "corrupt".                                         *)
ReplyKinds == {"reply", "exception", "corrupt", "garbled"}

Replies == [seqid : Calls, kind : ReplyKinds]

ReplyOutcome(r) == IF r.kind = "corrupt" THEN "error" ELSE r.kind

(* handleResponse ignores a garbled response and one of no registered call *)
(* (which the HTTP and event bus transports see when a timeout came first).*)
Ignored(r) == r.kind = "garbled" \/ r.seqid \notin registered

(* Mutant of HandleResponse: the response is taken for one of any call.    *)
HandleResponse_AnyCall(r, thrown) ==
    /\ UNCHANGED <<seqidGenerator, oneway>>
    /\ IF r.kind = "garbled" \/ registered = {}
       THEN ~thrown /\ UNCHANGED <<registered, completed, results, throws, timer>>
       ELSE \E c \in registered : OnError(c, ReplyOutcome(r), thrown, timer)

HandleResponse(r, thrown) ==
    /\ UNCHANGED <<seqidGenerator, oneway>>
    /\ IF Ignored(r)
       THEN ~thrown /\ UNCHANGED <<registered, completed, results, throws, timer>>
       ELSE OnError(r.seqid, ReplyOutcome(r), thrown, timer)

------------------------------------------------------------------------------
CallsTypeOK ==
    /\ seqidGenerator \in 0..MaxCalls
    /\ oneway \subseteq Started
    /\ registered \subseteq Started
    /\ completed \subseteq Started
    /\ results \in [Calls -> Seq(Outcomes)]
    /\ throws \in [Calls -> 0..MaxThrows]
    /\ timer \in [Calls -> TimerStates]

(* The registry holds exactly the calls that were started and have not     *)
(* completed, whatever handlers threw: a late response finds no stale      *)
(* entry, and a pending call can always be found by its response.          *)
RegistryExact == registered = Started \ completed

(* Every invocation of a result handler either threw or was the last one:  *)
(* the handler of a call is never invoked again after it has returned,     *)
(* whichever of timeout, late response and send error comes when.          *)
NotifiedOnce ==
    \A c \in Calls : Len(results[c]) = throws[c] + (IF c \in completed THEN 1 ELSE 0)

(* The verdict on a completed call is what its handler was told last.      *)
Verdict == [c \in Calls |-> IF c \in completed THEN results[c][Len(results[c])] ELSE "none"]

(* Every call that was started is told its outcome in the end, although    *)
(* connections fail, responses are lost and handlers of other calls throw. *)
EventuallyNotified == \A c \in Calls : c \in Started ~> results[c] # <<>>

CallsInv == CallsTypeOK /\ RegistryExact /\ NotifiedOnce
==============================================================================
