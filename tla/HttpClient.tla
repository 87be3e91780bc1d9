------------------------------ MODULE HttpClient ------------------------------
(***************************************************************************)
(* The client over HTTP: THttpClientTransport.  Each flush posts a request *)
(* of its own, whose handlers keep the call they were made for; a response *)
(* body is dispatched by the sequence id in it.  The request's timeout is  *)
(* the HTTP client's and no longer runs once a response has begun.         *)
(***************************************************************************)
EXTENDS AsyncMethodCall

CONSTANT MaxFaults      (* bound: calls whose arguments fail to serialize   *)

VARIABLES
    client,         (* client_ is not null                                  *)
    manager,        (* has a TAsyncClientManager been built?                *)
    outputBuffer,   (* outputBuffer_: the messages written since its reset  *)
    faults,         (* bookkeeping for MaxFaults                            *)
    request,        (* what became of the request of each call              *)
    message,        (* the messages in that request                         *)
    answered,       (* history: the calls the service answered normally     *)
    expired         (* history: the calls whose request timed out           *)

vars == <<callVars, client, manager, outputBuffer, faults, request, message,
          answered, expired>>

RequestStates == {"none", "posted", "responding", "failed", "done"}

Init ==
    /\ CallsInit
    /\ client = FALSE
    /\ manager = FALSE
    /\ outputBuffer = <<>>
    /\ faults = 0
    /\ request = [c \in Calls |-> "none"]
    /\ message = [c \in Calls |-> <<>>]
    /\ answered = {}
    /\ expired = {}

IsOpen == client

Open ==
    /\ ~IsOpen
    /\ client' = TRUE
    /\ UNCHANGED <<callVars, manager, outputBuffer, faults, request, message, answered, expired>>

(* close: what becomes of the requests under way is the HTTP client's      *)
(* business: they fail, or are answered, or time out.                      *)
Close ==
    /\ client
    /\ client' = FALSE
    /\ UNCHANGED <<callVars, manager, outputBuffer, faults, request, message, answered, expired>>

NewManager ==
    /\ ~manager
    /\ IsOpen
    /\ manager' = TRUE
    /\ UNCHANGED <<callVars, client, outputBuffer, faults, request, message, answered, expired>>

------------------------------------------------------------------------------
CallRefused(c, isOneway, thrown) ==
    /\ manager
    /\ ~IsOpen
    /\ StartFailed(c, isOneway, thrown)
    /\ UNCHANGED <<client, manager, outputBuffer, faults, request, message, answered, expired>>

(* write_args fails after the message header was written.                  *)
CallUnwritable(c, isOneway, thrown) ==
    /\ manager
    /\ IsOpen
    /\ faults < MaxFaults
    /\ faults' = faults + 1
    /\ outputBuffer' = Append(outputBuffer, c)
    /\ StartFailed(c, isOneway, thrown)
    /\ UNCHANGED <<client, manager, request, message, answered, expired>>

CallFlushed(c, isOneway, thrown) ==
    /\ manager
    /\ IsOpen
    /\ request' = [request EXCEPT ![c] = "posted"]
    /\ message' = [message EXCEPT ![c] = Append(outputBuffer, c)]
    /\ outputBuffer' = <<>>
    /\ StartFlushed(c, isOneway, thrown, timer)
    /\ UNCHANGED <<client, manager, faults, answered, expired>>

Call ==
    \E c \in Calls, isOneway \in BOOLEAN, thrown \in BOOLEAN :
        \/ CallRefused(c, isOneway, thrown)
        \/ CallUnwritable(c, isOneway, thrown)
        \/ CallFlushed(c, isOneway, thrown)

------------------------------------------------------------------------------
Unsent == <<seqidGenerator, oneway, client, manager, outputBuffer, faults, message>>

(* Mutant of RequestTimesOut: it fails methodCall_, the call made last.    *)
RequestTimesOut_LatestCall(c, thrown) ==
    /\ request[c] = "posted"
    /\ request' = [request EXCEPT ![c] = "failed"]
    /\ expired' = expired \cup {c}
    /\ IF c \in oneway
       THEN ~thrown /\ UNCHANGED <<registered, completed, results, throws, timer>>
       ELSE OnError(seqidGenerator, "timeout", thrown, timer)
    /\ UNCHANGED <<Unsent, answered>>

(* No response has begun in time.  A oneway call is not told.              *)
RequestTimesOut(c, thrown) ==
    /\ request[c] = "posted"
    /\ request' = [request EXCEPT ![c] = "failed"]
    /\ expired' = expired \cup {c}
    /\ IF c \in oneway
       THEN ~thrown /\ UNCHANGED <<registered, completed, results, throws, timer>>
       ELSE OnError(c, "timeout", thrown, timer)
    /\ UNCHANGED <<Unsent, answered>>

(* The connection fails, before or while the response comes.               *)
RequestFails(c, thrown) ==
    /\ request[c] \in {"posted", "responding"}
    /\ request' = [request EXCEPT ![c] = "failed"]
    /\ OnError(c, "error", thrown, timer)
    /\ UNCHANGED <<Unsent, answered, expired>>

(* The second report of a failure: one while the response comes goes to    *)
(* the handlers of both the request and the response, and the connection   *)
(* of a request that timed out may fail as well.                           *)
ResponseFails(c, thrown) ==
    /\ request[c] = "failed"
    /\ request' = [request EXCEPT ![c] = "done"]
    /\ OnError(c, "error", thrown, timer)
    /\ UNCHANGED <<Unsent, answered, expired>>

(* A response with a status other than 200 settles the call.               *)
ResponseRefused(c, thrown) ==
    /\ request[c] = "posted"
    /\ request' = [request EXCEPT ![c] = "done"]
    /\ OnError(c, "error", thrown, timer)
    /\ UNCHANGED <<Unsent, answered, expired>>

ResponseBegins(c) ==
    /\ request[c] = "posted"
    /\ request' = [request EXCEPT ![c] = "responding"]
    /\ UNCHANGED <<Unsent, registered, completed, results, throws, timer, answered, expired>>

(* The service executes the first message of the request, unless that one  *)
(* was cut short, and will reply to it.                                    *)
ServiceAnswers(c) ==
    /\ request[c] = "posted"
    /\ Len(message[c]) = 1
    /\ c \notin oneway
    /\ answered' = answered \cup {c}
    /\ UNCHANGED <<callVars, client, manager, outputBuffer, faults, request, message, expired>>

(* The body is complete.  It is a response to the first message of the     *)
(* request.                                                                *)
BodyArrives(c, kind, thrown) ==
    LET first == Head(message[c]) IN
    /\ request[c] = "responding"
    /\ kind \in {"reply", "corrupt"} => first \in answered
    /\ request' = [request EXCEPT ![c] = "done"]
    /\ HandleResponse([seqid |-> first, kind |-> kind], thrown)
    /\ UNCHANGED <<client, manager, outputBuffer, faults, message, answered, expired>>

Application == Open \/ Close \/ NewManager \/ Call

RequestEvent(c, thrown) ==
    \/ RequestTimesOut(c, thrown)
    \/ RequestFails(c, thrown)
    \/ ResponseRefused(c, thrown)
    \/ \E kind \in ReplyKinds : BodyArrives(c, kind, thrown)

Next ==
    \/ Application
    \/ \E c \in Calls : ServiceAnswers(c) \/ ResponseBegins(c)
    \/ \E c \in Calls, thrown \in BOOLEAN : RequestEvent(c, thrown) \/ ResponseFails(c, thrown)

Spec == Init /\ [][Next]_vars

(* The HTTP client reports an end of every request, and of every response  *)
(* that has begun.                                                         *)
Fairness == \A c \in Calls : WF_vars(\E thrown \in BOOLEAN : RequestEvent(c, thrown))

FairSpec == Spec /\ Fairness

------------------------------------------------------------------------------
TypeOK ==
    /\ CallsTypeOK
    /\ client \in BOOLEAN /\ manager \in BOOLEAN
    /\ outputBuffer \in Seq(Calls)
    /\ faults \in 0..MaxFaults
    /\ request \in [Calls -> RequestStates]
    /\ message \in [Calls -> Seq(Calls)]
    /\ answered \subseteq Calls /\ expired \subseteq Calls

(* The calls keep the contract of CallContract.                            *)
Contract == INSTANCE CallContract WITH
    issued <- seqidGenerator,
    verdict <- Verdict

ImplementsContract == Contract!Spec
==============================================================================
