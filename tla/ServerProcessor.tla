--------------------------- MODULE ServerProcessor ---------------------------
(***************************************************************************)
(* How a server processes one request: TBaseProcessor with its             *)
(* ProcessFunctions, TBaseAsyncProcessor with its AsyncProcessFuture,      *)
(* TMultiplexedProcessor in front of them, and the transport that is made  *)
(* for the request and closed when process() has returned.  The server     *)
(* modules extend it and say which connection the transport writes to.     *)
(***************************************************************************)
EXTENDS Integers, Sequences

CONSTANTS MaxRequests,   (* bound: requests sent by all clients             *)
          MaxConns       (* bound: connections, HTTP exchanges or messages  *)

VARIABLES
    sent,         (* requests are numbered in the order they are sent       *)
    from,         (* the connection each request was sent on                *)
    oneway,       (* the requests that expect no response                   *)
    output,       (* output_ of the transport of each request, 0 is null    *)
    executed,     (* history: the requests the service was invoked for      *)
    unfinished,   (* the calls an asynchronous service has not completed    *)
    unwritten,    (* history: the requests given up: no answer was written  *)
    responses     (* history: the responses written to each connection      *)

processVars ==
    <<sent, from, oneway, output, executed, unfinished, unwritten, responses>>

Requests == 1..MaxRequests
Conns == 1..MaxConns

(* "mixed" is the beginning of a reply with an exception behind it, in one *)
(* message: the result failed to serialize.  "error" is the status 500.    *)
Responses == [req : Requests, kind : {"reply", "exception", "mixed", "error"}]

ProcessInit ==
    /\ sent = 0
    /\ from = [r \in Requests |-> 0]
    /\ oneway = {}
    /\ output = [r \in Requests |-> 0]
    /\ executed = {}
    /\ unfinished = {}
    /\ unwritten = {}
    /\ responses = [k \in Conns |-> <<>>]

(* flush, on a transport whose output is connection k: nothing is written  *)
(* if the connection is gone.                                              *)
Respond(r, kind, k, open) ==
    responses' = IF k \in open
                 THEN [responses EXCEPT ![k] = Append(@, [req |-> r, kind |-> kind])]
                 ELSE responses

(* The method is not known, or its arguments cannot be read.               *)
Unprocessable(r, k, open) ==
    /\ Respond(r, "exception", k, open)
    /\ UNCHANGED <<executed, unfinished, unwritten>>

(* A synchronous service has returned or thrown.  A oneway method that     *)
(* throws is answered nevertheless.  If the result fails to serialize,     *)
(* some exceptions are appended to what was written.                       *)
ProcessSync(r, k, open) ==
    /\ executed' = executed \cup {r}
    /\ UNCHANGED <<unfinished, unwritten>>
    /\ \/ Respond(r, "exception", k, open)
       \/ r \in oneway /\ UNCHANGED responses
       \/ r \notin oneway /\ Respond(r, "reply", k, open)
       \/ r \notin oneway /\ Respond(r, "mixed", k, open)

(* Mutant of ProcessAsync: the future is out before the service runs.      *)
ProcessAsync_NotStarted(r) ==
    /\ unfinished' = unfinished \cup {r}
    /\ UNCHANGED <<executed, unwritten, responses>>

(* An asynchronous service has been given the call and its future.         *)
ProcessAsync(r) ==
    /\ executed' = executed \cup {r}
    /\ unfinished' = unfinished \cup {r}
    /\ UNCHANGED <<unwritten, responses>>

(* process() ends normally.                                                *)
ProcessReturns(r, k, open) ==
    \/ Unprocessable(r, k, open)
    \/ ProcessSync(r, k, open)
    \/ ProcessAsync(r)

(* process() throws: the message header or the arguments end too soon, the *)
(* multiplexer knows no such service, or the result fails to serialize     *)
(* with an exception that is passed on.  The server says what the client   *)
(* is told.                                                                *)
ProcessThrows(r) ==
    /\ \/ UNCHANGED <<executed, unwritten>>
       \/ /\ r \notin oneway
          /\ executed' = executed \cup {r}
          /\ unwritten' = unwritten \cup {r}
    /\ UNCHANGED unfinished

(* Mutant of ResultHandler: a failure is not reported.                     *)
ResultHandler_ForgetsFailure(r, open) ==
    \/ UNCHANGED <<responses, unwritten>>
    \/ /\ r \notin oneway /\ output[r] # 0
       /\ Respond(r, "reply", output[r], open)
       /\ UNCHANGED unwritten
    \/ /\ r \notin oneway
       /\ unwritten' = unwritten \cup {r}
       /\ UNCHANGED responses

(* The handler that the generator emits for the result of an asynchronous  *)
(* method.  A result or a declared exception that cannot be serialized is  *)
(* logged, nothing of it is flushed, and nobody is told; nor is anything   *)
(* written when the transport of the request is closed already.            *)
ResultHandler(r, open) ==
    \/ r \in oneway /\ UNCHANGED <<responses, unwritten>>
    \/ /\ r \notin oneway /\ output[r] # 0
       /\ \E kind \in {"reply", "exception"} : Respond(r, kind, output[r], open)
       /\ UNCHANGED unwritten
    \/ /\ r \notin oneway
       /\ unwritten' = unwritten \cup {r}
       /\ UNCHANGED responses

(* The service completes the future, in time or when the transport of the  *)
(* request is closed already.                                              *)
Complete(r, open) ==
    /\ r \in unfinished
    /\ unfinished' = unfinished \ {r}
    /\ ResultHandler(r, open)
    /\ UNCHANGED <<sent, from, oneway, output, executed>>

------------------------------------------------------------------------------
ProcessTypeOK ==
    /\ sent \in 0..MaxRequests
    /\ from \in [Requests -> 0..MaxConns]
    /\ oneway \subseteq 1..sent
    /\ output \in [Requests -> 0..MaxConns]
    /\ executed \subseteq 1..sent
    /\ unfinished \subseteq executed
    /\ unwritten \subseteq 1..sent
    /\ responses \in [Conns -> Seq(Responses)]

(* While the service works on a call, the response can still be written:   *)
(* a service may complete the future of a call when it likes.              *)
CanStillAnswer == \A r \in unfinished \ oneway : output[r] # 0
==============================================================================
