---------------------------- MODULE EventBusClient ----------------------------
(***************************************************************************)
(* The client over the Vert.x event bus: TEventBusTransport.  The bus      *)
(* calls the reply handler of each two-way message once, with the reply or *)
(* with a timeout.  That handler reports failures to methodCall_, the      *)
(* FIELD of the transport, which holds the call made last.                 *)
(***************************************************************************)
EXTENDS AsyncMethodCall

CONSTANT MaxFaults      (* bound: calls whose arguments fail to serialize   *)

VARIABLES
    methodCall,     (* methodCall_, 0 until a call is made                  *)
    outputBuffer,   (* outputBuffer_: the messages written since its reset  *)
    faults,         (* bookkeeping for MaxFaults                            *)
    waiting,        (* the calls whose reply handler has not been called    *)
    message,        (* the messages in what each call put on the bus        *)
    answered,       (* history: the calls the service answered normally     *)
    expired         (* history: the calls whose reply did not come in time  *)

vars == <<callVars, methodCall, outputBuffer, faults, waiting, message, answered, expired>>

Init ==
    /\ CallsInit
    /\ methodCall = 0
    /\ outputBuffer = <<>>
    /\ faults = 0
    /\ waiting = {}
    /\ message = [c \in Calls |-> <<>>]
    /\ answered = {}
    /\ expired = {}

(* The manager's call sets the field before the call starts.               *)
CallUnwritable(c, isOneway, thrown) ==
    /\ faults < MaxFaults
    /\ faults' = faults + 1
    /\ methodCall' = c
    /\ outputBuffer' = Append(outputBuffer, c)
    /\ StartFailed(c, isOneway, thrown)
    /\ UNCHANGED <<waiting, message, answered, expired>>

(* A oneway message is sent without a reply handler.                       *)
CallFlushed(c, isOneway, thrown) ==
    /\ methodCall' = c
    /\ waiting' = IF isOneway THEN waiting ELSE waiting \cup {c}
    /\ message' = [message EXCEPT ![c] = Append(outputBuffer, c)]
    /\ outputBuffer' = <<>>
    /\ StartFlushed(c, isOneway, thrown, timer)
    /\ UNCHANGED <<faults, answered, expired>>

Call ==
    \E c \in Calls, isOneway \in BOOLEAN, thrown \in BOOLEAN :
        CallUnwritable(c, isOneway, thrown) \/ CallFlushed(c, isOneway, thrown)

------------------------------------------------------------------------------
(* The call that a failure seen by the reply handler of c is reported to.  *)
FailedCall(c) == methodCall

(* No reply to c came in time.                                             *)
ReplyTimesOut(c, thrown) ==
    /\ c \in waiting
    /\ waiting' = waiting \ {c}
    /\ expired' = expired \cup {c}
    /\ OnError(FailedCall(c), "timeout", thrown, timer)
    /\ UNCHANGED <<seqidGenerator, oneway, methodCall, outputBuffer, faults, message, answered>>

(* The reply to c is not a buffer.                                         *)
ReplyOfWrongType(c, thrown) ==
    /\ c \in waiting
    /\ waiting' = waiting \ {c}
    /\ OnError(FailedCall(c), "error", thrown, timer)
    /\ UNCHANGED <<seqidGenerator, oneway, methodCall, outputBuffer, faults, message,
                   answered, expired>>

(* The service executes the first message it got for c, unless that one    *)
(* was cut short, and will reply to it.                                    *)
ServiceAnswers(c) ==
    /\ c \in waiting
    /\ Len(message[c]) = 1
    /\ answered' = answered \cup {c}
    /\ UNCHANGED <<callVars, methodCall, outputBuffer, faults, waiting, message, expired>>

(* The reply to c arrives: a response to the first message it sent.        *)
ReplyArrives(c, kind, thrown) ==
    LET first == Head(message[c]) IN
    /\ c \in waiting
    /\ kind \in {"reply", "corrupt"} => first \in answered
    /\ waiting' = waiting \ {c}
    /\ HandleResponse([seqid |-> first, kind |-> kind], thrown)
    /\ UNCHANGED <<methodCall, outputBuffer, faults, message, answered, expired>>

ReplyHandler(c, thrown) ==
    \/ ReplyTimesOut(c, thrown)
    \/ ReplyOfWrongType(c, thrown)
    \/ \E kind \in ReplyKinds : ReplyArrives(c, kind, thrown)

Next ==
    \/ Call
    \/ \E c \in Calls : ServiceAnswers(c)
    \/ \E c \in Calls, thrown \in BOOLEAN : ReplyHandler(c, thrown)

Spec == Init /\ [][Next]_vars

(* The bus calls every reply handler, with the timeout if nothing else.    *)
Fairness == \A c \in Calls : WF_vars(\E thrown \in BOOLEAN : ReplyHandler(c, thrown))

FairSpec == Spec /\ Fairness

------------------------------------------------------------------------------
TypeOK ==
    /\ CallsTypeOK
    /\ methodCall \in 0..MaxCalls
    /\ outputBuffer \in Seq(Calls)
    /\ faults \in 0..MaxFaults
    /\ waiting \subseteq Calls
    /\ message \in [Calls -> Seq(Calls)]
    /\ answered \subseteq Calls /\ expired \subseteq Calls

(* The calls keep the contract of CallContract.                            *)
Contract == INSTANCE CallContract WITH
    issued <- seqidGenerator,
    verdict <- Verdict

ImplementsContract == Contract!Spec

(* A reply reaches only the call the service answered.                     *)
RepliesAreAnswers ==
    \A c \in Calls : (\E i \in DOMAIN results[c] : results[c][i] = "reply") => c \in answered

(* A call that is told it timed out is one whose own reply did not come    *)
(* ("No reply after ...ms for method call of seqid: ...").                 *)
TimeoutsAreOwn ==
    \A c \in Calls : (\E i \in DOMAIN results[c] : results[c][i] = "timeout") => c \in expired
==============================================================================
