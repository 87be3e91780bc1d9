--------------------------- MODULE WebSocketClient ---------------------------
(***************************************************************************)
(* The client over a WebSocket: TWebSocketTransport.  A response is one    *)
(* message; its frames are collected in inputBuffer until the final one.   *)
(* The handler of an established connection does not flush the pending     *)
(* buffers.                                                                *)
(***************************************************************************)
EXTENDS ClientSocketTransport

(* The connection is made: it becomes THE websocket.                       *)
WebSocketConnected(s) ==
    /\ Idle
    /\ conn[s] = "connecting"
    /\ conn' = [conn EXCEPT ![s] = "open"]
    /\ socket' = s
    /\ UNCHANGED <<callVars, client, manager, opened, owner, sendVars, serviceVars, readVars>>

(* handleFrame, for the final frame of a message: what the buffer holds is *)
(* taken for one response, which is the first in it; then the buffer is    *)
(* reset, unless the result handler threw.                                 *)
HandleFinalFrame(s, thrown) ==
    /\ conn[s] \in {"open", "closing"}
    /\ downlink[s] # <<>>
    /\ LET buffer == Append(inputBuffer[s], Head(downlink[s])) IN
         /\ HandleResponse(Head(buffer), thrown)
         /\ inputBuffer' = [inputBuffer EXCEPT ![s] = IF thrown THEN buffer ELSE <<>>]
    /\ downlink' = [downlink EXCEPT ![s] = Tail(@)]
    /\ UNCHANGED <<connVars, sendVars, inbox, answered, reading>>

Application == Open \/ Close \/ NewManager \/ Call

Events ==
    \/ \E c \in Calls, thrown \in BOOLEAN : TimerFires(c, thrown)
    \/ \E s \in Sockets : WebSocketConnected(s) \/ ConnectFails(s) \/ SocketCloses(s)
    \/ \E s \in Sockets, thrown \in BOOLEAN : HandleFinalFrame(s, thrown)

Service == \E q \in inbox, kind \in ReplyKinds : ServiceResponds(q, kind)

Next == Application \/ Events \/ Service

(* Timers fire; nothing is assumed of the network or the service.          *)
Fairness == \A c \in Calls : WF_vars(\E thrown \in BOOLEAN : TimerFires(c, thrown))

Spec == Init /\ [][Next]_vars

FairSpec == Spec /\ Fairness

------------------------------------------------------------------------------
(* A response that arrives on a live connection, of a call that waits for  *)
(* it and whose handler never threw, is given to that call: the handler of *)
(* ANOTHER call throwing earlier does not swallow it.                      *)
ArrivalReachesCall ==
    [][\A s \in Sockets :
         /\ downlink[s] # <<>> /\ downlink'[s] = Tail(downlink[s]) /\ conn'[s] = conn[s]
         /\ ~Ignored(Head(downlink[s]))
         => results'[Head(downlink[s]).seqid] # results[Head(downlink[s]).seqid]]_vars
==============================================================================
