--------------------------- MODULE FramedNetClient ---------------------------
(***************************************************************************)
(* The client over TCP: TFramedNetClientTransport.  Responses arrive as a  *)
(* stream in which a data event may bring any number of frames; the data   *)
(* handler dispatches every complete frame in its buffer.                  *)
(***************************************************************************)
EXTENDS ClientSocketTransport

(* flushBuffer gives every frame it writes the size of outputBuffer_: a    *)
(* pending buffer of another size is not received as one message.          *)
Delivered(s, frame) ==
    [sock |-> s, seqid |-> Head(frame), intact |-> Len(frame) = 1 /\ frame = outputBuffer]

(* The connection is made: it becomes THE socket, and the pending buffers  *)
(* are written to it.                                                      *)
Connected(s) ==
    /\ Idle
    /\ conn[s] = "connecting"
    /\ conn' = [conn EXCEPT ![s] = "open"]
    /\ socket' = s
    /\ inbox' = inbox \cup {Delivered(s, pending[i].buffer) : i \in DOMAIN pending}
    /\ pending' = <<>>
    /\ UNCHANGED <<callVars, client, manager, opened, owner, outputBuffer, faults,
                   answered, downlink, readVars>>

(* A data event brings the next n responses and possibly a piece of the    *)
(* one after (n = 0: only a piece).                                        *)
HandleData(s, n) ==
    /\ Idle
    /\ conn[s] \in {"open", "closing"}
    /\ downlink[s] # <<>>
    /\ n \in 0..Len(downlink[s])
    /\ inputBuffer' = [inputBuffer EXCEPT ![s] = @ \o SubSeq(downlink[s], 1, n)]
    /\ downlink' = [downlink EXCEPT ![s] = SubSeq(@, n + 1, Len(@))]
    /\ inputBuffer'[s] # <<>>
    /\ reading' = s
    /\ UNCHANGED <<callVars, connVars, sendVars, inbox, answered>>

(* One round of readFrame: dispatch the first frame of the buffer, then    *)
(* drop it.  If the result handler throws, the frame stays in the buffer   *)
(* and will be dispatched again, before those behind it, at the next data. *)
ReadFrame(s, thrown) ==
    /\ reading = s
    /\ HandleResponse(Head(inputBuffer[s]), thrown)
    /\ inputBuffer' = IF thrown THEN inputBuffer ELSE [inputBuffer EXCEPT ![s] = Tail(@)]
    /\ reading' = IF thrown \/ Len(inputBuffer[s]) = 1 THEN 0 ELSE s
    /\ UNCHANGED <<connVars, sendVars, serviceVars>>

Application == Open \/ Close \/ NewManager \/ Call

Events ==
    \/ \E c \in Calls, thrown \in BOOLEAN : TimerFires(c, thrown)
    \/ \E s \in Sockets : Connected(s) \/ ConnectFails(s) \/ SocketCloses(s)
    \/ \E s \in Sockets, n \in 0..MaxCalls : HandleData(s, n)
    \/ \E s \in Sockets, thrown \in BOOLEAN : ReadFrame(s, thrown)

Service == \E q \in inbox, kind \in ReplyKinds : ServiceResponds(q, kind)

Next == Application \/ Events \/ Service

(* The event loop runs every event that is due: a data handler ends, and a *)
(* timer fires.  Nothing is assumed of the application, the network or the *)
(* service.                                                                *)
Fairness ==
    /\ \A c \in Calls : WF_vars(\E thrown \in BOOLEAN : TimerFires(c, thrown))
    /\ \A s \in Sockets : WF_vars(\E thrown \in BOOLEAN : ReadFrame(s, thrown))

Spec == Init /\ [][Next]_vars

FairSpec == Spec /\ Fairness

------------------------------------------------------------------------------
(* While a data handler runs there is a frame for it to dispatch.          *)
ReadingHasFrame == reading # 0 => inputBuffer[reading] # <<>>

Inv == SocketInv /\ ReadingHasFrame
==============================================================================
