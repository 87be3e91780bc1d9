--------------------------- MODULE WebSocketServer ---------------------------
(***************************************************************************)
(* The server over WebSockets: TWebSocketServer.  It has ONE handler: the  *)
(* fields websocket and inputBuffer are shared by all its connections, and *)
(* websocket is the one that came last, rejected or not.                   *)
(*                                                                         *)
(* A message is two WebSocket frames: the first has the message header,    *)
(* the second is final.                                                    *)
(***************************************************************************)
EXTENDS ServerProcessor

VARIABLES
    conn,         (* state of each connection                               *)
    overlapped,   (* history: did a connection come while another was open? *)
    uplink,       (* the frames on their way, per connection                *)
    websocket,    (* the field websocket                                    *)
    inputBuffer,  (* the field inputBuffer, empty for null                  *)
    current,      (* the request whose process() runs, or 0                 *)
    mangled       (* history: the requests processed with wrong frames      *)

webSocketVars == <<conn, overlapped, uplink, websocket, inputBuffer, current, mangled>>
vars == <<processVars, webSocketVars>>

Pieces == [req : Requests, part : {1, 2}]

Init ==
    /\ ProcessInit
    /\ conn = [k \in Conns |-> "none"]
    /\ overlapped = FALSE
    /\ uplink = [k \in Conns |-> <<>>]
    /\ websocket = 0
    /\ inputBuffer = <<>>
    /\ current = 0
    /\ mangled = {}

OpenConns == {k \in Conns : conn[k] = "open"}
Idle == current = 0

(* A client connects: handle() keeps the websocket and then rejects it if  *)
(* it asked for another path.                                              *)
Accept(k, state) ==
    /\ Idle
    /\ conn[k] = "none"
    /\ \A j \in 1..(k - 1) : conn[j] # "none"
    /\ websocket' = k
    /\ conn' = [conn EXCEPT ![k] = state]
    /\ overlapped' = (overlapped \/ OpenConns # {})
    /\ UNCHANGED <<processVars, uplink, inputBuffer, current, mangled>>

(* A client sends a message.                                               *)
Send(k, isOneway) ==
    LET r == sent + 1 IN
    /\ conn[k] = "open"
    /\ r \in Requests
    /\ sent' = r
    /\ from' = [from EXCEPT ![r] = k]
    /\ oneway' = IF isOneway THEN oneway \cup {r} ELSE oneway
    /\ uplink' = [uplink EXCEPT ![k] =
                    @ \o <<[req |-> r, part |-> 1], [req |-> r, part |-> 2]>>]
    /\ UNCHANGED <<output, executed, unfinished, unwritten, responses, conn, overlapped,
                   websocket, inputBuffer, current, mangled>>

(* handleFrame appends the frame to whatever is in the buffer.             *)
FrameArrives(k) ==
    /\ Idle
    /\ conn[k] = "open"
    /\ uplink[k] # <<>>
    /\ uplink' = [uplink EXCEPT ![k] = Tail(@)]
    /\ inputBuffer' = Append(inputBuffer, Head(uplink[k]))
    /\ UNCHANGED <<sent, from, oneway, conn, overlapped, websocket>>

HandleFirstFrame(k) ==
    /\ FrameArrives(k)
    /\ Head(uplink[k]).part = 1
    /\ UNCHANGED <<output, executed, unfinished, unwritten, responses, current, mangled>>

(* A final frame: the buffer is processed as one message, that of the      *)
(* first frame in it.                                                      *)
HandleFinalFrame(k) ==
    LET r == Head(inputBuffer').req IN
    /\ FrameArrives(k)
    /\ Head(uplink[k]).part = 2
    /\ Head(inputBuffer').part = 1
    /\ current' = r
    /\ output' = [output EXCEPT ![r] = websocket]
    /\ mangled' = IF inputBuffer' = <<[req |-> r, part |-> 1], [req |-> r, part |-> 2]>>
                  THEN mangled ELSE mangled \cup {r}
    /\ \/ ProcessReturns(r, websocket, OpenConns)
       \/ ProcessThrows(r) /\ UNCHANGED responses

(* A final frame whose first frame is gone: there is no message header to  *)
(* read, and the buffer is reset.                                          *)
HandleLostMessage(k) ==
    /\ Idle
    /\ conn[k] = "open"
    /\ uplink[k] # <<>> /\ Head(uplink[k]).part = 2
    /\ inputBuffer = <<>>
    /\ uplink' = [uplink EXCEPT ![k] = Tail(@)]
    /\ UNCHANGED <<processVars, conn, overlapped, websocket, inputBuffer, current, mangled>>

(* process() has ended: the transport is closed and the buffer reset.      *)
FrameDone ==
    /\ current # 0
    /\ output' = [output EXCEPT ![current] = 0]
    /\ current' = 0
    /\ inputBuffer' = <<>>
    /\ UNCHANGED <<sent, from, oneway, executed, unfinished, unwritten, responses, conn,
                   overlapped, uplink, websocket, mangled>>

(* A connection is gone: the buffer is reset, whoever filled it.           *)
HandleClose(k) ==
    /\ Idle
    /\ conn[k] = "open"
    /\ conn' = [conn EXCEPT ![k] = "closed"]
    /\ uplink' = [uplink EXCEPT ![k] = <<>>]
    /\ inputBuffer' = <<>>
    /\ UNCHANGED <<processVars, overlapped, websocket, current, mangled>>

(* The service completes a call, within process() or in an event of its    *)
(* own.                                                                    *)
ServiceCompletes(r) ==
    /\ Idle \/ current = r
    /\ Complete(r, OpenConns)
    /\ UNCHANGED webSocketVars

Next ==
    \/ \E k \in Conns : Accept(k, "open") \/ Accept(k, "closed") \/ HandleClose(k)
    \/ \E k \in Conns, isOneway \in BOOLEAN : Send(k, isOneway)
    \/ \E k \in Conns :
         HandleFirstFrame(k) \/ HandleFinalFrame(k) \/ HandleLostMessage(k)
    \/ FrameDone
    \/ \E r \in Requests : ServiceCompletes(r)

Spec == Init /\ [][Next]_vars
------------------------------------------------------------------------------
TypeOK ==
    /\ ProcessTypeOK
    /\ conn \in [Conns -> {"none", "open", "closed"}]
    /\ overlapped \in BOOLEAN
    /\ uplink \in [Conns -> Seq(Pieces)]
    /\ inputBuffer \in Seq(Pieces)
    /\ websocket \in 0..MaxConns /\ current \in 0..MaxRequests
    /\ mangled \subseteq 1..sent
==============================================================================
