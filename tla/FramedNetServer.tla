--------------------------- MODULE FramedNetServer ---------------------------
(***************************************************************************)
(* The server over TCP: TFramedNetServer.  It has ONE socket handler: the  *)
(* fields socket and inputBuffer of this handler are shared by all its     *)
(* connections, and socket is the one accepted last.                       *)
(*                                                                         *)
(* The frame of a request is two pieces of equal size: the first has the   *)
(* size header and the message header.                                     *)
(***************************************************************************)
EXTENDS ServerProcessor

VARIABLES
    conn,         (* state of each connection                               *)
    overlapped,   (* history: was a connection made while another was open? *)
    uplink,       (* the pieces on their way, per connection                *)
    socket,       (* the field socket                                       *)
    inputBuffer,  (* the field inputBuffer                                  *)
    reading,      (* is the data handler running?                           *)
    current,      (* the request whose process() runs, or 0                 *)
    mangled       (* history: the requests dispatched with a piece missing  *)

serverVars == <<conn, overlapped, uplink, socket, inputBuffer, reading, current, mangled>>
vars == <<processVars, serverVars>>

Pieces == [req : Requests, part : {1, 2}]

Init ==
    /\ ProcessInit
    /\ conn = [k \in Conns |-> "none"]
    /\ overlapped = FALSE
    /\ uplink = [k \in Conns |-> <<>>]
    /\ socket = 0
    /\ inputBuffer = <<>>
    /\ reading = FALSE
    /\ current = 0
    /\ mangled = {}

OpenConns == {k \in Conns : conn[k] = "open"}

(* The event loop runs no other event while the data handler runs.         *)
Idle == ~reading

(* A client connects: handle(socket).                                      *)
Accept(k) ==
    /\ Idle
    /\ conn[k] = "none"
    /\ \A j \in 1..(k - 1) : conn[j] # "none"
    /\ conn' = [conn EXCEPT ![k] = "open"]
    /\ overlapped' = (overlapped \/ OpenConns # {})
    /\ socket' = k
    /\ UNCHANGED <<processVars, uplink, inputBuffer, reading, current, mangled>>

(* A client sends a request; TCP will cut the stream where it likes.       *)
Send(k, isOneway) ==
    LET r == sent + 1 IN
    /\ conn[k] = "open"
    /\ r \in Requests
    /\ sent' = r
    /\ from' = [from EXCEPT ![r] = k]
    /\ oneway' = IF isOneway THEN oneway \cup {r} ELSE oneway
    /\ uplink' = [uplink EXCEPT ![k] =
                    @ \o <<[req |-> r, part |-> 1], [req |-> r, part |-> 2]>>]
    /\ UNCHANGED <<output, executed, unfinished, unwritten, responses, conn, overlapped, socket,
                   inputBuffer, reading, current, mangled>>

HandleData(k, n) ==
    /\ Idle
    /\ conn[k] = "open"
    /\ n \in 1..Len(uplink[k])
    /\ inputBuffer' = inputBuffer \o SubSeq(uplink[k], 1, n)
    /\ uplink' = [uplink EXCEPT ![k] = SubSeq(@, n + 1, Len(@))]
    /\ reading' = TRUE
    /\ UNCHANGED <<processVars, conn, overlapped, socket, current, mangled>>

------------------------------------------------------------------------------
(* What readFrame finds at the head of inputBuffer.  Without the size      *)
(* header of a frame it takes some other bytes for one.                    *)
Garbage == inputBuffer # <<>> /\ Head(inputBuffer).part = 2

FrameAvailable == Len(inputBuffer) >= 2 /\ ~Garbage

(* A frame is available: a transport is made for it and process() called.  *)
ProcessFrame ==
    LET r == Head(inputBuffer).req IN
    /\ reading
    /\ current = 0
    /\ FrameAvailable
    /\ current' = r
    /\ mangled' = IF inputBuffer[2] = [req |-> r, part |-> 2] THEN mangled ELSE mangled \cup {r}
    /\ output' = [output EXCEPT ![r] = socket]
    /\ \/ ProcessReturns(r, socket, OpenConns)
       \/ ProcessThrows(r) /\ UNCHANGED responses
    /\ UNCHANGED <<sent, from, oneway, conn, overlapped, uplink, socket, inputBuffer, reading>>

(* Mutant of FrameDone: readFrame does not go on with the rest.            *)
FrameDone_ReadsOne ==
    /\ current # 0
    /\ output' = [output EXCEPT ![current] = 0]
    /\ current' = 0
    /\ inputBuffer' = SubSeq(inputBuffer, 3, Len(inputBuffer))
    /\ reading' = FALSE
    /\ UNCHANGED <<sent, from, oneway, executed, unfinished, unwritten, responses, conn, overlapped,
                   uplink, socket, mangled>>

(* Mutant of FrameDone: the frame stays in the buffer.                     *)
FrameDone_KeepsFrame ==
    /\ current # 0
    /\ output' = [output EXCEPT ![current] = 0]
    /\ current' = 0
    /\ reading' = FALSE
    /\ UNCHANGED <<sent, from, oneway, executed, unfinished, unwritten, responses, conn, overlapped,
                   uplink, socket, inputBuffer, mangled>>

(* process() has returned or thrown: the transport is closed, and the rest *)
(* of inputBuffer is read.                                                 *)
FrameDone ==
    /\ current # 0
    /\ output' = [output EXCEPT ![current] = 0]
    /\ current' = 0
    /\ inputBuffer' = SubSeq(inputBuffer, 3, Len(inputBuffer))
    /\ UNCHANGED <<sent, from, oneway, executed, unfinished, unwritten, responses, conn, overlapped,
                   uplink, socket, reading, mangled>>

(* Garbage that looks like a small frame is dropped, since no message      *)
(* header can be read from it.                                             *)
DropGarbage(n) ==
    /\ reading
    /\ Garbage
    /\ n \in 1..Len(inputBuffer)
    /\ inputBuffer' = SubSeq(inputBuffer, n + 1, Len(inputBuffer))
    /\ UNCHANGED <<processVars, conn, overlapped, uplink, socket, reading, current, mangled>>

(* readFrame ends: no frame is complete, or garbage looks like a large     *)
(* frame, or like one of negative size, for which getBuffer throws.        *)
EndRead ==
    /\ reading
    /\ current = 0
    /\ ~FrameAvailable
    /\ reading' = FALSE
    /\ UNCHANGED <<processVars, conn, overlapped, uplink, socket, inputBuffer, current, mangled>>

(* Mutant of HandleClose: inputBuffer is not reset.                        *)
HandleClose_KeepsBuffer(k) ==
    /\ Idle
    /\ conn[k] = "open"
    /\ conn' = [conn EXCEPT ![k] = "closed"]
    /\ uplink' = [uplink EXCEPT ![k] = <<>>]
    /\ UNCHANGED <<processVars, overlapped, socket, inputBuffer, reading, current, mangled>>

(* A connection is gone: inputBuffer is reset, whoever filled it.          *)
HandleClose(k) ==
    /\ Idle
    /\ conn[k] = "open"
    /\ conn' = [conn EXCEPT ![k] = "closed"]
    /\ uplink' = [uplink EXCEPT ![k] = <<>>]
    /\ inputBuffer' = <<>>
    /\ UNCHANGED <<processVars, overlapped, socket, reading, current, mangled>>

(* The service completes a call, within process() or in an event of its    *)
(* own.                                                                    *)
ServiceCompletes(r) ==
    /\ Idle \/ current = r
    /\ Complete(r, OpenConns)
    /\ UNCHANGED serverVars

Next ==
    \/ \E k \in Conns : Accept(k) \/ HandleClose(k)
    \/ \E k \in Conns, isOneway \in BOOLEAN : Send(k, isOneway)
    \/ \E k \in Conns, n \in 1..(2 * MaxRequests) : HandleData(k, n)
    \/ ProcessFrame
    \/ FrameDone
    \/ \E n \in 1..(2 * MaxRequests) : DropGarbage(n)
    \/ EndRead
    \/ \E r \in Requests : ServiceCompletes(r)

Spec == Init /\ [][Next]_vars

------------------------------------------------------------------------------
TypeOK ==
    /\ ProcessTypeOK
    /\ conn \in [Conns -> {"none", "open", "closed"}]
    /\ overlapped \in BOOLEAN /\ reading \in BOOLEAN
    /\ uplink \in [Conns -> Seq(Pieces)]
    /\ inputBuffer \in Seq(Pieces)
    /\ socket \in 0..MaxConns /\ current \in 0..MaxRequests
    /\ mangled \subseteq 1..sent

(* "A complete frame is available": what is processed is one client's      *)
(* whole frame.                                                            *)
FramesComplete == mangled = {}
==============================================================================
