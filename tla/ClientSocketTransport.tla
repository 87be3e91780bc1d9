------------------------ MODULE ClientSocketTransport ------------------------
(***************************************************************************)
(* What TFramedNetClientTransport and TWebSocketTransport share: opening   *)
(* and closing a connection, writing a call to it, the queue of buffers    *)
(* pending until there is one, the response timer, and the socket events.  *)
(* The two transports extend this module with the way they read responses. *)
(*                                                                         *)
(* client_ and socket_ are the fields of the transport: a client is known  *)
(* by the number of the first socket it opens, and 0 is null.              *)
(***************************************************************************)
EXTENDS AsyncMethodCall

CONSTANTS MaxSockets,     (* bound: connections opened, one after another   *)
          MaxFaults       (* bound: calls whose arguments fail to serialize *)

ASSUME SocketAssumption == MaxSockets \in Nat \ {0} /\ MaxFaults \in Nat

VARIABLES
    client,         (* client_                                              *)
    socket,         (* socket_ of one transport, websocket_ of the other    *)
    manager,        (* has a TAsyncClientManager been built on it?          *)
    opened,         (* how many sockets open() asked for                    *)
    conn,           (* state of each connection                             *)
    owner,          (* the client that opened it                            *)
    outputBuffer,   (* outputBuffer_: the messages written since its reset  *)
    pending,        (* pendingOutputBuffers_                                *)
    faults,         (* bookkeeping for MaxFaults                            *)
    inbox,          (* the requests the service has and has not answered    *)
    answered,       (* history: the calls the service answered normally     *)
    downlink,       (* the responses on their way, per connection           *)
    inputBuffer,    (* inputBuffer of each connection's handler             *)
    reading         (* the connection whose data handler runs, or 0         *)

connVars == <<client, socket, manager, opened, conn, owner>>
sendVars == <<outputBuffer, pending, faults>>
serviceVars == <<inbox, answered, downlink>>
readVars == <<inputBuffer, reading>>
vars == <<callVars, connVars, sendVars, serviceVars, readVars>>

Sockets == 1..MaxSockets

ConnStates == {"unused", "connecting", "open", "closing", "closed"}

(* A frame is the sequence of messages in it.  The service reads the first *)
(* one only; if others follow, the first was cut short.                    *)
Frames == Seq(Calls)
Requests == [sock : Sockets, seqid : Calls, intact : BOOLEAN]
PendingBuffers == [seqid : Calls, buffer : Frames]

Init ==
    /\ CallsInit
    /\ client = 0
    /\ socket = 0
    /\ manager = FALSE
    /\ opened = 0
    /\ conn = [s \in Sockets |-> "unused"]
    /\ owner = [s \in Sockets |-> 0]
    /\ outputBuffer = <<>>
    /\ pending = <<>>
    /\ faults = 0
    /\ inbox = {}
    /\ answered = {}
    /\ downlink = [s \in Sockets |-> <<>>]
    /\ inputBuffer = [s \in Sockets |-> <<>>]
    /\ reading = 0

------------------------------------------------------------------------------
(* isOpen asks both fields, not the connection.                            *)
IsOpen == client # 0 /\ socket # 0

(* open: a new client if there is none, and one more connection attempt.   *)
Open ==
    /\ ~IsOpen
    /\ opened < MaxSockets
    /\ opened' = opened + 1
    /\ client' = IF client = 0 THEN opened + 1 ELSE client
    /\ conn' = [conn EXCEPT ![opened + 1] = "connecting"]
    /\ owner' = [owner EXCEPT ![opened + 1] = client']
    /\ UNCHANGED <<callVars, sendVars, serviceVars, readVars, socket, manager>>

(* close: the client's connections begin to close; socket_ stays until     *)
(* the close event.  A connection attempt under way is not called off.     *)
Close ==
    /\ client # 0
    /\ client' = 0
    /\ conn' = [s \in Sockets |->
                  IF owner[s] = client /\ conn[s] = "open" THEN "closing" ELSE conn[s]]
    /\ pending' = <<>>
    /\ UNCHANGED <<callVars, serviceVars, readVars, socket, manager, opened, owner,
                   outputBuffer, faults>>

(* The manager's constructor throws if the transport is not open.          *)
NewManager ==
    /\ ~manager
    /\ IsOpen
    /\ manager' = TRUE
    /\ UNCHANGED <<callVars, sendVars, serviceVars, readVars,
                   client, socket, opened, conn, owner>>

------------------------------------------------------------------------------
(* What the service receives when a frame is written to socket s: nothing  *)
(* if the connection is going down.                                        *)
Received(s, frame) ==
    IF conn[s] = "open"
    THEN {[sock |-> s, seqid |-> Head(frame), intact |-> Len(frame) = 1]}
    ELSE {}

(* flush: the frame is written to the socket, or queued if there is none.  *)
FlushFrame(c, frame) ==
    IF socket = 0
    THEN /\ pending' = Append(pending, [seqid |-> c, buffer |-> frame])
         /\ UNCHANGED inbox
    ELSE /\ inbox' = inbox \cup Received(socket, frame)
         /\ UNCHANGED pending

(* Mutant of CanWrite: the guard that flush has.                           *)
CanWrite_ClientOnly == client # 0

(* write refuses every byte while the transport is not open, so that no    *)
(* call is flushed then.                                                   *)
CanWrite == IsOpen

(* A call while the transport is not open fails before its first byte.     *)
CallRefused(c, isOneway, thrown) ==
    /\ manager
    /\ ~CanWrite
    /\ StartFailed(c, isOneway, thrown)
    /\ UNCHANGED <<connVars, sendVars, serviceVars, readVars>>

(* write_args fails after the message header was written: what it wrote    *)
(* stays in outputBuffer_.                                                 *)
CallUnwritable(c, isOneway, thrown) ==
    /\ manager
    /\ CanWrite
    /\ faults < MaxFaults
    /\ faults' = faults + 1
    /\ outputBuffer' = Append(outputBuffer, c)
    /\ StartFailed(c, isOneway, thrown)
    /\ UNCHANGED <<connVars, serviceVars, readVars, pending>>

(* Mutant of CallFlushed: no timer is set.                                 *)
CallFlushed_NoTimer(c, isOneway, thrown) ==
    /\ manager
    /\ CanWrite
    /\ FlushFrame(c, Append(outputBuffer, c))
    /\ outputBuffer' = <<>>
    /\ StartFlushed(c, isOneway, thrown, timer)
    /\ UNCHANGED <<connVars, readVars, faults, answered, downlink>>

(* The message is written and flushed.  setTimeoutForResponse arms the     *)
(* timer of a call that waits for a response.                              *)
CallFlushed(c, isOneway, thrown) ==
    /\ manager
    /\ CanWrite
    /\ FlushFrame(c, Append(outputBuffer, c))
    /\ outputBuffer' = <<>>
    /\ StartFlushed(c, isOneway, thrown,
                    IF isOneway THEN timer ELSE [timer EXCEPT ![c] = "armed"])
    /\ UNCHANGED <<connVars, readVars, faults, answered, downlink>>

Call ==
    \E c \in Calls, isOneway \in BOOLEAN, thrown \in BOOLEAN :
        \/ CallRefused(c, isOneway, thrown)
        \/ CallUnwritable(c, isOneway, thrown)
        \/ CallFlushed(c, isOneway, thrown)

------------------------------------------------------------------------------
(* The events of the verticle's event loop run one at a time, and not      *)
(* while a data handler runs.                                              *)
Idle == reading = 0

(* remove: the first buffer of the call leaves the queue, if it is there.  *)
WithoutSeqid(queue, c) ==
    LET Has(i) == queue[i].seqid = c IN
    IF \E i \in DOMAIN queue : Has(i)
    THEN LET first == CHOOSE i \in DOMAIN queue : Has(i) /\ \A j \in 1..(i - 1) : ~Has(j)
         IN SubSeq(queue, 1, first - 1) \o SubSeq(queue, first + 1, Len(queue))
    ELSE queue

(* Mutant of TimerFires: it fails methodCall_, the call made last.         *)
TimerFires_LatestCall(c, thrown) ==
    /\ Idle
    /\ timer[c] = "armed"
    /\ OnError(seqidGenerator, "timeout", thrown, [timer EXCEPT ![c] = "fired"])
    /\ UNCHANGED <<seqidGenerator, oneway, connVars, sendVars, serviceVars, readVars>>

(* The response timer of a call fires.  Its handler throwing leaves the    *)
(* call registered, with no timer.                                         *)
TimerFires(c, thrown) ==
    /\ Idle
    /\ timer[c] = "armed"
    /\ OnError(c, "timeout", thrown, [timer EXCEPT ![c] = "fired"])
    /\ pending' = IF thrown THEN pending ELSE WithoutSeqid(pending, c)
    /\ UNCHANGED <<seqidGenerator, oneway, connVars, outputBuffer, faults,
                   serviceVars, readVars>>

ConnectFails(s) ==
    /\ Idle
    /\ conn[s] = "connecting"
    /\ conn' = [conn EXCEPT ![s] = "closed"]
    /\ UNCHANGED <<callVars, client, socket, manager, opened, owner, sendVars,
                   serviceVars, readVars>>

(* Mutant of SocketCloses: socket_ is not reset.                           *)
SocketCloses_KeepsSocket(s) ==
    /\ Idle
    /\ conn[s] \in {"open", "closing"}
    /\ conn' = [conn EXCEPT ![s] = "closed"]
    /\ inputBuffer' = [inputBuffer EXCEPT ![s] = <<>>]
    /\ inbox' = {q \in inbox : q.sock # s}
    /\ downlink' = [downlink EXCEPT ![s] = <<>>]
    /\ UNCHANGED <<callVars, client, socket, manager, opened, owner, sendVars, answered,
                   reading>>

(* The connection is gone, by either side.  handleClose forgets THE        *)
(* socket, whichever connection that was; calls under way are not told.    *)
SocketCloses(s) ==
    /\ Idle
    /\ conn[s] \in {"open", "closing"}
    /\ conn' = [conn EXCEPT ![s] = "closed"]
    /\ socket' = 0
    /\ inputBuffer' = [inputBuffer EXCEPT ![s] = <<>>]
    /\ inbox' = {q \in inbox : q.sock # s}
    /\ downlink' = [downlink EXCEPT ![s] = <<>>]
    /\ UNCHANGED <<callVars, client, manager, opened, owner, sendVars, answered, reading>>

(* The service responds to a request, in any order and possibly never.  It *)
(* answers a oneway request only to report that it could not be processed, *)
(* and can make nothing of a message that was cut short.                   *)
ServiceResponds(q, kind) ==
    /\ q \in inbox
    /\ kind \in {"reply", "corrupt"} => q.intact /\ q.seqid \notin oneway
    /\ inbox' = inbox \ {q}
    /\ downlink' = [downlink EXCEPT ![q.sock] = Append(@, [seqid |-> q.seqid, kind |-> kind])]
    /\ answered' = IF kind = "reply" THEN answered \cup {q.seqid} ELSE answered
    /\ UNCHANGED <<callVars, connVars, sendVars, readVars>>

------------------------------------------------------------------------------
TypeOK ==
    /\ CallsTypeOK
    /\ client \in 0..MaxSockets
    /\ socket \in 0..MaxSockets
    /\ manager \in BOOLEAN
    /\ opened \in 0..MaxSockets
    /\ conn \in [Sockets -> ConnStates]
    /\ owner \in [Sockets -> 0..MaxSockets]
    /\ outputBuffer \in Frames
    /\ pending \in Seq(PendingBuffers)
    /\ faults \in 0..MaxFaults
    /\ inbox \subseteq Requests
    /\ answered \subseteq Calls
    /\ downlink \in [Sockets -> Seq(Replies)]
    /\ inputBuffer \in [Sockets -> Seq(Replies)]
    /\ reading \in 0..MaxSockets

(* The response timer is armed exactly while a two-way call that was sent  *)
(* is waiting: a completed call leaves no timer behind, and no call waits  *)
(* without a deadline unless its own handler threw.                        *)
TimersGuardCalls ==
    \A c \in Calls :
        /\ timer[c] = "armed" => c \in registered \ oneway
        /\ c \in registered /\ throws[c] = 0 => timer[c] = "armed"

(* A reply reaches only the call the service answered: the handler of a    *)
(* call is told "reply" only if the service executed this very call.       *)
RepliesAreAnswers ==
    \A c \in Calls : (\E i \in DOMAIN results[c] : results[c][i] = "reply") => c \in answered

(* Nothing is ever queued for a connection to come: write has refused the  *)
(* call before flush could queue it.                                       *)
NothingPending == pending = <<>>

(* THE socket is never one that has already closed or never connected.     *)
SocketIsLive == socket # 0 => conn[socket] \in {"open", "closing"}

(* The parts of the inductive invariant that are not properties of their   *)
(* own.  A timer is set only for a call that was started; what is written  *)
(* and what the service has comes from started calls; a normal reply on    *)
(* its way is to a call the service answered; a socket that was not asked  *)
(* for yet is not in use.                                                  *)
TimersUnset == \A c \in Calls \ Started : timer[c] = "unset"

UnusedSockets == \A s \in Sockets : s > opened => conn[s] = "unused"

MessagesStarted ==
    /\ outputBuffer \in Seq(Started)
    /\ \A q \in inbox : q.seqid \in Started

Legit == {r \in Replies : r.kind = "reply" => r.seqid \in answered}

ResponsesLegit ==
    /\ downlink \in [Sockets -> Seq(Legit)]
    /\ inputBuffer \in [Sockets -> Seq(Legit)]

SocketInv ==
    /\ TypeOK /\ RegistryExact /\ NotifiedOnce
    /\ TimersGuardCalls /\ TimersUnset
    /\ RepliesAreAnswers /\ ResponsesLegit /\ MessagesStarted
    /\ NothingPending /\ SocketIsLive /\ UnusedSockets

(* The calls keep the contract of CallContract: one verdict per call, and  *)
(* from its own reply, failure or deadline.                                *)
Contract == INSTANCE CallContract WITH
    issued <- seqidGenerator,
    verdict <- Verdict,
    expired <- {c \in Calls : timer[c] = "fired"}

ImplementsContract == Contract!Spec

(* isOpen answers whether the transport is open: while the client has an   *)
(* established connection that nobody has begun to close, it is.           *)
OpenWhenConnected ==
    client # 0 /\ (\E s \in Sockets : conn[s] = "open" /\ owner[s] = client) => IsOpen

(* A frame carries one whole message, so that the service can execute it.  *)
FramesAreMessages == \A q \in inbox : q.intact
==============================================================================
