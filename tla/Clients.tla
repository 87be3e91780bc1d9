------------------------------- MODULE Clients -------------------------------
(***************************************************************************)
(* A program calls a service over a WebSocket, over HTTP or over the event *)
(* bus.  What the library owes the caller is the same, whoever knows the   *)
(* deadline of a call: the library (WebSocket), the HTTP client or the     *)
(* event bus.                                                              *)
(***************************************************************************)
EXTENDS Integers, Sequences

CONSTANTS MaxCalls,      (* bound: calls over a WebSocket                   *)
          MaxMessages,   (* bound: calls over HTTP or the event bus         *)
          MaxThrows, MaxSockets, MaxFaults

ASSUME ClientsAssumption ==
    /\ MaxCalls \in Nat \ {0} /\ MaxMessages \in Nat \ {0} /\ MaxSockets \in Nat \ {0}
    /\ MaxThrows \in Nat /\ MaxFaults \in Nat

VARIABLES
    transport,    (* what the program calls over                            *)
    seqidGenerator, oneway, registered, completed, results, throws, timer,
    outputBuffer, faults, answered,
    client, manager,                                   (* not the event bus *)
    socket, opened, conn, owner, pending, inbox, downlink, inputBuffer,
    reading,                                           (* WebSocketClient   *)
    message, expired,                                  (* not WebSocket     *)
    request,                                           (* HttpClient        *)
    methodCall, waiting                                (* EventBusClient    *)

WebSocket == INSTANCE WebSocketClient
Http == INSTANCE HttpClient WITH MaxCalls <- MaxMessages
Bus == INSTANCE EventBusClient WITH MaxCalls <- MaxMessages

calls == <<seqidGenerator, oneway, registered, completed, results, throws, timer,
           outputBuffer, faults, answered>>
opening == <<client, manager>>
sockets == <<socket, opened, conn, owner, pending, inbox, downlink, inputBuffer, reading>>
messages == <<message, expired>>
handlers == <<methodCall, waiting>>
vars == <<transport, calls, opening, sockets, messages, request, handlers>>

NoOpening == client = 0 /\ manager = FALSE
NoSockets ==
    /\ socket = 0 /\ opened = 0 /\ conn = <<>> /\ owner = <<>> /\ pending = <<>>
    /\ inbox = {} /\ downlink = <<>> /\ inputBuffer = <<>> /\ reading = 0
NoMessages == message = <<>> /\ expired = {}
NoRequests == request = <<>>
NoHandlers == methodCall = 0 /\ waiting = {}

Init ==
    \/ transport = "websocket" /\ WebSocket!Init /\ NoMessages /\ NoRequests /\ NoHandlers
    \/ transport = "http" /\ Http!Init /\ NoSockets /\ NoHandlers
    \/ transport = "eventbus" /\ Bus!Init /\ NoOpening /\ NoSockets /\ NoRequests

InWebSocket ==
    transport = "websocket" /\ UNCHANGED <<transport, messages, request, handlers>>

WebSocketStep == InWebSocket /\ WebSocket!Next

HttpStep ==
    /\ transport = "http" /\ Http!Next
    /\ UNCHANGED <<transport, sockets, handlers>>

BusStep ==
    /\ transport = "eventbus" /\ Bus!Next
    /\ UNCHANGED <<transport, opening, sockets, request>>

Next == WebSocketStep \/ HttpStep \/ BusStep

Spec == Init /\ [][Next]_vars

(* Response timers fire; nothing is assumed of a network or a service.     *)
Fairness ==
    \A c \in 1..MaxCalls :
        WF_vars(InWebSocket /\ \E thrown \in BOOLEAN : WebSocket!TimerFires(c, thrown))

FairSpec == Spec /\ Fairness
------------------------------------------------------------------------------
TypeOK ==
    /\ transport \in {"websocket", "http", "eventbus"}
    /\ transport = "websocket" => WebSocket!TypeOK
    /\ transport = "http" => Http!TypeOK
    /\ transport = "eventbus" => Bus!TypeOK

(* A result handler that has returned is not invoked again, although the   *)
(* HTTP client reports one failure twice, and the event bus transport      *)
(* reports failures to the call made last.                                 *)
NotifiedOnce ==
    /\ transport = "websocket" => WebSocket!NotifiedOnce
    /\ transport = "http" => Http!NotifiedOnce
    /\ transport = "eventbus" => Bus!NotifiedOnce

(* A reply reaches only a call that the service answered, whatever order   *)
(* replies come in and whatever is in front of them in a buffer.           *)
RepliesAreAnswers ==
    LET Told(c) == \E i \in DOMAIN results[c] : results[c][i] = "reply"
    IN  \A c \in DOMAIN results : Told(c) => c \in answered

(* Every step is one that CallContract allows.  Over the event bus it need *)
(* not be: there a timeout is reported to the call made last.              *)
KeepsContract ==
    [][/\ transport = "websocket" => WebSocket!Contract!Next \/ UNCHANGED WebSocket!Contract!vars
       /\ transport = "http" => Http!Contract!Next \/ UNCHANGED Http!Contract!vars]_vars

(* A call over a WebSocket is told its outcome in the end, although        *)
(* connections fail, responses are lost and handlers of other calls throw. *)
EventuallyNotified ==
    \A c \in 1..MaxCalls :
        transport = "websocket" /\ c \in WebSocket!Started ~> results[c] # <<>>
==============================================================================
