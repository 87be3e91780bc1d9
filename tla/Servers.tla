------------------------------- MODULE Servers -------------------------------
(***************************************************************************)
(* A program serves with one of the four servers.  What a server owes its  *)
(* clients is the same for all of them: an answer to each request, once,   *)
(* to the client that asked, made from this request by the service that    *)
(* was asked for.                                                          *)
(***************************************************************************)
EXTENDS Integers, Sequences

CONSTANTS MaxRequests,    (* bound: requests sent by all clients            *)
          MaxConns,       (* bound: connections over TCP or WebSockets      *)
          MaxExchanges,   (* bound: HTTP requests, messages on the bus      *)
          Services        (* the services of the HTTP server, by path       *)

ASSUME ServersAssumption ==
    /\ MaxRequests \in Nat \ {0} /\ MaxConns \in Nat \ {0} /\ MaxExchanges \in Nat \ {0}
    /\ "nowhere" \notin Services

VARIABLES
    server,       (* which of the servers runs                              *)
    sent, from, oneway, output, executed, unfinished, unwritten, responses,
    conn, overlapped, uplink, inputBuffer, current, mangled,
    socket, reading,      (* FramedNetServer                                *)
    websocket,            (* WebSocketServer                                *)
    request, uri, path    (* HttpServer                                     *)

Framed == INSTANCE FramedNetServer
WebSocket == INSTANCE WebSocketServer
Http == INSTANCE HttpServer WITH MaxConns <- MaxExchanges
Bus == INSTANCE EventBusServer WITH MaxConns <- MaxExchanges

processVars ==
    <<sent, from, oneway, output, executed, unfinished, unwritten, responses>>
framedFields == <<socket, reading>>
httpFields == <<request, uri, path>>
streamVars == <<overlapped, uplink, inputBuffer, mangled>>
vars == <<server, processVars, conn, current, streamVars, framedFields, websocket,
          httpFields>>

NoFramed == socket = 0 /\ reading = FALSE
NoWebSocket == websocket = 0
NoHttp == request = 0 /\ uri = Http!NoService /\ path = <<>>
NoStream == uplink = <<>> /\ inputBuffer = <<>>

Init ==
    \/ server = "framed" /\ Framed!Init /\ NoWebSocket /\ NoHttp
    \/ server = "websocket" /\ WebSocket!Init /\ NoFramed /\ NoHttp
    \/ server = "http" /\ Http!Init /\ NoFramed /\ NoWebSocket /\ NoStream
    \/ /\ server = "eventbus" /\ Bus!Init
       /\ overlapped = FALSE /\ mangled = {}
       /\ NoFramed /\ NoWebSocket /\ NoHttp /\ NoStream

FramedStep ==
    /\ server = "framed" /\ Framed!Next
    /\ UNCHANGED <<server, websocket, httpFields>>

WebSocketStep ==
    /\ server = "websocket" /\ WebSocket!Next
    /\ UNCHANGED <<server, framedFields, httpFields>>

HttpStep ==
    /\ server = "http" /\ Http!Next
    /\ UNCHANGED <<server, uplink, inputBuffer, framedFields, websocket>>

BusStep ==
    /\ server = "eventbus" /\ Bus!Next
    /\ UNCHANGED <<server, streamVars, framedFields, websocket, httpFields>>

Next == FramedStep \/ WebSocketStep \/ HttpStep \/ BusStep

Spec == Init /\ [][Next]_vars
------------------------------------------------------------------------------
TypeOK ==
    /\ server \in {"framed", "websocket", "http", "eventbus"}
    /\ server = "framed" => Framed!TypeOK
    /\ server = "websocket" => WebSocket!TypeOK
    /\ server = "http" => Http!TypeOK
    /\ server = "eventbus" => Bus!TypeOK

(* A request is answered at most once, on whichever connection: what was   *)
(* processed is not found in the input again.                              *)
AnsweredOnce ==
    \A k, l \in DOMAIN responses : \A i \in DOMAIN responses[k], j \in DOMAIN responses[l] :
        responses[k][i].req = responses[l][j].req => k = l /\ i = j

(* A response goes to the client that asked.                               *)
OwnResponses ==
    \A k \in DOMAIN responses : \A i \in DOMAIN responses[k] :
        from[responses[k][i].req] = k

(* The handlers of three servers keep what belongs to a client in fields   *)
(* that all clients share.  They are right as long as clients come one     *)
(* after the other; the handler of the event bus keeps nothing.            *)
Orderly == server = "eventbus" \/ ~overlapped

(* A response goes to the client that asked, and is made from its request  *)
(* alone by the service it asked for: nothing of an earlier connection or  *)
(* request is left in the shared fields.                                   *)
SerialClientsServed ==
    Orderly =>
        /\ mangled = {}
        /\ OwnResponses

(* A two-way request that the service was invoked for is answered, whether *)
(* it returns, throws or completes its future in time.  Left out are the   *)
(* requests given up (unwritten): the result fails to serialize with an    *)
(* exception that the processor passes on; the result or the declared      *)
(* exception of an asynchronous service fails to serialize at all, which   *)
(* the generated handler only logs; or the future is completed late.       *)
AnswersArrive ==
    Orderly =>
        \A r \in executed \ (oneway \cup unfinished \cup unwritten) :
            \E i \in DOMAIN responses[from[r]] : responses[from[r]][i].req = r

(* The data handlers leave no complete frame or message unprocessed: a     *)
(* client that pipelines requests waits for none of them.                  *)
NoFrameWaits ==
    Orderly /\ ~reading /\ current = 0 => Len(inputBuffer) <= 1

(* An exchange over HTTP whose body was processed is ended, so that its    *)
(* client does not wait: unless the call was oneway, or its result came    *)
(* late or could not be written, when nothing ever ends it.                *)
ExchangesEnd == server = "http" => Http!ExchangesEnd
==============================================================================
