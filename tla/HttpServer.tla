----------------------------- MODULE HttpServer -----------------------------
(***************************************************************************)
(* The server over HTTP: THttpServer.  It has ONE request handler: its     *)
(* fields request and uri are those of the request whose head came last,   *)
(* also when the body of an earlier one arrives.                           *)
(*                                                                         *)
(* A connection of ServerProcessor is one exchange: a request and the      *)
(* response to it, which can be ended once.  A client that goes away       *)
(* changes nothing here: its body does not come, or its response is lost.  *)
(***************************************************************************)
EXTENDS ServerProcessor

CONSTANT Services   (* the paths in uri2prcs: services on one server. The   *)
                    (* variant with args.uri has one, and reads uri no more *)

VARIABLES
    conn,         (* each exchange: is its body to come?                    *)
    overlapped,   (* history: did a head come while another's body was due? *)
    path,         (* the path each request was sent to                      *)
    request,      (* the field request                                      *)
    uri,          (* the field uri                                          *)
    current,      (* the request whose process() runs, or 0                 *)
    mangled       (* history: the requests given to another service         *)

httpVars == <<conn, overlapped, path, request, uri, current, mangled>>
vars == <<processVars, httpVars>>

NoService == "nowhere"

Init ==
    /\ ProcessInit
    /\ conn = [k \in Conns |-> "none"]
    /\ overlapped = FALSE
    /\ path = [k \in Conns |-> NoService]
    /\ request = 0
    /\ uri = NoService
    /\ current = 0
    /\ mangled = {}

Idle == current = 0
BodyDue == {k \in Conns : conn[k] = "open"}

(* A response that was ended cannot be ended again: end() throws.          *)
Ended == {k \in Conns : conn[k] = "refused" \/ responses[k] # <<>>}
Unended == Conns \ Ended

(* handle() sets the fields first, whatever it then thinks of the request. *)
HandleHead(k, p) ==
    /\ Idle
    /\ conn[k] = "none"
    /\ \A j \in 1..(k - 1) : conn[j] # "none"
    /\ request' = k
    /\ uri' = p
    /\ path' = [path EXCEPT ![k] = p]
    /\ overlapped' = (overlapped \/ BodyDue # {})

(* A POST to a service from an origin that is allowed: its body will come. *)
AcceptRequest(k, p, isOneway) ==
    LET r == sent + 1 IN
    /\ HandleHead(k, p)
    /\ p \in Services
    /\ r \in Requests
    /\ conn' = [conn EXCEPT ![k] = "open"]
    /\ sent' = r
    /\ from' = [from EXCEPT ![r] = k]
    /\ oneway' = IF isOneway THEN oneway \cup {r} ELSE oneway
    /\ UNCHANGED <<output, executed, unfinished, unwritten, responses, current, mangled>>

(* OPTIONS, another method, another path, another origin: the response is  *)
(* ended with a status.                                                    *)
RefuseRequest(k, p) ==
    /\ HandleHead(k, p)
    /\ conn' = [conn EXCEPT ![k] = "refused"]
    /\ UNCHANGED <<processVars, current, mangled>>

(* handleData: the body of exchange k is here, and is processed for the    *)
(* exchange in the field request by the service in the field uri.          *)
BeginBody(k, r) ==
    /\ Idle
    /\ conn[k] = "open"
    /\ from[r] = k
    /\ conn' = [conn EXCEPT ![k] = "processed"]
    /\ current' = r
    /\ output' = [output EXCEPT ![r] = request]
    /\ mangled' = IF uri = path[k] THEN mangled ELSE mangled \cup {r}
    /\ UNCHANGED <<sent, from, oneway, overlapped, path, request, uri>>

BodyProcessed(k, r) ==
    /\ BeginBody(k, r)
    /\ uri \in Services
    /\ ProcessReturns(r, request, Unended)

(* Mutant of BodyThrows: what was thrown is logged only, as it is by the   *)
(* other servers.                                                          *)
BodyThrows_Logged(k, r) ==
    /\ BeginBody(k, r)
    /\ uri \in Services /\ ProcessThrows(r)
    /\ UNCHANGED responses

(* No processor (a NullPointerException), or one that throws: status 500,  *)
(* unless a TTransportException says that the client died.  When the       *)
(* response was ended before, end() throws out of handleData; the          *)
(* transport that is left open then leads to an ended response.            *)
BodyThrows(k, r) ==
    /\ BeginBody(k, r)
    /\ \/ uri \notin Services /\ UNCHANGED <<executed, unfinished, unwritten>>
       \/ uri \in Services /\ ProcessThrows(r)
    /\ Respond(r, "error", request, Unended)

(* A message that ends too soon, or a result that cannot be written, with  *)
(* a TTransportException: "client died, just move on".                     *)
ClientDied(k, r) ==
    /\ BeginBody(k, r)
    /\ uri \in Services
    /\ \/ UNCHANGED executed
       \/ r \notin oneway /\ executed' = executed \cup {r}
    /\ unwritten' = unwritten \cup {r}
    /\ UNCHANGED <<unfinished, responses>>

(* process() has ended: the transport is closed.                           *)
BodyDone ==
    /\ current # 0
    /\ output' = [output EXCEPT ![current] = 0]
    /\ current' = 0
    /\ UNCHANGED <<sent, from, oneway, executed, unfinished, unwritten, responses,
                   conn, overlapped, path, request, uri, mangled>>

(* The service completes a call, within process() or in an event of its    *)
(* own.                                                                    *)
ServiceCompletes(r) ==
    /\ Idle \/ current = r
    /\ Complete(r, Unended)
    /\ UNCHANGED httpVars

Next ==
    \/ \E k \in Conns, p \in Services, isOneway \in BOOLEAN : AcceptRequest(k, p, isOneway)
    \/ \E k \in Conns, p \in Services \cup {NoService} : RefuseRequest(k, p)
    \/ \E k \in Conns, r \in Requests :
         BodyProcessed(k, r) \/ BodyThrows(k, r) \/ ClientDied(k, r)
    \/ BodyDone
    \/ \E r \in Requests : ServiceCompletes(r)

Spec == Init /\ [][Next]_vars
------------------------------------------------------------------------------
TypeOK ==
    /\ ProcessTypeOK
    /\ conn \in [Conns -> {"none", "open", "processed", "refused"}]
    /\ path \in [Conns -> Services \cup {NoService}]
    /\ request \in 0..MaxConns /\ uri \in Services \cup {NoService}
    /\ overlapped \in BOOLEAN /\ current \in 0..MaxRequests
    /\ mangled \subseteq 1..sent

(* As long as the heads have not come between another's head and body, an  *)
(* exchange whose body was processed is ended, so that its client does not *)
(* wait: unless the call was oneway, or its result came late or could not  *)
(* be written, when nothing ever ends it.                                  *)
ExchangesEnd ==
    ~overlapped =>
        \A r \in 1..sent :
            /\ conn[from[r]] = "processed"
            /\ r \notin oneway \cup unfinished \cup unwritten
            => from[r] \in Ended
==============================================================================
