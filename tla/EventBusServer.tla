--------------------------- MODULE EventBusServer ---------------------------
(***************************************************************************)
(* The server on the event bus: TEventBusServer.  Its handler keeps        *)
(* nothing between two messages: the transport of a request holds the      *)
(* message it came in, and answers by a reply to this message.             *)
(*                                                                         *)
(* A connection of ServerProcessor is one message and the handler of its   *)
(* sender that waits for the reply.                                        *)
(***************************************************************************)
EXTENDS ServerProcessor

VARIABLES
    conn,     (* each message: sent, handled or of a type not supported     *)
    current   (* the request whose process() runs, or 0                     *)

vars == <<processVars, conn, current>>

Init ==
    /\ ProcessInit
    /\ conn = [k \in Conns |-> "none"]
    /\ current = 0

Idle == current = 0

(* A client sends a message to the address of the service.                 *)
Send(k, isOneway) ==
    LET r == sent + 1 IN
    /\ conn[k] = "none"
    /\ \A j \in 1..(k - 1) : conn[j] # "none"
    /\ r \in Requests
    /\ conn' = [conn EXCEPT ![k] = "sent"]
    /\ sent' = r
    /\ from' = [from EXCEPT ![r] = k]
    /\ oneway' = IF isOneway THEN oneway \cup {r} ELSE oneway
    /\ UNCHANGED <<output, executed, unfinished, unwritten, responses, current>>

(* Somebody sends something else than a buffer: the transport refuses it,  *)
(* and nobody is told.                                                     *)
HandleOther(k) ==
    /\ Idle
    /\ conn[k] = "none"
    /\ \A j \in 1..(k - 1) : conn[j] # "none"
    /\ conn' = [conn EXCEPT ![k] = "unsupported"]
    /\ UNCHANGED <<processVars, current>>

(* A message arrives; messages of different senders come in any order.     *)
HandleMessage(k, r) ==
    /\ Idle
    /\ conn[k] = "sent"
    /\ from[r] = k
    /\ conn' = [conn EXCEPT ![k] = "handled"]
    /\ current' = r
    /\ output' = [output EXCEPT ![r] = k]
    /\ \/ ProcessReturns(r, k, Conns)
       \/ ProcessThrows(r) /\ UNCHANGED responses
    /\ UNCHANGED <<sent, from, oneway>>

(* process() has ended: the transport is closed.                           *)
MessageDone ==
    /\ current # 0
    /\ output' = [output EXCEPT ![current] = 0]
    /\ current' = 0
    /\ UNCHANGED <<sent, from, oneway, executed, unfinished, unwritten, responses, conn>>

(* The service completes a call, within process() or in an event of its    *)
(* own.                                                                    *)
ServiceCompletes(r) ==
    /\ Idle \/ current = r
    /\ Complete(r, Conns)
    /\ UNCHANGED <<conn, current>>

Next ==
    \/ \E k \in Conns, isOneway \in BOOLEAN : Send(k, isOneway)
    \/ \E k \in Conns : HandleOther(k)
    \/ \E k \in Conns, r \in Requests : HandleMessage(k, r)
    \/ MessageDone
    \/ \E r \in Requests : ServiceCompletes(r)

Spec == Init /\ [][Next]_vars
------------------------------------------------------------------------------
TypeOK ==
    /\ ProcessTypeOK
    /\ conn \in [Conns -> {"none", "sent", "handled", "unsupported"}]
    /\ current \in 0..MaxRequests
==============================================================================
