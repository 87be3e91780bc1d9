------------------------ MODULE WebSocketClientProofs ------------------------
(***************************************************************************)
(* The client over a WebSocket keeps the same invariant and contract.      *)
(***************************************************************************)
EXTENDS WebSocketClient, ClientSocketProofs, TLAPS

(* The connection is made.                                                 *)
LEMMA WebSocketConnectedInv ==
  ASSUME SocketInv, NEW s \in Sockets, WebSocketConnected(s)
  PROVE  SocketInv' /\ ContractStep
<1>1. CallsInv /\ CallGuards /\ TransportInv
  BY SocketInvParts
<1>2. /\ UNCHANGED <<callVars, client, manager, opened, owner, sendVars, serviceVars, readVars>>
      /\ conn[s] = "connecting" /\ conn' = [conn EXCEPT ![s] = "open"] /\ socket' = s
  BY DEF WebSocketConnected
<1>3. CallsInv' /\ CallGuards' /\ UNCHANGED <<seqidGenerator, Verdict, Fired, Started>>
  BY <1>1, <1>2, CallsUntouched DEF serviceVars
<1>4. conn' \in [Sockets -> ConnStates] /\ socket' \in 0..MaxSockets
  BY <1>1, <1>2, SocketAssumption DEF TransportInv, ConnStates, Sockets
<1>5. SocketIsLive' /\ UnusedSockets'
  BY <1>1, <1>2 DEF TransportInv, SocketIsLive, UnusedSockets, Sockets
<1>6. ResponsesLegit' /\ MessagesStarted'
  BY <1>1, <1>2, <1>3
  DEF TransportInv, ResponsesLegit, Legit, MessagesStarted, sendVars, serviceVars, readVars
<1>7. TransportInv'
  BY <1>1, <1>2, <1>4, <1>5, <1>6 DEF TransportInv, sendVars, serviceVars, readVars
<1> QED BY <1>2, <1>3, <1>7, SocketInvPartsNext, ContractStutter DEF serviceVars

(* A message arrives: the first response in the buffer is dispatched.      *)
LEMMA HandleFinalFrameInv ==
  ASSUME SocketInv, NEW s \in Sockets, NEW thrown \in BOOLEAN, HandleFinalFrame(s, thrown)
  PROVE  SocketInv' /\ ContractStep
<1> DEFINE buffer == Append(inputBuffer[s], Head(downlink[s]))
<1> DEFINE r == Head(buffer)
<1>1. CallsInv /\ CallGuards /\ TransportInv
  BY SocketInvParts
<1>2. /\ downlink[s] # <<>>
      /\ HandleResponse(r, thrown)
      /\ inputBuffer' = [inputBuffer EXCEPT ![s] = IF thrown THEN buffer ELSE <<>>]
      /\ downlink' = [downlink EXCEPT ![s] = Tail(@)]
      /\ UNCHANGED <<connVars, sendVars, inbox, answered, reading>>
  BY DEF HandleFinalFrame
<1>3. inputBuffer[s] \in Seq(Legit) /\ downlink[s] \in Seq(Legit)
  BY <1>1 DEF TransportInv, ResponsesLegit
<1>4. Head(downlink[s]) \in Legit /\ Tail(downlink[s]) \in Seq(Legit)
  BY <1>2, <1>3, HeadTailProperties
<1>5. buffer \in Seq(Legit) /\ buffer # <<>>
  BY <1>3, <1>4, AppendProperties
<1>6. r \in Legit /\ r \in Replies
  BY <1>5, HeadTailProperties DEF Legit
<1>7. CallsInv'
  BY <1>1, <1>2, <1>6, HandleResponseInv
<1>8. /\ CallGuards'
      /\ UNCHANGED <<seqidGenerator, answered>> /\ Fired' = Fired
      /\ \/ UNCHANGED Verdict
         \/ /\ r.seqid \in Started \ completed
            /\ AtMost(r.seqid, ReplyOutcome(r))
            /\ ReplyOutcome(r) \in {"reply", "exception", "error"}
            /\ ReplyOutcome(r) = "reply" => r.seqid \in answered
  <2>1. UNCHANGED answered /\ HandleResponse(r, thrown)
    BY <1>2
  <2> HIDE DEF r, buffer
  <2> QED BY <1>1, <1>6, <2>1, HandleResponseGuards
<1>9. TransportInv'
  <2>1. Legit' = Legit /\ Started' = Started /\ <<>> \in Seq(Legit)
    BY <1>8, EmptySeq DEF Legit, Started
  <2>2. ResponsesLegit'
    <3> HIDE DEF buffer
    <3> QED BY <1>1, <1>2, <1>4, <1>5, <2>1 DEF TransportInv, ResponsesLegit
  <2>3. MessagesStarted' /\ SocketIsLive' /\ UnusedSockets'
    BY <1>1, <1>2, <2>1
    DEF TransportInv, MessagesStarted, SocketIsLive, UnusedSockets, sendVars, connVars
  <2> QED BY <1>1, <1>2, <2>2, <2>3 DEF TransportInv, connVars, sendVars
<1>10. ContractStep
  <2> HIDE DEF r
  <2>1. CASE UNCHANGED Verdict
    BY <1>8, <2>1, ContractStutter
  <2>2. CASE r.seqid \in Started \ completed /\ ~UNCHANGED Verdict
    <3>1. r.seqid \in Calls
      BY <1>6 DEF Replies
    <3>2. Contract!Pending(r.seqid)
      BY <2>2, <3>1 DEF Contract!Pending, Verdict, Started
    <3>3. /\ Verdict' = [Verdict EXCEPT ![r.seqid] = ReplyOutcome(r)]
          /\ ReplyOutcome(r) \in {"reply", "exception", "error"}
          /\ ReplyOutcome(r) = "reply" => r.seqid \in answered
      BY <1>8, <2>2 DEF AtMost
    <3>4. Contract!Resolve(r.seqid)
      BY <1>8, <3>2, <3>3 DEF Contract!Resolve, Contract!Settle, Fired
    <3> QED BY <3>1, <3>4 DEF ContractStep, Contract!Next, Calls
  <2> QED BY <1>8, <2>1, <2>2
<1> QED BY <1>7, <1>8, <1>9, <1>10, SocketInvPartsNext

------------------------------------------------------------------------------
(* Every step over a WebSocket keeps the invariant and the contract.       *)
LEMMA NextInv == SocketInv /\ [Next]_vars => SocketInv' /\ ContractStep
<1> SUFFICES ASSUME SocketInv, [Next]_vars  PROVE SocketInv' /\ ContractStep
  OBVIOUS
<1>1. CASE Application
  BY <1>1, OpenInv, CloseInv, NewManagerInv, CallInv DEF Application
<1>2. CASE Events
  BY <1>2, TimerFiresInv, WebSocketConnectedInv, ConnectFailsInv, SocketClosesInv,
     HandleFinalFrameInv DEF Events
<1>3. CASE Service
  BY <1>3, ServiceRespondsInv DEF Service
<1>4. CASE UNCHANGED vars
  BY <1>4, SocketStutterInv DEF vars
<1> QED BY <1>1, <1>2, <1>3, <1>4 DEF Next

(* The inductive invariant holds over WebSocket as well.                   *)
THEOREM Invariance == Spec => []SocketInv
<1>1. Init => SocketInv
  BY SocketInitInv
<1>2. SocketInv /\ [Next]_vars => SocketInv'
  BY NextInv
<1> QED BY <1>1, <1>2, PTL DEF Spec

(* A call is told "reply" only if the service answered this very call,     *)
(* although messages pile up in the buffer behind a handler that threw.    *)
THEOREM RepliesOwned == Spec => []RepliesAreAnswers
<1>1. SocketInv => RepliesAreAnswers
  BY DEF SocketInv
<1> QED BY <1>1, Invariance, PTL

(* The client library keeps the contract of CallContract over WebSocket,   *)
(* for every number of calls, connections and failures.                    *)
THEOREM Refinement == Spec => ImplementsContract
<1>1. Init => Contract!Init
  BY SocketInitInv
<1>2. SocketInv /\ [Next]_vars => [Contract!Next]_(Contract!vars)
  BY NextInv DEF ContractStep
<1> QED BY <1>1, <1>2, Invariance, PTL DEF Spec, ImplementsContract, Contract!Spec
==============================================================================
