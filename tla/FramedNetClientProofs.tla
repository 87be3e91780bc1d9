------------------------ MODULE FramedNetClientProofs ------------------------
(***************************************************************************)
(* The client over TCP is safe for any number of calls, connections and    *)
(* faults: Inv is an invariant of Spec, and Spec implements CallContract.  *)
(***************************************************************************)
EXTENDS FramedNetClient, ClientSocketProofs, TLAPS

(* With nothing pending, a new connection delivers nothing.                *)
LEMMA ConnectedInv ==
  ASSUME SocketInv, NEW s \in Sockets, Connected(s)
  PROVE  SocketInv' /\ ContractStep
<1>1. CallsInv /\ CallGuards /\ TransportInv
  BY SocketInvParts
<1>2. UNCHANGED <<callVars, client, manager, opened, owner, outputBuffer, faults, answered,
                  downlink, readVars>>
  BY DEF Connected
<1>3. /\ conn[s] = "connecting" /\ conn' = [conn EXCEPT ![s] = "open"] /\ socket' = s
      /\ inbox' = inbox \cup {Delivered(s, pending[i].buffer) : i \in DOMAIN pending}
      /\ pending' = <<>>
  BY DEF Connected
<1>4. inbox' = inbox
  BY <1>1, <1>3 DEF TransportInv
<1>5. CallsInv' /\ CallGuards' /\ UNCHANGED <<seqidGenerator, Verdict, Fired, Started>>
  BY <1>1, <1>2, CallsUntouched
<1>6. conn' \in [Sockets -> ConnStates] /\ socket' \in 0..MaxSockets
  BY <1>1, <1>3, SocketAssumption DEF TransportInv, ConnStates, Sockets
<1>7. SocketIsLive' /\ UnusedSockets'
  BY <1>1, <1>2, <1>3 DEF TransportInv, SocketIsLive, UnusedSockets, Sockets
<1>8. ResponsesLegit' /\ MessagesStarted'
  BY <1>1, <1>2, <1>4, <1>5
  DEF TransportInv, ResponsesLegit, Legit, MessagesStarted, readVars
<1>9. TransportInv'
  BY <1>1, <1>2, <1>3, <1>4, <1>6, <1>7, <1>8 DEF TransportInv, readVars
<1> QED BY <1>2, <1>5, <1>9, SocketInvPartsNext, ContractStutter

(* The responses of a data event move from the network to the buffer.      *)
LEMMA HandleDataInv ==
  ASSUME SocketInv, NEW s \in Sockets, NEW n, HandleData(s, n)
  PROVE  SocketInv' /\ ContractStep
<1>1. CallsInv /\ CallGuards /\ TransportInv
  BY SocketInvParts
<1>2. /\ n \in 0..Len(downlink[s])
      /\ inputBuffer' = [inputBuffer EXCEPT ![s] = @ \o SubSeq(downlink[s], 1, n)]
      /\ downlink' = [downlink EXCEPT ![s] = SubSeq(@, n + 1, Len(@))]
      /\ reading' = s
      /\ UNCHANGED <<callVars, connVars, sendVars, inbox, answered>>
  BY DEF HandleData
<1>3. CallsInv' /\ CallGuards' /\ UNCHANGED <<seqidGenerator, Verdict, Fired, Started>>
  BY <1>1, <1>2, CallsUntouched
<1>4. ResponsesLegit'
  <2>1. Legit' = Legit
    BY <1>2 DEF Legit
  <2>2. inputBuffer[s] \in Seq(Legit) /\ downlink[s] \in Seq(Legit)
    BY <1>1 DEF TransportInv, ResponsesLegit
  <2>3. Len(downlink[s]) \in Nat /\ \A i \in 1..Len(downlink[s]) : downlink[s][i] \in Legit
    BY <2>2, LenProperties, ElementOfSeq
  <2>4. n \in Nat /\ n <= Len(downlink[s])
    BY <1>2, <2>3
  <2>5. SubSeq(downlink[s], 1, n) \in Seq(Legit)
    <3>1. \A i \in 1..n : downlink[s][i] \in Legit
      BY <2>3, <2>4
    <3> QED BY <2>4, <3>1, SubSeqProperties
  <2>6. SubSeq(downlink[s], n + 1, Len(downlink[s])) \in Seq(Legit)
    <3>1. \A i \in (n + 1)..Len(downlink[s]) : downlink[s][i] \in Legit
      BY <2>3, <2>4
    <3>2. n + 1 \in Int /\ Len(downlink[s]) \in Int
      BY <2>3, <2>4
    <3> QED BY <3>1, <3>2, SubSeqProperties
  <2>7. inputBuffer[s] \o SubSeq(downlink[s], 1, n) \in Seq(Legit)
    BY <2>2, <2>5, ConcatProperties
  <2> QED BY <1>1, <1>2, <2>1, <2>6, <2>7 DEF TransportInv, ResponsesLegit
<1>5. MessagesStarted' /\ SocketIsLive' /\ UnusedSockets'
  BY <1>1, <1>2, <1>3
  DEF TransportInv, MessagesStarted, SocketIsLive, UnusedSockets, sendVars, connVars
<1>6. reading' \in 0..MaxSockets
  BY <1>2, SocketAssumption DEF Sockets
<1>7. TransportInv'
  BY <1>1, <1>2, <1>4, <1>5, <1>6 DEF TransportInv, connVars, sendVars
<1> QED BY <1>2, <1>3, <1>7, SocketInvPartsNext, ContractStutter

(* A frame is dispatched: the response is ignored or settles its call.     *)
LEMMA ReadFrameInv ==
  ASSUME SocketInv, ReadingHasFrame, NEW s \in Sockets, NEW thrown \in BOOLEAN,
         ReadFrame(s, thrown)
  PROVE  SocketInv' /\ ContractStep
<1> DEFINE r == Head(inputBuffer[s])
<1>1. CallsInv /\ CallGuards /\ TransportInv
  BY SocketInvParts
<1>2. /\ reading = s
      /\ HandleResponse(r, thrown)
      /\ inputBuffer' = IF thrown THEN inputBuffer ELSE [inputBuffer EXCEPT ![s] = Tail(@)]
      /\ reading' \in {0, s}
      /\ UNCHANGED <<connVars, sendVars, serviceVars>>
  BY DEF ReadFrame
<1>3. inputBuffer[s] \in Seq(Legit) /\ inputBuffer[s] # <<>>
  BY <1>1, <1>2, SocketAssumption DEF TransportInv, ResponsesLegit, ReadingHasFrame, Sockets
<1>4. r \in Legit /\ r \in Replies /\ Tail(inputBuffer[s]) \in Seq(Legit)
  BY <1>3, HeadTailProperties DEF Legit
<1>5. CallsInv'
  BY <1>1, <1>2, <1>4, HandleResponseInv
<1>6. /\ CallGuards'
      /\ UNCHANGED <<seqidGenerator, answered>> /\ Fired' = Fired
      /\ \/ UNCHANGED Verdict
         \/ /\ r.seqid \in Started \ completed
            /\ AtMost(r.seqid, ReplyOutcome(r))
            /\ ReplyOutcome(r) \in {"reply", "exception", "error"}
            /\ ReplyOutcome(r) = "reply" => r.seqid \in answered
  <2>1. UNCHANGED answered
    BY <1>2 DEF serviceVars
  <2> QED BY <1>1, <1>2, <1>4, <2>1, HandleResponseGuards
<1>7. TransportInv'
  <2>1. Legit' = Legit /\ Started' = Started
    BY <1>6 DEF Legit, Started
  <2>2. ResponsesLegit'
    BY <1>1, <1>2, <1>4, <2>1 DEF TransportInv, ResponsesLegit, serviceVars
  <2>3. MessagesStarted' /\ SocketIsLive' /\ UnusedSockets'
    BY <1>1, <1>2, <2>1
    DEF TransportInv, MessagesStarted, SocketIsLive, UnusedSockets, sendVars, connVars,
        serviceVars
  <2>4. reading' \in 0..MaxSockets
    BY <1>2, SocketAssumption DEF Sockets
  <2> QED
    BY <1>1, <1>2, <2>2, <2>3, <2>4 DEF TransportInv, connVars, sendVars, serviceVars
<1>8. ContractStep
  <2>1. CASE UNCHANGED Verdict
    BY <1>6, <2>1, ContractStutter
  <2>2. CASE r.seqid \in Started \ completed /\ ~UNCHANGED Verdict
    <3>1. r.seqid \in Calls
      BY <1>4 DEF Replies
    <3>2. Contract!Pending(r.seqid)
      BY <2>2, <3>1 DEF Contract!Pending, Verdict, Started
    <3>3. /\ Verdict' = [Verdict EXCEPT ![r.seqid] = ReplyOutcome(r)]
          /\ ReplyOutcome(r) \in {"reply", "exception", "error"}
          /\ ReplyOutcome(r) = "reply" => r.seqid \in answered
      BY <1>6, <2>2 DEF AtMost
    <3>4. Contract!Resolve(r.seqid)
      BY <1>6, <3>2, <3>3 DEF Contract!Resolve, Contract!Settle, Fired
    <3> QED BY <3>1, <3>4 DEF ContractStep, Contract!Next, Calls
  <2> QED BY <1>6, <2>1, <2>2
<1> QED BY <1>5, <1>6, <1>7, <1>8, SocketInvPartsNext

------------------------------------------------------------------------------
(* While a data handler runs there is a frame left in its buffer.          *)
LEMMA ReadingInv == Inv /\ Next => ReadingHasFrame'
<1> SUFFICES ASSUME SocketInv, ReadingHasFrame, Next  PROVE ReadingHasFrame'
  BY DEF Inv
<1>1. CASE UNCHANGED readVars
  BY <1>1 DEF readVars, ReadingHasFrame
<1>2. CASE \E s \in Sockets : SocketCloses(s)
  BY <1>2 DEF SocketCloses, Idle, ReadingHasFrame
<1>3. CASE \E s \in Sockets, n \in 0..MaxCalls : HandleData(s, n)
  BY <1>3 DEF HandleData, ReadingHasFrame
<1>4. ASSUME NEW s \in Sockets, NEW thrown \in BOOLEAN, ReadFrame(s, thrown)
      PROVE  ReadingHasFrame'
  <2>1. /\ reading = s
        /\ inputBuffer' = IF thrown THEN inputBuffer ELSE [inputBuffer EXCEPT ![s] = Tail(@)]
        /\ reading' = IF thrown \/ Len(inputBuffer[s]) = 1 THEN 0 ELSE s
    BY <1>4 DEF ReadFrame
  <2>2. /\ inputBuffer \in [Sockets -> Seq(Legit)]
        /\ inputBuffer[s] \in Seq(Legit) /\ inputBuffer[s] # <<>>
    BY <2>1, SocketInvParts, SocketAssumption
    DEF TransportInv, ResponsesLegit, ReadingHasFrame, Sockets
  <2>3. CASE reading' = 0
    BY <2>3 DEF ReadingHasFrame
  <2>4. CASE reading' # 0
    <3>1. reading' = s /\ ~thrown /\ Len(inputBuffer[s]) # 1
      BY <2>1, <2>4
    <3>2. inputBuffer'[s] = Tail(inputBuffer[s])
      BY <2>1, <2>2, <3>1
    <3>3. Tail(inputBuffer[s]) \in Seq(Legit) /\ Len(Tail(inputBuffer[s])) = Len(inputBuffer[s]) - 1
      BY <2>2, HeadTailProperties
    <3>4. Len(inputBuffer[s]) \in Nat \ {0}
      BY <2>2, EmptySeq
    <3>5. Len(Tail(inputBuffer[s])) # 0
      BY <3>1, <3>3, <3>4
    <3>6. Tail(inputBuffer[s]) # <<>>
      <4>1. Len(<<>>) = 0
        OBVIOUS
      <4> QED BY <3>5, <4>1, Zenon
    <3> QED BY <3>1, <3>2, <3>6 DEF ReadingHasFrame
  <2> QED BY <2>3, <2>4
<1>5. Application => UNCHANGED readVars
  BY DEF Application, Open, Close, NewManager, Call, CallRefused, CallUnwritable, CallFlushed
<1>6. ASSUME Events, ~UNCHANGED readVars
      PROVE  \/ \E s \in Sockets : SocketCloses(s)
             \/ \E s \in Sockets, n \in 0..MaxCalls : HandleData(s, n)
             \/ \E s \in Sockets, thrown \in BOOLEAN : ReadFrame(s, thrown)
  BY <1>6 DEF Events, TimerFires, Connected, ConnectFails
<1>7. Service => UNCHANGED readVars
  BY DEF Service, ServiceResponds
<1> QED BY <1>1, <1>2, <1>3, <1>4, <1>5, <1>6, <1>7 DEF Next

(* Every step over TCP keeps the invariant and the contract.               *)
LEMMA NextInv == Inv /\ [Next]_vars => Inv' /\ ContractStep
<1> SUFFICES ASSUME Inv, [Next]_vars  PROVE Inv' /\ ContractStep
  OBVIOUS
<1>1. SocketInv /\ ReadingHasFrame
  BY DEF Inv
<1>2. CASE Application
  BY <1>1, <1>2, OpenInv, CloseInv, NewManagerInv, CallInv, ReadingInv
  DEF Application, Next, Inv
<1>3. CASE Events
  <2>1. SocketInv' /\ ContractStep
    BY <1>1, <1>3, TimerFiresInv, ConnectedInv, ConnectFailsInv, SocketClosesInv,
       HandleDataInv, ReadFrameInv DEF Events
  <2> QED BY <1>3, <2>1, ReadingInv DEF Next, Inv
<1>4. CASE Service
  BY <1>1, <1>4, ServiceRespondsInv, ReadingInv DEF Service, Next, Inv
<1>5. CASE UNCHANGED vars
  <2>1. UNCHANGED <<callVars, connVars, sendVars, serviceVars, readVars>>
    BY <1>5 DEF vars
  <2>2. SocketInv' /\ ContractStep
    BY <1>1, <2>1, SocketStutterInv
  <2>3. ReadingHasFrame'
    BY <1>1, <2>1 DEF ReadingHasFrame, readVars
  <2> QED BY <2>2, <2>3 DEF Inv
<1> QED BY <1>2, <1>3, <1>4, <1>5 DEF Next

(* The inductive invariant.                                                *)
THEOREM Invariance == Spec => []Inv
<1>1. Init => Inv
  BY SocketInitInv DEF Init, Inv, ReadingHasFrame
<1>2. Inv /\ [Next]_vars => Inv'
  BY NextInv
<1> QED BY <1>1, <1>2, PTL DEF Spec

(* Type correctness.                                                       *)
THEOREM TypeCorrect == Spec => []TypeOK
<1>1. Inv => TypeOK
  BY DEF Inv, SocketInv
<1> QED BY <1>1, Invariance, PTL

(* The registry holds exactly the calls that have not completed.           *)
THEOREM RegistryAlwaysExact == Spec => []RegistryExact
<1>1. Inv => RegistryExact
  BY DEF Inv, SocketInv
<1> QED BY <1>1, Invariance, PTL

(* No result handler is invoked again after it has returned.               *)
THEOREM ToldOnce == Spec => []NotifiedOnce
<1>1. Inv => NotifiedOnce
  BY DEF Inv, SocketInv
<1> QED BY <1>1, Invariance, PTL

(* A timer is armed exactly while a sent two-way call waits, except after  *)
(* its own handler threw.                                                  *)
THEOREM TimersAlwaysGuard == Spec => []TimersGuardCalls
<1>1. Inv => TimersGuardCalls
  BY DEF Inv, SocketInv
<1> QED BY <1>1, Invariance, PTL

(* A call is told "reply" only if the service answered this very call.     *)
THEOREM RepliesOwned == Spec => []RepliesAreAnswers
<1>1. Inv => RepliesAreAnswers
  BY DEF Inv, SocketInv
<1> QED BY <1>1, Invariance, PTL

(* The queue of pending buffers is always empty: no call gets that far.    *)
THEOREM NeverPending == Spec => []NothingPending
<1>1. Inv => NothingPending
  BY DEF Inv, SocketInv
<1> QED BY <1>1, Invariance, PTL

(* The transport never holds a socket that has closed.                     *)
THEOREM SocketAlwaysLive == Spec => []SocketIsLive
<1>1. Inv => SocketIsLive
  BY DEF Inv, SocketInv
<1> QED BY <1>1, Invariance, PTL

(* The client library keeps the contract of CallContract over TCP, for     *)
(* every number of calls, connections and failures: one verdict per call,  *)
(* from its own reply, its own failure or its own deadline.                *)
THEOREM Refinement == Spec => ImplementsContract
<1>1. Init => Contract!Init
  BY SocketInitInv
<1>2. Inv /\ [Next]_vars => [Contract!Next]_(Contract!vars)
  BY NextInv DEF ContractStep
<1> QED BY <1>1, <1>2, Invariance, PTL DEF Spec, ImplementsContract, Contract!Spec
==============================================================================
