---------------------------- MODULE ClientsProofs ----------------------------
(***************************************************************************)
(* Proofs for the clients: over whichever transport, for any number of     *)
(* calls, connections and failures, a handler that returned is not invoked *)
(* again and a reply is told only to a call the service answered; and over *)
(* a WebSocket and HTTP the calls keep the contract of CallContract.       *)
(*                                                                         *)
(* The WebSocket part is what WebSocketClientProofs proves.  HTTP and the  *)
(* event bus have the calls (CallsSafe) and the messages written for them  *)
(* (Traffic) in common, and each its own bookkeeping of what is under way. *)
(***************************************************************************)
EXTENDS Clients, SequenceTheorems, TLAPS

Socket == INSTANCE WebSocketClientProofs
Manager == INSTANCE ClientSocketProofs WITH MaxCalls <- MaxMessages

Messages == Seq(Manager!Started)

(* The bookkeeping of the calls is right, and replies are answers.         *)
CallsSafe ==
    /\ Manager!CallsInv
    /\ \A c \in Manager!Calls : Manager!ToldReply(c) => c \in answered

(* What was written, answered and given up is of calls that were started.  *)
Traffic ==
    /\ outputBuffer \in Messages /\ message \in [Manager!Calls -> Messages]
    /\ faults \in 0..MaxFaults
    /\ answered \subseteq Manager!Started /\ expired \subseteq Manager!Started

(* A request that was posted is a started call's, and not empty.           *)
HttpInv ==
    /\ CallsSafe /\ Traffic
    /\ client \in BOOLEAN /\ manager \in BOOLEAN
    /\ request \in [Manager!Calls -> Http!RequestStates]
    /\ \A c \in Manager!Calls :
          request[c] # "none" => c \in Manager!Started /\ message[c] # <<>>

(* A reply handler waits for a started call that put something on the bus, *)
(* and then the call made last, which it reports failures to, exists.      *)
BusInv ==
    /\ CallsSafe /\ Traffic
    /\ methodCall \in 0..MaxMessages
    /\ waiting \subseteq Manager!Started
    /\ \A c \in waiting : message[c] # <<>>
    /\ waiting # {} => methodCall \in Manager!Started

Inv ==
    /\ transport \in {"websocket", "http", "eventbus"}
    /\ transport = "websocket" => Socket!SocketInv
    /\ transport = "http" => HttpInv
    /\ transport = "eventbus" => BusInv

------------------------------------------------------------------------------
(* A message that was written is not empty.                                *)
LEMMA AppendNotEmpty ==
    ASSUME NEW S, NEW q \in Seq(S), NEW c
    PROVE  Append(q, c) # <<>>
<1>1. q \in Seq(S \cup {c})
  BY SeqMonotonic
<1>. QED  BY <1>1, AppendProperties

(* The clients over HTTP and the event bus work on the same calls.         *)
LEMMA SameCalls ==
    ASSUME NEW c, NEW isOneway, NEW outcome, NEW thrown, NEW r
    PROVE  /\ Http!StartFailed(c, isOneway, thrown) <=> Manager!StartFailed(c, isOneway, thrown)
           /\ Bus!StartFailed(c, isOneway, thrown) <=> Manager!StartFailed(c, isOneway, thrown)
           /\ Http!StartFlushed(c, isOneway, thrown, timer)
                <=> Manager!StartFlushed(c, isOneway, thrown, timer)
           /\ Bus!StartFlushed(c, isOneway, thrown, timer)
                <=> Manager!StartFlushed(c, isOneway, thrown, timer)
           /\ Http!OnError(c, outcome, thrown, timer)
                <=> Manager!OnError(c, outcome, thrown, timer)
           /\ Bus!OnError(c, outcome, thrown, timer)
                <=> Manager!OnError(c, outcome, thrown, timer)
           /\ Http!HandleResponse(r, thrown) <=> Manager!HandleResponse(r, thrown)
           /\ Bus!HandleResponse(r, thrown) <=> Manager!HandleResponse(r, thrown)
<1>1. /\ Http!StartFailed(c, isOneway, thrown) <=> Manager!StartFailed(c, isOneway, thrown)
      /\ Bus!StartFailed(c, isOneway, thrown) <=> Manager!StartFailed(c, isOneway, thrown)
  BY DEF Http!StartFailed, Bus!StartFailed, Manager!StartFailed, Http!NewCall, Bus!NewCall,
         Manager!NewCall, Http!HandleResult, Bus!HandleResult, Manager!HandleResult,
         Http!OnComplete, Bus!OnComplete, Manager!OnComplete
<1>2. /\ Http!StartFlushed(c, isOneway, thrown, timer)
           <=> Manager!StartFlushed(c, isOneway, thrown, timer)
      /\ Bus!StartFlushed(c, isOneway, thrown, timer)
           <=> Manager!StartFlushed(c, isOneway, thrown, timer)
  BY DEF Http!StartFlushed, Bus!StartFlushed, Manager!StartFlushed, Http!NewCall, Bus!NewCall,
         Manager!NewCall, Http!HandleResult, Bus!HandleResult, Manager!HandleResult,
         Http!OnComplete, Bus!OnComplete, Manager!OnComplete
<1>3. /\ Http!OnError(c, outcome, thrown, timer) <=> Manager!OnError(c, outcome, thrown, timer)
      /\ Bus!OnError(c, outcome, thrown, timer) <=> Manager!OnError(c, outcome, thrown, timer)
  BY DEF Http!OnError, Bus!OnError, Manager!OnError, Http!HandleResult, Bus!HandleResult,
         Manager!HandleResult, Http!OnComplete, Bus!OnComplete, Manager!OnComplete
<1>4. /\ Http!HandleResponse(r, thrown) <=> Manager!HandleResponse(r, thrown)
      /\ Bus!HandleResponse(r, thrown) <=> Manager!HandleResponse(r, thrown)
  BY DEF Http!HandleResponse, Bus!HandleResponse, Manager!HandleResponse, Http!Ignored,
         Bus!Ignored, Manager!Ignored, Http!ReplyOutcome, Bus!ReplyOutcome,
         Manager!ReplyOutcome, Http!OnError, Bus!OnError, Manager!OnError,
         Http!HandleResult, Bus!HandleResult, Manager!HandleResult,
         Http!OnComplete, Bus!OnComplete, Manager!OnComplete
<1>. QED  BY <1>1, <1>2, <1>3, <1>4

(* The calls that were started are calls.                                  *)
LEMMA StartedAreCalls ==
    ASSUME Manager!CallsInv
    PROVE  Manager!Started \subseteq Manager!Calls /\ seqidGenerator \in 0..MaxMessages
BY ClientsAssumption DEF Manager!CallsInv, Manager!CallsTypeOK, Manager!Started, Manager!Calls

(* A step that starts call c, and gives it at most a verdict other than a  *)
(* reply.                                                                  *)
LEMMA CallStarts ==
    ASSUME CallsSafe, Traffic, NEW c \in Manager!Calls, NEW v \in {"sent", "error"},
           Manager!CallsInv', Manager!TellsAtMost(c, v),
           c = seqidGenerator + 1, seqidGenerator' = c,
           faults' \in 0..MaxFaults, UNCHANGED <<answered, expired>>,
           outputBuffer' \in {outputBuffer, Append(outputBuffer, c), <<>>},
           message' \in {message, [message EXCEPT ![c] = Append(outputBuffer, c)]}
    PROVE  CallsSafe' /\ Traffic' /\ c \in Manager!Started'
           /\ Manager!Started \subseteq Manager!Started'
<1>1. seqidGenerator \in 0..MaxMessages
  BY StartedAreCalls DEF CallsSafe
<1>2. c \in Manager!Started' /\ Manager!Started \subseteq Manager!Started'
  BY <1>1 DEF Manager!Started
<1>3. CallsSafe'
  BY DEF CallsSafe, Manager!TellsAtMost, Manager!Calls
<1>4. Messages \subseteq Messages'
  BY <1>2, SeqMonotonic DEF Messages
<1>5. Append(outputBuffer, c) \in Messages' /\ <<>> \in Messages'
  BY <1>2, <1>4, AppendProperties, EmptySeq DEF Messages, Traffic
<1>6. outputBuffer' \in Messages'
  BY <1>4, <1>5 DEF Traffic
<1>7. message' \in [Manager!Calls -> Messages']
  BY <1>4, <1>5 DEF Traffic
<1>8. Traffic'
  BY <1>2, <1>6, <1>7 DEF Traffic, Manager!Calls
<1>. QED  BY <1>2, <1>3, <1>8

(* A step that gives call c at most the verdict v.                         *)
LEMMA CallEnds ==
    ASSUME CallsSafe, Traffic, NEW c, NEW v,
           Manager!CallsInv', Manager!TellsAtMost(c, v), v = "reply" => c \in answered,
           UNCHANGED <<seqidGenerator, outputBuffer, message, faults>>,
           answered \subseteq answered', answered' \subseteq Manager!Started,
           expired' \subseteq Manager!Started
    PROVE  CallsSafe' /\ Traffic' /\ Manager!Started' = Manager!Started
<1>1. Manager!Started' = Manager!Started
  BY DEF Manager!Started
<1>2. CallsSafe'
  BY DEF CallsSafe, Manager!TellsAtMost, Manager!Calls
<1>3. Traffic'
  BY <1>1 DEF Traffic, Messages, Manager!Calls
<1>. QED  BY <1>1, <1>2, <1>3

(* The first message of what a call sent is of a started call.             *)
LEMMA FirstMessage ==
    ASSUME Traffic, NEW c \in Manager!Calls, message[c] # <<>>
    PROVE  Head(message[c]) \in Manager!Started
BY HeadTailProperties DEF Traffic, Messages

------------------------------------------------------------------------------
(* HTTP.                                                                   *)
ContractStep == Http!Contract!Next \/ UNCHANGED Http!Contract!vars

(* The contract of HttpClient sees the verdicts of the call manager.       *)
LEMMA SameVerdict == Http!Verdict = Manager!Verdict
BY DEF Http!Verdict, Manager!Verdict, Http!Calls, Manager!Calls

(* The same of the next state.                                             *)
LEMMA SameVerdictNext == Http!Verdict' = Manager!Verdict'
BY DEF Http!Verdict, Manager!Verdict, Http!Calls, Manager!Calls

(* A new call, settled at once if at all.                                  *)
LEMMA ContractIssue ==
    ASSUME NEW c \in Manager!Calls, NEW v \in {"sent", "error"}, Manager!AtMost(c, v),
           c = seqidGenerator + 1, seqidGenerator' = c, UNCHANGED <<answered, expired>>
    PROVE  ContractStep
<1>1. Http!Contract!Issue(c)
  BY SameVerdict, SameVerdictNext
  DEF Http!Contract!Issue, Http!Contract!Settle, Manager!AtMost
<1>. QED  BY <1>1 DEF ContractStep, Http!Contract!Next, Manager!Calls

(* The contract does not see it.                                           *)
LEMMA ContractStutter ==
    ASSUME UNCHANGED <<seqidGenerator, Manager!Verdict, answered, expired>>
    PROVE  ContractStep
BY SameVerdict, SameVerdictNext DEF ContractStep, Http!Contract!vars

(* A started call that has not completed is pending.                       *)
LEMMA ContractPending ==
    ASSUME NEW c \in Manager!Started \ completed, Manager!CallsInv
    PROVE  Http!Contract!Pending(c)
BY SameVerdict, StartedAreCalls
DEF Http!Contract!Pending, Manager!Verdict, Manager!Started

(* A pending call gets its verdict, a reply only if it was answered; a     *)
(* completed call keeps the one it has.                                    *)
LEMMA ContractResolve ==
    ASSUME Manager!CallsInv, NEW c \in Manager!Started,
           NEW v \in {"reply", "exception", "error"}, Manager!AtMost(c, v),
           c \in completed => UNCHANGED Manager!Verdict, v = "reply" => c \in answered,
           UNCHANGED <<seqidGenerator, answered, expired>>
    PROVE  ContractStep
<1>1. CASE UNCHANGED Manager!Verdict
  BY <1>1, ContractStutter
<1>2. CASE ~UNCHANGED Manager!Verdict
  <2>1. Http!Contract!Pending(c)
    BY <1>2, ContractPending
  <2>2. Http!Contract!Resolve(c)
    BY <1>2, <2>1, SameVerdict, SameVerdictNext
    DEF Http!Contract!Resolve, Http!Contract!Settle, Manager!AtMost
  <2>3. c \in 1..MaxMessages
    BY StartedAreCalls DEF Manager!Calls
  <2>. QED  BY <2>2, <2>3 DEF ContractStep, Http!Contract!Next
<1>. QED  BY <1>1, <1>2

(* The deadline of a call passes, and a pending call may be told.          *)
LEMMA ContractExpire ==
    ASSUME Manager!CallsInv, NEW c \in Manager!Started, Manager!AtMost(c, "timeout"),
           c \in completed => UNCHANGED Manager!Verdict,
           expired' = expired \cup {c}, UNCHANGED <<seqidGenerator, answered>>
    PROVE  ContractStep
<1>1. Http!Contract!Expire(c)
  <2>1. CASE UNCHANGED Manager!Verdict
    BY <2>1, SameVerdict, SameVerdictNext DEF Http!Contract!Expire, Manager!Started
  <2>2. CASE ~UNCHANGED Manager!Verdict
    <3>1. Http!Contract!Pending(c)
      BY <2>2, ContractPending
    <3>. QED  BY <2>2, <3>1, SameVerdict, SameVerdictNext
              DEF Http!Contract!Expire, Http!Contract!Settle, Manager!AtMost, Manager!Started
  <2>. QED  BY <2>1, <2>2
<1>2. c \in 1..MaxMessages
  BY StartedAreCalls DEF Manager!Calls
<1>. QED  BY <1>1, <1>2 DEF ContractStep, Http!Contract!Next

(* The invariant starts out true, and so does the contract's beginning.    *)
LEMMA HttpInitInv == Http!Init => HttpInv
<1> SUFFICES ASSUME Http!Init  PROVE HttpInv
  OBVIOUS
<1>1. Manager!CallsInit
  BY DEF Http!Init, Http!CallsInit, Manager!CallsInit, Http!Calls, Manager!Calls
<1>2. Manager!CallsInv
  BY <1>1, ClientsAssumption, Manager!CallsInitInv
<1>3. CallsSafe
  BY <1>1, <1>2 DEF CallsSafe, Manager!CallsInit, Manager!ToldReply
<1>4. <<>> \in Messages
  BY EmptySeq DEF Messages
<1>5. Traffic
  BY <1>4, ClientsAssumption DEF Http!Init, Traffic, Http!Calls, Manager!Calls
<1>. QED  BY <1>3, <1>5
          DEF Http!Init, HttpInv, Http!Calls, Manager!Calls, Http!RequestStates

(* What happens to HttpInv and the contract when neither a call starts nor *)
(* a handler is told anything.                                             *)
LEMMA HttpIdle ==
    ASSUME HttpInv,
           UNCHANGED <<seqidGenerator, oneway, registered, completed, results, throws, timer,
                       outputBuffer, faults, message, answered, expired>>,
           client' \in BOOLEAN, manager' \in BOOLEAN,
           request' \in [Manager!Calls -> Http!RequestStates],
           \A c \in Manager!Calls : request'[c] # "none" => request[c] # "none"
    PROVE  HttpInv' /\ ContractStep
<1>1. Manager!CallsInv'
  BY ClientsAssumption, Manager!CallsStutterInv DEF HttpInv, CallsSafe, Manager!callVars
<1>2. Manager!TellsAtMost(0, "none") /\ UNCHANGED Manager!Verdict
  BY ClientsAssumption, Manager!TellsNobody
<1>3. CallsSafe' /\ Traffic' /\ Manager!Started' = Manager!Started
  BY <1>1, <1>2, CallEnds DEF HttpInv, Traffic
<1>4. ContractStep
  BY <1>2, ContractStutter
<1>. QED  BY <1>3, <1>4 DEF HttpInv, Manager!Calls

(* A call that is made keeps HttpInv and is an Issue of the contract.      *)
LEMMA HttpCallInv ==
    ASSUME HttpInv, Http!Call
    PROVE  HttpInv' /\ ContractStep
<1>1. PICK c \in Manager!Calls, isOneway \in BOOLEAN, thrown \in BOOLEAN :
            \/ Http!CallRefused(c, isOneway, thrown)
            \/ Http!CallUnwritable(c, isOneway, thrown)
            \/ Http!CallFlushed(c, isOneway, thrown)
  BY DEF Http!Call, Http!Calls, Manager!Calls
<1>2. CallsSafe /\ Traffic /\ Manager!CallsInv
  BY DEF HttpInv, CallsSafe
<1>3. CASE Http!CallRefused(c, isOneway, thrown) \/ Http!CallUnwritable(c, isOneway, thrown)
  <2>1. /\ Manager!StartFailed(c, isOneway, thrown)
        /\ UNCHANGED <<client, manager, request, message, answered, expired>>
        /\ outputBuffer' \in {outputBuffer, Append(outputBuffer, c), <<>>}
        /\ faults' \in 0..MaxFaults
    BY <1>3, <1>2, SameCalls, ClientsAssumption
    DEF Http!CallRefused, Http!CallUnwritable, Traffic
  <2>2. /\ Manager!CallsInv' /\ Manager!TellsAtMost(c, "error")
        /\ c = seqidGenerator + 1 /\ seqidGenerator' = c
    BY <1>2, <2>1, ClientsAssumption, Manager!StartFailedTells
  <2>3. /\ CallsSafe' /\ Traffic' /\ Manager!Started \subseteq Manager!Started'
    BY <1>2, <2>1, <2>2, CallStarts
  <2>4. ContractStep
    BY <2>1, <2>2, ContractIssue DEF Manager!TellsAtMost
  <2>. QED  BY <2>1, <2>3, <2>4 DEF HttpInv, Manager!Calls
<1>4. CASE Http!CallFlushed(c, isOneway, thrown)
  <2>1. /\ Manager!StartFlushed(c, isOneway, thrown, timer)
        /\ UNCHANGED <<client, manager, faults, answered, expired>>
        /\ outputBuffer' = <<>>
        /\ request' = [request EXCEPT ![c] = "posted"]
        /\ message' = [message EXCEPT ![c] = Append(outputBuffer, c)]
    BY <1>4, SameCalls DEF Http!CallFlushed
  <2>2. /\ Manager!CallsInv' /\ Manager!TellsAtMost(c, "sent")
        /\ c = seqidGenerator + 1 /\ seqidGenerator' = c
    <3>1. timer \in [Manager!Calls -> Manager!TimerStates]
      BY <1>2 DEF Manager!CallsInv, Manager!CallsTypeOK
    <3>. QED  BY <1>2, <2>1, <3>1, ClientsAssumption, Manager!StartFlushedTells
  <2>3. /\ CallsSafe' /\ Traffic' /\ c \in Manager!Started'
        /\ Manager!Started \subseteq Manager!Started'
    <3>1. faults' \in 0..MaxFaults
      BY <1>2, <2>1 DEF Traffic
    <3>. QED  BY <1>2, <2>1, <2>2, <3>1, CallStarts
  <2>4. ContractStep
    BY <2>1, <2>2, ContractIssue DEF Manager!TellsAtMost
  <2>5. Append(outputBuffer, c) # <<>>
    BY <1>2, AppendNotEmpty DEF Traffic, Messages
  <2>6. request' \in [Manager!Calls -> Http!RequestStates]
    BY <2>1 DEF HttpInv, Http!RequestStates
  <2>7. ASSUME NEW d \in Manager!Calls, request'[d] # "none"
        PROVE  d \in Manager!Started' /\ message'[d] # <<>>
    <3>1. CASE d = c
      BY <1>2, <2>1, <2>3, <2>5, <3>1 DEF Traffic
    <3>2. CASE d # c
      BY <1>2, <2>1, <2>3, <2>7, <3>2 DEF HttpInv, Traffic
    <3>. QED  BY <3>1, <3>2
  <2>. QED  BY <2>1, <2>3, <2>4, <2>6, <2>7 DEF HttpInv, Manager!Calls
<1>. QED  BY <1>1, <1>3, <1>4

(* What is common to the steps in which a request comes to an end: its     *)
(* state, and that nothing is written.                                     *)
HttpEnds(c) ==
    /\ request[c] # "none"
    /\ \E state \in Http!RequestStates : request' = [request EXCEPT ![c] = state]
    /\ UNCHANGED <<seqidGenerator, oneway, client, manager, outputBuffer, faults, message,
                   answered>>

(* Such a step keeps HttpInv if what it tells is right.                    *)
LEMMA HttpEndsInv ==
    ASSUME HttpInv, NEW c \in Manager!Calls, HttpEnds(c), NEW d, NEW v,
           Manager!CallsInv', Manager!TellsAtMost(d, v), v = "reply" => d \in answered,
           expired' \subseteq Manager!Started
    PROVE  HttpInv'
<1>1. CallsSafe' /\ Traffic' /\ Manager!Started' = Manager!Started
  BY CallEnds DEF HttpInv, HttpEnds, Traffic
<1>. QED  BY <1>1 DEF HttpInv, HttpEnds, Manager!Calls

(* The failures of a request are reported to its own call.                 *)
LEMMA HttpFailureInv ==
    ASSUME HttpInv, NEW c \in Manager!Calls, NEW thrown \in BOOLEAN,
           \/ Http!RequestFails(c, thrown)
           \/ Http!ResponseFails(c, thrown)
           \/ Http!ResponseRefused(c, thrown)
    PROVE  HttpInv' /\ ContractStep
<1>1. HttpEnds(c) /\ Http!OnError(c, "error", thrown, timer) /\ UNCHANGED expired
  BY DEF Http!RequestFails, Http!ResponseFails, Http!ResponseRefused, Http!Unsent, HttpEnds,
         Http!RequestStates
<1>2. Manager!OnError(c, "error", thrown, timer) /\ UNCHANGED <<seqidGenerator, oneway>>
  BY <1>1, SameCalls DEF HttpEnds
<1>3. c \in Manager!Started /\ Manager!CallsInv /\ "error" \in Manager!Outcomes
  BY <1>1 DEF HttpInv, HttpEnds, CallsSafe, Manager!Outcomes
<1>4. /\ Manager!CallsInv' /\ Manager!TellsAtMost(c, "error")
      /\ c \in completed => UNCHANGED Manager!Verdict
  BY <1>2, <1>3, ClientsAssumption, Manager!OnErrorTells
<1>5. HttpInv'
  <2>1. expired' \subseteq Manager!Started
    BY <1>1 DEF HttpInv, Traffic
  <2>. QED  BY <1>1, <1>4, <2>1, HttpEndsInv
<1>6. ContractStep
  BY <1>1, <1>3, <1>4, ContractResolve DEF HttpEnds, Manager!TellsAtMost
<1>. QED  BY <1>5, <1>6

(* The deadline of a request passes: a two-way call is told.               *)
LEMMA HttpTimeoutInv ==
    ASSUME HttpInv, NEW c \in Manager!Calls, NEW thrown \in BOOLEAN,
           Http!RequestTimesOut(c, thrown)
    PROVE  HttpInv' /\ ContractStep
<1>1. HttpEnds(c) /\ expired' = expired \cup {c}
  BY DEF Http!RequestTimesOut, Http!Unsent, HttpEnds, Http!RequestStates
<1>2. /\ c \in Manager!Started /\ Manager!CallsInv /\ "timeout" \in Manager!Outcomes
      /\ UNCHANGED <<seqidGenerator, oneway>>
  BY <1>1 DEF HttpInv, HttpEnds, CallsSafe, Manager!Outcomes
<1>3. /\ Manager!CallsInv' /\ Manager!TellsAtMost(c, "timeout")
      /\ c \in completed => UNCHANGED Manager!Verdict
  <2>1. CASE c \in oneway
    <3>1. UNCHANGED <<seqidGenerator, oneway, registered, completed, results, throws, timer>>
      BY <1>2, <2>1 DEF Http!RequestTimesOut
    <3>2. Manager!CallsInv'
      BY <1>2, <3>1, ClientsAssumption, Manager!CallsStutterInv DEF Manager!callVars
    <3>3. UNCHANGED Manager!Verdict /\ Manager!TellsAtMost(c, "timeout")
      BY <3>1, ClientsAssumption, Manager!TellsNobody
    <3>. QED  BY <3>2, <3>3
  <2>2. CASE c \notin oneway
    <3>1. Manager!OnError(c, "timeout", thrown, timer)
      BY <2>2, SameCalls DEF Http!RequestTimesOut
    <3>. QED  BY <1>2, <3>1, ClientsAssumption, Manager!OnErrorTells
  <2>. QED  BY <2>1, <2>2
<1>4. HttpInv'
  <2>1. expired' \subseteq Manager!Started
    BY <1>1, <1>2 DEF HttpInv, Traffic
  <2>. QED  BY <1>1, <1>3, <2>1, HttpEndsInv
<1>5. ContractStep
  BY <1>1, <1>2, <1>3, ContractExpire DEF HttpEnds, Manager!TellsAtMost
<1>. QED  BY <1>4, <1>5

(* A response settles the call whose sequence id is in it, if it pends.    *)
LEMMA HttpBodyInv ==
    ASSUME HttpInv, NEW c \in Manager!Calls, NEW thrown \in BOOLEAN,
           NEW kind \in Http!ReplyKinds, Http!BodyArrives(c, kind, thrown)
    PROVE  HttpInv' /\ ContractStep
<1> DEFINE first == Head(message[c])
<1> DEFINE r == [seqid |-> first, kind |-> kind]
<1>1. /\ request[c] = "responding" /\ request' = [request EXCEPT ![c] = "done"]
      /\ kind \in {"reply", "corrupt"} => first \in answered
      /\ Http!HandleResponse(r, thrown)
      /\ UNCHANGED <<client, manager, outputBuffer, faults, message, answered, expired>>
  BY DEF Http!BodyArrives
<1>2. first \in Manager!Started
  BY <1>1, FirstMessage DEF HttpInv
<1>3. Manager!CallsInv /\ first \in Manager!Calls
  BY <1>2, StartedAreCalls DEF HttpInv, CallsSafe
<1>4. r \in Manager!Replies
  BY <1>3 DEF Manager!Replies, Http!ReplyKinds, Manager!ReplyKinds
<1>5. r.seqid = first /\ r.kind = kind
  OBVIOUS
<1>6. Manager!ReplyOutcome(r) = "reply" => first \in answered
  BY <1>1, <1>5 DEF Manager!ReplyOutcome
<1>7. Manager!HandleResponse(r, thrown)
  <2>. HIDE DEF r
  <2>. QED  BY <1>1, SameCalls
<1>. HIDE DEF r, first
<1>8. /\ Manager!CallsInv' /\ UNCHANGED <<seqidGenerator, oneway>>
      /\ Manager!TellsAtMost(first, Manager!ReplyOutcome(r))
      /\ \/ UNCHANGED Manager!Verdict
         \/ /\ first \in Manager!Started \ completed
            /\ Manager!ReplyOutcome(r) \in {"reply", "exception", "error"}
  <2>1. UNCHANGED oneway
    BY <1>7 DEF Manager!HandleResponse
  <2>. QED  BY <1>3, <1>4, <1>5, <1>7, <2>1, ClientsAssumption, Manager!HandleResponseTells
<1>9. HttpInv'
  <2>1. HttpEnds(c)
    BY <1>1, <1>8 DEF HttpEnds, Http!RequestStates
  <2>2. expired' \subseteq Manager!Started
    BY <1>1 DEF HttpInv, Traffic
  <2>. QED  BY <1>6, <1>8, <2>1, <2>2, HttpEndsInv
<1>10. ContractStep
  <2>1. CASE UNCHANGED Manager!Verdict
    BY <1>1, <1>8, <2>1, ContractStutter
  <2>2. CASE ~UNCHANGED Manager!Verdict
    BY <1>1, <1>3, <1>6, <1>8, <2>2, ContractResolve DEF Manager!TellsAtMost
  <2>. QED  BY <2>1, <2>2
<1>. QED  BY <1>9, <1>10

(* The service answers a two-way call that it has the whole message of.    *)
LEMMA HttpAnswersInv ==
    ASSUME HttpInv, NEW c \in Manager!Calls, Http!ServiceAnswers(c)
    PROVE  HttpInv' /\ ContractStep
<1>1. /\ request[c] = "posted" /\ answered' = answered \cup {c}
      /\ UNCHANGED <<seqidGenerator, oneway, registered, completed, results, throws, timer,
                     client, manager, outputBuffer, faults, request, message, expired>>
  BY DEF Http!ServiceAnswers, Http!callVars
<1>2. c \in Manager!Started /\ Manager!CallsInv
  BY <1>1 DEF HttpInv, CallsSafe
<1>3. Manager!CallsInv'
  BY <1>1, <1>2, ClientsAssumption, Manager!CallsStutterInv DEF Manager!callVars
<1>4. UNCHANGED Manager!Verdict /\ Manager!TellsAtMost(0, "none")
  BY <1>1, ClientsAssumption, Manager!TellsNobody
<1>5. CallsSafe' /\ Traffic' /\ Manager!Started' = Manager!Started
  BY <1>1, <1>2, <1>3, <1>4, CallEnds DEF HttpInv, Traffic
<1>6. HttpInv'
  BY <1>1, <1>5 DEF HttpInv, Manager!Calls
<1>7. ContractStep
  <2>1. Http!Contract!Answer(c)
    BY <1>1, <1>2, <1>4, SameVerdict, SameVerdictNext
    DEF Http!Contract!Answer, Manager!Started
  <2>. QED  BY <2>1 DEF ContractStep, Http!Contract!Next, Manager!Calls
<1>. QED  BY <1>6, <1>7

(* The steps that concern no call: opening, closing, the manager, and the  *)
(* beginning of a response.                                                *)
LEMMA HttpOtherInv ==
    ASSUME HttpInv,
           \/ Http!Open \/ Http!Close \/ Http!NewManager
           \/ \E c \in Manager!Calls : Http!ResponseBegins(c)
           \/ UNCHANGED Http!vars
    PROVE  HttpInv' /\ ContractStep
<1>1. /\ UNCHANGED <<seqidGenerator, oneway, registered, completed, results, throws, timer,
                     outputBuffer, faults, message, answered, expired>>
      /\ client' \in BOOLEAN /\ manager' \in BOOLEAN
  BY DEF HttpInv, Http!Open, Http!Close, Http!NewManager, Http!ResponseBegins, Http!Unsent,
         Http!vars, Http!callVars
<1>2. /\ request' \in [Manager!Calls -> Http!RequestStates]
      /\ \A c \in Manager!Calls : request'[c] # "none" => request[c] # "none"
  BY DEF HttpInv, Http!Open, Http!Close, Http!NewManager, Http!ResponseBegins, Http!vars,
         Http!RequestStates
<1>. QED  BY <1>1, <1>2, HttpIdle

(* Every step over HTTP keeps HttpInv and the contract.                    *)
LEMMA HttpNextInv ==
    ASSUME HttpInv, Http!Next \/ UNCHANGED Http!vars
    PROVE  HttpInv' /\ ContractStep
<1>1. Http!Calls = Manager!Calls
  BY DEF Http!Calls, Manager!Calls
<1>2. CASE Http!Application
  BY <1>2, HttpCallInv, HttpOtherInv DEF Http!Application
<1>3. CASE \E c \in Http!Calls : Http!ServiceAnswers(c) \/ Http!ResponseBegins(c)
  BY <1>1, <1>3, HttpAnswersInv, HttpOtherInv
<1>4. CASE \E c \in Http!Calls, thrown \in BOOLEAN :
               Http!RequestEvent(c, thrown) \/ Http!ResponseFails(c, thrown)
  BY <1>1, <1>4, HttpTimeoutInv, HttpFailureInv, HttpBodyInv DEF Http!RequestEvent
<1>5. CASE UNCHANGED Http!vars
  BY <1>5, HttpOtherInv
<1>. QED  BY <1>2, <1>3, <1>4, <1>5 DEF Http!Next

------------------------------------------------------------------------------
(* The event bus.                                                          *)
LEMMA BusInitInv == Bus!Init => BusInv
<1> SUFFICES ASSUME Bus!Init  PROVE BusInv
  OBVIOUS
<1>1. Manager!CallsInit
  BY DEF Bus!Init, Bus!CallsInit, Manager!CallsInit, Bus!Calls, Manager!Calls
<1>2. Manager!CallsInv
  BY <1>1, ClientsAssumption, Manager!CallsInitInv
<1>3. CallsSafe
  BY <1>1, <1>2 DEF CallsSafe, Manager!CallsInit, Manager!ToldReply
<1>4. <<>> \in Messages
  BY EmptySeq DEF Messages
<1>5. Traffic
  BY <1>4, ClientsAssumption DEF Bus!Init, Traffic, Bus!Calls, Manager!Calls
<1>. QED  BY <1>3, <1>5, ClientsAssumption DEF Bus!Init, BusInv

(* A call that is made becomes the one that failures are reported to.      *)
LEMMA BusCallInv ==
    ASSUME BusInv, Bus!Call
    PROVE  BusInv'
<1>1. PICK c \in Manager!Calls, isOneway \in BOOLEAN, thrown \in BOOLEAN :
            \/ Bus!CallUnwritable(c, isOneway, thrown)
            \/ Bus!CallFlushed(c, isOneway, thrown)
  BY DEF Bus!Call, Bus!Calls, Manager!Calls
<1>2. CallsSafe /\ Traffic /\ Manager!CallsInv
  BY DEF BusInv, CallsSafe
<1>3. methodCall' = c /\ methodCall' \in 0..MaxMessages
  BY <1>1, ClientsAssumption DEF Bus!CallUnwritable, Bus!CallFlushed, Manager!Calls
<1>4. CASE Bus!CallUnwritable(c, isOneway, thrown)
  <2>1. /\ Manager!StartFailed(c, isOneway, thrown)
        /\ UNCHANGED <<waiting, message, answered, expired>>
        /\ outputBuffer' \in {outputBuffer, Append(outputBuffer, c), <<>>}
        /\ faults' \in 0..MaxFaults
    BY <1>4, <1>2, SameCalls, ClientsAssumption DEF Bus!CallUnwritable, Traffic
  <2>2. /\ Manager!CallsInv' /\ Manager!TellsAtMost(c, "error")
        /\ c = seqidGenerator + 1 /\ seqidGenerator' = c
    BY <1>2, <2>1, ClientsAssumption, Manager!StartFailedTells
  <2>3. /\ CallsSafe' /\ Traffic' /\ c \in Manager!Started'
        /\ Manager!Started \subseteq Manager!Started'
    BY <1>2, <2>1, <2>2, CallStarts
  <2>. QED  BY <1>3, <2>1, <2>3 DEF BusInv
<1>5. CASE Bus!CallFlushed(c, isOneway, thrown)
  <2>1. /\ Manager!StartFlushed(c, isOneway, thrown, timer)
        /\ UNCHANGED <<faults, answered, expired>>
        /\ outputBuffer' = <<>>
        /\ waiting' \subseteq waiting \cup {c}
        /\ message' = [message EXCEPT ![c] = Append(outputBuffer, c)]
    BY <1>5, SameCalls DEF Bus!CallFlushed
  <2>2. /\ Manager!CallsInv' /\ Manager!TellsAtMost(c, "sent")
        /\ c = seqidGenerator + 1 /\ seqidGenerator' = c
    <3>1. timer \in [Manager!Calls -> Manager!TimerStates]
      BY <1>2 DEF Manager!CallsInv, Manager!CallsTypeOK
    <3>. QED  BY <1>2, <2>1, <3>1, ClientsAssumption, Manager!StartFlushedTells
  <2>3. /\ CallsSafe' /\ Traffic' /\ c \in Manager!Started'
        /\ Manager!Started \subseteq Manager!Started'
    <3>1. faults' \in 0..MaxFaults
      BY <1>2, <2>1 DEF Traffic
    <3>. QED  BY <1>2, <2>1, <2>2, <3>1, CallStarts
  <2>4. Append(outputBuffer, c) # <<>>
    BY <1>2, AppendNotEmpty DEF Traffic, Messages
  <2>5. ASSUME NEW d \in waiting'  PROVE message'[d] # <<>>
    <3>1. CASE d = c
      BY <1>2, <2>1, <2>4, <3>1 DEF Traffic
    <3>2. CASE d # c
      BY <1>2, <2>1, <2>5, <3>2 DEF BusInv, Traffic
    <3>. QED  BY <3>1, <3>2
  <2>6. waiting' \subseteq Manager!Started'
    BY <2>1, <2>3 DEF BusInv
  <2>. QED  BY <1>3, <2>3, <2>5, <2>6 DEF BusInv
<1>. QED  BY <1>1, <1>4, <1>5

(* What is common to the steps that end the wait for a reply.              *)
BusEnds(c) ==
    /\ c \in waiting /\ waiting' = waiting \ {c}
    /\ UNCHANGED <<seqidGenerator, oneway, methodCall, outputBuffer, faults, message, answered>>

(* Such a step keeps BusInv if what it tells is right.                     *)
LEMMA BusEndsInv ==
    ASSUME BusInv, NEW c, BusEnds(c), NEW d, NEW v,
           Manager!CallsInv', Manager!TellsAtMost(d, v), v = "reply" => d \in answered,
           expired' \subseteq Manager!Started
    PROVE  BusInv'
<1>1. CallsSafe' /\ Traffic' /\ Manager!Started' = Manager!Started
  BY CallEnds DEF BusInv, BusEnds, Traffic
<1>. QED  BY <1>1 DEF BusInv, BusEnds

(* A failure that the handler of a call sees is reported to the call made  *)
(* last, whichever that is.                                                *)
LEMMA BusFailureInv ==
    ASSUME BusInv, NEW c \in Manager!Calls, NEW thrown \in BOOLEAN,
           Bus!ReplyTimesOut(c, thrown) \/ Bus!ReplyOfWrongType(c, thrown)
    PROVE  BusInv'
<1>1. BusEnds(c) /\ expired' \subseteq expired \cup {c}
  BY DEF Bus!ReplyTimesOut, Bus!ReplyOfWrongType, BusEnds
<1>2. PICK v \in {"timeout", "error"} : Bus!OnError(methodCall, v, thrown, timer)
  BY DEF Bus!ReplyTimesOut, Bus!ReplyOfWrongType, Bus!FailedCall
<1>3. /\ methodCall \in Manager!Started /\ Manager!CallsInv /\ v \in Manager!Outcomes
      /\ UNCHANGED <<seqidGenerator, oneway>>
  BY <1>1 DEF BusInv, BusEnds, CallsSafe, Manager!Outcomes
<1>4. Manager!OnError(methodCall, v, thrown, timer)
  BY <1>2, SameCalls
<1>5. Manager!CallsInv' /\ Manager!TellsAtMost(methodCall, v)
  BY <1>3, <1>4, ClientsAssumption, Manager!OnErrorTells
<1>6. expired' \subseteq Manager!Started
  BY <1>1 DEF BusInv, BusEnds, Traffic
<1>. QED  BY <1>1, <1>5, <1>6, BusEndsInv

(* A reply settles the call whose sequence id is in it, if it pends.       *)
LEMMA BusReplyInv ==
    ASSUME BusInv, NEW c \in Manager!Calls, NEW thrown \in BOOLEAN,
           NEW kind \in Bus!ReplyKinds, Bus!ReplyArrives(c, kind, thrown)
    PROVE  BusInv'
<1> DEFINE first == Head(message[c])
<1> DEFINE r == [seqid |-> first, kind |-> kind]
<1>1. /\ c \in waiting /\ waiting' = waiting \ {c}
      /\ kind \in {"reply", "corrupt"} => first \in answered
      /\ Bus!HandleResponse(r, thrown)
      /\ UNCHANGED <<methodCall, outputBuffer, faults, message, answered, expired>>
  BY DEF Bus!ReplyArrives
<1>2. first \in Manager!Started
  BY <1>1, FirstMessage DEF BusInv
<1>3. Manager!CallsInv /\ first \in Manager!Calls
  BY <1>2, StartedAreCalls DEF BusInv, CallsSafe
<1>4. r \in Manager!Replies
  BY <1>3 DEF Manager!Replies, Bus!ReplyKinds, Manager!ReplyKinds
<1>5. r.seqid = first /\ r.kind = kind
  OBVIOUS
<1>6. Manager!ReplyOutcome(r) = "reply" => first \in answered
  BY <1>1, <1>5 DEF Manager!ReplyOutcome
<1>7. Manager!HandleResponse(r, thrown)
  <2>. HIDE DEF r
  <2>. QED  BY <1>1, SameCalls
<1>. HIDE DEF r, first
<1>8. /\ Manager!CallsInv' /\ UNCHANGED <<seqidGenerator, oneway>>
      /\ Manager!TellsAtMost(first, Manager!ReplyOutcome(r))
  <2>1. UNCHANGED oneway
    BY <1>7 DEF Manager!HandleResponse
  <2>. QED  BY <1>3, <1>4, <1>5, <1>7, <2>1, ClientsAssumption, Manager!HandleResponseTells
<1>9. BusEnds(c)
  BY <1>1, <1>8 DEF BusEnds
<1>10. expired' \subseteq Manager!Started
  BY <1>1 DEF BusInv, Traffic
<1>. QED  BY <1>6, <1>8, <1>9, <1>10, BusEndsInv

(* The service answers a call that still waits; or nothing happens.        *)
LEMMA BusOtherInv ==
    ASSUME BusInv, (\E c \in Manager!Calls : Bus!ServiceAnswers(c)) \/ UNCHANGED Bus!vars
    PROVE  BusInv'
<1>1. /\ UNCHANGED <<seqidGenerator, oneway, registered, completed, results, throws, timer,
                     methodCall, outputBuffer, faults, waiting, message, expired>>
      /\ answered \subseteq answered' /\ answered' \subseteq answered \cup waiting
  BY DEF Bus!ServiceAnswers, Bus!vars, Bus!callVars
<1>2. Manager!CallsInv'
  BY <1>1, ClientsAssumption, Manager!CallsStutterInv DEF BusInv, CallsSafe, Manager!callVars
<1>3. Manager!TellsAtMost(0, "none")
  BY <1>1, ClientsAssumption, Manager!TellsNobody
<1>4. CallsSafe' /\ Traffic' /\ Manager!Started' = Manager!Started
  BY <1>1, <1>2, <1>3, CallEnds DEF BusInv, Traffic
<1>. QED  BY <1>1, <1>4 DEF BusInv

(* Every step over the event bus keeps BusInv.                             *)
LEMMA BusNextInv ==
    ASSUME BusInv, Bus!Next \/ UNCHANGED Bus!vars
    PROVE  BusInv'
<1>1. Bus!Calls = Manager!Calls
  BY DEF Bus!Calls, Manager!Calls
<1>2. CASE Bus!Call
  BY <1>2, BusCallInv
<1>3. CASE \E c \in Bus!Calls : Bus!ServiceAnswers(c)
  BY <1>1, <1>3, BusOtherInv
<1>4. CASE \E c \in Bus!Calls, thrown \in BOOLEAN : Bus!ReplyHandler(c, thrown)
  BY <1>1, <1>4, BusFailureInv, BusReplyInv DEF Bus!ReplyHandler
<1>5. CASE UNCHANGED Bus!vars
  BY <1>5, BusOtherInv
<1>. QED  BY <1>2, <1>3, <1>4, <1>5 DEF Bus!Next

------------------------------------------------------------------------------
(* WebSockets.  The client of this module is the one proved about.         *)
LEMMA SocketInit == WebSocket!Init => Socket!SocketInv
<1>1. WebSocket!Init => Socket!Init
  BY DEF WebSocket!Init, Socket!Init, WebSocket!CallsInit, Socket!CallsInit,
         WebSocket!Calls, Socket!Calls, WebSocket!Sockets, Socket!Sockets
<1>2. Socket!Init => Socket!SocketInv
  BY ClientsAssumption, Socket!SocketInitInv
<1>. QED  BY <1>1, <1>2

(* Its steps are the same.                                                 *)
LEMMA SameSocketSteps ==
    /\ WebSocket!Next => Socket!Next
    /\ UNCHANGED WebSocket!vars => UNCHANGED Socket!vars
<1>1. WebSocket!Next => Socket!Next
  BY DEF WebSocket!Next, Socket!Next, WebSocket!Application, Socket!Application,
         WebSocket!Events, Socket!Events, WebSocket!Service, Socket!Service, WebSocket!Open,
         Socket!Open, WebSocket!IsOpen, Socket!IsOpen, WebSocket!Close, Socket!Close,
         WebSocket!NewManager, Socket!NewManager, WebSocket!Call, Socket!Call,
         WebSocket!CallRefused, Socket!CallRefused, WebSocket!CallUnwritable,
         Socket!CallUnwritable, WebSocket!CallFlushed, Socket!CallFlushed,
         WebSocket!CanWrite, Socket!CanWrite, WebSocket!Calls, Socket!Calls,
         WebSocket!Sockets, Socket!Sockets, WebSocket!StartFailed, Socket!StartFailed,
         WebSocket!StartFlushed, Socket!StartFlushed, WebSocket!NewCall, Socket!NewCall,
         WebSocket!HandleResult, Socket!HandleResult, WebSocket!OnComplete,
         Socket!OnComplete, WebSocket!FlushFrame, Socket!FlushFrame, WebSocket!Received,
         Socket!Received, WebSocket!TimerFires, Socket!TimerFires, WebSocket!Idle,
         Socket!Idle, WebSocket!OnError, Socket!OnError, WebSocket!WithoutSeqid,
         Socket!WithoutSeqid, WebSocket!WebSocketConnected, Socket!WebSocketConnected,
         WebSocket!ConnectFails, Socket!ConnectFails, WebSocket!SocketCloses,
         Socket!SocketCloses, WebSocket!HandleFinalFrame, Socket!HandleFinalFrame,
         WebSocket!HandleResponse, Socket!HandleResponse, WebSocket!Ignored, Socket!Ignored,
         WebSocket!ReplyOutcome, Socket!ReplyOutcome, WebSocket!ServiceResponds,
         Socket!ServiceResponds, WebSocket!ReplyKinds, Socket!ReplyKinds,
         WebSocket!callVars, Socket!callVars, WebSocket!connVars, Socket!connVars,
         WebSocket!sendVars, Socket!sendVars, WebSocket!serviceVars, Socket!serviceVars,
         WebSocket!readVars, Socket!readVars
<1>2. UNCHANGED WebSocket!vars => UNCHANGED Socket!vars
  BY DEF WebSocket!vars, Socket!vars, WebSocket!callVars, Socket!callVars,
         WebSocket!connVars, Socket!connVars, WebSocket!sendVars, Socket!sendVars,
         WebSocket!serviceVars, Socket!serviceVars, WebSocket!readVars, Socket!readVars
<1>. QED  BY <1>1, <1>2

SocketContractStep == WebSocket!Contract!Next \/ UNCHANGED WebSocket!Contract!vars

(* Every step over a WebSocket keeps SocketInv and the contract.           *)
LEMMA SocketNextInv ==
    ASSUME Socket!SocketInv, WebSocket!Next \/ UNCHANGED WebSocket!vars
    PROVE  Socket!SocketInv' /\ SocketContractStep
<1>1. [Socket!Next]_(Socket!vars)
  BY SameSocketSteps
<1>2. Socket!SocketInv' /\ Socket!ContractStep
  BY <1>1, ClientsAssumption, Socket!NextInv
<1>3. Socket!ContractStep => SocketContractStep
  BY DEF Socket!ContractStep, SocketContractStep, WebSocket!Contract!Next,
         Socket!Contract!Next, WebSocket!Contract!vars, Socket!Contract!vars,
         WebSocket!Contract!Issue, Socket!Contract!Issue, WebSocket!Contract!Answer,
         Socket!Contract!Answer, WebSocket!Contract!Expire, Socket!Contract!Expire,
         WebSocket!Contract!Resolve, Socket!Contract!Resolve, WebSocket!Contract!Settle,
         Socket!Contract!Settle, WebSocket!Contract!Pending, Socket!Contract!Pending,
         WebSocket!Verdict, Socket!Verdict, WebSocket!Calls, Socket!Calls
<1>. QED  BY <1>2, <1>3

------------------------------------------------------------------------------
(* The invariant starts out true, whichever the transport.                 *)
LEMMA InitInv == Init => Inv
BY HttpInitInv, BusInitInv, SocketInit DEF Init, Inv

(* Every step keeps the invariant and, but over the event bus, the         *)
(* contract.                                                               *)
LEMMA NextInv ==
    ASSUME Inv, [Next]_vars
    PROVE  /\ Inv'
           /\ transport = "websocket" => SocketContractStep
           /\ transport = "http" => ContractStep
<1>1. UNCHANGED transport
  BY DEF Next, WebSocketStep, InWebSocket, HttpStep, BusStep, vars
<1>2. CASE transport = "websocket"
  <2>1. WebSocket!Next \/ UNCHANGED WebSocket!vars
    BY <1>2 DEF Next, WebSocketStep, HttpStep, BusStep, vars, calls, opening, sockets,
        WebSocket!vars, WebSocket!callVars, WebSocket!connVars, WebSocket!sendVars,
        WebSocket!serviceVars, WebSocket!readVars
  <2>2. Socket!SocketInv' /\ SocketContractStep
    BY <1>2, <2>1, SocketNextInv DEF Inv
  <2>. QED  BY <1>1, <1>2, <2>2 DEF Inv
<1>3. CASE transport = "http"
  <2>1. Http!Next \/ UNCHANGED Http!vars
    BY <1>3 DEF Next, WebSocketStep, InWebSocket, HttpStep, BusStep, vars, calls, opening,
        messages, Http!vars, Http!callVars
  <2>2. HttpInv' /\ ContractStep
    BY <1>3, <2>1, HttpNextInv DEF Inv
  <2>. QED  BY <1>1, <1>3, <2>2 DEF Inv
<1>4. CASE transport = "eventbus"
  <2>1. Bus!Next \/ UNCHANGED Bus!vars
    BY <1>4 DEF Next, WebSocketStep, InWebSocket, HttpStep, BusStep, vars, calls, handlers,
        messages, Bus!vars, Bus!callVars
  <2>2. BusInv'
    BY <1>4, <2>1, BusNextInv DEF Inv
  <2>. QED  BY <1>1, <1>4, <2>2 DEF Inv
<1>. QED  BY <1>2, <1>3, <1>4 DEF Inv

(* The bookkeeping of the calls, of what was written for them and of what  *)
(* is under way stays right, over whichever transport.                     *)
THEOREM Invariance == Spec => []Inv
<1>1. Inv /\ [Next]_vars => Inv'
  BY NextInv
<1>. QED  BY InitInv, <1>1, PTL DEF Spec

(* Type correctness.                                                       *)
THEOREM TypeCorrectness == Spec => []TypeOK
<1>1. ASSUME Inv  PROVE TypeOK
  <2>1. CASE transport = "websocket"
    <3>1. Socket!TypeOK
      BY <1>1, <2>1 DEF Inv, Socket!SocketInv
    <3>2. WebSocket!TypeOK
      BY <3>1 DEF WebSocket!TypeOK, Socket!TypeOK, WebSocket!CallsTypeOK, Socket!CallsTypeOK,
             WebSocket!Calls, Socket!Calls, WebSocket!Started, Socket!Started,
             WebSocket!Outcomes, Socket!Outcomes, WebSocket!TimerStates, Socket!TimerStates,
             WebSocket!Sockets, Socket!Sockets, WebSocket!ConnStates, Socket!ConnStates,
             WebSocket!Frames, Socket!Frames, WebSocket!PendingBuffers,
             Socket!PendingBuffers, WebSocket!Requests, Socket!Requests, WebSocket!Replies,
             Socket!Replies, WebSocket!ReplyKinds, Socket!ReplyKinds
    <3>. QED  BY <2>1, <3>2 DEF TypeOK
  <2>2. CASE transport \in {"http", "eventbus"}
    <3>1. CallsSafe /\ Traffic /\ Manager!CallsTypeOK
      BY <1>1, <2>2 DEF Inv, HttpInv, BusInv, CallsSafe, Manager!CallsInv
    <3>2. Manager!Started \subseteq Manager!Calls
      BY <3>1, StartedAreCalls DEF CallsSafe
    <3>3. Messages \subseteq Seq(Manager!Calls)
      BY <3>2, SeqMonotonic DEF Messages
    <3>4. /\ outputBuffer \in Seq(Manager!Calls)
          /\ message \in [Manager!Calls -> Seq(Manager!Calls)]
          /\ faults \in 0..MaxFaults
          /\ answered \subseteq Manager!Calls /\ expired \subseteq Manager!Calls
      BY <3>1, <3>2, <3>3 DEF Traffic
    <3>5. CASE transport = "http"
      <4>1. /\ client \in BOOLEAN /\ manager \in BOOLEAN
            /\ request \in [Manager!Calls -> Http!RequestStates]
        BY <1>1, <3>5 DEF Inv, HttpInv
      <4>2. Http!CallsTypeOK /\ Http!Calls = Manager!Calls
        BY <3>1 DEF Http!CallsTypeOK, Manager!CallsTypeOK, Http!Calls, Manager!Calls,
           Http!Started, Manager!Started, Http!Outcomes, Manager!Outcomes,
           Http!TimerStates, Manager!TimerStates
      <4>. QED  BY <3>4, <3>5, <4>1, <4>2 DEF TypeOK, Http!TypeOK
    <3>6. CASE transport = "eventbus"
      <4>1. methodCall \in 0..MaxMessages /\ waiting \subseteq Manager!Calls
        BY <1>1, <3>2, <3>6 DEF Inv, BusInv
      <4>2. Bus!CallsTypeOK /\ Bus!Calls = Manager!Calls
        BY <3>1 DEF Bus!CallsTypeOK, Manager!CallsTypeOK, Bus!Calls, Manager!Calls,
           Bus!Started, Manager!Started, Bus!Outcomes, Manager!Outcomes,
           Bus!TimerStates, Manager!TimerStates
      <4>. QED  BY <3>4, <3>6, <4>1, <4>2 DEF TypeOK, Bus!TypeOK
    <3>. QED  BY <2>2, <3>5, <3>6
  <2>. QED  BY <1>1, <2>1, <2>2 DEF Inv
<1>. QED  BY Invariance, <1>1, PTL

(* A result handler that has returned is not invoked again, in whichever   *)
(* order responses, failures and deadlines come.                           *)
THEOREM Once == Spec => []NotifiedOnce
<1>1. ASSUME Inv  PROVE NotifiedOnce
  <2>1. transport = "websocket" => WebSocket!NotifiedOnce
    BY <1>1 DEF Inv, Socket!SocketInv, Socket!NotifiedOnce, WebSocket!NotifiedOnce,
       Socket!Calls, WebSocket!Calls
  <2>2. transport \in {"http", "eventbus"} => Manager!NotifiedOnce
    BY <1>1 DEF Inv, HttpInv, BusInv, CallsSafe, Manager!CallsInv
  <2>3. transport = "http" => Http!NotifiedOnce
    BY <2>2 DEF Manager!NotifiedOnce, Http!NotifiedOnce, Manager!Calls, Http!Calls
  <2>4. transport = "eventbus" => Bus!NotifiedOnce
    BY <2>2 DEF Manager!NotifiedOnce, Bus!NotifiedOnce, Manager!Calls, Bus!Calls
  <2>. QED  BY <2>1, <2>3, <2>4 DEF NotifiedOnce
<1>. QED  BY Invariance, <1>1, PTL

(* A reply is told only to a call that the service answered, although an   *)
(* unwritable call leaves its bytes in front of another's, and a handler   *)
(* that threw its response.                                                *)
THEOREM RepliesOwned == Spec => []RepliesAreAnswers
<1>1. ASSUME Inv  PROVE RepliesAreAnswers
  <2>1. CASE transport = "websocket"
    <3>1. Socket!RepliesAreAnswers /\ results \in [Socket!Calls -> Seq(Socket!Outcomes)]
      BY <1>1, <2>1 DEF Inv, Socket!SocketInv, Socket!TypeOK, Socket!CallsTypeOK
    <3>. QED  BY <3>1 DEF RepliesAreAnswers, Socket!RepliesAreAnswers
  <2>2. CASE transport \in {"http", "eventbus"}
    <3>1. CallsSafe
      BY <1>1, <2>2 DEF Inv, HttpInv, BusInv
    <3>2. results \in [Manager!Calls -> Seq(Manager!Outcomes)]
      BY <3>1 DEF CallsSafe, Manager!CallsInv, Manager!CallsTypeOK
    <3>. QED  BY <3>1, <3>2 DEF RepliesAreAnswers, CallsSafe, Manager!ToldReply
  <2>. QED  BY <1>1, <2>1, <2>2 DEF Inv
<1>. QED  BY Invariance, <1>1, PTL

(* Over a WebSocket and over HTTP every step is one that CallContract      *)
(* allows: one verdict for a call, from its own reply, failure or deadline.*)
THEOREM ContractKept == Spec => KeepsContract
<1>1. Inv /\ [Next]_vars =>
        [/\ transport = "websocket"
              => WebSocket!Contract!Next \/ UNCHANGED WebSocket!Contract!vars
         /\ transport = "http" => Http!Contract!Next \/ UNCHANGED Http!Contract!vars]_vars
  BY NextInv DEF SocketContractStep, ContractStep
<1>. QED  BY Invariance, <1>1, PTL DEF Spec, KeepsContract
==============================================================================
