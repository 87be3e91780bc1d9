-------------------------- MODULE ClientSocketProofs --------------------------
(***************************************************************************)
(* Every operator of AsyncMethodCall that a transport uses as its step     *)
(* keeps the bookkeeping of the calls (CallsInv): the registry holds the   *)
(* calls that have not completed, and every handler invocation threw or    *)
(* was the last.  On these lemmas rest those of the second part: the steps *)
(* that the socket-based transports share keep SocketInv, and each of them *)
(* is a step of CallContract or changes nothing of it.                     *)
(***************************************************************************)
EXTENDS ClientSocketTransport, SequenceTheorems, TLAPS

(* The calls begin with nothing started and nothing told.                  *)
LEMMA CallsInitInv == CallsInit => CallsInv
  BY CallAssumption DEF CallsInit, CallsInv, CallsTypeOK, RegistryExact, NotifiedOnce,
     Calls, Started, Outcomes, TimerStates

(* What an invocation of the handler of c changes, when it throws and when *)
(* it returns.                                                             *)
LEMMA HandleResultEffect ==
  ASSUME CallsTypeOK, NEW c \in Calls, NEW outcome \in Outcomes, NEW thrown \in BOOLEAN,
         NEW map, NEW tm \in [Calls -> TimerStates], c \in map,
         HandleResult(c, outcome, thrown, map, tm)
  PROVE  /\ results' = [results EXCEPT ![c] = Append(@, outcome)]
         /\ thrown => /\ throws' = [throws EXCEPT ![c] = @ + 1] /\ throws'[c] # 0
                      /\ registered' = map /\ timer' = tm /\ completed' = completed
         /\ ~thrown => /\ throws' = throws
                       /\ registered' = map \ {c} /\ completed' = completed \cup {c}
                       /\ timer' = [tm EXCEPT ![c] = IF @ = "armed" THEN "cancelled" ELSE @]
<1>1. results' = [results EXCEPT ![c] = Append(@, outcome)]
  BY DEF HandleResult
<1>2. throws[c] \in Nat
  BY CallAssumption DEF CallsTypeOK
<1>3. CASE thrown
  <2>1. /\ throws' = [throws EXCEPT ![c] = @ + 1]
        /\ registered' = map /\ timer' = tm /\ completed' = completed
    BY <1>3 DEF HandleResult
  <2>2. throws'[c] = throws[c] + 1
    BY <2>1 DEF CallsTypeOK
  <2> QED BY <1>1, <1>2, <1>3, <2>1, <2>2
<1>4. CASE ~thrown
  <2>1. throws' = throws
    BY <1>4 DEF HandleResult, CallsTypeOK
  <2> QED BY <1>1, <1>4, <2>1 DEF HandleResult, OnComplete
<1> QED BY <1>3, <1>4

(* HandleResult keeps CallsInv when the call it completes is in the        *)
(* registry that holds exactly the started calls that are not completed.   *)
LEMMA HandleResultInv ==
  ASSUME CallsTypeOK, NotifiedOnce,
         NEW c \in Calls, NEW outcome \in Outcomes, NEW thrown \in BOOLEAN,
         NEW map, NEW tm \in [Calls -> TimerStates],
         seqidGenerator' \in 0..MaxCalls, seqidGenerator <= seqidGenerator',
         oneway' \subseteq Started',
         map = Started' \ completed, c \in map,
         HandleResult(c, outcome, thrown, map, tm)
  PROVE  CallsInv'
<1>0. Started \subseteq Started'
  BY DEF Started, CallsTypeOK
<1>1. results' \in [Calls -> Seq(Outcomes)]
  BY DEF HandleResult, CallsTypeOK
<1>2. throws' \in [Calls -> 0..MaxThrows]
  BY CallAssumption DEF HandleResult, CallsTypeOK
<1>3. ASSUME NEW d \in Calls, d # c
      PROVE  results'[d] = results[d] /\ throws'[d] = throws[d]
  <2>1. results' = [results EXCEPT ![c] = Append(@, outcome)]
    BY DEF HandleResult
  <2>2. throws' = [throws EXCEPT ![c] = IF thrown THEN @ + 1 ELSE @]
    BY DEF HandleResult
  <2> QED BY <1>3, <2>1, <2>2 DEF CallsTypeOK
<1>4. Len(results'[c]) = Len(results[c]) + 1
  BY DEF HandleResult, CallsTypeOK
<1>5. c \notin completed /\ Len(results[c]) = throws[c]
  BY DEF NotifiedOnce, CallsTypeOK
<1>6. CASE thrown
  <2>1. registered' = map /\ timer' = tm /\ completed' = completed
    BY <1>6 DEF HandleResult
  <2>2. throws'[c] = throws[c] + 1
    BY <1>6 DEF HandleResult, CallsTypeOK
  <2>3. CallsTypeOK'
    BY <1>0, <1>1, <1>2, <2>1 DEF CallsTypeOK
  <2>4. NotifiedOnce'
    <3> SUFFICES ASSUME NEW d \in Calls
                 PROVE  Len(results'[d]) =
                          throws'[d] + (IF d \in completed' THEN 1 ELSE 0)
      BY DEF NotifiedOnce
    <3>1. CASE d = c
      BY <3>1, <1>4, <1>5, <2>1, <2>2 DEF CallsTypeOK
    <3>2. CASE d # c
      BY <3>2, <1>3, <2>1 DEF NotifiedOnce
    <3> QED BY <3>1, <3>2
  <2> QED BY <2>1, <2>3, <2>4 DEF CallsInv, RegistryExact
<1>7. CASE ~thrown
  <2>1. OnComplete(c, map, tm)
    BY <1>7 DEF HandleResult
  <2>2. /\ registered' = map \ {c}
        /\ completed' = completed \cup {c}
        /\ timer' = [tm EXCEPT ![c] = IF @ = "armed" THEN "cancelled" ELSE @]
    BY <2>1 DEF OnComplete
  <2>3. timer' \in [Calls -> TimerStates]
    BY <2>2 DEF TimerStates
  <2>4. throws'[c] = throws[c]
    BY <1>7 DEF HandleResult, CallsTypeOK
  <2>5. CallsTypeOK'
    BY <1>0, <1>1, <1>2, <2>2, <2>3 DEF CallsTypeOK
  <2>6. NotifiedOnce'
    <3> SUFFICES ASSUME NEW d \in Calls
                 PROVE  Len(results'[d]) =
                          throws'[d] + (IF d \in completed' THEN 1 ELSE 0)
      BY DEF NotifiedOnce
    <3>1. CASE d = c
      BY <3>1, <1>4, <1>5, <2>2, <2>4 DEF CallsTypeOK
    <3>2. CASE d # c
      BY <3>2, <1>3, <2>2 DEF NotifiedOnce
    <3> QED BY <3>1, <3>2
  <2>7. RegistryExact'
    BY <2>2 DEF RegistryExact
  <2> QED BY <2>5, <2>6, <2>7 DEF CallsInv
<1> QED BY <1>6, <1>7

(* What a new call finds: the registry it is put into holds exactly the    *)
(* calls started, itself included, that have not completed.                *)
NewCallFacts(c) ==
    /\ seqidGenerator' \in 0..MaxCalls
    /\ seqidGenerator <= seqidGenerator'
    /\ oneway' \subseteq Started'
    /\ c \in registered \cup {c}
    /\ registered \cup {c} = Started' \ completed

(* The facts hold of every new call.                                       *)
LEMMA NewCallLemma ==
  ASSUME CallsInv, NEW c \in Calls, NEW isOneway \in BOOLEAN, NewCall(c, isOneway)
  PROVE  NewCallFacts(c)
<1> USE CallAssumption DEF Calls, Started
<1>1. /\ seqidGenerator' = c /\ c = seqidGenerator + 1
      /\ seqidGenerator \in 0..MaxCalls
      /\ oneway' \subseteq oneway \cup {c}
      /\ oneway \subseteq 1..seqidGenerator
  BY DEF NewCall, CallsInv, CallsTypeOK
<1>2. oneway' \subseteq Started'
  BY <1>1
<1>3. registered = 1..seqidGenerator \ completed /\ completed \subseteq 1..seqidGenerator
  BY DEF CallsInv, CallsTypeOK, RegistryExact
<1>4. registered \cup {c} = Started' \ completed
  BY <1>1, <1>3
<1> QED BY <1>1, <1>2, <1>4 DEF NewCallFacts

(* A call whose message could not be sent.                                 *)
LEMMA StartFailedInv ==
  ASSUME CallsInv, NEW c \in Calls, NEW isOneway \in BOOLEAN, NEW thrown \in BOOLEAN,
         StartFailed(c, isOneway, thrown)
  PROVE  CallsInv'
<1>1. NewCall(c, isOneway) /\ HandleResult(c, "error", thrown, registered \cup {c}, timer)
  BY DEF StartFailed
<1>2. NewCallFacts(c)
  BY <1>1, NewCallLemma
<1>3. CallsTypeOK /\ NotifiedOnce /\ timer \in [Calls -> TimerStates] /\ "error" \in Outcomes
  BY DEF CallsInv, CallsTypeOK, Outcomes
<1> QED
  BY <1>1, <1>2, <1>3, HandleResultInv DEF NewCallFacts

(* A call whose message was flushed.                                       *)
LEMMA StartFlushedInv ==
  ASSUME CallsInv, NEW c \in Calls, NEW isOneway \in BOOLEAN, NEW thrown \in BOOLEAN,
         NEW tm \in [Calls -> TimerStates],
         StartFlushed(c, isOneway, thrown, tm)
  PROVE  CallsInv'
<1>1. NewCallFacts(c)
  BY NewCallLemma DEF StartFlushed
<1>2. CallsTypeOK /\ NotifiedOnce /\ "sent" \in Outcomes
  BY DEF CallsInv, Outcomes
<1>3. CASE isOneway
  <2>1. HandleResult(c, "sent", thrown, registered \cup {c}, tm)
    BY <1>3 DEF StartFlushed
  <2> QED
    BY <1>1, <1>2, <2>1, HandleResultInv DEF NewCallFacts
<1>4. CASE ~isOneway
  <2>1. /\ registered' = registered \cup {c}
        /\ timer' = tm
        /\ UNCHANGED <<completed, results, throws>>
    BY <1>4 DEF StartFlushed
  <2>2. Started \subseteq Started'
    BY <1>1, <1>2 DEF NewCallFacts, Started, CallsTypeOK
  <2> QED
    BY <1>1, <1>2, <2>1, <2>2
    DEF NewCallFacts, CallsInv, CallsTypeOK, RegistryExact, NotifiedOnce
<1> QED BY <1>3, <1>4

(* An error reported to a call that was started: at most one more          *)
(* invocation, and none if the call has completed.                         *)
LEMMA OnErrorInv ==
  ASSUME CallsInv, NEW c \in Started, NEW outcome \in Outcomes, NEW thrown \in BOOLEAN,
         NEW tm \in [Calls -> TimerStates],
         OnError(c, outcome, thrown, tm), UNCHANGED <<seqidGenerator, oneway>>
  PROVE  CallsInv'
<1>1. CASE c \in completed
  BY <1>1 DEF OnError, CallsInv, CallsTypeOK, RegistryExact, NotifiedOnce, Started
<1>2. CASE c \notin completed
  <2>1. HandleResult(c, outcome, thrown, registered, tm)
    BY <1>2 DEF OnError
  <2>2. registered = Started' \ completed /\ c \in registered
    BY <1>2 DEF CallsInv, RegistryExact, Started
  <2>3. /\ CallsTypeOK /\ NotifiedOnce
        /\ seqidGenerator' \in 0..MaxCalls /\ seqidGenerator <= seqidGenerator'
        /\ oneway' \subseteq Started'
    BY CallAssumption DEF CallsInv, CallsTypeOK, Started
  <2>4. c \in Calls
    BY CallAssumption DEF CallsInv, CallsTypeOK, Started, Calls
  <2> QED
    BY <2>1, <2>2, <2>3, <2>4, HandleResultInv
<1> QED BY <1>1, <1>2

(* A response of any kind, to any call or to none.                         *)
LEMMA HandleResponseInv ==
  ASSUME CallsInv, NEW r \in Replies, NEW thrown \in BOOLEAN, HandleResponse(r, thrown)
  PROVE  CallsInv'
<1>1. CASE Ignored(r)
  BY <1>1 DEF HandleResponse, CallsInv, CallsTypeOK, RegistryExact, NotifiedOnce, Started
<1>2. CASE ~Ignored(r)
  <2>1. r.seqid \in Started /\ ReplyOutcome(r) \in Outcomes
    BY <1>2 DEF Ignored, CallsInv, CallsTypeOK, Replies, ReplyKinds, ReplyOutcome, Outcomes
  <2>2. /\ OnError(r.seqid, ReplyOutcome(r), thrown, timer)
        /\ UNCHANGED <<seqidGenerator, oneway>>
    BY <1>2 DEF HandleResponse
  <2>3. timer \in [Calls -> TimerStates]
    BY DEF CallsInv, CallsTypeOK
  <2> QED BY <2>1, <2>2, <2>3, OnErrorInv
<1> QED BY <1>1, <1>2

(* A step that leaves the calls alone.                                     *)
LEMMA CallsStutterInv == CallsInv /\ UNCHANGED callVars => CallsInv'
  BY DEF callVars, CallsInv, CallsTypeOK, RegistryExact, NotifiedOnce, Started, Calls

------------------------------------------------------------------------------
(* The deadlines that have passed, as CallContract sees them.              *)
Fired == {c \in Calls : timer[c] = "fired"}

(* What an invocation of the handler of c changes of what CallContract     *)
(* sees: the verdict on c if the handler returns.                          *)
LEMMA HandleResultVerdict ==
  ASSUME CallsTypeOK, NEW c \in Calls, NEW outcome \in Outcomes, NEW thrown \in BOOLEAN,
         NEW map, NEW tm \in [Calls -> TimerStates], c \in map, c \notin completed,
         HandleResult(c, outcome, thrown, map, tm)
  PROVE  /\ Verdict' = IF thrown THEN Verdict ELSE [Verdict EXCEPT ![c] = outcome]
         /\ Fired' = {d \in Calls : tm[d] = "fired"}
<1>1. /\ results' = [results EXCEPT ![c] = Append(@, outcome)]
      /\ thrown => timer' = tm /\ completed' = completed
      /\ ~thrown => /\ completed' = completed \cup {c}
                    /\ timer' = [tm EXCEPT ![c] = IF @ = "armed" THEN "cancelled" ELSE @]
  BY HandleResultEffect
<1>2. Fired' = {d \in Calls : tm[d] = "fired"}
  BY <1>1 DEF Fired, Calls
<1>3. /\ \A d \in Calls : d # c => results'[d] = results[d]
      /\ results'[c][Len(results'[c])] = outcome
  BY <1>1 DEF CallsTypeOK
<1>4. CASE thrown
  BY <1>1, <1>2, <1>3, <1>4 DEF Verdict, Calls
<1>5. CASE ~thrown
  <2>1. Verdict' = [d \in Calls |-> IF d = c THEN outcome ELSE Verdict[d]]
    BY <1>1, <1>3, <1>5 DEF Verdict, Calls
  <2>2. Verdict' = [Verdict EXCEPT ![c] = outcome]
    BY <2>1 DEF Verdict
  <2> QED BY <1>2, <1>5, <2>2
<1> QED BY <1>4, <1>5

(* A step that gives a call at most the verdict v.                         *)
AtMost(c, v) == Verdict' = Verdict \/ Verdict' = [Verdict EXCEPT ![c] = v]

(* c was told "reply".                                                     *)
ToldReply(c) == \E i \in DOMAIN results[c] : results[c][i] = "reply"

(* A step that tells no handler of a reply but, with v, that of c.         *)
TellsAtMost(c, v) ==
    /\ AtMost(c, v)
    /\ \A d \in Calls : ToldReply(d)' => ToldReply(d) \/ (d = c /\ v = "reply")

(* An invocation of the handler of c tells it the outcome, and no other.   *)
LEMMA HandleResultTells ==
  ASSUME CallsTypeOK, NEW c \in Calls, NEW outcome \in Outcomes, NEW thrown \in BOOLEAN,
         NEW map, NEW tm \in [Calls -> TimerStates], c \in map, c \notin completed,
         HandleResult(c, outcome, thrown, map, tm)
  PROVE  TellsAtMost(c, outcome)
<1>1. AtMost(c, outcome)
  BY HandleResultVerdict DEF AtMost
<1>2. results' = [results EXCEPT ![c] = Append(@, outcome)]
  BY HandleResultEffect
<1>3. ASSUME NEW d \in Calls, NEW i \in DOMAIN results'[d], results'[d][i] = "reply"
      PROVE  ToldReply(d) \/ (d = c /\ outcome = "reply")
  <2>1. CASE d = c
    <3>1. results'[c] = Append(results[c], outcome) /\ results[c] \in Seq(Outcomes)
      BY <1>2 DEF CallsTypeOK
    <3>2. CASE i \in DOMAIN results[c]
      <4>1. results'[c][i] = results[c][i]
        BY <3>1, <3>2
      <4> QED BY <1>3, <2>1, <3>2, <4>1 DEF ToldReply
    <3>3. CASE i \notin DOMAIN results[c]
      <4>1. results'[c][i] = outcome
        BY <1>3, <2>1, <3>1, <3>3
      <4> QED BY <1>3, <2>1, <4>1
    <3> QED BY <3>2, <3>3
  <2>2. CASE d # c
    BY <1>2, <1>3, <2>2 DEF ToldReply, CallsTypeOK
  <2> QED BY <2>1, <2>2
<1> QED BY <1>1, <1>3 DEF TellsAtMost, ToldReply

(* Steps that leave the verdicts and the handlers alone.                   *)
LEMMA TellsNobody ==
  ASSUME UNCHANGED <<completed, results>>, NEW c, NEW v
  PROVE  UNCHANGED Verdict /\ TellsAtMost(c, v)
BY DEF TellsAtMost, AtMost, Verdict, ToldReply, Calls

(* A call that could not be sent is new, and told of an error at most.     *)
LEMMA StartFailedTells ==
  ASSUME CallsInv, NEW c \in Calls, NEW isOneway \in BOOLEAN, NEW thrown \in BOOLEAN,
         StartFailed(c, isOneway, thrown)
  PROVE  /\ CallsInv' /\ TellsAtMost(c, "error")
         /\ c = seqidGenerator + 1 /\ seqidGenerator' = c
<1>1. NewCall(c, isOneway) /\ HandleResult(c, "error", thrown, registered \cup {c}, timer)
  BY DEF StartFailed
<1>2. CallsTypeOK /\ timer \in [Calls -> TimerStates] /\ "error" \in Outcomes
  BY DEF CallsInv, CallsTypeOK, Outcomes
<1>3. c = seqidGenerator + 1 /\ seqidGenerator' = c
  BY <1>1 DEF NewCall
<1>4. c \notin completed /\ c \in registered \cup {c}
  BY <1>2, <1>3, CallAssumption DEF CallsTypeOK, Started
<1>5. TellsAtMost(c, "error")
  BY <1>1, <1>2, <1>4, HandleResultTells
<1> QED BY <1>3, <1>5, StartFailedInv

(* A call that was sent is new, and told of its success at most.           *)
LEMMA StartFlushedTells ==
  ASSUME CallsInv, NEW c \in Calls, NEW isOneway \in BOOLEAN, NEW thrown \in BOOLEAN,
         NEW tm \in [Calls -> TimerStates], StartFlushed(c, isOneway, thrown, tm)
  PROVE  /\ CallsInv' /\ TellsAtMost(c, "sent")
         /\ c = seqidGenerator + 1 /\ seqidGenerator' = c
<1>1. NewCall(c, isOneway)
  BY DEF StartFlushed
<1>2. CallsTypeOK /\ "sent" \in Outcomes
  BY DEF CallsInv, Outcomes
<1>3. c = seqidGenerator + 1 /\ seqidGenerator' = c
  BY <1>1 DEF NewCall
<1>4. c \notin completed /\ c \in registered \cup {c}
  BY <1>2, <1>3, CallAssumption DEF CallsTypeOK, Started
<1>5. TellsAtMost(c, "sent")
  <2>1. CASE isOneway
    <3>1. HandleResult(c, "sent", thrown, registered \cup {c}, tm)
      BY <2>1 DEF StartFlushed
    <3> QED BY <1>2, <1>4, <3>1, HandleResultTells
  <2>2. CASE ~isOneway
    <3>1. UNCHANGED <<completed, results>>
      BY <2>2 DEF StartFlushed
    <3> QED BY <3>1, TellsNobody
  <2> QED BY <2>1, <2>2
<1> QED BY <1>3, <1>5, StartFlushedInv

(* An error or a response is news to a pending call only.                  *)
LEMMA OnErrorTells ==
  ASSUME CallsInv, NEW c \in Started, NEW outcome \in Outcomes, NEW thrown \in BOOLEAN,
         OnError(c, outcome, thrown, timer), UNCHANGED <<seqidGenerator, oneway>>
  PROVE  /\ CallsInv' /\ TellsAtMost(c, outcome)
         /\ c \in completed => UNCHANGED Verdict
<1>1. timer \in [Calls -> TimerStates] /\ CallsTypeOK /\ RegistryExact /\ c \in Calls
  BY CallAssumption DEF CallsInv, CallsTypeOK, Started, Calls
<1>2. CallsInv'
  BY <1>1, OnErrorInv
<1>3. CASE c \in completed
  <2>1. UNCHANGED <<completed, results>>
    BY <1>3 DEF OnError
  <2> QED BY <1>2, <2>1, TellsNobody
<1>4. CASE c \notin completed
  <2>1. HandleResult(c, outcome, thrown, registered, timer) /\ c \in registered
    BY <1>1, <1>4 DEF OnError, RegistryExact
  <2>2. TellsAtMost(c, outcome)
    BY <1>1, <1>4, <2>1, HandleResultTells
  <2> QED BY <1>2, <1>4, <2>2
<1> QED BY <1>3, <1>4

(* A response tells the pending call it is for, or nobody.                 *)
LEMMA HandleResponseTells ==
  ASSUME CallsInv, NEW r \in Replies, NEW thrown \in BOOLEAN, HandleResponse(r, thrown)
  PROVE  /\ CallsInv' /\ UNCHANGED seqidGenerator
         /\ TellsAtMost(r.seqid, ReplyOutcome(r))
         /\ \/ UNCHANGED Verdict
            \/ /\ r.seqid \in Started \ completed
               /\ ReplyOutcome(r) \in {"reply", "exception", "error"}
<1>1. CallsInv' /\ UNCHANGED <<seqidGenerator, oneway>>
  BY HandleResponseInv DEF HandleResponse
<1>2. CASE Ignored(r)
  <2>1. UNCHANGED <<completed, results>>
    BY <1>2 DEF HandleResponse
  <2> QED BY <1>1, <2>1, TellsNobody
<1>3. CASE ~Ignored(r)
  <2>1. /\ r.seqid \in Started
        /\ ReplyOutcome(r) \in {"reply", "exception", "error"}
    BY <1>3 DEF Ignored, CallsInv, CallsTypeOK, Replies, ReplyKinds, ReplyOutcome
  <2>2. OnError(r.seqid, ReplyOutcome(r), thrown, timer) /\ ReplyOutcome(r) \in Outcomes
    BY <1>3, <2>1 DEF HandleResponse, Outcomes
  <2>3. /\ TellsAtMost(r.seqid, ReplyOutcome(r))
        /\ r.seqid \in completed => UNCHANGED Verdict
    BY <1>1, <2>1, <2>2, OnErrorTells
  <2> QED BY <1>1, <2>1, <2>3
<1> QED BY <1>2, <1>3

------------------------------------------------------------------------------
(* What SocketInv says of the calls beyond CallsInv.                       *)
CallGuards == TimersGuardCalls /\ TimersUnset /\ RepliesAreAnswers

(* The timers and the results after an invocation of the handler of c, if  *)
(* the other timers guarded their calls before it.                         *)
LEMMA HandleResultGuards ==
  ASSUME CallsTypeOK, RepliesAreAnswers,
         NEW c \in Calls, NEW outcome \in Outcomes, NEW thrown \in BOOLEAN,
         NEW map, NEW tm \in [Calls -> TimerStates], c \in map, c \in Started',
         HandleResult(c, outcome, thrown, map, tm),
         \A d \in Calls \ {c} : /\ tm[d] = "armed" => d \in map \ oneway'
                                /\ d \in map /\ throws[d] = 0 => tm[d] = "armed",
         tm[c] = "armed" => c \notin oneway',
         \A d \in Calls \ Started' : tm[d] = "unset",
         answered \subseteq answered', outcome = "reply" => c \in answered'
  PROVE  CallGuards'
<1>1. /\ results' = [results EXCEPT ![c] = Append(@, outcome)]
      /\ thrown => /\ throws' = [throws EXCEPT ![c] = @ + 1] /\ throws'[c] # 0
                   /\ registered' = map /\ timer' = tm
      /\ ~thrown => /\ throws' = throws
                    /\ registered' = map \ {c}
                    /\ timer' = [tm EXCEPT ![c] = IF @ = "armed" THEN "cancelled" ELSE @]
  BY HandleResultEffect
<1>2. TimersGuardCalls'
  <2> SUFFICES ASSUME NEW d \in Calls
               PROVE  /\ timer'[d] = "armed" => d \in registered' \ oneway'
                      /\ d \in registered' /\ throws'[d] = 0 => timer'[d] = "armed"
    BY DEF TimersGuardCalls
  <2>1. CASE d = c
    BY <1>1, <2>1
  <2>2. CASE d # c
    BY <1>1, <2>2 DEF CallsTypeOK
  <2> QED BY <2>1, <2>2
<1>3. TimersUnset'
  BY <1>1 DEF TimersUnset, Calls
<1>4. RepliesAreAnswers'
  <2> SUFFICES ASSUME NEW d \in Calls, NEW i \in DOMAIN results'[d], results'[d][i] = "reply"
               PROVE  d \in answered'
    BY DEF RepliesAreAnswers
  <2>1. CASE d = c
    <3>1. results'[c] = Append(results[c], outcome) /\ results[c] \in Seq(Outcomes)
      BY <1>1 DEF CallsTypeOK
    <3>2. CASE i \in DOMAIN results[c]
      <4>1. results'[c][i] = results[c][i]
        BY <3>1, <3>2
      <4> QED BY <2>1, <3>2, <4>1 DEF RepliesAreAnswers
    <3>3. CASE i \notin DOMAIN results[c]
      <4>1. results'[c][i] = outcome
        BY <2>1, <3>1, <3>3
      <4> QED BY <2>1, <4>1
    <3> QED BY <3>2, <3>3
  <2>2. CASE d # c
    BY <1>1, <2>2 DEF RepliesAreAnswers, CallsTypeOK
  <2> QED BY <2>1, <2>2
<1> QED BY <1>2, <1>3, <1>4 DEF CallGuards

------------------------------------------------------------------------------
(* A call that could not be sent has no timer and is told of an error.     *)
LEMMA StartFailedGuards ==
  ASSUME CallsInv, CallGuards, NEW c \in Calls, NEW isOneway \in BOOLEAN,
         NEW thrown \in BOOLEAN, StartFailed(c, isOneway, thrown), UNCHANGED answered
  PROVE  /\ CallGuards'
         /\ seqidGenerator' = c /\ c = seqidGenerator + 1
         /\ AtMost(c, "error") /\ Fired' = Fired
<1>1. /\ NewCall(c, isOneway)
      /\ HandleResult(c, "error", thrown, registered \cup {c}, timer)
  BY DEF StartFailed
<1>2. /\ NewCallFacts(c) /\ seqidGenerator' = c /\ c = seqidGenerator + 1
      /\ oneway' \subseteq oneway \cup {c}
  BY <1>1, NewCallLemma DEF NewCall
<1>3. /\ CallsTypeOK /\ RepliesAreAnswers /\ "error" \in Outcomes
      /\ timer \in [Calls -> TimerStates]
  BY DEF CallsInv, CallsTypeOK, CallGuards, Outcomes
<1>4. c \notin Started /\ c \in Started' /\ Started \subseteq Started' /\ c \notin completed
  BY <1>2, <1>3, CallAssumption DEF Started, CallsTypeOK, Calls
<1>5. timer[c] # "armed"
  BY <1>4 DEF CallGuards, TimersUnset
<1>6. \A d \in Calls \ {c} :
         /\ timer[d] = "armed" => d \in (registered \cup {c}) \ oneway'
         /\ d \in registered \cup {c} /\ throws[d] = 0 => timer[d] = "armed"
  BY <1>2 DEF CallGuards, TimersGuardCalls
<1>7. \A d \in Calls \ Started' : timer[d] = "unset"
  BY <1>4 DEF CallGuards, TimersUnset
<1>8. CallGuards'
  BY <1>1, <1>3, <1>4, <1>5, <1>6, <1>7, HandleResultGuards
<1>9. AtMost(c, "error") /\ Fired' = Fired
  BY <1>1, <1>3, <1>4, HandleResultVerdict DEF AtMost, Fired
<1> QED BY <1>2, <1>8, <1>9

(* A call that was flushed: tm is the timers with one set for it if it     *)
(* waits for a response.                                                   *)
LEMMA StartFlushedGuards ==
  ASSUME CallsInv, CallGuards, NEW c \in Calls, NEW isOneway \in BOOLEAN,
         NEW thrown \in BOOLEAN, UNCHANGED answered,
         StartFlushed(c, isOneway, thrown,
                      IF isOneway THEN timer ELSE [timer EXCEPT ![c] = "armed"])
  PROVE  /\ CallGuards'
         /\ seqidGenerator' = c /\ c = seqidGenerator + 1
         /\ AtMost(c, "sent") /\ Fired' = Fired
<1>2. /\ NewCallFacts(c) /\ seqidGenerator' = c /\ c = seqidGenerator + 1
      /\ oneway' = IF isOneway THEN oneway \cup {c} ELSE oneway
  BY NewCallLemma DEF NewCall, StartFlushed
<1>3. /\ CallsTypeOK /\ RepliesAreAnswers /\ "sent" \in Outcomes
      /\ timer \in [Calls -> TimerStates]
  BY DEF CallsInv, CallsTypeOK, CallGuards, Outcomes
<1>4. c \notin Started /\ c \in Started' /\ Started \subseteq Started' /\ c \notin completed
  BY <1>2, <1>3, CallAssumption DEF Started, CallsTypeOK, Calls
<1>5. timer[c] = "unset"
  BY <1>4 DEF CallGuards, TimersUnset
<1>6. \A d \in Calls \ {c} :
         /\ timer[d] = "armed" => d \in (registered \cup {c}) \ oneway'
         /\ d \in registered \cup {c} /\ throws[d] = 0 => timer[d] = "armed"
  BY <1>2 DEF CallGuards, TimersGuardCalls
<1>7. \A d \in Calls \ Started' : timer[d] = "unset"
  BY <1>4 DEF CallGuards, TimersUnset
<1>8. CASE isOneway
  <2>1. HandleResult(c, "sent", thrown, registered \cup {c}, timer)
    BY <1>8 DEF StartFlushed
  <2>2. CallGuards'
    BY <1>3, <1>4, <1>5, <1>6, <1>7, <2>1, HandleResultGuards
  <2>3. AtMost(c, "sent") /\ Fired' = Fired
    BY <1>3, <1>4, <2>1, HandleResultVerdict DEF AtMost, Fired
  <2> QED BY <1>2, <2>2, <2>3
<1>9. CASE ~isOneway
  <2>1. /\ registered' = registered \cup {c}
        /\ timer' = [timer EXCEPT ![c] = "armed"]
        /\ UNCHANGED <<oneway, completed, results, throws>>
    BY <1>2, <1>9 DEF StartFlushed
  <2>2. c \notin oneway
    BY <1>3, <1>4 DEF CallsTypeOK
  <2>3. TimersGuardCalls'
    <3> SUFFICES ASSUME NEW d \in Calls
                 PROVE  /\ timer'[d] = "armed" => d \in registered' \ oneway'
                        /\ d \in registered' /\ throws'[d] = 0 => timer'[d] = "armed"
      BY DEF TimersGuardCalls
    <3>1. CASE d = c
      BY <1>3, <2>1, <2>2, <3>1
    <3>2. CASE d # c
      BY <1>3, <1>6, <2>1, <3>2
    <3> QED BY <3>1, <3>2
  <2>4. TimersUnset'
    BY <1>3, <1>4, <1>7, <2>1 DEF TimersUnset, Calls
  <2>5. RepliesAreAnswers'
    BY <2>1 DEF CallGuards, RepliesAreAnswers, Calls
  <2>6. Verdict' = Verdict
    BY <2>1 DEF Verdict, Calls
  <2>7. Fired' = Fired
    BY <1>3, <1>5, <2>1 DEF Fired, Calls
  <2> QED BY <1>2, <2>3, <2>4, <2>5, <2>6, <2>7 DEF CallGuards, AtMost
<1> QED BY <1>8, <1>9

(* An error, a timeout or a response reported to a call that is pending.   *)
(* Its timer may have been taken from it just before (tm).                 *)
LEMMA OnErrorGuards ==
  ASSUME CallsInv, CallGuards, NEW c \in registered, NEW outcome \in Outcomes,
         NEW thrown \in BOOLEAN, NEW tm \in [Calls -> TimerStates],
         \A d \in Calls \ {c} : tm[d] = timer[d],
         tm[c] = "armed" => timer[c] = "armed",
         outcome = "reply" => c \in answered,
         OnError(c, outcome, thrown, tm), UNCHANGED <<seqidGenerator, oneway, answered>>
  PROVE  /\ CallGuards'
         /\ c \in Started /\ c \notin completed
         /\ AtMost(c, outcome)
         /\ Fired' = {d \in Calls : tm[d] = "fired"}
<1>1. /\ CallsTypeOK /\ RepliesAreAnswers /\ TimersGuardCalls
      /\ c \in Started /\ c \notin completed
  BY DEF CallsInv, CallsTypeOK, RegistryExact, CallGuards
<1>2. c \in Calls /\ c \in Started' /\ Started' = Started
  BY <1>1, CallAssumption DEF Started, CallsTypeOK, Calls
<1>3. HandleResult(c, outcome, thrown, registered, tm)
  BY <1>1 DEF OnError
<1>4. \A d \in Calls \ {c} :
         /\ tm[d] = "armed" => d \in registered \ oneway'
         /\ d \in registered /\ throws[d] = 0 => tm[d] = "armed"
  BY <1>1 DEF TimersGuardCalls
<1>5. tm[c] = "armed" => c \notin oneway'
  BY <1>1, <1>2 DEF TimersGuardCalls
<1>6. \A d \in Calls \ Started' : tm[d] = "unset"
  BY <1>1, <1>2 DEF CallGuards, TimersUnset
<1>7. CallGuards'
  BY <1>1, <1>2, <1>3, <1>4, <1>5, <1>6, HandleResultGuards
<1>8. AtMost(c, outcome) /\ Fired' = {d \in Calls : tm[d] = "fired"}
  BY <1>1, <1>2, <1>3, HandleResultVerdict DEF AtMost
<1> QED BY <1>1, <1>7, <1>8

(* A response: ignored, or a verdict of the pending call it answers.       *)
LEMMA HandleResponseGuards ==
  ASSUME CallsInv, CallGuards, NEW r \in Legit, NEW thrown \in BOOLEAN,
         HandleResponse(r, thrown), UNCHANGED answered
  PROVE  /\ CallGuards'
         /\ UNCHANGED seqidGenerator /\ Fired' = Fired
         /\ \/ UNCHANGED Verdict
            \/ /\ r.seqid \in Started \ completed
               /\ AtMost(r.seqid, ReplyOutcome(r))
               /\ ReplyOutcome(r) \in {"reply", "exception", "error"}
               /\ ReplyOutcome(r) = "reply" => r.seqid \in answered
<1>1. CASE Ignored(r)
  <2>1. UNCHANGED <<seqidGenerator, oneway, registered, completed, results, throws, timer>>
    BY <1>1 DEF HandleResponse
  <2>2. CallGuards'
    BY <2>1 DEF CallGuards, TimersGuardCalls, TimersUnset, RepliesAreAnswers, Calls, Started
  <2> QED BY <2>1, <2>2 DEF Verdict, Fired, Calls
<1>2. CASE ~Ignored(r)
  <2>1. /\ OnError(r.seqid, ReplyOutcome(r), thrown, timer)
        /\ UNCHANGED <<seqidGenerator, oneway, answered>>
    BY <1>2 DEF HandleResponse
  <2>2. /\ r.seqid \in registered
        /\ ReplyOutcome(r) \in {"reply", "exception", "error"}
        /\ ReplyOutcome(r) = "reply" => r.seqid \in answered
    BY <1>2 DEF Ignored, Legit, Replies, ReplyKinds, ReplyOutcome
  <2>3. ReplyOutcome(r) \in Outcomes /\ timer \in [Calls -> TimerStates]
    BY <2>2 DEF Outcomes, CallsInv, CallsTypeOK
  <2> QED BY <2>1, <2>2, <2>3, OnErrorGuards DEF Fired
<1> QED BY <1>1, <1>2

------------------------------------------------------------------------------
(* What SocketInv says of the transport beyond the calls.                  *)
TransportInv ==
    /\ client \in 0..MaxSockets /\ socket \in 0..MaxSockets
    /\ manager \in BOOLEAN /\ opened \in 0..MaxSockets
    /\ conn \in [Sockets -> ConnStates] /\ owner \in [Sockets -> 0..MaxSockets]
    /\ faults \in 0..MaxFaults /\ pending = <<>>
    /\ inbox \subseteq Requests /\ answered \subseteq Calls
    /\ reading \in 0..MaxSockets
    /\ ResponsesLegit /\ MessagesStarted /\ SocketIsLive /\ UnusedSockets

(* SocketInv is about the calls, about their timers and replies, and about *)
(* the transport.                                                          *)
LEMMA SocketInvParts == SocketInv <=> CallsInv /\ CallGuards /\ TransportInv
<1>1. SocketInv => CallsInv /\ CallGuards /\ TransportInv
  BY DEF SocketInv, TypeOK, CallsInv, CallGuards, TransportInv, NothingPending
<1>2. ASSUME CallsInv, CallGuards, TransportInv  PROVE SocketInv
  <2>1. Started \subseteq Calls
    BY <1>2, CallAssumption DEF CallsInv, CallsTypeOK, Started, Calls
  <2>2. outputBuffer \in Frames
    BY <1>2, <2>1, SeqMonotonic DEF TransportInv, MessagesStarted, Frames
  <2>3. \A q \in Seq(Legit) : q \in Seq(Replies)
    BY SeqMonotonic DEF Legit
  <2>4. downlink \in [Sockets -> Seq(Replies)] /\ inputBuffer \in [Sockets -> Seq(Replies)]
    BY <1>2, <2>3 DEF TransportInv, ResponsesLegit
  <2>5. pending \in Seq(PendingBuffers)
    BY <1>2 DEF TransportInv
  <2> QED
    BY <1>2, <2>2, <2>4, <2>5
    DEF SocketInv, TypeOK, CallsInv, CallGuards, TransportInv, NothingPending
<1> QED BY <1>1, <1>2

(* The same of the next state.                                             *)
LEMMA SocketInvPartsNext == SocketInv' <=> CallsInv' /\ CallGuards' /\ TransportInv'
  BY SocketInvParts, PTL

(* A step of the contract, or one it does not see.                         *)
ContractStep == [Contract!Next]_(Contract!vars)

(* A step that the contract does not see.                                  *)
LEMMA ContractStutter ==
  ASSUME UNCHANGED <<seqidGenerator, Verdict, answered, Fired>>
  PROVE  ContractStep
  BY DEF ContractStep, Contract!vars, Fired

(* Steps that leave the calls alone.                                       *)
LEMMA CallsUntouched ==
  ASSUME CallsInv, CallGuards, UNCHANGED callVars, answered \subseteq answered'
  PROVE  /\ CallsInv' /\ CallGuards'
         /\ UNCHANGED <<seqidGenerator, Verdict, Fired, Started>>
<1>1. CallsInv'
  BY CallsStutterInv
<1>2. CallGuards'
  BY DEF callVars, CallGuards, TimersGuardCalls, TimersUnset, RepliesAreAnswers, Calls, Started
<1>3. UNCHANGED <<seqidGenerator, Verdict, Fired, Started>>
  BY DEF callVars, Verdict, Fired, Started, Calls
<1> QED BY <1>1, <1>2, <1>3

(* The initial state.                                                      *)
LEMMA SocketInitInv == Init => SocketInv /\ Contract!Init
<1> SUFFICES ASSUME Init PROVE SocketInv /\ Contract!Init
  OBVIOUS
<1>1. CallsInv
  BY CallsInitInv DEF Init
<1>2. CallGuards
  BY DEF Init, CallsInit, CallGuards, TimersGuardCalls, TimersUnset, RepliesAreAnswers
<1>3. TransportInv
  <2>1. ResponsesLegit
    BY EmptySeq DEF Init, ResponsesLegit
  <2>2. MessagesStarted
    BY EmptySeq DEF Init, MessagesStarted
  <2>3. conn \in [Sockets -> ConnStates] /\ owner \in [Sockets -> 0..MaxSockets]
    BY SocketAssumption DEF Init, ConnStates
  <2>4. /\ client = 0 /\ socket = 0 /\ manager = FALSE /\ opened = 0 /\ reading = 0
        /\ faults = 0 /\ pending = <<>> /\ inbox = {} /\ answered = {}
    BY DEF Init
  <2>5. SocketIsLive
    BY <2>4 DEF SocketIsLive
  <2>6. manager \in BOOLEAN
    BY <2>4
  <2>7. UnusedSockets
    BY DEF Init, UnusedSockets
  <2> QED
    BY <2>1, <2>2, <2>3, <2>4, <2>5, <2>6, <2>7, SocketAssumption DEF TransportInv
<1>4. Contract!Init
  BY DEF Init, CallsInit, Contract!Init, Verdict, Calls
<1> QED BY <1>1, <1>2, <1>3, <1>4, SocketInvParts

------------------------------------------------------------------------------
(* Steps of the connections.  They leave the calls, the written messages   *)
(* and the service's answers alone, and may drop responses.                *)
LEMMA OpenInv == SocketInv /\ Open => SocketInv' /\ ContractStep
<1> SUFFICES ASSUME SocketInv, Open  PROVE SocketInv' /\ ContractStep
  OBVIOUS
<1>1. CallsInv /\ CallGuards /\ TransportInv
  BY SocketInvParts
<1>2. UNCHANGED <<callVars, answered, downlink, inputBuffer, outputBuffer, inbox, pending,
                  faults, reading, socket, manager>>
  BY DEF Open, sendVars, serviceVars, readVars
<1>3. CallsInv' /\ CallGuards' /\ UNCHANGED <<seqidGenerator, Verdict, Fired, Started>>
  BY <1>1, <1>2, CallsUntouched
<1>4. ResponsesLegit'
  BY <1>1, <1>2 DEF TransportInv, ResponsesLegit, Legit
<1>5. MessagesStarted'
  BY <1>1, <1>2, <1>3 DEF TransportInv, MessagesStarted
<1>6. opened + 1 \in Sockets /\ opened' \in 0..MaxSockets /\ client' \in 0..MaxSockets
  BY <1>1, SocketAssumption DEF TransportInv, Open, Sockets
<1>7. conn' \in [Sockets -> ConnStates] /\ owner' \in [Sockets -> 0..MaxSockets]
  BY <1>1, <1>6 DEF TransportInv, Open, ConnStates
<1>8. SocketIsLive' /\ UnusedSockets'
  BY <1>1, <1>2, <1>6 DEF TransportInv, SocketIsLive, UnusedSockets, Open, IsOpen, Sockets
<1>9. TransportInv'
  BY <1>1, <1>2, <1>4, <1>5, <1>6, <1>7, <1>8 DEF TransportInv
<1> QED BY <1>2, <1>3, <1>9, SocketInvPartsNext, ContractStutter

(* Closing the transport.                                                  *)
LEMMA CloseInv == SocketInv /\ Close => SocketInv' /\ ContractStep
<1> SUFFICES ASSUME SocketInv, Close  PROVE SocketInv' /\ ContractStep
  OBVIOUS
<1>1. CallsInv /\ CallGuards /\ TransportInv
  BY SocketInvParts
<1>2. UNCHANGED <<callVars, answered, downlink, inputBuffer, outputBuffer, inbox,
                  faults, reading, socket, manager, opened, owner>>
  BY DEF Close, serviceVars, readVars
<1>3. CallsInv' /\ CallGuards' /\ UNCHANGED <<seqidGenerator, Verdict, Fired, Started>>
  BY <1>1, <1>2, CallsUntouched
<1>4. ResponsesLegit'
  BY <1>1, <1>2 DEF TransportInv, ResponsesLegit, Legit
<1>5. MessagesStarted'
  BY <1>1, <1>2, <1>3 DEF TransportInv, MessagesStarted
<1>6. client' = 0 /\ client' \in 0..MaxSockets /\ pending' = <<>>
  BY SocketAssumption DEF Close
<1>7. conn' \in [Sockets -> ConnStates]
  BY <1>1 DEF TransportInv, Close, ConnStates
<1>8. SocketIsLive'
  BY <1>1, <1>2 DEF TransportInv, SocketIsLive, Close, Sockets
<1>9. UnusedSockets'
  BY <1>1, <1>2 DEF TransportInv, UnusedSockets, Close
<1>10. TransportInv'
  BY <1>1, <1>2, <1>4, <1>5, <1>6, <1>7, <1>8, <1>9 DEF TransportInv
<1> QED BY <1>2, <1>3, <1>10, SocketInvPartsNext, ContractStutter

(* Building a call manager on the transport.                               *)
LEMMA NewManagerInv == SocketInv /\ NewManager => SocketInv' /\ ContractStep
<1> SUFFICES ASSUME SocketInv, NewManager  PROVE SocketInv' /\ ContractStep
  OBVIOUS
<1>1. CallsInv /\ CallGuards /\ TransportInv
  BY SocketInvParts
<1>2. UNCHANGED <<callVars, sendVars, serviceVars, readVars, client, socket, opened, conn, owner>>
  BY DEF NewManager
<1>3. manager' \in BOOLEAN
  BY DEF NewManager
<1>4. CallsInv' /\ CallGuards' /\ UNCHANGED <<seqidGenerator, Verdict, Fired, Started>>
  BY <1>1, <1>2, CallsUntouched DEF serviceVars
<1>5. TransportInv'
  BY <1>1, <1>2, <1>3, <1>4
  DEF TransportInv, ResponsesLegit, Legit, MessagesStarted, SocketIsLive, UnusedSockets,
      sendVars, serviceVars, readVars
<1> QED BY <1>2, <1>4, <1>5, SocketInvPartsNext, ContractStutter DEF serviceVars

(* A connection attempt fails.                                             *)
LEMMA ConnectFailsInv ==
  ASSUME SocketInv, NEW s \in Sockets, ConnectFails(s)
  PROVE  SocketInv' /\ ContractStep
<1>1. CallsInv /\ CallGuards /\ TransportInv
  BY SocketInvParts
<1>2. UNCHANGED <<callVars, sendVars, serviceVars, readVars, client, socket, manager, opened,
                  owner>>
  BY DEF ConnectFails
<1>3. conn[s] = "connecting" /\ conn' = [conn EXCEPT ![s] = "closed"]
  BY DEF ConnectFails
<1>4. CallsInv' /\ CallGuards' /\ UNCHANGED <<seqidGenerator, Verdict, Fired, Started>>
  BY <1>1, <1>2, CallsUntouched DEF serviceVars
<1>5. conn' \in [Sockets -> ConnStates]
  BY <1>1, <1>3 DEF TransportInv, ConnStates
<1>6. SocketIsLive' /\ UnusedSockets'
  BY <1>1, <1>2, <1>3 DEF TransportInv, SocketIsLive, UnusedSockets, Sockets
<1>7. ResponsesLegit' /\ MessagesStarted'
  BY <1>1, <1>2, <1>4
  DEF TransportInv, ResponsesLegit, Legit, MessagesStarted, sendVars, serviceVars, readVars
<1>8. TransportInv'
  BY <1>1, <1>2, <1>5, <1>6, <1>7 DEF TransportInv, sendVars, serviceVars, readVars
<1> QED BY <1>2, <1>4, <1>8, SocketInvPartsNext, ContractStutter DEF serviceVars

(* The close event: the socket is forgotten, and what was on its way over  *)
(* the connection is dropped.                                              *)
LEMMA SocketClosesInv ==
  ASSUME SocketInv, NEW s \in Sockets, SocketCloses(s)
  PROVE  SocketInv' /\ ContractStep
<1>1. CallsInv /\ CallGuards /\ TransportInv
  BY SocketInvParts
<1>2. UNCHANGED <<callVars, sendVars, answered, reading, client, manager, opened, owner>>
  BY DEF SocketCloses
<1>3. /\ conn[s] \in {"open", "closing"}
      /\ conn' = [conn EXCEPT ![s] = "closed"]
      /\ socket' = 0
      /\ inputBuffer' = [inputBuffer EXCEPT ![s] = <<>>]
      /\ inbox' = {q \in inbox : q.sock # s}
      /\ downlink' = [downlink EXCEPT ![s] = <<>>]
  BY DEF SocketCloses
<1>4. CallsInv' /\ CallGuards' /\ UNCHANGED <<seqidGenerator, Verdict, Fired, Started>>
  BY <1>1, <1>2, CallsUntouched
<1>5. conn' \in [Sockets -> ConnStates]
  BY <1>1, <1>3 DEF TransportInv, ConnStates
<1>6. SocketIsLive' /\ UnusedSockets' /\ socket' \in 0..MaxSockets
  BY <1>1, <1>2, <1>3, SocketAssumption DEF TransportInv, SocketIsLive, UnusedSockets, Sockets
<1>7. ResponsesLegit'
  <2>1. Legit' = Legit /\ <<>> \in Seq(Legit)
    BY <1>2, EmptySeq DEF Legit
  <2> QED BY <1>1, <1>3, <2>1 DEF TransportInv, ResponsesLegit
<1>8. MessagesStarted' /\ inbox' \subseteq Requests
  BY <1>1, <1>2, <1>3, <1>4 DEF TransportInv, MessagesStarted, sendVars
<1>9. TransportInv'
  BY <1>1, <1>2, <1>5, <1>6, <1>7, <1>8 DEF TransportInv, sendVars
<1> QED BY <1>2, <1>4, <1>9, SocketInvPartsNext, ContractStutter

------------------------------------------------------------------------------
(* Calls.                                                                  *)
LEMMA ContractIssue ==
  ASSUME NEW c \in Calls, seqidGenerator' = c, c = seqidGenerator + 1,
         NEW v \in {"sent", "error"}, AtMost(c, v),
         UNCHANGED answered, Fired' = Fired
  PROVE  ContractStep
<1>1. Contract!Issue(c)
  BY DEF Contract!Issue, Contract!Settle, AtMost, Fired
<1> QED BY <1>1 DEF ContractStep, Contract!Next, Calls

(* What a call leaves of the transport: a longer outputBuffer_ or an empty *)
(* one, and perhaps a request to the service.                              *)
LEMMA CallTransportInv ==
  ASSUME TransportInv, UNCHANGED <<connVars, readVars, answered, downlink, pending>>,
         faults' \in 0..MaxFaults, inbox' \subseteq Requests,
         NEW c, c = seqidGenerator + 1, seqidGenerator' = c, seqidGenerator \in Nat,
         outputBuffer' \in Seq(Started'),
         \A q \in inbox' \ inbox : q.seqid \in Started'
  PROVE  TransportInv'
<1>1. Started \subseteq Started'
  BY DEF Started
<1>2. ResponsesLegit'
  BY DEF TransportInv, ResponsesLegit, Legit, readVars
<1>3. MessagesStarted'
  BY <1>1 DEF TransportInv, MessagesStarted
<1>4. SocketIsLive' /\ UnusedSockets'
  BY DEF TransportInv, SocketIsLive, UnusedSockets, connVars
<1> QED BY <1>2, <1>3, <1>4 DEF TransportInv, connVars, readVars

(* A call on a transport that is not open.                                 *)
LEMMA CallRefusedInv ==
  ASSUME SocketInv, NEW c \in Calls, NEW isOneway \in BOOLEAN, NEW thrown \in BOOLEAN,
         CallRefused(c, isOneway, thrown)
  PROVE  SocketInv' /\ ContractStep
<1>1. CallsInv /\ CallGuards /\ TransportInv
  BY SocketInvParts
<1>2. /\ StartFailed(c, isOneway, thrown)
      /\ UNCHANGED <<connVars, sendVars, serviceVars, readVars>>
  BY DEF CallRefused
<1>3. CallsInv'
  BY <1>1, <1>2, StartFailedInv
<1>4. /\ CallGuards'
      /\ seqidGenerator' = c /\ c = seqidGenerator + 1
      /\ AtMost(c, "error") /\ Fired' = Fired
  BY <1>1, <1>2, StartFailedGuards DEF serviceVars
<1>5. TransportInv'
  <2>1. seqidGenerator \in Nat
    BY <1>1, CallAssumption DEF CallsInv, CallsTypeOK
  <2>2. Started \subseteq Started'
    BY <1>4, <2>1 DEF Started
  <2>3. outputBuffer' \in Seq(Started')
    BY <1>1, <1>2, <2>2, SeqMonotonic DEF TransportInv, MessagesStarted, sendVars
  <2>4. UNCHANGED <<answered, downlink, pending, inbox, faults>>
    BY <1>2 DEF serviceVars, sendVars
  <2>5. faults' \in 0..MaxFaults /\ inbox' \subseteq Requests
    BY <1>1, <2>4 DEF TransportInv
  <2> QED BY <1>1, <1>2, <1>4, <2>1, <2>3, <2>4, <2>5, CallTransportInv
<1> QED BY <1>2, <1>3, <1>4, <1>5, SocketInvPartsNext, ContractIssue DEF serviceVars

(* A call whose arguments cannot be written.                               *)
LEMMA CallUnwritableInv ==
  ASSUME SocketInv, NEW c \in Calls, NEW isOneway \in BOOLEAN, NEW thrown \in BOOLEAN,
         CallUnwritable(c, isOneway, thrown)
  PROVE  SocketInv' /\ ContractStep
<1>1. CallsInv /\ CallGuards /\ TransportInv
  BY SocketInvParts
<1>2. /\ StartFailed(c, isOneway, thrown)
      /\ outputBuffer' = Append(outputBuffer, c)
      /\ faults < MaxFaults /\ faults' = faults + 1
      /\ UNCHANGED <<connVars, serviceVars, readVars, pending>>
  BY DEF CallUnwritable
<1>3. CallsInv'
  BY <1>1, <1>2, StartFailedInv
<1>4. /\ CallGuards'
      /\ seqidGenerator' = c /\ c = seqidGenerator + 1
      /\ AtMost(c, "error") /\ Fired' = Fired
  BY <1>1, <1>2, StartFailedGuards DEF serviceVars
<1>5. TransportInv'
  <2>1. seqidGenerator \in Nat
    BY <1>1, CallAssumption DEF CallsInv, CallsTypeOK
  <2>2. Started \subseteq Started' /\ c \in Started'
    BY <1>4, <2>1 DEF Started
  <2>3. outputBuffer \in Seq(Started')
    BY <1>1, <2>2, SeqMonotonic DEF TransportInv, MessagesStarted
  <2>4. outputBuffer' \in Seq(Started')
    BY <1>2, <2>2, <2>3, AppendProperties
  <2>5. UNCHANGED <<answered, downlink, inbox>>
    BY <1>2 DEF serviceVars
  <2>6. faults' \in 0..MaxFaults /\ inbox' \subseteq Requests
    BY <1>1, <1>2, <2>5, SocketAssumption DEF TransportInv
  <2> QED BY <1>1, <1>2, <1>4, <2>1, <2>4, <2>5, <2>6, CallTransportInv
<1> QED BY <1>2, <1>3, <1>4, <1>5, SocketInvPartsNext, ContractIssue DEF serviceVars

(* write let the call through, so there is a socket: nothing is queued.    *)
LEMMA CallFlushedInv ==
  ASSUME SocketInv, NEW c \in Calls, NEW isOneway \in BOOLEAN, NEW thrown \in BOOLEAN,
         CallFlushed(c, isOneway, thrown)
  PROVE  SocketInv' /\ ContractStep
<1> DEFINE frame == Append(outputBuffer, c)
<1> DEFINE tm == IF isOneway THEN timer ELSE [timer EXCEPT ![c] = "armed"]
<1>1. CallsInv /\ CallGuards /\ TransportInv
  BY SocketInvParts
<1>2. /\ StartFlushed(c, isOneway, thrown, tm)
      /\ outputBuffer' = <<>>
      /\ UNCHANGED <<connVars, readVars, faults, answered, downlink>>
  BY DEF CallFlushed
<1>3. socket \in Sockets /\ pending' = pending /\ inbox' = inbox \cup Received(socket, frame)
  BY <1>1, SocketAssumption DEF CallFlushed, FlushFrame, CanWrite, IsOpen, TransportInv, Sockets
<1>4. CallsInv'
  <2>1. tm \in [Calls -> TimerStates]
    BY <1>1 DEF CallsInv, CallsTypeOK, TimerStates
  <2> QED BY <1>1, <1>2, <2>1, StartFlushedInv
<1>5. /\ CallGuards'
      /\ seqidGenerator' = c /\ c = seqidGenerator + 1
      /\ AtMost(c, "sent") /\ Fired' = Fired
  BY <1>1, <1>2, StartFlushedGuards
<1>6. TransportInv'
  <2>1. seqidGenerator \in Nat
    BY <1>1, CallAssumption DEF CallsInv, CallsTypeOK
  <2>2. Started \subseteq Started' /\ c \in Started' /\ Started' \subseteq Calls
    BY <1>5, <2>1, CallAssumption DEF Started, Calls
  <2>3. outputBuffer \in Seq(Started')
    BY <1>1, <2>2, SeqMonotonic DEF TransportInv, MessagesStarted
  <2>4. frame \in Seq(Started') /\ frame # <<>>
    BY <2>2, <2>3, AppendProperties
  <2>5. Head(frame) \in Started'
    BY <2>4, HeadTailProperties
  <2>6. \A b \in BOOLEAN : [sock |-> socket, seqid |-> Head(frame), intact |-> b] \in
                              {q \in Requests : q.seqid \in Started'}
    BY <1>3, <2>2, <2>5 DEF Requests
  <2>7. Received(socket, frame) \subseteq {q \in Requests : q.seqid \in Started'}
    <3>1. (Len(frame) = 1) \in BOOLEAN
      OBVIOUS
    <3>2. [sock |-> socket, seqid |-> Head(frame), intact |-> (Len(frame) = 1)] \in
             {q \in Requests : q.seqid \in Started'}
      BY <2>6, <3>1, Zenon
    <3> QED BY <3>2, Zenon DEF Received
  <2>8. outputBuffer' \in Seq(Started')
    BY <1>2, EmptySeq
  <2>9. faults' \in 0..MaxFaults /\ inbox' \subseteq Requests
    BY <1>1, <1>2, <1>3, <2>7 DEF TransportInv
  <2>10. \A q \in inbox' \ inbox : q.seqid \in Started'
    BY <1>3, <2>7
  <2> QED BY <1>1, <1>2, <1>3, <1>5, <2>1, <2>8, <2>9, <2>10, CallTransportInv
<1> QED BY <1>2, <1>4, <1>5, <1>6, SocketInvPartsNext, ContractIssue

(* Every way of making a call.                                             *)
LEMMA CallInv == SocketInv /\ Call => SocketInv' /\ ContractStep
  BY CallRefusedInv, CallUnwritableInv, CallFlushedInv DEF Call

------------------------------------------------------------------------------
(* The response timer and the service.                                     *)
LEMMA TimerFiresInv ==
  ASSUME SocketInv, NEW c \in Calls, NEW thrown \in BOOLEAN, TimerFires(c, thrown)
  PROVE  SocketInv' /\ ContractStep
<1> DEFINE tm == [timer EXCEPT ![c] = "fired"]
<1>1. CallsInv /\ CallGuards /\ TransportInv
  BY SocketInvParts
<1>2. /\ timer[c] = "armed"
      /\ OnError(c, "timeout", thrown, tm)
      /\ UNCHANGED <<seqidGenerator, oneway, connVars, outputBuffer, faults, serviceVars,
                     readVars>>
  BY DEF TimerFires
<1>3. c \in registered /\ c \in Started /\ "timeout" \in Outcomes
  BY <1>1, <1>2 DEF CallGuards, TimersGuardCalls, CallsInv, CallsTypeOK, Outcomes
<1>4. timer \in [Calls -> TimerStates] /\ tm \in [Calls -> TimerStates]
  BY <1>1 DEF CallsInv, CallsTypeOK, TimerStates
<1>5. CallsInv'
  BY <1>1, <1>2, <1>3, <1>4, OnErrorInv
<1>6. /\ CallGuards' /\ c \notin completed
      /\ AtMost(c, "timeout") /\ Fired' = {d \in Calls : tm[d] = "fired"}
  <2>1. \A d \in Calls \ {c} : tm[d] = timer[d]
    BY <1>4
  <2>2. tm[c] = "armed" => timer[c] = "armed"
    BY <1>2
  <2>3. UNCHANGED <<seqidGenerator, oneway, answered>>
    BY <1>2 DEF serviceVars
  <2>4. "timeout" = "reply" => c \in answered
    OBVIOUS
  <2>5. OnError(c, "timeout", thrown, tm) /\ c \in registered
    BY <1>2, <1>3
  <2> HIDE DEF tm
  <2> QED BY <1>1, <1>3, <1>4, <2>1, <2>2, <2>3, <2>4, <2>5, OnErrorGuards
<1>7. TransportInv'
  <2>1. pending' = <<>>
    BY <1>1 DEF TimerFires, WithoutSeqid, TransportInv
  <2>2. UNCHANGED <<client, socket, manager, opened, conn, owner, outputBuffer, faults, inbox,
                    answered, downlink, inputBuffer, reading, Started>>
    BY <1>2 DEF connVars, serviceVars, readVars, Started
  <2>3. ResponsesLegit' /\ MessagesStarted' /\ SocketIsLive' /\ UnusedSockets'
    BY <1>1, <2>2
    DEF TransportInv, ResponsesLegit, Legit, MessagesStarted, SocketIsLive, UnusedSockets
  <2> QED BY <1>1, <2>1, <2>2, <2>3 DEF TransportInv
<1>8. Contract!Expire(c)
  <2>1. Fired' = Fired \cup {c}
    BY <1>2, <1>4, <1>6 DEF Fired
  <2>2. Contract!Pending(c)
    BY <1>3, <1>6 DEF Contract!Pending, Verdict, Started
  <2>3. UNCHANGED <<seqidGenerator, answered>> /\ c \in 1..seqidGenerator
    BY <1>2, <1>3 DEF serviceVars, Started
  <2> QED BY <1>6, <2>1, <2>2, <2>3 DEF Contract!Expire, Contract!Settle, AtMost, Fired
<1>9. ContractStep
  BY <1>8 DEF ContractStep, Contract!Next, Calls
<1> QED BY <1>5, <1>6, <1>7, <1>9, SocketInvPartsNext

(* The service responds to a request.                                      *)
LEMMA ServiceRespondsInv ==
  ASSUME SocketInv, NEW q, NEW kind \in ReplyKinds, ServiceResponds(q, kind)
  PROVE  SocketInv' /\ ContractStep
<1> DEFINE r == [seqid |-> q.seqid, kind |-> kind]
<1>1. CallsInv /\ CallGuards /\ TransportInv
  BY SocketInvParts
<1>2. /\ q \in inbox /\ inbox' = inbox \ {q}
      /\ downlink' = [downlink EXCEPT ![q.sock] = Append(@, r)]
      /\ answered' = IF kind = "reply" THEN answered \cup {q.seqid} ELSE answered
      /\ UNCHANGED <<callVars, connVars, sendVars, readVars>>
  BY DEF ServiceResponds
<1>3. q.sock \in Sockets /\ q.seqid \in Calls /\ q.seqid \in Started
  BY <1>1, <1>2 DEF TransportInv, Requests, MessagesStarted
<1>4. CallsInv' /\ CallGuards' /\ UNCHANGED <<seqidGenerator, Verdict, Fired, Started>>
  BY <1>1, <1>2, CallsUntouched
<1>5. ResponsesLegit'
  <2>1. Legit \subseteq Legit' /\ r \in Legit'
    BY <1>2, <1>3 DEF Legit, Replies
  <2>2. \A f \in Seq(Legit) : f \in Seq(Legit')
    BY <2>1, SeqMonotonic
  <2>3. downlink[q.sock] \in Seq(Legit')
    BY <1>1, <1>3, <2>2 DEF TransportInv, ResponsesLegit
  <2>4. Append(downlink[q.sock], r) \in Seq(Legit')
    BY <2>1, <2>3, AppendProperties
  <2>5. downlink \in [Sockets -> Seq(Legit')] /\ inputBuffer \in [Sockets -> Seq(Legit')]
    BY <1>1, <2>2 DEF TransportInv, ResponsesLegit
  <2>6. downlink' \in [Sockets -> Seq(Legit')] /\ inputBuffer' = inputBuffer
    BY <1>2, <2>4, <2>5 DEF readVars
  <2> QED BY <2>5, <2>6 DEF ResponsesLegit
<1>6. MessagesStarted' /\ SocketIsLive' /\ UnusedSockets'
  BY <1>1, <1>2, <1>4
  DEF TransportInv, MessagesStarted, SocketIsLive, UnusedSockets, sendVars, connVars
<1>7. TransportInv'
  BY <1>1, <1>2, <1>3, <1>5, <1>6 DEF TransportInv, connVars, sendVars, readVars
<1>8. ContractStep
  <2>1. CASE kind = "reply"
    <3>1. Contract!Answer(q.seqid)
      BY <1>2, <1>3, <1>4, <2>1 DEF Contract!Answer, Fired, Started
    <3> QED BY <1>3, <3>1 DEF ContractStep, Contract!Next, Calls
  <2>2. CASE kind # "reply"
    BY <1>2, <1>4, <2>2, ContractStutter
  <2> QED BY <2>1, <2>2
<1> QED BY <1>4, <1>7, <1>8, SocketInvPartsNext

(* Steps that change nothing.                                              *)
LEMMA SocketStutterInv ==
  ASSUME SocketInv, UNCHANGED <<callVars, connVars, sendVars, serviceVars, readVars>>
  PROVE  SocketInv' /\ ContractStep
<1>1. CallsInv /\ CallGuards /\ TransportInv
  BY SocketInvParts
<1>2. CallsInv' /\ CallGuards' /\ UNCHANGED <<seqidGenerator, Verdict, Fired, Started>>
  BY <1>1, CallsUntouched DEF serviceVars
<1>3. TransportInv'
  BY <1>1, <1>2
  DEF TransportInv, ResponsesLegit, Legit, MessagesStarted, SocketIsLive, UnusedSockets,
      connVars, sendVars, serviceVars, readVars
<1> QED BY <1>2, <1>3, SocketInvPartsNext, ContractStutter DEF serviceVars
==============================================================================
