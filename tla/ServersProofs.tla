---------------------------- MODULE ServersProofs ----------------------------
(***************************************************************************)
(* Proofs for the servers: with whichever of the four, for any number of   *)
(* requests, connections and services, a request is answered once, and     *)
(* clients that come one by one get their own answers, all of them.        *)
(*                                                                         *)
(* The invariant has a part for the requests, which is the same for all    *)
(* servers (Processing), and one for what a server keeps of its input.     *)
(* Correspondingly each action is shown to be a step of one of four kinds  *)
(* for the requests (SendStep, RestStep, ProcessStep, CompleteStep), which *)
(* keep the first part, and to keep its server's part.                     *)
(***************************************************************************)
EXTENDS Servers, SequenceTheorems, TLAPS

Requests == 1..MaxRequests
Conns == 1..MaxConns

(* The servers over TCP and WebSockets have MaxConns connections, those    *)
(* over HTTP and the event bus MaxExchanges exchanges.                     *)
Limit == IF server \in {"framed", "websocket"} THEN MaxConns ELSE MaxExchanges

AnsweredAt(r, k) == \E i \in DOMAIN responses[k] : responses[k][i].req = r

(* Request r was answered, on whichever connection.                        *)
Answered(r) == \E k \in DOMAIN responses : AnsweredAt(r, k)

Piece(r, i) == [req |-> r, part |-> i]

(* A piece that no server has processed: on its way over a connection, or  *)
(* in the input buffer.                                                    *)
InFlight(p) ==
    \/ \E i \in 1..Len(inputBuffer) : inputBuffer[i] = p
    \/ \E k \in Conns : \E i \in 1..Len(uplink[k]) : uplink[k][i] = p

(* The requests that are sent and not processed.                           *)
Waiting ==
    {r \in 1..sent :
        \/ server \in {"framed", "websocket"} /\ InFlight(Piece(r, 1)) /\ r # current
        \/ server = "http" /\ conn[from[r]] = "open"
        \/ server = "eventbus" /\ conn[from[r]] = "sent"}

(* The requests whose client waits for an answer: those the service was    *)
(* invoked for, over HTTP all that were processed.                         *)
Owed == IF server = "http" THEN 1..sent \ Waiting ELSE executed

------------------------------------------------------------------------------
Typed ==
    /\ sent \in 0..MaxRequests
    /\ from \in [Requests -> 0..Limit]
    /\ \A r \in Requests : from[r] # 0 <=> r <= sent
    /\ output \in [Requests -> 0..Limit]
    /\ oneway \subseteq 1..sent /\ executed \subseteq 1..sent /\ unwritten \subseteq 1..sent
    /\ unfinished \subseteq executed
    /\ responses \in [1..Limit -> Seq(Framed!Responses)]

(* What waits was not answered, nor was a call the service works on.       *)
Unanswered ==
    /\ \A r \in Requests : Answered(r) => r \in 1..sent
    /\ \A r \in Waiting : r \notin executed /\ ~Answered(r)
    /\ \A r \in unfinished : ~Answered(r)

(* A transport writes to the client of its request, and who is owed an     *)
(* answer has it.                                                          *)
Serving ==
    Orderly =>
        /\ OwnResponses
        /\ \A r \in Requests : output[r] \in {0, from[r]}
        /\ \A r \in Owed \ (oneway \cup unfinished \cup unwritten) : AnsweredAt(r, from[r])

Processing == Typed /\ AnsweredOnce /\ Unanswered /\ Serving

------------------------------------------------------------------------------
Streams ==
    /\ uplink \in [Conns -> Seq(Framed!Pieces)]
    /\ inputBuffer \in Seq(Framed!Pieces)

(* No piece is found twice in the input.                                   *)
PiecesOnce ==
    /\ \A i, j \in 1..Len(inputBuffer) : inputBuffer[i] = inputBuffer[j] => i = j
    /\ \A k \in Conns : \A i \in 1..Len(inputBuffer), j \in 1..Len(uplink[k]) :
            inputBuffer[i] # uplink[k][j]
    /\ \A k, l \in Conns : \A i \in 1..Len(uplink[k]), j \in 1..Len(uplink[l]) :
            uplink[k][i] = uplink[l][j] => k = l /\ i = j

(* Only what was sent is on its way.                                       *)
PiecesSent == \A p \in Framed!Pieces : InFlight(p) => p.req \in 1..sent

(* What is left of the input of connection k starts with a request, and    *)
(* has nothing but whole requests of k.                                    *)
WholeRequests(w, k, sender) ==
    \A i \in 1..Len(w) :
        /\ sender[w[i].req] = k
        /\ w[i].part = 1 => i < Len(w) /\ w[i + 1] = Piece(w[i].req, 2)
        /\ w[i].part = 2 => i > 1 /\ w[i - 1] = Piece(w[i].req, 1)

(* One client after the other: the shared fields are those of the          *)
(* connection that is open, and empty when there is none.                  *)
OneClient(field) ==
    /\ mangled = {}
    /\ \A k \in Conns : conn[k] = "open" =>
            field = k /\ WholeRequests(inputBuffer \o uplink[k], k, from)
    /\ \A k \in Conns : conn[k] # "open" => uplink[k] = <<>>
    /\ (\A k \in Conns : conn[k] # "open") => inputBuffer = <<>>

StreamInv ==
    /\ conn \in [Conns -> {"none", "open", "closed"}]
    /\ Streams /\ PiecesOnce /\ PiecesSent
    /\ overlapped \in BOOLEAN /\ mangled \subseteq 1..sent /\ current \in 0..sent
    /\ \A r \in Requests : output[r] # 0 => r = current

FramedInv ==
    /\ StreamInv
    /\ socket \in 0..MaxConns /\ reading \in BOOLEAN
    /\ current # 0 => reading /\ Len(inputBuffer) >= 2 /\ inputBuffer[1] = Piece(current, 1)
    /\ ~overlapped => OneClient(socket) /\ (~reading => Len(inputBuffer) <= 1)

WebSocketInv ==
    /\ StreamInv
    /\ websocket \in 0..MaxConns
    /\ current # 0 => Len(inputBuffer) >= 2 /\ inputBuffer[1] = Piece(current, 1)
    /\ ~overlapped => /\ OneClient(websocket)
                      /\ Len(inputBuffer) <= IF current = 0 THEN 1 ELSE 2

(* A request is in an exchange of its own.                                 *)
ExchangesOwn ==
    /\ \A r, q \in 1..sent : from[r] = from[q] => r = q
    /\ current \in 0..sent
    /\ inputBuffer = <<>>

HttpInv ==
    /\ conn \in [1..MaxExchanges -> {"none", "open", "processed", "refused"}]
    /\ path \in [1..MaxExchanges -> Services \cup {"nowhere"}]
    /\ request \in 0..MaxExchanges /\ uri \in Services \cup {"nowhere"}
    /\ overlapped \in BOOLEAN /\ mangled \subseteq 1..sent
    /\ ExchangesOwn
    /\ \A r \in 1..sent : conn[from[r]] \in {"open", "processed"}
    /\ ~overlapped => /\ mangled = {}
                      /\ \A k \in 1..MaxExchanges :
                            conn[k] = "open" => request = k /\ uri = path[k]

BusInv ==
    /\ conn \in [1..MaxExchanges -> {"none", "sent", "handled", "unsupported"}]
    /\ overlapped = FALSE /\ mangled = {}
    /\ ExchangesOwn
    /\ \A r \in 1..sent : conn[from[r]] \in {"sent", "handled"}

Inv ==
    /\ server \in {"framed", "websocket", "http", "eventbus"}
    /\ Processing
    /\ server = "framed" => FramedInv
    /\ server = "websocket" => WebSocketInv
    /\ server = "http" => HttpInv
    /\ server = "eventbus" => BusInv
------------------------------------------------------------------------------
Kinds == {"reply", "exception", "mixed", "error"}

(* A step answers request r on connection k, or nobody.                    *)
Answers(r, k) ==
    \/ UNCHANGED responses
    \/ /\ k \in DOMAIN responses
       /\ \E kind \in Kinds :
            responses' = [responses EXCEPT ![k] = Append(@, [req |-> r, kind |-> kind])]

(* What a step that processes request r does to the histories.             *)
Progress(r, k) ==
    /\ Answers(r, k)
    /\ executed \subseteq executed' /\ executed' \subseteq executed \cup {r}
    /\ unwritten \subseteq unwritten' /\ unwritten' \subseteq unwritten \cup {r}

(* Whatever the server, a step is one of four kinds for the requests: a    *)
(* client sends one,                                                       *)
SendStep(k) ==
    /\ sent' = sent + 1 /\ sent' \in Requests /\ k \in 1..Limit
    /\ from' = [from EXCEPT ![sent'] = k]
    /\ oneway \subseteq oneway' /\ oneway' \subseteq oneway \cup {sent'}
    /\ UNCHANGED <<output, executed, unfinished, unwritten, responses>>
    /\ Waiting' \subseteq Waiting \cup {sent'} /\ Owed' \subseteq Owed

(* nothing is processed, though a transport may be closed,                 *)
RestStep ==
    /\ UNCHANGED <<sent, from, oneway, executed, unfinished, unwritten, responses>>
    /\ output' \in [Requests -> 0..Limit] /\ \A r \in Requests : output'[r] \in {0, output[r]}
    /\ Waiting' \subseteq Waiting /\ Owed' \subseteq Owed

(* one that waits is processed, by a transport that writes to k,           *)
ProcessStep(r, k) ==
    /\ r \in Waiting /\ k \in 0..Limit
    /\ UNCHANGED <<sent, from, oneway>>
    /\ output' = [output EXCEPT ![r] = k]
    /\ Progress(r, k)
    /\ \/ UNCHANGED unfinished
       \/ unfinished' = unfinished \cup {r} /\ r \in executed' /\ UNCHANGED responses
    /\ Orderly => k = from[r]
    /\ Orderly => r \notin Owed' \ (oneway \cup unfinished' \cup unwritten') \/ AnsweredAt(r, k)'
    /\ Waiting' \subseteq Waiting \ {r} /\ Owed' \subseteq Owed \cup {r}

(* or the service completes one.                                           *)
CompleteStep(r) ==
    /\ r \in unfinished /\ unfinished' = unfinished \ {r}
    /\ UNCHANGED <<sent, from, oneway, output, executed>>
    /\ Progress(r, output[r])
    /\ Orderly => r \in oneway \cup unwritten' \/ AnsweredAt(r, from[r])'
    /\ Waiting' \subseteq Waiting /\ Owed' \subseteq Owed

SameServer == UNCHANGED server /\ (Orderly' => Orderly)

------------------------------------------------------------------------------
(* A response to a request that had none keeps the histories typed, and    *)
(* each request answered once.                                             *)
LEMMA AnswersOnce ==
    ASSUME NEW r \in Requests, NEW k, Typed, AnsweredOnce, Answers(r, k), ~Answered(r)
    PROVE  /\ responses' \in [1..Limit -> Seq(Framed!Responses)]
           /\ AnsweredOnce'
           /\ \A q \in Requests : Answered(q)' => Answered(q) \/ q = r
           /\ \A l \in 1..Limit : \A i \in DOMAIN responses[l] :
                i \in DOMAIN responses'[l] /\ responses'[l][i] = responses[l][i]
           /\ \A l \in 1..Limit : \A i \in DOMAIN responses'[l] :
                i \in DOMAIN responses[l] \/ (l = k /\ responses'[l][i].req = r)
<1>. USE DEF Requests
<1>0. responses \in [1..Limit -> Seq(Framed!Responses)] /\ DOMAIN responses = 1..Limit
  BY DEF Typed
<1>1. CASE UNCHANGED responses
  BY <1>0, <1>1 DEF AnsweredOnce, Answered, AnsweredAt
<1>2. CASE k \in DOMAIN responses /\ ~UNCHANGED responses
  <2>1. PICK kind \in Kinds :
          responses' = [responses EXCEPT ![k] = Append(@, [req |-> r, kind |-> kind])]
    BY <1>2 DEF Answers
  <2>. DEFINE new == [req |-> r, kind |-> kind]
  <2>2. new \in Framed!Responses /\ responses[k] \in Seq(Framed!Responses)
    BY <1>0, <1>2 DEF Framed!Responses, Framed!Requests, Kinds
  <2>3. /\ responses'[k] = Append(responses[k], new)
        /\ \A l \in 1..Limit \ {k} : responses'[l] = responses[l]
        /\ DOMAIN responses' = 1..Limit
    BY <1>0, <1>2, <2>1
  <2>4. /\ Append(responses[k], new) \in Seq(Framed!Responses)
        /\ DOMAIN Append(responses[k], new) = 1..(Len(responses[k]) + 1)
        /\ DOMAIN responses[k] = 1..Len(responses[k])
        /\ Len(responses[k]) \in Nat
        /\ \A i \in 1..Len(responses[k]) : Append(responses[k], new)[i] = responses[k][i]
        /\ Append(responses[k], new)[Len(responses[k]) + 1] = new
    BY <2>2, AppendProperties
  <2>5. responses' \in [1..Limit -> Seq(Framed!Responses)]
    BY <1>0, <1>2, <2>1, <2>4
  <2>6. ASSUME NEW l \in 1..Limit, NEW i \in DOMAIN responses'[l]
        PROVE  \/ i \in DOMAIN responses[l] /\ responses'[l][i] = responses[l][i]
               \/ l = k /\ i = Len(responses[k]) + 1 /\ responses'[l][i].req = r
    <3>1. CASE l # k
      BY <2>3, <2>6, <3>1
    <3>2. CASE l = k
      <4>1. i \in 1..(Len(responses[k]) + 1)
        BY <2>3, <2>4, <2>6, <3>2
      <4>2. i \in 1..Len(responses[k]) \/ i = Len(responses[k]) + 1
        BY <2>4, <4>1
      <4>. QED  BY <2>3, <2>4, <3>2, <4>2
    <3>. QED  BY <3>1, <3>2
  <2>7. \A l \in 1..Limit : \A i \in DOMAIN responses[l] : responses[l][i].req # r
    BY <1>0 DEF Answered, AnsweredAt
  <2>8. AnsweredOnce'
    BY <1>0, <2>3, <2>6, <2>7 DEF AnsweredOnce
  <2>9. \A q \in Requests : Answered(q)' => Answered(q) \/ q = r
    BY <1>0, <2>3, <2>6 DEF Answered, AnsweredAt
  <2>10. \A l \in 1..Limit : \A i \in DOMAIN responses[l] :
            i \in DOMAIN responses'[l] /\ responses'[l][i] = responses[l][i]
    <3>1. \A i \in DOMAIN responses[k] :
            i \in DOMAIN responses'[k] /\ responses'[k][i] = responses[k][i]
      BY <2>3, <2>4
    <3>2. \A l \in 1..Limit \ {k} : responses'[l] = responses[l]
      BY <2>3
    <3>. QED  BY <3>1, <3>2
  <2>. QED  BY <2>5, <2>6, <2>8, <2>9, <2>10
<1>. QED  BY <1>1, <1>2 DEF Answers

(* A response that goes to the connection of its request keeps responses   *)
(* with those who asked.                                                   *)
LEMMA AnswersOwn ==
    ASSUME NEW r \in Requests, NEW k, Typed, OwnResponses, AnsweredOnce, Answers(r, k),
           ~Answered(r), k \in 1..Limit => from[r] = k, UNCHANGED from
    PROVE  OwnResponses'
<1>1. /\ responses' \in [1..Limit -> Seq(Framed!Responses)]
      /\ responses \in [1..Limit -> Seq(Framed!Responses)]
      /\ \A l \in 1..Limit : \A i \in DOMAIN responses[l] :
            i \in DOMAIN responses'[l] /\ responses'[l][i] = responses[l][i]
      /\ \A l \in 1..Limit : \A i \in DOMAIN responses'[l] :
            i \in DOMAIN responses[l] \/ (l = k /\ responses'[l][i].req = r)
  BY AnswersOnce DEF Typed
<1>2. DOMAIN responses = 1..Limit /\ DOMAIN responses' = 1..Limit
  BY <1>1
<1>. QED  BY <1>1, <1>2 DEF OwnResponses

(* A request that was answered stays answered.                             *)
LEMMA StaysAnswered ==
    ASSUME NEW r \in Requests, NEW k, Typed, AnsweredOnce, Answers(r, k), ~Answered(r),
           NEW q, NEW l \in 1..Limit, AnsweredAt(q, l)
    PROVE  AnsweredAt(q, l)'
BY AnswersOnce DEF AnsweredAt

------------------------------------------------------------------------------
(* A step of each of these kinds keeps what the servers promise.           *)
LEMMA SendKeeps ==
    ASSUME Processing, SameServer, NEW k, SendStep(k)
    PROVE  Processing'
<1>. USE DEF Requests
<1>. DEFINE r == sent + 1
<1>0. Typed /\ AnsweredOnce /\ Unanswered /\ sent \in Nat /\ Limit' = Limit
  BY DEF Processing, Typed, SameServer, Limit
<1>1. /\ r \in Requests /\ sent' = r /\ from' = [from EXCEPT ![r] = k] /\ k \in 1..Limit
      /\ UNCHANGED <<output, executed, unfinished, unwritten, responses>>
  BY DEF SendStep
<1>2. /\ 1..sent' = 1..sent \cup {r} /\ r \notin 1..sent
      /\ \A q \in Requests \ {r} : from'[q] = from[q]
      /\ from'[r] = k /\ from[r] = 0
  BY <1>0, <1>1 DEF Typed
<1>3. Typed'
  <2>1. oneway' \subseteq 1..sent'
    BY <1>0, <1>1, <1>2 DEF SendStep, Typed
  <2>2. \A q \in Requests : from'[q] # 0 <=> q <= sent'
    BY <1>0, <1>1, <1>2 DEF Typed
  <2>3. from' \in [Requests -> 0..Limit]
    BY <1>0, <1>1 DEF Typed
  <2>. QED  BY <1>0, <1>1, <1>2, <2>1, <2>2, <2>3 DEF Typed
<1>4. AnsweredOnce'
  BY <1>0, <1>1 DEF AnsweredOnce
<1>5. \A q, l : (AnsweredAt(q, l)' <=> AnsweredAt(q, l)) /\ (Answered(q)' <=> Answered(q))
  BY <1>1 DEF Answered, AnsweredAt
<1>6. Unanswered'
  <2>1. ~Answered(r) /\ r \notin executed
    BY <1>0, <1>1, <1>2 DEF Unanswered, Typed
  <2>. QED  BY <1>0, <1>1, <1>2, <1>5, <2>1 DEF Unanswered, SendStep
<1>7. ASSUME Orderly' PROVE Serving'
  <2>0. OwnResponses /\ (\A q \in Requests : output[q] \in {0, from[q]})
        /\ \A q \in Owed \ (oneway \cup unfinished \cup unwritten) : AnsweredAt(q, from[q])
    BY <1>7 DEF SameServer, Processing, Serving
  <2>1. ASSUME NEW l \in DOMAIN responses, NEW i \in DOMAIN responses[l]
        PROVE  from'[responses[l][i].req] = from[responses[l][i].req]
    <3>1. responses[l][i] \in Framed!Responses
      BY <1>0, <2>1 DEF Typed
    <3>2. responses[l][i].req \in Requests /\ Answered(responses[l][i].req)
      BY <2>1, <3>1 DEF Framed!Responses, Framed!Requests, Answered, AnsweredAt
    <3>. QED  BY <1>0, <1>2, <3>2 DEF Unanswered
  <2>2. OwnResponses'
    BY <1>1, <2>0, <2>1 DEF OwnResponses
  <2>3. \A q \in Requests : output'[q] \in {0, from'[q]}
    BY <1>1, <1>2, <2>0
  <2>4. \A q \in Owed' \ (oneway' \cup unfinished' \cup unwritten') : AnsweredAt(q, from[q])'
    <3>1. Owed \subseteq 1..sent
      BY <1>0 DEF Owed, Typed
    <3>2. \A q \in Owed : from'[q] = from[q]
      BY <1>0, <1>2, <3>1, ServersAssumption DEF Typed
    <3>. QED  BY <1>1, <1>5, <2>0, <3>1, <3>2 DEF SendStep
  <2>. QED  BY <2>2, <2>3, <2>4 DEF Serving
<1>. QED  BY <1>3, <1>4, <1>6, <1>7 DEF Processing, Serving

(* A step that processes nothing keeps it, too:                            *)
LEMMA RestKeeps ==
    ASSUME Processing, SameServer, RestStep
    PROVE  Processing'
<1>0. Typed /\ AnsweredOnce /\ Unanswered /\ Limit' = Limit
  BY DEF Processing, SameServer, Limit
<1>1. UNCHANGED <<sent, from, oneway, executed, unfinished, unwritten, responses>>
  BY DEF RestStep
<1>2. Typed' /\ AnsweredOnce'
  BY <1>0, <1>1 DEF Typed, RestStep, AnsweredOnce
<1>3. \A q, l : (AnsweredAt(q, l)' <=> AnsweredAt(q, l)) /\ (Answered(q)' <=> Answered(q))
  BY <1>1 DEF Answered, AnsweredAt
<1>4. Unanswered'
  BY <1>0, <1>1, <1>3 DEF Unanswered, RestStep
<1>5. ASSUME Orderly' PROVE Serving'
  <2>1. OwnResponses /\ (\A q \in Requests : output[q] \in {0, from[q]})
        /\ \A q \in Owed \ (oneway \cup unfinished \cup unwritten) : AnsweredAt(q, from[q])
    BY <1>5 DEF SameServer, Processing, Serving
  <2>2. OwnResponses'
    BY <1>1, <2>1 DEF OwnResponses
  <2>3. \A q \in Requests : output'[q] \in {0, from'[q]}
    BY <1>1, <2>1 DEF RestStep
  <2>4. \A q \in Owed' \ (oneway' \cup unfinished' \cup unwritten') : AnsweredAt(q, from[q])'
    BY <1>1, <1>3, <2>1 DEF RestStep
  <2>. QED  BY <2>2, <2>3, <2>4 DEF Serving
<1>. QED  BY <1>2, <1>4, <1>5 DEF Processing, Serving

(* the request that is processed waited, hence had no answer;              *)
LEMMA ProcessKeeps ==
    ASSUME Processing, SameServer, NEW r, NEW k, ProcessStep(r, k)
    PROVE  Processing'
<1>0. Typed /\ AnsweredOnce /\ Unanswered /\ sent \in Nat /\ Limit' = Limit
  BY DEF Processing, Typed, SameServer, Limit
<1>1. /\ UNCHANGED <<sent, from, oneway>> /\ output' = [output EXCEPT ![r] = k]
      /\ Progress(r, k) /\ Answers(r, k) /\ k \in 0..Limit
  BY DEF ProcessStep, Progress
<1>2. r \in 1..sent /\ r \in Requests /\ 1..sent \subseteq Requests
  BY <1>0, ServersAssumption DEF ProcessStep, Waiting, Typed, Requests
<1>3. ~Answered(r) /\ r \notin unfinished
  BY <1>0 DEF ProcessStep, Unanswered, Typed
<1>4. /\ responses' \in [1..Limit -> Seq(Framed!Responses)] /\ AnsweredOnce'
      /\ \A q \in Requests : Answered(q)' => Answered(q) \/ q = r
  BY <1>0, <1>1, <1>2, <1>3, AnswersOnce
<1>5. Typed'
  <2>1. executed' \subseteq 1..sent' /\ unwritten' \subseteq 1..sent' /\ unfinished' \subseteq executed'
    BY <1>0, <1>1, <1>2 DEF Typed, Progress, ProcessStep
  <2>2. output' \in [Requests -> 0..Limit]
    BY <1>0, <1>1 DEF Typed
  <2>. QED  BY <1>0, <1>1, <1>4, <2>1, <2>2 DEF Typed
<1>6. Unanswered'
  <2>1. \A q \in Requests : Answered(q)' => q \in 1..sent'
    BY <1>0, <1>1, <1>2, <1>4 DEF Unanswered
  <2>2. \A q \in Waiting' : q \in Waiting /\ q # r /\ q \in Requests
    BY <1>2 DEF ProcessStep, Waiting
  <2>3. \A q \in Waiting' : q \notin executed' /\ ~Answered(q)'
    BY <1>0, <1>1, <1>4, <2>2 DEF Unanswered, Progress
  <2>4. \A q \in unfinished : ~Answered(q)'
    BY <1>0, <1>2, <1>3, <1>4 DEF Unanswered, Typed
  <2>5. UNCHANGED responses => ~Answered(r)'
    BY <1>3 DEF Answered, AnsweredAt
  <2>6. \A q \in unfinished' : ~Answered(q)'
    BY <2>4, <2>5 DEF ProcessStep
  <2>. QED  BY <2>1, <2>3, <2>6 DEF Unanswered
<1>7. ASSUME Orderly' PROVE Serving'
  <2>0. Orderly /\ OwnResponses /\ (\A q \in Requests : output[q] \in {0, from[q]})
        /\ \A q \in Owed \ (oneway \cup unfinished \cup unwritten) : AnsweredAt(q, from[q])
    BY <1>7 DEF SameServer, Processing, Serving
  <2>1. k = from[r]
    BY <2>0 DEF ProcessStep
  <2>2. OwnResponses'
    BY <1>0, <1>1, <1>2, <1>3, <2>0, <2>1, AnswersOwn
  <2>3. \A q \in Requests : output'[q] \in {0, from'[q]}
    BY <1>0, <1>1, <1>2, <2>0, <2>1 DEF Typed
  <2>4. ASSUME NEW q \in Owed' \ (oneway' \cup unfinished' \cup unwritten')
        PROVE  AnsweredAt(q, from[q])'
    <3>1. CASE q = r
      BY <1>1, <2>0, <2>1, <2>4, <3>1 DEF ProcessStep
    <3>2. CASE q # r
      <4>1. q \in Owed /\ q \notin oneway \cup unfinished \cup unwritten
        BY <1>1, <2>4, <3>2 DEF ProcessStep, Progress
      <4>2. q \in 1..sent /\ from[q] \in 1..Limit
        BY <1>0, <1>2, <4>1 DEF Owed, Typed
      <4>3. AnsweredAt(q, from[q])
        BY <2>0, <4>1
      <4>. HIDE DEF AnsweredAt
      <4>4. \A l \in 1..Limit : AnsweredAt(q, l) => AnsweredAt(q, l)'
        BY <1>0, <1>1, <1>2, <1>3, StaysAnswered
      <4>. QED  BY <1>1, <4>2, <4>3, <4>4 DEF AnsweredAt
    <3>. QED  BY <3>1, <3>2
  <2>. QED  BY <2>2, <2>3, <2>4 DEF Serving
<1>. QED  BY <1>4, <1>5, <1>6, <1>7 DEF Processing, Serving

(* so had the call that the service completes.                             *)
LEMMA CompleteKeeps ==
    ASSUME Processing, SameServer, NEW r, CompleteStep(r)
    PROVE  Processing'
<1>. DEFINE k == output[r]
<1>0. Typed /\ AnsweredOnce /\ Unanswered /\ sent \in Nat /\ Limit' = Limit
  BY DEF Processing, Typed, SameServer, Limit
<1>1. /\ UNCHANGED <<sent, from, oneway, output, executed>>
      /\ Progress(r, k) /\ Answers(r, k)
      /\ r \in unfinished /\ unfinished' = unfinished \ {r}
  BY DEF CompleteStep, Progress
<1>2. r \in 1..sent /\ r \in Requests /\ 1..sent \subseteq Requests /\ k \in 0..Limit
  BY <1>0, <1>1, ServersAssumption DEF Typed, Requests
<1>3. ~Answered(r) /\ r \notin Waiting
  BY <1>0, <1>1 DEF Unanswered, Typed
<1>4. /\ responses' \in [1..Limit -> Seq(Framed!Responses)] /\ AnsweredOnce'
      /\ \A q \in Requests : Answered(q)' => Answered(q) \/ q = r
  BY <1>0, <1>1, <1>2, <1>3, AnswersOnce
<1>5. Typed'
  <2>1. unwritten' \subseteq 1..sent' /\ unfinished' \subseteq executed'
    BY <1>0, <1>1, <1>2 DEF Typed, Progress
  <2>. QED  BY <1>0, <1>1, <1>4, <2>1 DEF Typed
<1>6. Unanswered'
  <2>1. \A q \in Waiting : q \in Requests
    BY <1>2 DEF Waiting
  <2>2. \A q \in unfinished : q \in Requests
    BY <1>0, <1>2 DEF Typed
  <2>. QED  BY <1>0, <1>1, <1>2, <1>3, <1>4, <2>1, <2>2 DEF Unanswered, CompleteStep
<1>7. ASSUME Orderly' PROVE Serving'
  <2>0. Orderly /\ OwnResponses /\ (\A q \in Requests : output[q] \in {0, from[q]})
        /\ \A q \in Owed \ (oneway \cup unfinished \cup unwritten) : AnsweredAt(q, from[q])
    BY <1>7 DEF SameServer, Processing, Serving
  <2>1. k \in 1..Limit => from[r] = k
    BY <1>2, <2>0
  <2>2. OwnResponses'
    BY <1>0, <1>1, <1>2, <1>3, <2>0, <2>1, AnswersOwn
  <2>3. \A q \in Requests : output'[q] \in {0, from'[q]}
    BY <1>1, <2>0
  <2>4. ASSUME NEW q \in Owed' \ (oneway' \cup unfinished' \cup unwritten')
        PROVE  AnsweredAt(q, from[q])'
    <3>1. CASE q = r
      BY <1>1, <2>0, <2>4, <3>1 DEF CompleteStep
    <3>2. CASE q # r
      <4>1. q \in Owed /\ q \notin oneway \cup unfinished \cup unwritten
        BY <1>1, <2>4, <3>2 DEF CompleteStep, Progress
      <4>2. q \in 1..sent /\ from[q] \in 1..Limit
        BY <1>0, <1>2, <4>1 DEF Owed, Typed
      <4>3. AnsweredAt(q, from[q])
        BY <2>0, <4>1
      <4>4. \A l \in 1..Limit : AnsweredAt(q, l) => AnsweredAt(q, l)'
        BY <1>0, <1>1, <1>2, <1>3, StaysAnswered
      <4>. QED  BY <1>1, <4>2, <4>3, <4>4 DEF AnsweredAt
    <3>. QED  BY <3>1, <3>2
  <2>. QED  BY <2>2, <2>3, <2>4 DEF Serving
<1>. QED  BY <1>4, <1>5, <1>6, <1>7 DEF Processing, Serving
------------------------------------------------------------------------------
Processor == INSTANCE ServerProcessor

(* The servers process requests in the same way.                           *)
LEMMA OneProcessor ==
    ASSUME NEW r, NEW k, NEW open
    PROVE  /\ Framed!ProcessReturns(r, k, open) <=> Processor!ProcessReturns(r, k, open)
           /\ WebSocket!ProcessReturns(r, k, open) <=> Processor!ProcessReturns(r, k, open)
           /\ Http!ProcessReturns(r, k, open) <=> Processor!ProcessReturns(r, k, open)
           /\ Bus!ProcessReturns(r, k, open) <=> Processor!ProcessReturns(r, k, open)
           /\ Framed!ProcessThrows(r) <=> Processor!ProcessThrows(r)
           /\ WebSocket!ProcessThrows(r) <=> Processor!ProcessThrows(r)
           /\ Http!ProcessThrows(r) <=> Processor!ProcessThrows(r)
           /\ Bus!ProcessThrows(r) <=> Processor!ProcessThrows(r)
           /\ Framed!Complete(r, open) <=> Processor!Complete(r, open)
           /\ WebSocket!Complete(r, open) <=> Processor!Complete(r, open)
           /\ Http!Complete(r, open) <=> Processor!Complete(r, open)
           /\ Bus!Complete(r, open) <=> Processor!Complete(r, open)
<1>1. /\ Framed!ProcessReturns(r, k, open) <=> Processor!ProcessReturns(r, k, open)
      /\ WebSocket!ProcessReturns(r, k, open) <=> Processor!ProcessReturns(r, k, open)
      /\ Http!ProcessReturns(r, k, open) <=> Processor!ProcessReturns(r, k, open)
      /\ Bus!ProcessReturns(r, k, open) <=> Processor!ProcessReturns(r, k, open)
  BY DEF Framed!ProcessReturns, Framed!Unprocessable, Framed!ProcessSync, Framed!ProcessAsync,
         Framed!Respond, WebSocket!ProcessReturns, WebSocket!Unprocessable,
         WebSocket!ProcessSync, WebSocket!ProcessAsync, WebSocket!Respond,
         Http!ProcessReturns, Http!Unprocessable, Http!ProcessSync, Http!ProcessAsync,
         Http!Respond, Bus!ProcessReturns, Bus!Unprocessable, Bus!ProcessSync,
         Bus!ProcessAsync, Bus!Respond, Processor!ProcessReturns, Processor!Unprocessable,
         Processor!ProcessSync, Processor!ProcessAsync, Processor!Respond
<1>2. /\ Framed!ProcessThrows(r) <=> Processor!ProcessThrows(r)
      /\ WebSocket!ProcessThrows(r) <=> Processor!ProcessThrows(r)
      /\ Http!ProcessThrows(r) <=> Processor!ProcessThrows(r)
      /\ Bus!ProcessThrows(r) <=> Processor!ProcessThrows(r)
  BY DEF Framed!ProcessThrows, WebSocket!ProcessThrows, Http!ProcessThrows,
         Bus!ProcessThrows, Processor!ProcessThrows
<1>3. /\ Framed!Complete(r, open) <=> Processor!Complete(r, open)
      /\ WebSocket!Complete(r, open) <=> Processor!Complete(r, open)
      /\ Http!Complete(r, open) <=> Processor!Complete(r, open)
      /\ Bus!Complete(r, open) <=> Processor!Complete(r, open)
  BY DEF Framed!Complete, Framed!ResultHandler, Framed!Respond, WebSocket!Complete,
         WebSocket!ResultHandler, WebSocket!Respond, Http!Complete, Http!ResultHandler,
         Http!Respond, Bus!Complete, Bus!ResultHandler, Bus!Respond, Processor!Complete,
         Processor!ResultHandler, Processor!Respond
<1>. QED  BY <1>1, <1>2, <1>3

(* flush answers the request on the connection of the transport, if that   *)
(* is open, or nobody.                                                     *)
LEMMA RespondFacts ==
    ASSUME Typed, NEW r \in Requests, NEW kind \in Kinds, NEW k, NEW open \in SUBSET (1..Limit),
           Processor!Respond(r, kind, k, open)
    PROVE  Answers(r, k) /\ (k \in open => AnsweredAt(r, k)')
<1>0. DOMAIN responses = 1..Limit
  BY DEF Typed
<1>1. CASE k \in open
  <2>. DEFINE new == [req |-> r, kind |-> kind]
  <2>1. new \in Framed!Responses /\ responses[k] \in Seq(Framed!Responses)
    BY <1>1 DEF Typed, Framed!Responses, Framed!Requests, Requests, Kinds
  <2>2. responses' = [responses EXCEPT ![k] = Append(@, new)]
    BY <1>1 DEF Processor!Respond
  <2>3. responses'[k] = Append(responses[k], new)
    BY <1>0, <1>1, <2>2
  <2>4. /\ Len(responses[k]) + 1 \in DOMAIN Append(responses[k], new)
        /\ Append(responses[k], new)[Len(responses[k]) + 1] = new
    BY <2>1, AppendProperties
  <2>5. AnsweredAt(r, k)'
    BY <2>3, <2>4 DEF AnsweredAt
  <2>. QED  BY <1>0, <1>1, <2>2, <2>5 DEF Answers
<1>2. CASE k \notin open
  BY <1>2 DEF Processor!Respond, Answers
<1>. QED  BY <1>1, <1>2

(* process() answers the request, or gives it to an asynchronous service   *)
(* that will.                                                              *)
LEMMA ReturnsFacts ==
    ASSUME Typed, NEW r \in Requests, NEW k, NEW open \in SUBSET (1..Limit),
           Processor!ProcessReturns(r, k, open)
    PROVE  /\ Progress(r, k)
           /\ \/ UNCHANGED unfinished
              \/ unfinished' = unfinished \cup {r} /\ r \in executed' /\ UNCHANGED responses
           /\ k \in open => r \in oneway \cup unfinished' \/ AnsweredAt(r, k)'
<1>. HIDE DEF AnsweredAt
<1>1. \A kind \in Kinds :
        Processor!Respond(r, kind, k, open) => Answers(r, k) /\ (k \in open => AnsweredAt(r, k)')
  BY RespondFacts
<1>2. CASE Processor!Unprocessable(r, k, open)
  BY <1>1, <1>2 DEF Processor!Unprocessable, Progress, Kinds
<1>3. CASE Processor!ProcessSync(r, k, open)
  BY <1>1, <1>3 DEF Processor!ProcessSync, Progress, Answers, Kinds
<1>4. CASE Processor!ProcessAsync(r)
  BY <1>4 DEF Processor!ProcessAsync, Progress, Answers
<1>. QED  BY <1>2, <1>3, <1>4 DEF Processor!ProcessReturns

(* When process() throws, nobody was answered so far.                      *)
LEMMA ThrowsFacts ==
    ASSUME NEW r, Processor!ProcessThrows(r)
    PROVE  /\ executed \subseteq executed' /\ executed' \subseteq executed \cup {r}
           /\ unwritten \subseteq unwritten' /\ unwritten' \subseteq unwritten \cup {r}
           /\ r \in executed' => r \in executed \cup unwritten'
           /\ UNCHANGED unfinished
BY DEF Processor!ProcessThrows

(* A completed call is answered where the transport of its request writes; *)
(* it is not completed again.                                              *)
LEMMA CompleteFacts ==
    ASSUME Typed, NEW r \in Requests, NEW k, k = output[r], NEW open \in SUBSET (1..Limit),
           Processor!Complete(r, open)
    PROVE  /\ Progress(r, k)
           /\ r \in unfinished /\ unfinished' = unfinished \ {r}
           /\ UNCHANGED <<sent, from, oneway, output, executed>>
           /\ k \in {0} \cup open => r \in oneway \cup unwritten' \/ AnsweredAt(r, k)'
<1>1. \A kind \in Kinds :
        Processor!Respond(r, kind, k, open) => Answers(r, k) /\ (k \in open => AnsweredAt(r, k)')
  BY RespondFacts
<1>. QED  BY <1>1 DEF Processor!Complete, Processor!ResultHandler, Progress, Answers, Kinds
------------------------------------------------------------------------------
(* Facts about sequences: concatenation is associative,                    *)
LEMMA PiecesAssociative ==
    \A s, t, u \in Seq(Framed!Pieces) : (s \o t) \o u = s \o (t \o u)
BY ConcatAssociative

(* dropping two elements of its first sequence drops two elements of it,   *)
LEMMA ConcatRest ==
    ASSUME NEW S, NEW b \in Seq(S), NEW c \in Seq(S), NEW u \in Seq(S),
           Len(b) >= 2, Len(c) = Len(b) - 2, \A i \in 1..Len(c) : c[i] = b[i + 2]
    PROVE  /\ Len(c \o u) = Len(b \o u) - 2
           /\ \A i \in 1..Len(c \o u) : (c \o u)[i] = (b \o u)[i + 2]
<1>1. Len(b) \in Nat /\ Len(c) \in Nat /\ Len(u) \in Nat
  OBVIOUS
<1>2. /\ Len(b \o u) = Len(b) + Len(u)
      /\ \A i \in 1..(Len(b) + Len(u)) :
            (b \o u)[i] = IF i <= Len(b) THEN b[i] ELSE u[i - Len(b)]
  BY ConcatProperties
<1>3. /\ Len(c \o u) = Len(c) + Len(u)
      /\ \A i \in 1..(Len(c) + Len(u)) :
            (c \o u)[i] = IF i <= Len(c) THEN c[i] ELSE u[i - Len(c)]
  BY ConcatProperties
<1>4. ASSUME NEW i \in 1..(Len(c) + Len(u))
      PROVE  (c \o u)[i] = (b \o u)[i + 2]
  <2>1. i + 2 \in 1..(Len(b) + Len(u)) /\ i + 2 - Len(b) = i - Len(c)
    BY <1>1
  <2>2. i <= Len(c) <=> i + 2 <= Len(b)
    BY <1>1
  <2>3. i <= Len(c) => c[i] = b[i + 2]
    BY <1>1
  <2>. QED  BY <1>2, <1>3, <2>1, <2>2, <2>3
<1>5. Len(c \o u) = Len(b \o u) - 2
  BY <1>1, <1>2, <1>3
<1>6. \A i \in 1..Len(c \o u) : (c \o u)[i] = (b \o u)[i + 2]
  BY <1>3, <1>4, Zenon
<1>. QED  BY <1>5, <1>6, Zenon

(* and a sequence is cut in two.                                           *)
LEMMA CutPieces ==
    ASSUME NEW s \in Seq(Framed!Pieces), NEW n \in 1..Len(s)
    PROVE  /\ SubSeq(s, 1, n) \in Seq(Framed!Pieces) /\ Len(SubSeq(s, 1, n)) = n
           /\ \A i \in 1..n : SubSeq(s, 1, n)[i] = s[i] /\ i \in 1..Len(s)
           /\ SubSeq(s, n + 1, Len(s)) \in Seq(Framed!Pieces)
           /\ Len(SubSeq(s, n + 1, Len(s))) = Len(s) - n
           /\ \A i \in 1..(Len(s) - n) :
                SubSeq(s, n + 1, Len(s))[i] = s[i + n] /\ i + n \in (n + 1)..Len(s)
<1>1. Len(s) \in Nat /\ n \in Int /\ n + 1 \in Int /\ \A i \in 1..Len(s) : s[i] \in Framed!Pieces
  OBVIOUS
<1>2. /\ SubSeq(s, 1, n) \in Seq(Framed!Pieces) /\ Len(SubSeq(s, 1, n)) = n
      /\ \A i \in 1..n : SubSeq(s, 1, n)[i] = s[i] /\ i \in 1..Len(s)
  <2>1. \A i \in 1..n : s[i] \in Framed!Pieces /\ i \in 1..Len(s)
    BY <1>1
  <2>. QED  BY <1>1, <2>1, SubSeqProperties
<1>3. /\ SubSeq(s, n + 1, Len(s)) \in Seq(Framed!Pieces)
      /\ Len(SubSeq(s, n + 1, Len(s))) = Len(s) - n
      /\ \A i \in 1..(Len(s) - n) : SubSeq(s, n + 1, Len(s))[i] = s[i + n]
  <2>1. \A i \in (n + 1)..Len(s) : s[i] \in Framed!Pieces
    BY <1>1
  <2>2. /\ SubSeq(s, n + 1, Len(s)) \in Seq(Framed!Pieces)
        /\ Len(SubSeq(s, n + 1, Len(s))) =
              IF n + 1 <= Len(s) THEN Len(s) - (n + 1) + 1 ELSE 0
        /\ \A i \in 1..(Len(s) - (n + 1) + 1) :
              SubSeq(s, n + 1, Len(s))[i] = s[(n + 1) + i - 1]
    BY <1>1, <2>1, SubSeqProperties
  <2>3. /\ Len(s) - (n + 1) + 1 = Len(s) - n
        /\ \A i \in Int : (n + 1) + i - 1 = i + n
        /\ n + 1 <= Len(s) \/ Len(s) - n = 0
    BY <1>1
  <2>4. Len(SubSeq(s, n + 1, Len(s))) = Len(s) - n
    BY <2>2, <2>3
  <2>5. ASSUME NEW i \in 1..(Len(s) - n)
        PROVE  SubSeq(s, n + 1, Len(s))[i] = s[i + n]
    <3>1. i \in 1..(Len(s) - (n + 1) + 1) /\ (n + 1) + i - 1 = i + n
      BY <1>1
    <3>2. SubSeq(s, n + 1, Len(s))[i] = s[(n + 1) + i - 1]
      BY <2>2, <3>1, Zenon
    <3>. QED  BY <3>1, <3>2
  <2>. QED  BY <2>2, <2>4, <2>5, Zenon
<1>4. \A i \in 1..(Len(s) - n) : i + n \in (n + 1)..Len(s)
  BY <1>1
<1>. QED  BY <1>2, <1>3, <1>4, Zenon

(* Pieces move from a connection into the input buffer.                    *)
LEMMA MoveIn ==
    ASSUME Streams, PiecesOnce, PiecesSent, UNCHANGED sent,
           NEW k \in Conns, NEW n \in 1..Len(uplink[k]),
           inputBuffer' = inputBuffer \o SubSeq(uplink[k], 1, n),
           uplink' = [uplink EXCEPT ![k] = SubSeq(@, n + 1, Len(@))]
    PROVE  /\ Streams' /\ PiecesOnce' /\ PiecesSent'
           /\ \A p : InFlight(p)' => InFlight(p)
           /\ Len(inputBuffer') = Len(inputBuffer) + n
           /\ \A i \in 1..Len(inputBuffer) : inputBuffer'[i] = inputBuffer[i]
           /\ inputBuffer' \o uplink'[k] = inputBuffer \o uplink[k]
           /\ \A c \in Conns \ {k} : uplink'[c] = uplink[c]
<1>. DEFINE P == Framed!Pieces
            b == inputBuffer
            u == uplink[k]
            front == SubSeq(u, 1, n)
            rest == SubSeq(u, n + 1, Len(u))
<1>1. b \in Seq(P) /\ u \in Seq(P) /\ Len(u) \in Nat /\ Len(b) \in Nat
  BY DEF Streams
<1>2. \A i \in 1..Len(u) : u[i] \in P
  BY <1>1
<1>3. /\ front \in Seq(P) /\ Len(front) = n
      /\ \A i \in 1..n : front[i] = u[i] /\ i \in 1..Len(u)
  BY <1>1, CutPieces, Zenon
<1>4. /\ rest \in Seq(P) /\ Len(rest) = Len(u) - n
      /\ \A i \in 1..Len(rest) : rest[i] = u[i + n] /\ i + n \in (n + 1)..Len(u)
  BY <1>1, CutPieces, Zenon
<1>5. /\ inputBuffer' \in Seq(P) /\ Len(inputBuffer') = Len(b) + n
      /\ \A i \in 1..(Len(b) + n) :
            inputBuffer'[i] = IF i <= Len(b) THEN b[i] ELSE u[i - Len(b)]
  <2>. HIDE DEF front
  <2>1. /\ b \o front \in Seq(P) /\ Len(b \o front) = Len(b) + n
        /\ \A i \in 1..(Len(b) + n) :
              (b \o front)[i] = IF i <= Len(b) THEN b[i] ELSE front[i - Len(b)]
    BY <1>1, <1>3, ConcatProperties
  <2>2. \A i \in 1..(Len(b) + n) : i > Len(b) => front[i - Len(b)] = u[i - Len(b)]
    <3>1. \A i \in 1..(Len(b) + n) : i > Len(b) => i - Len(b) \in 1..n
      BY <1>1
    <3>. QED  BY <1>3, <3>1
  <2>3. \A i \in 1..(Len(b) + n) : i > Len(b) \/ i <= Len(b)
    BY <1>1
  <2>4. inputBuffer' = b \o front
    BY DEF front
  <2>. QED  BY <2>1, <2>2, <2>3, <2>4
<1>6. uplink'[k] = rest /\ \A c \in Conns \ {k} : uplink'[c] = uplink[c]
  BY DEF Streams
<1>7. Streams'
  BY <1>4, <1>5 DEF Streams
<1>. HIDE DEF front, rest
<1>8. inputBuffer' \o uplink'[k] = b \o u
  <2>0. inputBuffer' = b \o front
    BY DEF front
  <2>1. (b \o front) \o rest = b \o (front \o rest)
    BY <1>1, <1>3, <1>4, PiecesAssociative, Zenon
  <2>2. front \o rest = SubSeq(u, 1, Len(u))
    BY <1>1, ConcatAdjacentSubSeq DEF front, rest
  <2>3. SubSeq(u, 1, Len(u)) = u
    BY <1>1, SubSeqFull
  <2>. QED  BY <1>6, <2>0, <2>1, <2>2, <2>3
<1>9. \A i \in 1..Len(inputBuffer') :
         \/ i \in 1..Len(b) /\ inputBuffer'[i] = b[i]
         \/ i > Len(b) /\ i - Len(b) \in 1..n /\ inputBuffer'[i] = u[i - Len(b)]
  BY <1>1, <1>5
<1>10. \A i \in 1..Len(rest) : i + n \in (n + 1)..Len(u) /\ uplink'[k][i] = u[i + n]
  BY <1>1, <1>4, <1>6
<1>11. \A p : InFlight(p)' => InFlight(p)
  <2>1. ASSUME NEW p, NEW i \in 1..Len(inputBuffer'), inputBuffer'[i] = p
        PROVE  InFlight(p)
    BY <1>1, <1>9, <2>1 DEF InFlight
  <2>2. ASSUME NEW p, NEW c \in Conns, NEW i \in 1..Len(uplink'[c]), uplink'[c][i] = p
        PROVE  InFlight(p)
    <3>1. CASE c = k
      BY <1>1, <1>6, <1>10, <2>2, <3>1 DEF InFlight
    <3>2. CASE c # k
      BY <1>6, <2>2, <3>2 DEF InFlight
    <3>. QED  BY <3>1, <3>2
  <2>. QED  BY <2>1, <2>2 DEF InFlight
<1>12. PiecesSent'
  BY <1>11 DEF PiecesSent
<1>13. PiecesOnce'
  <2>0. /\ \A i, j \in 1..Len(b) : b[i] = b[j] => i = j
        /\ \A i \in 1..Len(b), j \in 1..Len(u) : b[i] # u[j]
        /\ \A i, j \in 1..Len(u) : u[i] = u[j] => i = j
        /\ \A i \in 1..n : i \in 1..Len(u)
    <3>1. \A i, j \in 1..Len(b) : b[i] = b[j] => i = j
      BY DEF PiecesOnce
    <3>2. \A i \in 1..Len(b), j \in 1..Len(u) : b[i] # u[j]
      BY DEF PiecesOnce
    <3>3. \A i, j \in 1..Len(u) : u[i] = u[j] => i = j
      BY DEF PiecesOnce
    <3>. QED  BY <1>3, <3>1, <3>2, <3>3
  <2>1. ASSUME NEW i \in 1..Len(inputBuffer'), NEW j \in 1..Len(inputBuffer'),
               inputBuffer'[i] = inputBuffer'[j]
        PROVE  i = j
    BY <1>1, <1>9, <2>0, <2>1
  <2>2. ASSUME NEW c \in Conns, NEW i \in 1..Len(inputBuffer'), NEW j \in 1..Len(uplink'[c])
        PROVE  inputBuffer'[i] # uplink'[c][j]
    <3>1. CASE c = k
      <4>1. j + n \in 1..Len(u) /\ j + n \notin 1..n /\ uplink'[c][j] = u[j + n]
        BY <1>1, <1>6, <1>10, <2>2, <3>1
      <4>2. CASE i \in 1..Len(b) /\ inputBuffer'[i] = b[i]
        BY <2>0, <4>1, <4>2
      <4>3. CASE i - Len(b) \in 1..n /\ inputBuffer'[i] = u[i - Len(b)]
        BY <2>0, <4>1, <4>3
      <4>. QED  BY <1>9, <4>2, <4>3
    <3>2. CASE c # k
      <4>1. j \in 1..Len(uplink[c]) /\ uplink'[c][j] = uplink[c][j]
        BY <1>6, <3>2
      <4>2. CASE i \in 1..Len(b) /\ inputBuffer'[i] = b[i]
        BY <4>1, <4>2 DEF PiecesOnce
      <4>3. CASE i - Len(b) \in 1..n /\ inputBuffer'[i] = u[i - Len(b)]
        BY <2>0, <3>2, <4>1, <4>3 DEF PiecesOnce
      <4>. QED  BY <1>9, <4>2, <4>3
    <3>. QED  BY <3>1, <3>2
  <2>3. ASSUME NEW c \in Conns, NEW d \in Conns,
               NEW i \in 1..Len(uplink'[c]), NEW j \in 1..Len(uplink'[d]),
               uplink'[c][i] = uplink'[d][j]
        PROVE  c = d /\ i = j
    <3>1. \E p \in 1..Len(uplink[c]) : uplink'[c][i] = uplink[c][p] /\ p = IF c = k THEN i + n ELSE i
      <4>1. CASE c = k
        BY <1>1, <1>6, <1>10, <2>3, <4>1
      <4>2. CASE c # k
        BY <1>6, <2>3, <4>2
      <4>. QED  BY <4>1, <4>2
    <3>2. \E p \in 1..Len(uplink[d]) : uplink'[d][j] = uplink[d][p] /\ p = IF d = k THEN j + n ELSE j
      <4>1. CASE d = k
        BY <1>1, <1>6, <1>10, <2>3, <4>1
      <4>2. CASE d # k
        BY <1>6, <2>3, <4>2
      <4>. QED  BY <4>1, <4>2
    <3>3. PICK p \in 1..Len(uplink[c]) :
            uplink'[c][i] = uplink[c][p] /\ p = IF c = k THEN i + n ELSE i
      BY <3>1
    <3>4. PICK q \in 1..Len(uplink[d]) :
            uplink'[d][j] = uplink[d][q] /\ q = IF d = k THEN j + n ELSE j
      BY <3>2
    <3>5. uplink[c][p] = uplink[d][q] => c = d /\ p = q
      BY DEF PiecesOnce
    <3>6. c = d /\ p = q
      BY <2>3, <3>3, <3>4, <3>5, Zenon
    <3>7. \A x, y \in Int : x + n = y + n => x = y
      OBVIOUS
    <3>8. i \in Int /\ j \in Int
      BY <1>1, <1>6, <1>4
    <3>. QED  BY <3>3, <3>4, <3>6, <3>7, <3>8
  <2>. QED  BY <2>1, <2>2, <2>3 DEF PiecesOnce
<1>14. \A i \in 1..Len(b) : inputBuffer'[i] = b[i]
  BY <1>1, <1>5
<1>. QED  BY <1>5, <1>6, <1>7, <1>8, <1>11, <1>12, <1>13, <1>14

(* The first pieces of the input buffer are taken off.                     *)
LEMMA DropFront ==
    ASSUME Streams, PiecesOnce, PiecesSent, UNCHANGED <<sent, uplink>>,
           NEW n \in 1..Len(inputBuffer),
           inputBuffer' = SubSeq(inputBuffer, n + 1, Len(inputBuffer))
    PROVE  /\ Streams' /\ PiecesOnce' /\ PiecesSent'
           /\ \A p : InFlight(p)' => InFlight(p)
           /\ \A i \in 1..n : \A p : p = inputBuffer[i] => ~InFlight(p)'
           /\ Len(inputBuffer') = Len(inputBuffer) - n
           /\ \A i \in 1..Len(inputBuffer') : inputBuffer'[i] = inputBuffer[i + n]
<1>. DEFINE P == Framed!Pieces
            b == inputBuffer
<1>1. b \in Seq(P) /\ Len(b) \in Nat /\ \A i \in 1..Len(b) : b[i] \in P
  BY DEF Streams
<1>2. /\ inputBuffer' \in Seq(P) /\ Len(inputBuffer') = Len(b) - n
      /\ \A i \in 1..Len(inputBuffer') : inputBuffer'[i] = b[i + n] /\ i + n \in (n + 1)..Len(b)
  <2>. DEFINE rest == SubSeq(b, n + 1, Len(b))
  <2>1. /\ rest \in Seq(P) /\ Len(rest) = Len(b) - n
        /\ \A i \in 1..Len(rest) : rest[i] = b[i + n] /\ i + n \in (n + 1)..Len(b)
    BY <1>1, CutPieces, Zenon
  <2>2. inputBuffer' = rest
    OBVIOUS
  <2>. HIDE DEF rest
  <2>. QED  BY <2>1, <2>2, Zenon
<1>3. Streams'
  BY <1>2 DEF Streams
<1>4. \A p : InFlight(p)' => InFlight(p)
  BY <1>1, <1>2 DEF InFlight
<1>5. PiecesSent'
  BY <1>4 DEF PiecesSent
<1>6. PiecesOnce'
  <2>1. ASSUME NEW i \in 1..Len(inputBuffer'), NEW j \in 1..Len(inputBuffer'),
               inputBuffer'[i] = inputBuffer'[j]
        PROVE  i = j
    <3>1. i + n \in 1..Len(b) /\ j + n \in 1..Len(b) /\ b[i + n] = b[j + n]
      BY <1>1, <1>2, <2>1
    <3>2. i + n = j + n
      BY <3>1 DEF PiecesOnce
    <3>. QED  BY <1>2, <3>2
  <2>2. ASSUME NEW c \in Conns, NEW i \in 1..Len(inputBuffer'), NEW j \in 1..Len(uplink[c])
        PROVE  inputBuffer'[i] # uplink[c][j]
    <3>1. i + n \in 1..Len(b) /\ inputBuffer'[i] = b[i + n]
      BY <1>1, <1>2, <2>2
    <3>. QED  BY <3>1 DEF PiecesOnce
  <2>. QED  BY <2>1, <2>2 DEF PiecesOnce
<1>7. ASSUME NEW i \in 1..n, InFlight(b[i])
      PROVE  ~\E j \in 1..Len(inputBuffer') : inputBuffer'[j] = b[i]
  BY <1>1, <1>2 DEF PiecesOnce
<1>8. ASSUME NEW i \in 1..n, NEW p, p = inputBuffer[i], InFlight(p)'
      PROVE  FALSE
  <2>1. ~\E c \in Conns : \E j \in 1..Len(uplink[c]) : uplink[c][j] = b[i]
    BY <1>1 DEF PiecesOnce
  <2>2. ~\E j \in 1..Len(inputBuffer') : inputBuffer'[j] = b[i]
    BY <1>1, <1>2 DEF PiecesOnce
  <2>. QED  BY <1>8, <2>1, <2>2 DEF InFlight
<1>. QED  BY <1>2, <1>3, <1>4, <1>5, <1>6, <1>8

(* A connection is gone, and the input buffer is reset.                    *)
LEMMA ClearAll ==
    ASSUME Streams, PiecesOnce, PiecesSent, UNCHANGED sent, NEW k \in Conns,
           inputBuffer' = <<>>, uplink' = [uplink EXCEPT ![k] = <<>>]
    PROVE  /\ Streams' /\ PiecesOnce' /\ PiecesSent'
           /\ \A p : InFlight(p)' => InFlight(p)
           /\ uplink'[k] = <<>> /\ \A c \in Conns \ {k} : uplink'[c] = uplink[c]
<1>1. uplink'[k] = <<>> /\ \A c \in Conns \ {k} : uplink'[c] = uplink[c]
  BY DEF Streams
<1>2. Len(<<>>) = 0 /\ <<>> \in Seq(Framed!Pieces)
  OBVIOUS
<1>3. Streams'
  BY <1>2 DEF Streams
<1>4. \A p : InFlight(p)' => InFlight(p)
  BY <1>1, <1>2 DEF InFlight
<1>5. PiecesSent'
  BY <1>4 DEF PiecesSent
<1>6. PiecesOnce'
  BY <1>1, <1>2 DEF PiecesOnce
<1>. QED  BY <1>1, <1>3, <1>4, <1>5, <1>6

(* A client sends a request.                                               *)
LEMMA Enter ==
    ASSUME Streams, PiecesOnce, PiecesSent, sent \in Nat, UNCHANGED inputBuffer,
           NEW r, r = sent + 1, sent' = r, r \in Requests, NEW k \in Conns,
           uplink' = [uplink EXCEPT ![k] = @ \o <<Piece(r, 1), Piece(r, 2)>>]
    PROVE  /\ Streams' /\ PiecesOnce' /\ PiecesSent'
           /\ \A p : InFlight(p)' => InFlight(p) \/ p \in {Piece(r, 1), Piece(r, 2)}
           /\ uplink'[k] = uplink[k] \o <<Piece(r, 1), Piece(r, 2)>>
           /\ \A c \in Conns \ {k} : uplink'[c] = uplink[c]
<1>. DEFINE P == Framed!Pieces
            u == uplink[k]
            new == <<Piece(r, 1), Piece(r, 2)>>
<1>1. uplink'[k] = u \o new /\ \A c \in Conns \ {k} : uplink'[c] = uplink[c]
  BY DEF Streams
<1>2. /\ new \in Seq(P) /\ Len(new) = 2 /\ u \in Seq(P) /\ Len(u) \in Nat
      /\ \A i \in 1..2 : new[i] = Piece(r, i)
  <2>1. Piece(r, 1) \in P /\ Piece(r, 2) \in P
    BY DEF Piece, Framed!Pieces, Framed!Requests, Requests
  <2>2. \A i \in 1..2 : i = 1 \/ i = 2
    OBVIOUS
  <2>3. new \in Seq(P) /\ Len(new) = 2 /\ new[1] = Piece(r, 1) /\ new[2] = Piece(r, 2)
    BY <2>1
  <2>4. u \in Seq(P) /\ Len(u) \in Nat
    BY DEF Streams
  <2>. QED  BY <2>2, <2>3, <2>4
<1>3. /\ uplink'[k] \in Seq(P) /\ Len(uplink'[k]) = Len(u) + 2
      /\ \A i \in 1..(Len(u) + 2) :
            uplink'[k][i] = IF i <= Len(u) THEN u[i] ELSE new[i - Len(u)]
  BY <1>1, <1>2, ConcatProperties
<1>. HIDE DEF new
<1>4. \A i \in 1..Len(uplink'[k]) :
        \/ i \in 1..Len(u) /\ uplink'[k][i] = u[i]
        \/ i > Len(u) /\ i - Len(u) \in 1..2 /\ uplink'[k][i] = Piece(r, i - Len(u))
  BY <1>2, <1>3
<1>5. Streams'
  BY <1>3 DEF Streams
<1>6. \A p : InFlight(p) => p \in P
  BY DEF InFlight, Streams
<1>7. \A i : ~InFlight(Piece(r, i))
  BY <1>6 DEF PiecesSent, Piece
<1>8. ASSUME NEW p, InFlight(p)'
      PROVE  InFlight(p) \/ p \in {Piece(r, 1), Piece(r, 2)}
  <2>1. ASSUME NEW c \in Conns, NEW i \in 1..Len(uplink'[c]), uplink'[c][i] = p
        PROVE  InFlight(p) \/ p \in {Piece(r, 1), Piece(r, 2)}
    <3>1. CASE c = k
      <4>1. \A j \in 1..2 : j = 1 \/ j = 2
        OBVIOUS
      <4>. QED  BY <1>4, <2>1, <3>1, <4>1 DEF InFlight
    <3>2. CASE c # k
      BY <1>1, <2>1, <3>2 DEF InFlight
    <3>. QED  BY <3>1, <3>2
  <2>. QED  BY <1>8, <2>1 DEF InFlight
<1>9. PiecesSent'
  <2>1. Piece(r, 1).req = r /\ Piece(r, 2).req = r
    BY DEF Piece
  <2>. QED  BY <1>8, <2>1 DEF PiecesSent
<1>10. PiecesOnce'
  <2>0. \A i, j \in 1..Len(inputBuffer') : inputBuffer'[i] = inputBuffer'[j] => i = j
    BY DEF PiecesOnce
  <2>1. \A c \in Conns : \A i \in 1..Len(inputBuffer'), j \in 1..Len(uplink'[c]) :
            inputBuffer'[i] # uplink'[c][j]
    BY <1>1, <1>4, <1>7 DEF PiecesOnce, InFlight
  <2>2. ASSUME NEW c \in Conns, NEW d \in Conns,
               NEW i \in 1..Len(uplink'[c]), NEW j \in 1..Len(uplink'[d]),
               uplink'[c][i] = uplink'[d][j]
        PROVE  c = d /\ i = j
    <3>1. \/ i \in 1..Len(uplink[c]) /\ uplink'[c][i] = uplink[c][i]
          \/ c = k /\ i - Len(u) \in 1..2 /\ uplink'[c][i] = Piece(r, i - Len(u))
      BY <1>1, <1>4, <2>2
    <3>2. \/ j \in 1..Len(uplink[d]) /\ uplink'[d][j] = uplink[d][j]
          \/ d = k /\ j - Len(u) \in 1..2 /\ uplink'[d][j] = Piece(r, j - Len(u))
      BY <1>1, <1>4, <2>2
    <3>3. \A x, y : Piece(r, x) = Piece(r, y) => x = y
      BY DEF Piece
    <3>4. \A e \in Conns : \A x, y : x \in 1..Len(uplink[e]) => uplink[e][x] # Piece(r, y)
      BY <1>7 DEF InFlight
    <3>5. CASE i \in 1..Len(uplink[c]) /\ uplink'[c][i] = uplink[c][i]
      <4>1. j \in 1..Len(uplink[d]) /\ uplink'[d][j] = uplink[d][j]
        BY <2>2, <3>2, <3>4, <3>5
      <4>. QED  BY <2>2, <3>5, <4>1 DEF PiecesOnce
    <3>6. CASE c = k /\ uplink'[c][i] = Piece(r, i - Len(u))
      <4>1. d = k /\ uplink'[d][j] = Piece(r, j - Len(u))
        BY <2>2, <3>2, <3>4, <3>6
      <4>2. i - Len(u) = j - Len(u)
        BY <2>2, <3>3, <3>6, <4>1
      <4>. QED  BY <1>2, <1>3, <2>2, <3>6, <4>1, <4>2
    <3>. QED  BY <3>1, <3>5, <3>6
  <2>. QED  BY <2>0, <2>1, <2>2 DEF PiecesOnce
<1>. QED  BY <1>1, <1>5, <1>8, <1>9, <1>10 DEF new
------------------------------------------------------------------------------
(* The input of an open connection as a whole.                             *)
LEMMA WholeFacts ==
    ASSUME Streams, NEW k \in Conns
    PROVE  /\ inputBuffer \o uplink[k] \in Seq(Framed!Pieces)
           /\ Len(inputBuffer \o uplink[k]) = Len(inputBuffer) + Len(uplink[k])
           /\ Len(inputBuffer) \in Nat /\ Len(uplink[k]) \in Nat
           /\ \A i \in 1..Len(inputBuffer) : (inputBuffer \o uplink[k])[i] = inputBuffer[i]
           /\ \A i \in 1..Len(uplink[k]) :
                (inputBuffer \o uplink[k])[Len(inputBuffer) + i] = uplink[k][i]
           /\ \A i \in 1..Len(inputBuffer \o uplink[k]) :
                (inputBuffer \o uplink[k])[i].part \in {1, 2}
<1>1. inputBuffer \in Seq(Framed!Pieces) /\ uplink[k] \in Seq(Framed!Pieces)
  BY DEF Streams
<1>2. Len(inputBuffer) \in Nat /\ Len(uplink[k]) \in Nat
  BY <1>1
<1>3. /\ inputBuffer \o uplink[k] \in Seq(Framed!Pieces)
      /\ Len(inputBuffer \o uplink[k]) = Len(inputBuffer) + Len(uplink[k])
      /\ \A i \in 1..(Len(inputBuffer) + Len(uplink[k])) : (inputBuffer \o uplink[k])[i] =
            IF i <= Len(inputBuffer) THEN inputBuffer[i] ELSE uplink[k][i - Len(inputBuffer)]
  BY <1>1, ConcatProperties
<1>4. \A p \in Framed!Pieces : p.part \in {1, 2}
  BY DEF Framed!Pieces
<1>5. \A i \in 1..Len(inputBuffer \o uplink[k]) : (inputBuffer \o uplink[k])[i].part \in {1, 2}
  BY <1>3, <1>4
<1>6. \A i \in 1..Len(inputBuffer) : (inputBuffer \o uplink[k])[i] = inputBuffer[i]
  BY <1>2, <1>3
<1>7. \A i \in 1..Len(uplink[k]) :
        (inputBuffer \o uplink[k])[Len(inputBuffer) + i] = uplink[k][i]
  BY <1>2, <1>3
<1>. QED  BY <1>2, <1>3, <1>5, <1>6, <1>7

(* What is in it is found in the buffer or on its way.                     *)
LEMMA InWhole ==
    ASSUME Streams, NEW k \in Conns, NEW i \in 1..Len(inputBuffer \o uplink[k])
    PROVE  /\ (inputBuffer \o uplink[k])[i] \in Framed!Pieces
           /\ InFlight((inputBuffer \o uplink[k])[i])
<1>. DEFINE w == inputBuffer \o uplink[k]
<1>1. w \in Seq(Framed!Pieces) /\ Len(w) = Len(inputBuffer) + Len(uplink[k])
  BY WholeFacts
<1>2. CASE i <= Len(inputBuffer)
  BY <1>1, <1>2, WholeFacts DEF InFlight
<1>3. CASE i > Len(inputBuffer)
  <2>1. i - Len(inputBuffer) \in 1..Len(uplink[k]) /\ Len(inputBuffer) + (i - Len(inputBuffer)) = i
    BY <1>1, <1>3, WholeFacts
  <2>2. w[i] = uplink[k][i - Len(inputBuffer)]
    BY <2>1, WholeFacts
  <2>. QED  BY <1>1, <2>1, <2>2 DEF InFlight
<1>. QED  BY <1>1, <1>2, <1>3, WholeFacts

(* Whole requests start with the first piece of one, are whole requests    *)
(* after it is taken off, and when another one is put behind them.         *)
LEMMA WholeHead ==
    ASSUME NEW w \in Seq(Framed!Pieces), NEW k, NEW f, WholeRequests(w, k, f), Len(w) >= 1
    PROVE  /\ w[1].part = 1 /\ Len(w) >= 2 /\ w[2] = Piece(w[1].req, 2)
           /\ w[1] = Piece(w[1].req, 1) /\ f[w[1].req] = k
<1>1. Len(w) \in Nat /\ w[1] \in Framed!Pieces
  OBVIOUS
<1>2. w[1].part \in {1, 2} /\ w[1] = Piece(w[1].req, w[1].part)
  BY <1>1 DEF Framed!Pieces, Piece
<1>. QED  BY <1>1, <1>2 DEF WholeRequests

(* What is left without the first request is whole,                        *)
LEMMA WholeRest ==
    ASSUME NEW w \in Seq(Framed!Pieces), NEW k, NEW f, WholeRequests(w, k, f), Len(w) >= 2,
           NEW v, Len(v) = Len(w) - 2, \A i \in 1..Len(v) : v[i] = w[i + 2]
    PROVE  WholeRequests(v, k, f)
<1>0. Len(w) \in Nat /\ Len(w) >= 1
  OBVIOUS
<1>1. w[2] = Piece(w[1].req, 2)
  BY <1>0, WholeHead
<1>2. \A q, i : Piece(q, i).part = i
  BY DEF Piece
<1>3. ASSUME NEW i \in 1..Len(v)
      PROVE  /\ f[v[i].req] = k
             /\ v[i].part = 1 => i < Len(v) /\ v[i + 1] = Piece(v[i].req, 2)
             /\ v[i].part = 2 => i > 1 /\ v[i - 1] = Piece(v[i].req, 1)
  <2>1. i + 2 \in 1..Len(w) /\ v[i] = w[i + 2]
    BY <1>0
  <2>2. f[v[i].req] = k
    BY <2>1 DEF WholeRequests
  <2>3. ASSUME v[i].part = 1
        PROVE  i < Len(v) /\ v[i + 1] = Piece(v[i].req, 2)
    <3>1. i + 2 < Len(w) /\ w[(i + 2) + 1] = Piece(v[i].req, 2)
      BY <2>1, <2>3 DEF WholeRequests
    <3>2. i < Len(v) /\ i + 1 \in 1..Len(v) /\ (i + 2) + 1 = (i + 1) + 2
      BY <1>0, <3>1
    <3>3. v[i + 1] = w[(i + 1) + 2]
      BY <3>2
    <3>. QED  BY <3>1, <3>2, <3>3
  <2>4. ASSUME v[i].part = 2
        PROVE  i > 1 /\ v[i - 1] = Piece(v[i].req, 1)
    <3>1. w[i + 1] = Piece(v[i].req, 1)
      BY <2>1, <2>4 DEF WholeRequests
    <3>2. i # 1
      BY <1>1, <1>2, <3>1
    <3>. QED  BY <1>0, <3>1, <3>2
  <2>. QED  BY <2>2, <2>3, <2>4
<1>. QED  BY <1>3 DEF WholeRequests

(* also when the request is taken off the buffer.                          *)
LEMMA WholeTail ==
    ASSUME NEW b \in Seq(Framed!Pieces), NEW c \in Seq(Framed!Pieces),
           NEW u \in Seq(Framed!Pieces), NEW k, NEW f, WholeRequests(b \o u, k, f),
           Len(b) >= 2, Len(c) = Len(b) - 2, \A i \in 1..Len(c) : c[i] = b[i + 2]
    PROVE  WholeRequests(c \o u, k, f)
<1>1. Len(b) \in Nat /\ Len(u) \in Nat
  OBVIOUS
<1>2. b \o u \in Seq(Framed!Pieces) /\ Len(b \o u) = Len(b) + Len(u)
  BY ConcatProperties
<1>3. /\ Len(c \o u) = Len(b \o u) - 2
      /\ \A i \in 1..Len(c \o u) : (c \o u)[i] = (b \o u)[i + 2]
  BY ConcatRest, ZenonT(30)
<1>4. Len(b \o u) >= 2
  BY <1>1, <1>2
<1>. QED  BY <1>2, <1>3, <1>4, WholeRest, Zenon

(* A request is put behind the others.                                     *)
LEMMA WholeMore ==
    ASSUME NEW w \in Seq(Framed!Pieces), NEW k, NEW f, WholeRequests(w, k, f),
           NEW g, \A i \in 1..Len(w) : g[w[i].req] = f[w[i].req],
           NEW r \in Requests, g[r] = k
    PROVE  WholeRequests(w \o <<Piece(r, 1), Piece(r, 2)>>, k, g)
<1>. DEFINE new == <<Piece(r, 1), Piece(r, 2)>>
            v == w \o new
<1>1. /\ new \in Seq(Framed!Pieces) /\ Len(new) = 2
      /\ new[1] = Piece(r, 1) /\ new[2] = Piece(r, 2)
  <2>1. Piece(r, 1) \in Framed!Pieces /\ Piece(r, 2) \in Framed!Pieces
    BY DEF Piece, Framed!Pieces, Framed!Requests, Requests
  <2>. QED  BY <2>1
<1>2. Len(w) \in Nat /\ \A i \in 1..Len(w) : w[i].part \in {1, 2}
  <2>1. \A i \in 1..Len(w) : w[i] \in Framed!Pieces
    OBVIOUS
  <2>. QED  BY <2>1 DEF Framed!Pieces
<1>. HIDE DEF new
<1>3. /\ Len(v) = Len(w) + Len(new)
      /\ \A i \in 1..(Len(w) + Len(new)) :
            v[i] = IF i <= Len(w) THEN w[i] ELSE new[i - Len(w)]
  BY <1>1, ConcatProperties
<1>. HIDE DEF v
<1>4. /\ \A i \in 1..Len(w) : v[i] = w[i]
      /\ v[Len(w) + 1] = Piece(r, 1) /\ v[Len(w) + 2] = Piece(r, 2)
  BY <1>1, <1>2, <1>3
<1>5. \A q, i : Piece(q, i).part = i /\ Piece(q, i).req = q
  BY DEF Piece
<1>6. \A i \in 1..Len(v) : i \in 1..Len(w) \/ i = Len(w) + 1 \/ i = Len(w) + 2
  BY <1>1, <1>2, <1>3
<1>7. \A i \in 1..Len(w) : /\ i < Len(w) => i + 1 \in 1..Len(w)
                           /\ i > 1 => i - 1 \in 1..Len(w)
  BY <1>2
<1>8. ASSUME NEW i \in 1..Len(w)
      PROVE  /\ g[v[i].req] = k
             /\ v[i].part = 1 => i < Len(v) /\ v[i + 1] = Piece(v[i].req, 2)
             /\ v[i].part = 2 => i > 1 /\ v[i - 1] = Piece(v[i].req, 1)
  <2>1. /\ f[w[i].req] = k
        /\ w[i].part = 1 => i < Len(w) /\ w[i + 1] = Piece(w[i].req, 2)
        /\ w[i].part = 2 => i > 1 /\ w[i - 1] = Piece(w[i].req, 1)
    BY DEF WholeRequests
  <2>2. /\ v[i] = w[i] /\ g[w[i].req] = f[w[i].req]
        /\ i < Len(w) => v[i + 1] = w[i + 1]
        /\ i > 1 => v[i - 1] = w[i - 1]
    BY <1>4, <1>7
  <2>3. i < Len(w) => i < Len(v)
    BY <1>1, <1>2, <1>3
  <2>. QED  BY <2>1, <2>2, <2>3
<1>9. WholeRequests(v, k, g)
  BY <1>1, <1>2, <1>3, <1>4, <1>5, <1>6, <1>8 DEF WholeRequests
<1>. QED  BY <1>9 DEF v, new

------------------------------------------------------------------------------
(* A client connects.  Without an overlap, there is nothing left of an     *)
(* earlier one.                                                            *)
LEMMA StreamAccept ==
    ASSUME StreamInv, NEW k \in Conns, NEW state \in {"open", "closed"}, conn[k] = "none",
           NEW field, ~overlapped => OneClient(field),
           conn' = [conn EXCEPT ![k] = state],
           overlapped' = (overlapped \/ \E c \in Conns : conn[c] = "open"),
           UNCHANGED <<sent, from, output, uplink, inputBuffer, current, mangled>>
    PROVE  /\ StreamInv'
           /\ ~overlapped' => ~overlapped /\ OneClient(k)' /\ inputBuffer = <<>>
           /\ \A p : InFlight(p)' => InFlight(p)
<1>1. conn'[k] = state /\ \A c \in Conns \ {k} : conn'[c] = conn[c]
  BY DEF StreamInv
<1>2. StreamInv'
  <2>1. conn' \in [Conns -> {"none", "open", "closed"}] /\ overlapped' \in BOOLEAN
    BY DEF StreamInv
  <2>2. Streams' /\ PiecesOnce'
    BY DEF StreamInv, Streams, PiecesOnce
  <2>3. PiecesSent'
    BY DEF StreamInv, PiecesSent, InFlight
  <2>. QED  BY <2>1, <2>2, <2>3 DEF StreamInv
<1>3. ASSUME ~overlapped'
      PROVE  ~overlapped /\ OneClient(k)' /\ inputBuffer = <<>>
  <2>1. ~overlapped /\ \A c \in Conns : conn[c] # "open"
    BY <1>3
  <2>2. mangled = {} /\ inputBuffer = <<>> /\ \A c \in Conns : uplink[c] = <<>>
    BY <2>1 DEF OneClient
  <2>3. inputBuffer \o uplink[k] = <<>> /\ Len(<<>>) = 0
    BY <2>2
  <2>4. WholeRequests(inputBuffer' \o uplink'[k], k, from')
    BY <2>3 DEF WholeRequests
  <2>. QED  BY <1>1, <2>1, <2>2, <2>4 DEF OneClient
<1>4. \A p : InFlight(p)' => InFlight(p)
  BY DEF InFlight
<1>. QED  BY <1>2, <1>3, <1>4

(* A client sends a request.                                               *)
LEMMA StreamSend ==
    ASSUME Typed, StreamInv, NEW k \in Conns, conn[k] = "open",
           NEW field, ~overlapped => OneClient(field),
           sent' = sent + 1, sent' \in Requests, from' = [from EXCEPT ![sent'] = k],
           uplink' = [uplink EXCEPT ![k] = @ \o <<Piece(sent', 1), Piece(sent', 2)>>],
           UNCHANGED <<output, conn, overlapped, inputBuffer, current, mangled>>
    PROVE  /\ StreamInv'
           /\ ~overlapped' => OneClient(field)'
           /\ \A p : InFlight(p)' => InFlight(p) \/ p \in {Piece(sent', 1), Piece(sent', 2)}
<1>. DEFINE r == sent + 1
            w == inputBuffer \o uplink[k]
            new == <<Piece(r, 1), Piece(r, 2)>>
<1>0. Streams /\ PiecesOnce /\ PiecesSent /\ sent \in Nat
  BY DEF StreamInv, Typed
<1>1. /\ Streams' /\ PiecesOnce' /\ PiecesSent'
      /\ \A p : InFlight(p)' => InFlight(p) \/ p \in {Piece(r, 1), Piece(r, 2)}
      /\ uplink'[k] = uplink[k] \o new
      /\ \A c \in Conns \ {k} : uplink'[c] = uplink[c]
  BY <1>0, Enter
<1>2. StreamInv'
  BY <1>0, <1>1 DEF StreamInv
<1>3. ASSUME ~overlapped, NEW c \in Conns, conn[c] = "open"
      PROVE  field = c /\ WholeRequests(inputBuffer' \o uplink'[c], c, from')
  <2>1. field = c /\ c = k /\ WholeRequests(w, k, from)
    BY <1>3 DEF OneClient
  <2>2. w \in Seq(Framed!Pieces)
    BY <1>0, WholeFacts
  <2>3. ASSUME NEW i \in 1..Len(w)
        PROVE  from'[w[i].req] = from[w[i].req]
    <3>1. w[i] \in Framed!Pieces /\ InFlight(w[i])
      BY <1>0, InWhole
    <3>2. w[i].req \in 1..sent
      BY <1>0, <3>1 DEF PiecesSent
    <3>3. \A q \in 1..sent : from'[q] = from[q]
      BY <1>0, ServersAssumption DEF Typed, Requests
    <3>. QED  BY <3>2, <3>3
  <2>4. inputBuffer' \o uplink'[k] = w \o new
    <3>1. new \in Seq(Framed!Pieces)
      <4>1. Piece(r, 1) \in Framed!Pieces /\ Piece(r, 2) \in Framed!Pieces
        BY DEF Piece, Framed!Pieces, Framed!Requests, Requests
      <4>. QED  BY <4>1
    <3>2. inputBuffer \in Seq(Framed!Pieces) /\ uplink[k] \in Seq(Framed!Pieces)
      BY <1>0 DEF Streams
    <3>3. (inputBuffer \o uplink[k]) \o new = inputBuffer \o (uplink[k] \o new)
      BY <3>1, <3>2, PiecesAssociative, Zenon
    <3>4. inputBuffer' = inputBuffer /\ uplink'[k] = uplink[k] \o new
      BY <1>1
    <3>. QED  BY <3>3, <3>4, Zenon
  <2>5. from'[r] = k /\ r \in Requests
    BY DEF Typed
  <2>. HIDE DEF w, r
  <2>6. WholeRequests(w \o new, k, from')
    BY <2>1, <2>2, <2>3, <2>5, WholeMore
  <2>. QED  BY <2>1, <2>4, <2>6, Zenon
<1>4. ~overlapped' => OneClient(field)'
  BY <1>1, <1>3 DEF OneClient
<1>. QED  BY <1>1, <1>2, <1>4

(* A piece, or several, arrives.                                           *)
LEMMA StreamMove ==
    ASSUME StreamInv, NEW k \in Conns, conn[k] = "open", NEW n \in 1..Len(uplink[k]),
           NEW field, ~overlapped => OneClient(field),
           inputBuffer' = inputBuffer \o SubSeq(uplink[k], 1, n),
           uplink' = [uplink EXCEPT ![k] = SubSeq(@, n + 1, Len(@))],
           UNCHANGED <<sent, from, conn, overlapped>>
    PROVE  /\ Streams' /\ PiecesOnce' /\ PiecesSent'
           /\ ~overlapped' /\ mangled' = {} => OneClient(field)'
           /\ \A p : InFlight(p)' => InFlight(p)
           /\ Len(inputBuffer') = Len(inputBuffer) + n
           /\ \A i \in 1..Len(inputBuffer) : inputBuffer'[i] = inputBuffer[i]
<1>1. /\ Streams' /\ PiecesOnce' /\ PiecesSent'
      /\ \A p : InFlight(p)' => InFlight(p)
      /\ Len(inputBuffer') = Len(inputBuffer) + n
      /\ \A i \in 1..Len(inputBuffer) : inputBuffer'[i] = inputBuffer[i]
      /\ inputBuffer' \o uplink'[k] = inputBuffer \o uplink[k]
      /\ \A c \in Conns \ {k} : uplink'[c] = uplink[c]
  BY MoveIn DEF StreamInv
<1>2. ASSUME ~overlapped', mangled' = {}
      PROVE  OneClient(field)'
  <2>1. OneClient(field) /\ field = k /\ \A c \in Conns : conn[c] = "open" => c = k
    BY <1>2 DEF OneClient
  <2>2. WholeRequests(inputBuffer \o uplink[k], k, from) /\ from' = from
    BY <2>1 DEF OneClient
  <2>3. WholeRequests(inputBuffer' \o uplink'[k], k, from')
    BY <1>1, <2>2, Zenon
  <2>. QED  BY <1>1, <1>2, <2>1, <2>3 DEF OneClient
<1>. QED  BY <1>1, <1>2

(* A connection is gone.                                                   *)
LEMMA StreamClose ==
    ASSUME StreamInv, NEW k \in Conns, conn[k] = "open",
           NEW field, ~overlapped => OneClient(field),
           conn' = [conn EXCEPT ![k] = "closed"],
           uplink' = [uplink EXCEPT ![k] = <<>>], inputBuffer' = <<>>,
           UNCHANGED <<sent, from, output, overlapped, current, mangled>>
    PROVE  /\ StreamInv'
           /\ ~overlapped' => OneClient(field)'
           /\ \A p : InFlight(p)' => InFlight(p)
<1>1. /\ Streams' /\ PiecesOnce' /\ PiecesSent'
      /\ \A p : InFlight(p)' => InFlight(p)
      /\ uplink'[k] = <<>> /\ \A c \in Conns \ {k} : uplink'[c] = uplink[c]
  BY ClearAll DEF StreamInv
<1>2. conn'[k] = "closed" /\ \A c \in Conns \ {k} : conn'[c] = conn[c]
  BY DEF StreamInv
<1>3. StreamInv'
  <2>1. conn' \in [Conns -> {"none", "open", "closed"}]
    BY DEF StreamInv
  <2>. QED  BY <1>1, <2>1 DEF StreamInv
<1>4. ASSUME ~overlapped'
      PROVE  OneClient(field)'
  <2>1. mangled = {} /\ \A c \in Conns : conn'[c] # "open" /\ uplink'[c] = <<>>
    BY <1>1, <1>2, <1>4 DEF OneClient
  <2>. QED  BY <2>1 DEF OneClient
<1>. QED  BY <1>1, <1>3, <1>4

(* The first n pieces of the buffer are taken off: those of one request.   *)
LEMMA StreamTake ==
    ASSUME StreamInv, NEW n \in 1..Len(inputBuffer),
           inputBuffer' = SubSeq(inputBuffer, n + 1, Len(inputBuffer)),
           NEW field, ~overlapped => OneClient(field) /\ n = 2,
           UNCHANGED <<sent, from, conn, overlapped, uplink, mangled>>
    PROVE  /\ Streams' /\ PiecesOnce' /\ PiecesSent'
           /\ ~overlapped' => OneClient(field)'
           /\ \A p : InFlight(p)' => InFlight(p)
           /\ \A i \in 1..n : \A p : p = inputBuffer[i] => ~InFlight(p)'
           /\ Len(inputBuffer') = Len(inputBuffer) - n
<1>1. /\ Streams' /\ PiecesOnce' /\ PiecesSent'
      /\ \A p : InFlight(p)' => InFlight(p)
      /\ \A i \in 1..n : \A p : p = inputBuffer[i] => ~InFlight(p)'
      /\ Len(inputBuffer') = Len(inputBuffer) - n
      /\ \A i \in 1..Len(inputBuffer') : inputBuffer'[i] = inputBuffer[i + n]
  BY DropFront DEF StreamInv
<1>2. ASSUME ~overlapped, NEW k \in Conns, conn[k] = "open"
      PROVE  field = k /\ WholeRequests(inputBuffer' \o uplink'[k], k, from')
  <2>. DEFINE w == inputBuffer \o uplink[k]
              v == inputBuffer' \o uplink[k]
  <2>1. field = k /\ WholeRequests(w, k, from) /\ n = 2
    BY <1>2 DEF OneClient
  <2>2. /\ w \in Seq(Framed!Pieces) /\ Len(w) = Len(inputBuffer) + Len(uplink[k])
        /\ Len(inputBuffer) \in Nat /\ Len(uplink[k]) \in Nat
    BY WholeFacts DEF StreamInv
  <2>3. /\ inputBuffer \in Seq(Framed!Pieces) /\ inputBuffer' \in Seq(Framed!Pieces)
        /\ uplink[k] \in Seq(Framed!Pieces)
    BY <1>1 DEF StreamInv, Streams
  <2>4. /\ Len(inputBuffer) >= 2 /\ Len(inputBuffer') = Len(inputBuffer) - 2
        /\ \A i \in 1..Len(inputBuffer') : inputBuffer'[i] = inputBuffer[i + 2]
    BY <1>1, <2>1, <2>2
  <2>5. WholeRequests(v, k, from)
    BY <2>1, <2>3, <2>4, WholeTail, Zenon
  <2>6. uplink'[k] = uplink[k] /\ from' = from
    OBVIOUS
  <2>. QED  BY <2>1, <2>5, <2>6, Zenon
<1>3. (\A k \in Conns : conn[k] # "open") /\ ~overlapped => FALSE
  BY DEF OneClient
<1>4. ~overlapped' => OneClient(field)'
  BY <1>2, <1>3 DEF OneClient
<1>. QED  BY <1>1, <1>4
------------------------------------------------------------------------------
(* A step that moves no pieces.                                            *)
LEMMA StreamSame ==
    ASSUME StreamInv, UNCHANGED <<sent, uplink, inputBuffer>>
    PROVE  Streams' /\ PiecesOnce' /\ PiecesSent' /\ \A p : InFlight(p)' => InFlight(p)
<1>1. Streams' /\ PiecesOnce'
  BY DEF StreamInv, Streams, PiecesOnce
<1>2. \A p : InFlight(p)' => InFlight(p)
  BY DEF InFlight
<1>3. PiecesSent'
  BY <1>2 DEF StreamInv, PiecesSent
<1>. QED  BY <1>1, <1>2, <1>3

(* TCP and WebSockets: a step that processes nothing.                      *)
LEMMA StreamRest ==
    ASSUME Typed, server \in {"framed", "websocket"}, UNCHANGED server,
           UNCHANGED <<sent, from, oneway, executed, unfinished, unwritten, responses>>,
           output' \in [Requests -> 0..Limit], \A r \in Requests : output'[r] \in {0, output[r]},
           \A p : InFlight(p)' => InFlight(p),
           \/ UNCHANGED current
           \/ \A r : r = current => ~InFlight(Piece(r, 1))'
    PROVE  RestStep
<1>1. Waiting' \subseteq Waiting
  <2>1. ASSUME NEW r \in Waiting'
        PROVE  r \in 1..sent /\ InFlight(Piece(r, 1))' /\ r # current
    BY DEF Waiting
  <2>. QED  BY <2>1 DEF Waiting
<1>2. Owed' \subseteq Owed
  BY DEF Owed
<1>. QED  BY <1>1, <1>2 DEF RestStep

(* A request is sent over TCP or a WebSocket.                              *)
LEMMA StreamSends ==
    ASSUME Typed, server \in {"framed", "websocket"}, UNCHANGED server, NEW k \in Conns,
           sent' = sent + 1, sent' \in Requests, from' = [from EXCEPT ![sent'] = k],
           oneway' \in {oneway, oneway \cup {sent'}},
           UNCHANGED <<output, executed, unfinished, unwritten, responses, current>>,
           \A p : InFlight(p)' => InFlight(p) \/ p \in {Piece(sent', 1), Piece(sent', 2)}
    PROVE  SendStep(k)
<1>1. sent \in Nat /\ 1..sent' = 1..sent \cup {sent'} /\ Limit = MaxConns
  BY DEF Typed, Limit
<1>2. Waiting' \subseteq Waiting \cup {sent'}
  <2>1. ASSUME NEW r \in Waiting', r # sent'
        PROVE  r \in 1..sent /\ InFlight(Piece(r, 1))' /\ r # current
    BY <1>1, <2>1 DEF Waiting
  <2>2. \A r : Piece(r, 1) \in {Piece(sent', 1), Piece(sent', 2)} => r = sent'
    BY DEF Piece
  <2>3. ASSUME NEW r \in Waiting', r # sent'
        PROVE  r \in Waiting
    BY <2>1, <2>2, <2>3 DEF Waiting
  <2>. QED  BY <2>3
<1>3. Owed' \subseteq Owed
  BY DEF Owed
<1>. QED  BY <1>1, <1>2, <1>3 DEF SendStep, Conns

------------------------------------------------------------------------------
(* The actions of the server over TCP.                                     *)
LEMMA FramedAccepts ==
    ASSUME server = "framed", UNCHANGED server, Processing, FramedInv,
           NEW k \in Conns, Framed!Accept(k)
    PROVE  Processing' /\ FramedInv'
<1>1. /\ reading = FALSE /\ conn[k] = "none" /\ conn' = [conn EXCEPT ![k] = "open"]
      /\ overlapped' = (overlapped \/ \E c \in Conns : conn[c] = "open") /\ socket' = k
      /\ UNCHANGED <<sent, from, oneway, output, executed, unfinished, unwritten, responses>>
      /\ UNCHANGED <<uplink, inputBuffer, reading, current, mangled>>
  BY DEF Framed!Accept, Framed!Idle, Framed!OpenConns, Framed!Conns, Conns, Framed!processVars,
         FramedInv
<1>2. /\ StreamInv'
      /\ ~overlapped' => ~overlapped /\ OneClient(k)' /\ inputBuffer = <<>>
      /\ \A p : InFlight(p)' => InFlight(p)
  BY <1>1, StreamAccept DEF FramedInv
<1>3. OneClient(k)' => OneClient(socket)'
  BY <1>1 DEF OneClient
<1>4. FramedInv'
  BY <1>1, <1>2, <1>3 DEF FramedInv, Conns
<1>5. RestStep
  BY <1>1, <1>2, StreamRest DEF Processing, Typed
<1>6. SameServer
  BY <1>1 DEF SameServer, Orderly
<1>. QED  BY <1>4, <1>5, <1>6, RestKeeps

(* A client of the TCP server sends a request.                             *)
LEMMA FramedSends ==
    ASSUME server = "framed", UNCHANGED server, Processing, FramedInv,
           NEW k \in Conns, NEW isOneway \in BOOLEAN, Framed!Send(k, isOneway)
    PROVE  Processing' /\ FramedInv'
<1>1. /\ conn[k] = "open" /\ sent' = sent + 1 /\ sent' \in Requests
      /\ from' = [from EXCEPT ![sent'] = k] /\ oneway' \in {oneway, oneway \cup {sent'}}
      /\ uplink' = [uplink EXCEPT ![k] = @ \o <<Piece(sent', 1), Piece(sent', 2)>>]
      /\ UNCHANGED <<output, executed, unfinished, unwritten, responses>>
      /\ UNCHANGED <<conn, overlapped, socket, inputBuffer, reading, current, mangled>>
  BY DEF Framed!Send, Framed!Requests, Requests, Piece
<1>2. /\ StreamInv' /\ (~overlapped' => OneClient(socket)')
      /\ \A p : InFlight(p)' => InFlight(p) \/ p \in {Piece(sent', 1), Piece(sent', 2)}
  <2>1. PICK field : field = socket
    OBVIOUS
  <2>2. /\ StreamInv' /\ (~overlapped' => OneClient(field)')
        /\ \A p : InFlight(p)' => InFlight(p) \/ p \in {Piece(sent', 1), Piece(sent', 2)}
    BY <1>1, <2>1, StreamSend DEF FramedInv, Processing
  <2>. QED  BY <1>1, <2>1, <2>2 DEF OneClient
<1>3. FramedInv'
  BY <1>1, <1>2 DEF FramedInv
<1>4. SendStep(k) /\ SameServer
  BY <1>1, <1>2, StreamSends DEF Processing, SameServer, Orderly
<1>. QED  BY <1>3, <1>4, SendKeeps

(* A chunk of the stream arrives.                                          *)
LEMMA FramedReads ==
    ASSUME server = "framed", UNCHANGED server, Processing, FramedInv,
           NEW k \in Conns, NEW n, Framed!HandleData(k, n)
    PROVE  Processing' /\ FramedInv'
<1>1. /\ reading = FALSE /\ conn[k] = "open" /\ n \in 1..Len(uplink[k])
      /\ inputBuffer' = inputBuffer \o SubSeq(uplink[k], 1, n)
      /\ uplink' = [uplink EXCEPT ![k] = SubSeq(@, n + 1, Len(@))]
      /\ reading' = TRUE
      /\ UNCHANGED <<sent, from, oneway, output, executed, unfinished, unwritten, responses>>
      /\ UNCHANGED <<conn, overlapped, socket, current, mangled>>
  BY DEF Framed!HandleData, Framed!Idle, Framed!processVars, FramedInv
<1>2. /\ Streams' /\ PiecesOnce' /\ PiecesSent'
      /\ ~overlapped' => OneClient(socket)'
      /\ \A p : InFlight(p)' => InFlight(p)
  <2>1. PICK field : field = socket
    OBVIOUS
  <2>2. /\ Streams' /\ PiecesOnce' /\ PiecesSent'
        /\ ~overlapped' /\ mangled' = {} => OneClient(field)'
        /\ \A p : InFlight(p)' => InFlight(p)
    BY <1>1, <2>1, StreamMove DEF FramedInv
  <2>3. ~overlapped' => mangled' = {}
    BY <1>1 DEF FramedInv, OneClient
  <2>. QED  BY <1>1, <2>1, <2>2, <2>3 DEF OneClient
<1>3. FramedInv'
  <2>1. StreamInv'
    BY <1>1, <1>2 DEF FramedInv, StreamInv
  <2>2. current = 0
    BY <1>1 DEF FramedInv
  <2>. QED  BY <1>1, <1>2, <2>1, <2>2 DEF FramedInv
<1>4. RestStep /\ SameServer
  BY <1>1, <1>2, StreamRest DEF Processing, Typed, SameServer, Orderly
<1>. QED  BY <1>3, <1>4, RestKeeps

(* What is at the head of the buffer, when clients come one by one.        *)
LEMMA SerialHead ==
    ASSUME StreamInv, NEW field, OneClient(field), Len(inputBuffer) >= 1
    PROVE  /\ field \in Conns /\ conn[field] = "open"
           /\ inputBuffer[1] = Piece(inputBuffer[1].req, 1)
           /\ from[inputBuffer[1].req] = field
           /\ Len(inputBuffer) >= 2 => inputBuffer[2] = Piece(inputBuffer[1].req, 2)
<1>1. PICK k \in Conns : conn[k] = "open"
  BY DEF OneClient, StreamInv, Streams
<1>2. field = k /\ WholeRequests(inputBuffer \o uplink[k], k, from)
  BY <1>1 DEF OneClient
<1>. DEFINE w == inputBuffer \o uplink[k]
<1>3. /\ w \in Seq(Framed!Pieces) /\ Len(w) = Len(inputBuffer) + Len(uplink[k])
      /\ Len(inputBuffer) \in Nat /\ Len(uplink[k]) \in Nat
      /\ \A i \in 1..Len(inputBuffer) : w[i] = inputBuffer[i]
  BY WholeFacts DEF StreamInv
<1>4. Len(w) >= 1 /\ WholeRequests(w, k, from)
  BY <1>2, <1>3
<1>. HIDE DEF w
<1>5. /\ w[2] = Piece(w[1].req, 2)
      /\ w[1] = Piece(w[1].req, 1) /\ from[w[1].req] = k
  BY <1>3, <1>4, WholeHead
<1>. QED  BY <1>1, <1>2, <1>3, <1>5

(* TCP and WebSockets: a request that waits is processed.  Without an      *)
(* overlap the transport writes to its client, whose connection is open.   *)
LEMMA StreamProcesses ==
    ASSUME Processing, server \in {"framed", "websocket"}, UNCHANGED server,
           NEW r \in 1..sent, NEW k \in 0..MaxConns, NEW open \in SUBSET (1..Limit),
           InFlight(Piece(r, 1)), current = 0, current' = r,
           \A q \in Requests : output[q] # 0 => q = current,
           output' = [output EXCEPT ![r] = k], UNCHANGED <<sent, from, oneway, overlapped>>,
           \/ Processor!ProcessReturns(r, k, open)
           \/ Processor!ProcessThrows(r) /\ UNCHANGED responses,
           ~overlapped => k = from[r] /\ k \in open,
           \A p : InFlight(p)' => InFlight(p)
    PROVE  /\ Processing'
           /\ \A q \in Requests : output'[q] # 0 => q = current'
<1>1. Typed /\ Unanswered /\ sent \in 0..MaxRequests /\ Limit = MaxConns /\ Limit' = Limit
  BY DEF Processing, Typed, Limit
<1>2. r \in Requests /\ r \in Waiting /\ k \in 0..Limit
  <2>1. r \in Requests /\ r # 0
    BY <1>1, ServersAssumption DEF Requests
  <2>2. r \in Waiting
    BY <2>1 DEF Waiting
  <2>. QED  BY <1>1, <2>1, <2>2
<1>3. /\ Progress(r, k)
      /\ \/ UNCHANGED unfinished
         \/ unfinished' = unfinished \cup {r} /\ r \in executed' /\ UNCHANGED responses
      /\ k \in open => r \in oneway \cup unfinished' \cup unwritten' \/ r \notin executed'
                          \/ AnsweredAt(r, k)'
  <2>. HIDE DEF AnsweredAt
  <2>1. CASE Processor!ProcessReturns(r, k, open)
    BY <1>1, <1>2, <2>1, ReturnsFacts
  <2>2. CASE Processor!ProcessThrows(r) /\ UNCHANGED responses
    <3>1. r \notin executed
      BY <1>1, <1>2 DEF Unanswered
    <3>2. /\ executed \subseteq executed' /\ executed' \subseteq executed \cup {r}
          /\ unwritten \subseteq unwritten' /\ unwritten' \subseteq unwritten \cup {r}
          /\ r \in executed' => r \in executed \cup unwritten'
          /\ UNCHANGED unfinished
      BY <2>2, ThrowsFacts
    <3>3. Progress(r, k)
      BY <2>2, <3>2 DEF Progress, Answers
    <3>. QED  BY <3>1, <3>2, <3>3
  <2>. QED  BY <2>1, <2>2
<1>4. Waiting' \subseteq Waiting \ {r}
  <2>1. ASSUME NEW q \in Waiting'
        PROVE  q \in 1..sent /\ InFlight(Piece(q, 1))' /\ q # r /\ q # 0
    <3>1. q \in 1..sent' /\ InFlight(Piece(q, 1))' /\ q # current'
      BY DEF Waiting
    <3>. QED  BY <1>1, <3>1
  <2>2. \A q \in Waiting' : InFlight(Piece(q, 1))
    BY <2>1
  <2>. QED  BY <2>1, <2>2 DEF Waiting
<1>5. Owed' \subseteq Owed \cup {r} /\ Owed' = executed'
  BY <1>3 DEF Owed, Progress
<1>6. ProcessStep(r, k)
  <2>1. Orderly => k = from[r] /\ k \in open
    BY DEF Orderly
  <2>. QED  BY <1>2, <1>3, <1>4, <1>5, <2>1 DEF ProcessStep
<1>7. SameServer
  BY DEF SameServer, Orderly
<1>8. \A q \in Requests : output'[q] # 0 => q = current'
  BY <1>1, <1>2, ServersAssumption DEF Typed, Requests
<1>. QED  BY <1>6, <1>7, <1>8, ProcessKeeps

(* The head of the buffer is a request that waits.  With clients one by    *)
(* one the socket is that of its client, and its frame is complete.        *)
LEMMA FramedProcesses ==
    ASSUME server = "framed", UNCHANGED server, Processing, FramedInv, Framed!ProcessFrame
    PROVE  Processing' /\ FramedInv'
<1>0. inputBuffer \in Seq(Framed!Pieces) /\ Len(inputBuffer) \in Nat
  BY DEF FramedInv, StreamInv, Streams
<1>1. PICK r : r = inputBuffer[1].req
  OBVIOUS
<1>2. Len(inputBuffer) >= 2 /\ Head(inputBuffer) = inputBuffer[1] /\ inputBuffer # <<>>
  BY <1>0 DEF Framed!ProcessFrame, Framed!FrameAvailable
<1>3. inputBuffer[1] \in Framed!Pieces /\ inputBuffer[1].part # 2
  BY <1>0, <1>2 DEF Framed!ProcessFrame, Framed!FrameAvailable, Framed!Garbage
<1>4. /\ reading = TRUE /\ current = 0 /\ current' = r
      /\ mangled' = IF inputBuffer[2] = Piece(r, 2) THEN mangled ELSE mangled \cup {r}
      /\ output' = [output EXCEPT ![r] = socket]
      /\ \/ Framed!ProcessReturns(r, socket, Framed!OpenConns)
         \/ Framed!ProcessThrows(r) /\ UNCHANGED responses
      /\ UNCHANGED <<sent, from, oneway, conn, overlapped, uplink, socket, inputBuffer, reading>>
  BY <1>1, <1>2 DEF Framed!ProcessFrame, FramedInv, Piece
<1>5. inputBuffer[1] = Piece(r, 1)
  BY <1>1, <1>3 DEF Framed!Pieces, Piece
<1>6. InFlight(Piece(r, 1)) /\ r \in 1..sent
  <2>1. InFlight(inputBuffer[1])
    BY <1>0, <1>2 DEF InFlight
  <2>. QED  BY <1>1, <1>3, <1>5, <2>1 DEF FramedInv, StreamInv, PiecesSent
<1>7. ~overlapped =>
        /\ socket = from[r] /\ socket \in Framed!OpenConns
        /\ inputBuffer[2] = Piece(r, 2)
  <2>1. PICK field : field = socket
    OBVIOUS
  <2>2. ~overlapped => OneClient(field)
    BY <2>1 DEF FramedInv
  <2>3. Len(inputBuffer) >= 1
    BY <1>0, <1>2
  <2>. QED  BY <1>1, <1>2, <2>1, <2>2, <2>3, SerialHead
         DEF FramedInv, Framed!OpenConns, Framed!Conns, Conns
<1>8. /\ Processing'
      /\ \A q \in Requests : output'[q] # 0 => q = current'
  <2>1. Framed!OpenConns \subseteq 1..Limit
    BY DEF Framed!OpenConns, Framed!Conns, Limit
  <2>2. PICK k, open : k = socket /\ open = Framed!OpenConns
    OBVIOUS
  <2>3. \/ Processor!ProcessReturns(r, k, open)
        \/ Processor!ProcessThrows(r) /\ UNCHANGED responses
    BY <1>4, <2>2, OneProcessor
  <2>4. k \in 0..MaxConns /\ \A q \in Requests : output[q] # 0 => q = current
    BY <2>2 DEF FramedInv, StreamInv
  <2>5. \A p : InFlight(p)' => InFlight(p)
    BY <1>4 DEF InFlight
  <2>6. output' = [output EXCEPT ![r] = k] /\ (~overlapped => k = from[r] /\ k \in open)
    BY <1>4, <1>7, <2>2
  <2>. HIDE DEF Processing
  <2>. QED  BY <1>4, <1>6, <2>1, <2>2, <2>3, <2>4, <2>5, <2>6, StreamProcesses
<1>9. FramedInv'
  <2>1. Streams' /\ PiecesOnce'
    BY <1>4, StreamSame DEF FramedInv
  <2>2. PiecesSent'
    BY <1>4, StreamSame DEF FramedInv
  <2>3. StreamInv'
    BY <1>4, <1>6, <1>8, <2>1, <2>2 DEF FramedInv, StreamInv
  <2>4. ~overlapped' => OneClient(socket)'
    <3>1. ~overlapped => mangled' = mangled
      BY <1>4, <1>7
    <3>. QED  BY <1>4, <3>1 DEF FramedInv, OneClient
  <2>5. r # 0 /\ socket' \in 0..MaxConns /\ reading' = TRUE
    BY <1>4, <1>6 DEF FramedInv
  <2>. QED  BY <1>2, <1>4, <1>5, <2>3, <2>4, <2>5 DEF FramedInv
<1>. QED  BY <1>8, <1>9

(* The frame that was processed is taken off.                              *)
LEMMA FramedDone ==
    ASSUME server = "framed", UNCHANGED server, Processing, FramedInv, Framed!FrameDone
    PROVE  Processing' /\ FramedInv'
<1>1. /\ current # 0 /\ output' = [output EXCEPT ![current] = 0] /\ current' = 0
      /\ inputBuffer' = SubSeq(inputBuffer, 2 + 1, Len(inputBuffer))
      /\ UNCHANGED <<sent, from, oneway, executed, unfinished, unwritten, responses>>
      /\ UNCHANGED <<conn, overlapped, uplink, socket, reading, mangled>>
  BY DEF Framed!FrameDone
<1>2. /\ reading /\ 2 \in 1..Len(inputBuffer) /\ inputBuffer[1] = Piece(current, 1)
      /\ Len(inputBuffer) \in Nat
  BY <1>1 DEF FramedInv, StreamInv, Streams
<1>3. /\ Streams' /\ PiecesOnce' /\ PiecesSent'
      /\ ~overlapped' => OneClient(socket)'
      /\ \A p : InFlight(p)' => InFlight(p)
      /\ \A r : r = current => ~InFlight(Piece(r, 1))'
  <2>1. PICK field : field = socket
    OBVIOUS
  <2>2. PICK n : n = 2
    OBVIOUS
  <2>3. /\ Streams' /\ PiecesOnce' /\ PiecesSent'
        /\ ~overlapped' => OneClient(field)'
        /\ \A p : InFlight(p)' => InFlight(p)
        /\ \A i \in 1..n : \A p : p = inputBuffer[i] => ~InFlight(p)'
    BY <1>1, <1>2, <2>1, <2>2, StreamTake DEF FramedInv
  <2>. QED  BY <1>1, <1>2, <2>1, <2>2, <2>3 DEF OneClient
<1>4. output' \in [Requests -> 0..Limit] /\ \A r \in Requests : output'[r] \in {0, output[r]}
  <2>1. 0 \in 0..Limit
    BY ServersAssumption DEF Limit
  <2>. QED  BY <1>1, <2>1 DEF Processing, Typed
<1>5. RestStep /\ SameServer
  BY <1>1, <1>3, <1>4, StreamRest DEF Processing, SameServer, Orderly
<1>6. FramedInv'
  <2>1. \A q \in Requests : output'[q] # 0 => q = current'
    BY <1>1 DEF FramedInv, StreamInv, Processing, Typed
  <2>2. StreamInv'
    BY <1>1, <1>3, <2>1 DEF FramedInv, StreamInv, Processing, Typed
  <2>. QED  BY <1>1, <1>2, <1>3, <2>2 DEF FramedInv
<1>. QED  BY <1>5, <1>6, RestKeeps
(* Bytes are dropped only where a frame is missing: never in front of a    *)
(* frame that is processed, nor with clients one by one.                   *)
LEMMA FramedDrops ==
    ASSUME server = "framed", UNCHANGED server, Processing, FramedInv,
           NEW n, Framed!DropGarbage(n)
    PROVE  Processing' /\ FramedInv'
<1>0. inputBuffer \in Seq(Framed!Pieces) /\ Len(inputBuffer) \in Nat
  BY DEF FramedInv, StreamInv, Streams
<1>1. /\ inputBuffer # <<>> /\ Head(inputBuffer) = inputBuffer[1] /\ inputBuffer[1].part = 2
      /\ n \in 1..Len(inputBuffer) /\ Len(inputBuffer) >= 1
      /\ inputBuffer' = SubSeq(inputBuffer, n + 1, Len(inputBuffer))
  BY <1>0 DEF Framed!DropGarbage, Framed!Garbage
<1>2. /\ UNCHANGED <<sent, from, oneway, output, executed, unfinished, unwritten, responses>>
      /\ UNCHANGED <<conn, overlapped, uplink, socket, reading, current, mangled>>
  BY DEF Framed!DropGarbage, Framed!processVars
<1>3. \A q : Piece(q, 1).part # 2
  BY DEF Piece
<1>4. overlapped
  <2>1. PICK field : field = socket
    OBVIOUS
  <2>2. ~overlapped => OneClient(field)
    BY <2>1 DEF FramedInv
  <2>3. StreamInv
    BY DEF FramedInv
  <2>4. ~overlapped => inputBuffer[1] = Piece(inputBuffer[1].req, 1)
    BY <1>1, <2>2, <2>3, SerialHead
  <2>5. overlapped \in BOOLEAN
    BY DEF FramedInv, StreamInv
  <2>. QED  BY <1>1, <1>3, <2>4, <2>5
<1>5. current = 0
  BY <1>1, <1>3 DEF FramedInv
<1>6. /\ Streams' /\ PiecesOnce' /\ PiecesSent'
      /\ \A p : InFlight(p)' => InFlight(p)
  <2>1. Streams /\ PiecesOnce /\ PiecesSent
    BY DEF FramedInv, StreamInv
  <2>. QED  BY <1>1, <1>2, <2>1, DropFront
<1>7. RestStep /\ SameServer
  BY <1>2, <1>6, StreamRest DEF Processing, Typed, SameServer, Orderly
<1>8. FramedInv'
  BY <1>2, <1>4, <1>5, <1>6 DEF FramedInv, StreamInv
<1>. QED  BY <1>7, <1>8, RestKeeps

(* With clients one by one, what is left when reading ends is less than a  *)
(* frame.                                                                  *)
LEMMA FramedEnds ==
    ASSUME server = "framed", UNCHANGED server, Processing, FramedInv, Framed!EndRead
    PROVE  Processing' /\ FramedInv'
<1>0. inputBuffer \in Seq(Framed!Pieces) /\ Len(inputBuffer) \in Nat
  BY DEF FramedInv, StreamInv, Streams
<1>1. /\ reading' = FALSE /\ current = 0 /\ ~Framed!FrameAvailable
      /\ UNCHANGED <<sent, from, oneway, output, executed, unfinished, unwritten, responses>>
      /\ UNCHANGED <<conn, overlapped, uplink, socket, inputBuffer, current, mangled>>
  BY DEF Framed!EndRead, Framed!processVars
<1>2. ~overlapped => Len(inputBuffer) <= 1
  <2>1. PICK field : field = socket
    OBVIOUS
  <2>2. ~overlapped => OneClient(field)
    BY <2>1 DEF FramedInv
  <2>3. ~overlapped /\ Len(inputBuffer) >= 1 => inputBuffer[1] = Piece(inputBuffer[1].req, 1)
    BY <2>2, SerialHead DEF FramedInv
  <2>4. ~overlapped /\ Len(inputBuffer) >= 1 => inputBuffer[1].part = 1
    BY <2>3 DEF Piece
  <2>5. Len(inputBuffer) >= 1 => Head(inputBuffer) = inputBuffer[1]
    BY <1>0
  <2>. QED  BY <1>0, <1>1, <2>4, <2>5 DEF Framed!FrameAvailable, Framed!Garbage
<1>3. Streams' /\ PiecesOnce' /\ PiecesSent' /\ \A p : InFlight(p)' => InFlight(p)
  BY <1>1, StreamSame DEF FramedInv
<1>4. RestStep /\ SameServer
  BY <1>1, <1>3, StreamRest DEF Processing, Typed, SameServer, Orderly
<1>5. FramedInv'
  <2>1. StreamInv'
    BY <1>1, <1>3 DEF FramedInv, StreamInv
  <2>2. ~overlapped' => OneClient(socket)'
    BY <1>1 DEF FramedInv, OneClient
  <2>. QED  BY <1>1, <1>2, <2>1, <2>2 DEF FramedInv
<1>. QED  BY <1>4, <1>5, RestKeeps

(* A connection is gone: nothing is read at that moment.                   *)
LEMMA FramedCloses ==
    ASSUME server = "framed", UNCHANGED server, Processing, FramedInv,
           NEW k \in Conns, Framed!HandleClose(k)
    PROVE  Processing' /\ FramedInv'
<1>1. /\ reading = FALSE /\ conn[k] = "open" /\ conn' = [conn EXCEPT ![k] = "closed"]
      /\ uplink' = [uplink EXCEPT ![k] = <<>>] /\ inputBuffer' = <<>>
      /\ UNCHANGED <<sent, from, oneway, output, executed, unfinished, unwritten, responses>>
      /\ UNCHANGED <<overlapped, socket, reading, current, mangled>>
  BY DEF Framed!HandleClose, Framed!Idle, Framed!processVars, FramedInv
<1>2. /\ StreamInv' /\ (~overlapped' => OneClient(socket)')
      /\ \A p : InFlight(p)' => InFlight(p)
  <2>1. PICK field : field = socket
    OBVIOUS
  <2>2. /\ StreamInv' /\ (~overlapped' => OneClient(field)')
        /\ \A p : InFlight(p)' => InFlight(p)
    BY <1>1, <2>1, StreamClose DEF FramedInv
  <2>. QED  BY <1>1, <2>1, <2>2 DEF OneClient
<1>3. current = 0
  BY <1>1 DEF FramedInv
<1>4. FramedInv'
  BY <1>1, <1>2, <1>3 DEF FramedInv
<1>5. RestStep /\ SameServer
  BY <1>1, <1>2, StreamRest DEF Processing, Typed, SameServer, Orderly
<1>. QED  BY <1>4, <1>5, RestKeeps

(* TCP and WebSockets: the service completes a call.  If its transport is  *)
(* still open then process() runs, and with clients one by one the request *)
(* is at the head of the buffer, hence its connection open.                *)
LEMMA StreamCompletes ==
    ASSUME Processing, StreamInv, server \in {"framed", "websocket"}, UNCHANGED server,
           NEW field, ~overlapped => OneClient(field),
           current # 0 => Len(inputBuffer) >= 2 /\ inputBuffer[1] = Piece(current, 1),
           NEW r \in Requests, NEW open, open = {k \in Conns : conn[k] = "open"},
           Processor!Complete(r, open),
           UNCHANGED <<conn, overlapped, uplink, inputBuffer, current, mangled>>
    PROVE  Processing' /\ StreamInv' /\ (~overlapped' => OneClient(field)')
<1>1. Typed /\ Limit = MaxConns /\ open \in SUBSET (1..Limit) /\ Limit' = Limit
  BY DEF Processing, Limit, Conns
<1>2. PICK k : k = output[r]
  OBVIOUS
<1>3. /\ Progress(r, k)
      /\ r \in unfinished /\ unfinished' = unfinished \ {r}
      /\ UNCHANGED <<sent, from, oneway, output, executed>>
      /\ k \in {0} \cup open => r \in oneway \cup unwritten' \/ AnsweredAt(r, k)'
  <2>. HIDE DEF AnsweredAt
  <2>. QED  BY <1>1, <1>2, CompleteFacts
<1>4. ASSUME Orderly PROVE k \in {0, from[r]} /\ k \in {0} \cup open
  <2>1. k \in {0, from[r]} /\ ~overlapped /\ OneClient(field)
    BY <1>2, <1>4 DEF Processing, Serving, Orderly
  <2>2. CASE k # 0
    <3>1. current = r /\ current # 0
      BY <1>2, <2>2, ServersAssumption DEF StreamInv, Requests
    <3>2. Len(inputBuffer) >= 1 /\ inputBuffer[1] = Piece(r, 1)
      BY <3>1 DEF StreamInv, Streams
    <3>3. conn[field] = "open" /\ from[inputBuffer[1].req] = field /\ field \in Conns
      BY <2>1, <3>2, SerialHead
    <3>4. inputBuffer[1].req = r
      BY <3>2 DEF Piece
    <3>. QED  BY <2>1, <3>3, <3>4
  <2>. QED  BY <2>1, <2>2
<1>5. CompleteStep(r)
  <2>1. Waiting' \subseteq Waiting /\ Owed' = Owed
    BY <1>3 DEF Waiting, Owed, InFlight
  <2>2. k = 0 => r \in oneway \cup unwritten'
    BY <1>2 DEF Processor!Complete, Processor!ResultHandler
  <2>3. Orderly => r \in oneway \cup unwritten' \/ AnsweredAt(r, from[r])'
    <3>1. PICK c : c = from[r]
      OBVIOUS
    <3>2. Orderly => r \in oneway \cup unwritten' \/ AnsweredAt(r, c)'
      BY <1>3, <1>4, <2>2, <3>1
    <3>. QED  BY <1>3, <3>1, <3>2 DEF AnsweredAt
  <2>. QED  BY <1>2, <1>3, <2>1, <2>3 DEF CompleteStep
<1>6. SameServer
  BY DEF SameServer, Orderly
<1>7. Streams' /\ PiecesOnce' /\ PiecesSent'
  BY <1>3, StreamSame
<1>8. StreamInv'
  BY <1>3, <1>7 DEF StreamInv
<1>9. ~overlapped' => OneClient(field)'
  BY <1>3 DEF OneClient
<1>. QED  BY <1>5, <1>6, <1>8, <1>9, CompleteKeeps

(* The service completes a call of a TCP client.                           *)
LEMMA FramedCompletes ==
    ASSUME server = "framed", UNCHANGED server, Processing, FramedInv,
           NEW r \in Requests, Framed!ServiceCompletes(r)
    PROVE  Processing' /\ FramedInv'
<1>1. PICK field, open : field = socket /\ open = {k \in Conns : conn[k] = "open"}
  OBVIOUS
<1>2. /\ Processor!Complete(r, open)
      /\ UNCHANGED <<conn, overlapped, uplink, inputBuffer, current, mangled, socket, reading>>
  <2>1. Framed!OpenConns = open
    BY <1>1 DEF Framed!OpenConns, Framed!Conns, Conns
  <2>. QED  BY <2>1, OneProcessor DEF Framed!ServiceCompletes, Framed!serverVars
<1>3. /\ StreamInv /\ (~overlapped => OneClient(field))
      /\ current # 0 => Len(inputBuffer) >= 2 /\ inputBuffer[1] = Piece(current, 1)
  BY <1>1 DEF FramedInv
<1>4. Processing' /\ StreamInv' /\ (~overlapped' => OneClient(field)')
  BY <1>1, <1>2, <1>3, StreamCompletes
<1>5. ~overlapped' => OneClient(socket)'
  BY <1>1, <1>2, <1>4 DEF OneClient
<1>6. FramedInv'
  BY <1>2, <1>4, <1>5 DEF FramedInv
<1>. QED  BY <1>4, <1>6

(* Every step of the server over TCP.                                      *)
LEMMA FramedKeeps ==
    ASSUME server = "framed", UNCHANGED server, Processing, FramedInv, Framed!Next
    PROVE  Processing' /\ FramedInv'
<1>1. ASSUME NEW k \in Conns, Framed!Accept(k) \/ Framed!HandleClose(k)
      PROVE  Processing' /\ FramedInv'
  BY <1>1, FramedAccepts, FramedCloses
<1>2. ASSUME NEW k \in Conns, NEW isOneway \in BOOLEAN, Framed!Send(k, isOneway)
      PROVE  Processing' /\ FramedInv'
  BY <1>2, FramedSends
<1>3. ASSUME NEW k \in Conns, NEW n, Framed!HandleData(k, n)
      PROVE  Processing' /\ FramedInv'
  BY <1>3, FramedReads
<1>4. ASSUME NEW n, Framed!DropGarbage(n)
      PROVE  Processing' /\ FramedInv'
  BY <1>4, FramedDrops
<1>5. ASSUME NEW r \in Requests, Framed!ServiceCompletes(r)
      PROVE  Processing' /\ FramedInv'
  BY <1>5, FramedCompletes
<1>. QED
  BY <1>1, <1>2, <1>3, <1>4, <1>5, FramedProcesses, FramedDone, FramedEnds
     DEF Framed!Next, Framed!Conns, Conns, Framed!Requests, Requests
------------------------------------------------------------------------------
(* The actions of the server over WebSockets.                              *)
LEMMA WebSocketAccepts ==
    ASSUME server = "websocket", UNCHANGED server, Processing, WebSocketInv,
           NEW k \in Conns, NEW state \in {"open", "closed"}, WebSocket!Accept(k, state)
    PROVE  Processing' /\ WebSocketInv'
<1>1. /\ current = 0 /\ conn[k] = "none" /\ conn' = [conn EXCEPT ![k] = state]
      /\ overlapped' = (overlapped \/ \E c \in Conns : conn[c] = "open") /\ websocket' = k
      /\ UNCHANGED <<sent, from, oneway, output, executed, unfinished, unwritten, responses>>
      /\ UNCHANGED <<uplink, inputBuffer, current, mangled>>
  BY DEF WebSocket!Accept, WebSocket!Idle, WebSocket!OpenConns, WebSocket!Conns, Conns,
         WebSocket!processVars
<1>2. /\ StreamInv'
      /\ ~overlapped' => ~overlapped /\ OneClient(k)' /\ inputBuffer = <<>>
      /\ \A p : InFlight(p)' => InFlight(p)
  <2>1. PICK field : field = websocket
    OBVIOUS
  <2>. QED  BY <1>1, <2>1, StreamAccept DEF WebSocketInv
<1>3. OneClient(k)' => OneClient(websocket)'
  BY <1>1 DEF OneClient
<1>4. WebSocketInv'
  BY <1>1, <1>2, <1>3 DEF WebSocketInv, Conns
<1>5. RestStep /\ SameServer
  BY <1>1, <1>2, StreamRest DEF Processing, Typed, SameServer, Orderly
<1>. QED  BY <1>4, <1>5, RestKeeps

(* A client of the WebSocket server sends a message.                       *)
LEMMA WebSocketSends ==
    ASSUME server = "websocket", UNCHANGED server, Processing, WebSocketInv,
           NEW k \in Conns, NEW isOneway \in BOOLEAN, WebSocket!Send(k, isOneway)
    PROVE  Processing' /\ WebSocketInv'
<1>1. /\ conn[k] = "open" /\ sent' = sent + 1 /\ sent' \in Requests
      /\ from' = [from EXCEPT ![sent'] = k] /\ oneway' \in {oneway, oneway \cup {sent'}}
      /\ uplink' = [uplink EXCEPT ![k] = @ \o <<Piece(sent', 1), Piece(sent', 2)>>]
      /\ UNCHANGED <<output, executed, unfinished, unwritten, responses>>
      /\ UNCHANGED <<conn, overlapped, websocket, inputBuffer, current, mangled>>
  BY DEF WebSocket!Send, WebSocket!Requests, Requests, Piece
<1>2. /\ StreamInv' /\ (~overlapped' => OneClient(websocket)')
      /\ \A p : InFlight(p)' => InFlight(p) \/ p \in {Piece(sent', 1), Piece(sent', 2)}
  <2>1. PICK field : field = websocket
    OBVIOUS
  <2>2. /\ StreamInv' /\ (~overlapped' => OneClient(field)')
        /\ \A p : InFlight(p)' => InFlight(p) \/ p \in {Piece(sent', 1), Piece(sent', 2)}
    BY <1>1, <2>1, StreamSend DEF WebSocketInv, Processing
  <2>. QED  BY <1>1, <2>1, <2>2 DEF OneClient
<1>3. WebSocketInv'
  BY <1>1, <1>2 DEF WebSocketInv
<1>4. SendStep(k) /\ SameServer
  BY <1>1, <1>2, StreamSends DEF Processing, SameServer, Orderly
<1>. QED  BY <1>3, <1>4, SendKeeps

(* One frame is taken off a connection.                                    *)
LEMMA TakeOne ==
    ASSUME NEW b \in Seq(Framed!Pieces), NEW u \in Seq(Framed!Pieces), u # <<>>
    PROVE  /\ 1 \in 1..Len(u) /\ Head(u) = u[1] /\ u[1] \in Framed!Pieces
           /\ Tail(u) = SubSeq(u, 1 + 1, Len(u))
           /\ Append(b, Head(u)) = b \o SubSeq(u, 1, 1)
<1>1. Len(u) \in Nat /\ Len(u) >= 1 /\ Head(u) = u[1] /\ u[1] \in Framed!Pieces
  OBVIOUS
<1>2. Tail(u) = SubSeq(u, 2, Len(u))
  OBVIOUS
<1>3. SubSeq(u, 1, 1) = <<u[1]>>
  <2>1. \A i \in 1..1 : u[i] \in Framed!Pieces
    BY <1>1
  <2>2. /\ SubSeq(u, 1, 1) \in Seq(Framed!Pieces) /\ Len(SubSeq(u, 1, 1)) = 1
        /\ SubSeq(u, 1, 1)[1] = u[1]
    BY <1>1, <2>1, SubSeqProperties
  <2>3. \A v \in Seq(Framed!Pieces) : \A x : Len(v) = 1 /\ v[1] = x => v = <<x>>
    OBVIOUS
  <2>. QED  BY <2>2, <2>3, Zenon
<1>4. Append(b, u[1]) = b \o <<u[1]>>
  BY <1>1
<1>. QED  BY <1>1, <1>2, <1>3, <1>4

(* What the next frame is, when clients come one by one.                   *)
LEMMA SerialNext ==
    ASSUME StreamInv, NEW field, OneClient(field), Len(inputBuffer) <= 1,
           NEW k \in Conns, conn[k] = "open", uplink[k] # <<>>
    PROVE  /\ field = k
           /\ uplink[k][1].part = 1 => Len(inputBuffer) = 0
           /\ uplink[k][1].part = 2 =>
                 /\ Len(inputBuffer) = 1
                 /\ inputBuffer[1] = Piece(inputBuffer[1].req, 1)
                 /\ uplink[k][1] = Piece(inputBuffer[1].req, 2)
                 /\ from[inputBuffer[1].req] = k
<1>0. Len(inputBuffer) = 0 \/ Len(inputBuffer) = 1
  <2>1. Len(inputBuffer) \in Nat
    BY DEF StreamInv, Streams
  <2>2. \A n \in Nat : n <= 1 => n = 0 \/ n = 1
    OBVIOUS
  <2>. QED  BY <2>1, <2>2, Zenon
<1>. DEFINE w == inputBuffer \o uplink[k]
<1>1. field = k /\ WholeRequests(w, k, from)
  BY DEF OneClient
<1>2. /\ w \in Seq(Framed!Pieces) /\ Len(w) = Len(inputBuffer) + Len(uplink[k])
      /\ Len(inputBuffer) \in Nat /\ Len(uplink[k]) \in Nat
      /\ \A i \in 1..Len(inputBuffer) : w[i] = inputBuffer[i]
      /\ \A i \in 1..Len(uplink[k]) : w[Len(inputBuffer) + i] = uplink[k][i]
  BY WholeFacts DEF StreamInv
<1>3. Len(uplink[k]) >= 1
  BY DEF StreamInv, Streams
<1>. HIDE DEF w
<1>4. /\ w[2] = Piece(w[1].req, 2)
      /\ w[1] = Piece(w[1].req, 1) /\ from[w[1].req] = k
  BY <1>1, <1>2, <1>3, WholeHead
<1>5. CASE Len(inputBuffer) = 0
  <2>1. uplink[k][1] = w[1]
    BY <1>2, <1>3, <1>5
  <2>. QED  BY <1>1, <1>4, <1>5, <2>1 DEF Piece
<1>6. CASE Len(inputBuffer) = 1
  <2>1. uplink[k][1] = w[2] /\ inputBuffer[1] = w[1]
    BY <1>2, <1>3, <1>6
  <2>. QED  BY <1>1, <1>4, <1>6, <2>1 DEF Piece
<1>. QED  BY <1>0, <1>5, <1>6, Zenon

(* handleFrame appends a frame to the buffer.                              *)
LEMMA WebSocketArrives ==
    ASSUME WebSocketInv, NEW k \in Conns, WebSocket!FrameArrives(k),
           NEW field, field = websocket
    PROVE  /\ Streams' /\ PiecesOnce' /\ PiecesSent'
           /\ ~overlapped' /\ mangled' = {} => OneClient(field)'
           /\ \A p : InFlight(p)' => InFlight(p)
           /\ Len(inputBuffer') = Len(inputBuffer) + 1
           /\ \A i \in 1..Len(inputBuffer) : inputBuffer'[i] = inputBuffer[i]
           /\ inputBuffer'[Len(inputBuffer) + 1] = uplink[k][1]
           /\ Head(uplink[k]) = uplink[k][1] /\ uplink[k][1] \in Framed!Pieces
           /\ InFlight(uplink[k][1])
           /\ current = 0 /\ conn[k] = "open" /\ uplink[k] # <<>>
           /\ UNCHANGED <<sent, from, oneway, conn, overlapped, websocket>>
<1>1. /\ current = 0 /\ conn[k] = "open" /\ uplink[k] # <<>>
      /\ uplink' = [uplink EXCEPT ![k] = Tail(@)]
      /\ inputBuffer' = Append(inputBuffer, Head(uplink[k]))
      /\ UNCHANGED <<sent, from, oneway, conn, overlapped, websocket>>
  BY DEF WebSocket!FrameArrives, WebSocket!Idle
<1>2. /\ inputBuffer \in Seq(Framed!Pieces) /\ uplink[k] \in Seq(Framed!Pieces)
      /\ StreamInv /\ (~overlapped => OneClient(field))
      /\ Len(inputBuffer) \in Nat
  BY DEF WebSocketInv, StreamInv, Streams
<1>3. /\ 1 \in 1..Len(uplink[k]) /\ Head(uplink[k]) = uplink[k][1]
      /\ uplink[k][1] \in Framed!Pieces
      /\ Tail(uplink[k]) = SubSeq(uplink[k], 1 + 1, Len(uplink[k]))
      /\ Append(inputBuffer, Head(uplink[k])) = inputBuffer \o SubSeq(uplink[k], 1, 1)
  BY <1>1, <1>2, TakeOne
<1>4. PICK n : n = 1
  OBVIOUS
<1>5. /\ n \in 1..Len(uplink[k])
      /\ inputBuffer' = inputBuffer \o SubSeq(uplink[k], 1, n)
      /\ uplink' = [uplink EXCEPT ![k] = SubSeq(@, n + 1, Len(@))]
  <2>1. uplink' = [uplink EXCEPT ![k] = Tail(uplink[k])]
    BY <1>1
  <2>2. uplink' = [uplink EXCEPT ![k] = SubSeq(uplink[k], n + 1, Len(uplink[k]))]
    BY <1>3, <1>4, <2>1
  <2>. QED  BY <1>1, <1>3, <1>4, <2>2
<1>6. /\ Streams' /\ PiecesOnce' /\ PiecesSent'
      /\ ~overlapped' /\ mangled' = {} => OneClient(field)'
      /\ \A p : InFlight(p)' => InFlight(p)
      /\ Len(inputBuffer') = Len(inputBuffer) + n
      /\ \A i \in 1..Len(inputBuffer) : inputBuffer'[i] = inputBuffer[i]
  BY <1>1, <1>2, <1>5, StreamMove
<1>7. inputBuffer'[Len(inputBuffer) + 1] = uplink[k][1]
  BY <1>1, <1>2, <1>3
<1>8. InFlight(uplink[k][1])
  BY <1>3 DEF InFlight
<1>. QED  BY <1>1, <1>3, <1>4, <1>6, <1>7, <1>8

(* With clients one by one a first frame comes when nothing is waiting.    *)
LEMMA WebSocketFirst ==
    ASSUME server = "websocket", UNCHANGED server, Processing, WebSocketInv,
           NEW k \in Conns, WebSocket!HandleFirstFrame(k)
    PROVE  Processing' /\ WebSocketInv'
<1>0. PICK field : field = websocket
  OBVIOUS
<1>1. /\ Streams' /\ PiecesOnce' /\ PiecesSent'
      /\ ~overlapped' /\ mangled' = {} => OneClient(field)'
      /\ \A p : InFlight(p)' => InFlight(p)
      /\ Len(inputBuffer') = Len(inputBuffer) + 1
      /\ Head(uplink[k]) = uplink[k][1]
      /\ current = 0 /\ conn[k] = "open" /\ uplink[k] # <<>>
      /\ UNCHANGED <<sent, from, oneway, conn, overlapped, websocket>>
  BY <1>0, WebSocketArrives DEF WebSocket!HandleFirstFrame
<1>2. /\ Head(uplink[k]).part = 1
      /\ UNCHANGED <<output, executed, unfinished, unwritten, responses, current, mangled>>
  BY DEF WebSocket!HandleFirstFrame
<1>3. ~overlapped => OneClient(field) /\ mangled = {} /\ Len(inputBuffer) = 0
  <2>1. ~overlapped => OneClient(field) /\ Len(inputBuffer) <= 1 /\ mangled = {}
    BY <1>0, <1>1 DEF WebSocketInv, OneClient
  <2>. QED  BY <1>1, <1>2, <2>1, SerialNext DEF WebSocketInv
<1>4. RestStep /\ SameServer
  BY <1>1, <1>2, StreamRest DEF Processing, Typed, SameServer, Orderly
<1>5. ~overlapped' => OneClient(websocket)'
  BY <1>0, <1>1, <1>2, <1>3 DEF OneClient
<1>6. WebSocketInv'
  BY <1>1, <1>2, <1>3, <1>5 DEF WebSocketInv, StreamInv
<1>. QED  BY <1>4, <1>6, RestKeeps

(* The message that is processed is that of the first frame in the buffer. *)
(* With clients one by one it consists of two frames of the client of the  *)
(* websocket.                                                              *)
LEMMA WebSocketFinal ==
    ASSUME server = "websocket", UNCHANGED server, Processing, WebSocketInv,
           NEW k \in Conns, WebSocket!HandleFinalFrame(k)
    PROVE  Processing' /\ WebSocketInv'
<1>0. PICK field : field = websocket
  OBVIOUS
<1>1. /\ Streams' /\ PiecesOnce' /\ PiecesSent'
      /\ ~overlapped' /\ mangled' = {} => OneClient(field)'
      /\ \A p : InFlight(p)' => InFlight(p)
      /\ Len(inputBuffer') = Len(inputBuffer) + 1
      /\ \A i \in 1..Len(inputBuffer) : inputBuffer'[i] = inputBuffer[i]
      /\ inputBuffer'[Len(inputBuffer) + 1] = uplink[k][1]
      /\ Head(uplink[k]) = uplink[k][1] /\ uplink[k][1] \in Framed!Pieces
      /\ current = 0 /\ conn[k] = "open" /\ uplink[k] # <<>>
      /\ UNCHANGED <<sent, from, oneway, conn, overlapped, websocket>>
  BY <1>0, WebSocketArrives DEF WebSocket!HandleFinalFrame
<1>2. /\ Len(inputBuffer) \in Nat /\ inputBuffer' \in Seq(Framed!Pieces)
      /\ inputBuffer' # <<>>
  <2>1. Len(inputBuffer) \in Nat /\ inputBuffer' \in Seq(Framed!Pieces)
    BY <1>1 DEF WebSocketInv, StreamInv, Streams
  <2>. QED  BY <1>1, <2>1
<1>3. Head(inputBuffer') = inputBuffer'[1] /\ inputBuffer'[1] \in Framed!Pieces
  BY <1>2
<1>4. PICK r : r = inputBuffer'[1].req
  OBVIOUS
<1>5. /\ uplink[k][1].part = 2 /\ inputBuffer'[1].part = 1 /\ current' = r
      /\ output' = [output EXCEPT ![r] = websocket]
      /\ mangled' = IF inputBuffer' = <<Piece(r, 1), Piece(r, 2)>>
                    THEN mangled ELSE mangled \cup {r}
      /\ \/ WebSocket!ProcessReturns(r, websocket, WebSocket!OpenConns)
         \/ WebSocket!ProcessThrows(r) /\ UNCHANGED responses
  BY <1>1, <1>3, <1>4 DEF WebSocket!HandleFinalFrame, Piece
<1>6. inputBuffer'[1] = Piece(r, 1) /\ Len(inputBuffer) >= 1
  <2>1. inputBuffer'[1] = Piece(r, 1)
    BY <1>3, <1>4, <1>5 DEF Framed!Pieces, Piece
  <2>2. Len(inputBuffer) # 0
    BY <1>1, <1>5
  <2>. QED  BY <1>2, <2>1, <2>2
<1>7. InFlight(Piece(r, 1)) /\ r \in 1..sent
  <2>1. inputBuffer[1] = Piece(r, 1)
    BY <1>1, <1>2, <1>6
  <2>2. InFlight(Piece(r, 1))
    BY <1>2, <1>6, <2>1 DEF InFlight
  <2>3. Piece(r, 1) \in Framed!Pieces /\ Piece(r, 1).req = r
    BY <1>3, <1>6 DEF Piece
  <2>. QED  BY <2>2, <2>3 DEF WebSocketInv, StreamInv, PiecesSent
<1>8. ~overlapped =>
        /\ OneClient(field) /\ mangled' = mangled /\ mangled = {}
        /\ websocket = from[r] /\ websocket \in WebSocket!OpenConns
        /\ Len(inputBuffer') = 2
  <2>1. ~overlapped => OneClient(field) /\ Len(inputBuffer) <= 1 /\ mangled = {}
    BY <1>0, <1>1 DEF WebSocketInv, OneClient
  <2>2. ~overlapped =>
          /\ field = k /\ Len(inputBuffer) = 1
          /\ uplink[k][1] = Piece(inputBuffer[1].req, 2)
          /\ from[inputBuffer[1].req] = k
    BY <1>1, <1>5, <2>1, SerialNext DEF WebSocketInv
  <2>3. inputBuffer[1].req = r
    <3>1. 1 \in 1..Len(inputBuffer)
      BY <1>2, <1>6
    <3>2. inputBuffer[1] = inputBuffer'[1]
      BY <1>1, <3>1
    <3>. QED  BY <1>4, <3>2
  <2>4. ~overlapped =>
          Len(inputBuffer') = 2 /\ inputBuffer'[1] = Piece(r, 1) /\ inputBuffer'[2] = Piece(r, 2)
    <3>1. ASSUME ~overlapped
          PROVE  Len(inputBuffer') = 2 /\ inputBuffer'[2] = uplink[k][1]
      <4>1. Len(inputBuffer) = 1
        BY <2>2, <3>1
      <4>. QED  BY <1>1, <4>1
    <3>. QED  BY <1>6, <2>2, <2>3, <3>1
  <2>5. ~overlapped => inputBuffer' = <<Piece(r, 1), Piece(r, 2)>>
    BY <1>2, <2>4
  <2>. QED  BY <1>0, <1>1, <1>5, <2>1, <2>2, <2>3, <2>4, <2>5
         DEF WebSocket!OpenConns, WebSocket!Conns, Conns
<1>9. /\ Processing'
      /\ \A q \in Requests : output'[q] # 0 => q = current'
  <2>1. WebSocket!OpenConns \subseteq 1..Limit
    BY DEF WebSocket!OpenConns, WebSocket!Conns, Limit
  <2>2. PICK c, open : c = websocket /\ open = WebSocket!OpenConns
    OBVIOUS
  <2>3. \/ Processor!ProcessReturns(r, c, open)
        \/ Processor!ProcessThrows(r) /\ UNCHANGED responses
    BY <1>5, <2>2, OneProcessor
  <2>4. c \in 0..MaxConns /\ \A q \in Requests : output[q] # 0 => q = current
    BY <2>2 DEF WebSocketInv, StreamInv
  <2>5. output' = [output EXCEPT ![r] = c] /\ (~overlapped => c = from[r] /\ c \in open)
    BY <1>5, <1>8, <2>2
  <2>6. /\ server \in {"framed", "websocket"} /\ InFlight(Piece(r, 1)) /\ current = 0
        /\ UNCHANGED <<sent, from, oneway, overlapped>> /\ open \in SUBSET (1..Limit)
        /\ current' = r /\ \A p : InFlight(p)' => InFlight(p)
    BY <1>1, <1>5, <1>7, <2>1, <2>2
  <2>. QED  BY <1>7, <2>3, <2>4, <2>5, <2>6, StreamProcesses, Zenon
<1>10. WebSocketInv'
  <2>1. StreamInv'
    <3>1. mangled' \subseteq 1..sent'
      BY <1>1, <1>5, <1>7 DEF WebSocketInv, StreamInv
    <3>2. conn' \in [Conns -> {"none", "open", "closed"}] /\ overlapped' \in BOOLEAN
      BY <1>1 DEF WebSocketInv, StreamInv
    <3>3. current' \in 0..sent'
      BY <1>1, <1>5, <1>7
    <3>. QED  BY <1>1, <1>9, <3>1, <3>2, <3>3 DEF StreamInv
  <2>2. ~overlapped' => OneClient(websocket)'
    BY <1>0, <1>1, <1>8 DEF OneClient
  <2>3. websocket' \in 0..MaxConns /\ current' # 0
    BY <1>1, <1>5, <1>7 DEF WebSocketInv
  <2>4. current' # 0 => Len(inputBuffer') >= 2 /\ inputBuffer'[1] = Piece(current', 1)
    BY <1>1, <1>2, <1>5, <1>6
  <2>5. ~overlapped' => Len(inputBuffer') <= IF current' = 0 THEN 1 ELSE 2
    BY <1>1, <1>8, <2>3
  <2>. QED  BY <2>1, <2>2, <2>3, <2>4, <2>5 DEF WebSocketInv
<1>. QED  BY <1>9, <1>10

(* A final frame without a first one comes only with overlapping clients.  *)
LEMMA WebSocketLoses ==
    ASSUME server = "websocket", UNCHANGED server, Processing, WebSocketInv,
           NEW k \in Conns, WebSocket!HandleLostMessage(k)
    PROVE  Processing' /\ WebSocketInv'
<1>0. PICK field : field = websocket
  OBVIOUS
<1>1. /\ current = 0 /\ conn[k] = "open" /\ uplink[k] # <<>> /\ Head(uplink[k]).part = 2
      /\ inputBuffer = <<>> /\ uplink' = [uplink EXCEPT ![k] = Tail(@)]
      /\ UNCHANGED <<sent, from, oneway, output, executed, unfinished, unwritten, responses>>
      /\ UNCHANGED <<conn, overlapped, websocket, inputBuffer, current, mangled>>
  BY DEF WebSocket!HandleLostMessage, WebSocket!Idle, WebSocket!processVars
<1>2. /\ uplink \in [Conns -> Seq(Framed!Pieces)] /\ PiecesOnce /\ PiecesSent
      /\ StreamInv /\ overlapped \in BOOLEAN
  BY DEF WebSocketInv, StreamInv, Streams
<1>3. /\ Head(uplink[k]) = uplink[k][1] /\ Len(uplink[k]) \in Nat
      /\ uplink'[k] \in Seq(Framed!Pieces) /\ Len(uplink'[k]) = Len(uplink[k]) - 1
      /\ \A i \in 1..Len(uplink'[k]) : uplink'[k][i] = uplink[k][i + 1]
      /\ \A c \in Conns \ {k} : uplink'[c] = uplink[c]
  BY <1>1, <1>2
<1>4. overlapped
  <2>1. Len(inputBuffer) = 0
    BY <1>1
  <2>2. ~overlapped => OneClient(field) /\ Len(inputBuffer) <= 1
    BY <1>0, <1>1, <2>1 DEF WebSocketInv
  <2>3. ~overlapped => Len(inputBuffer) = 1
    BY <1>1, <1>2, <1>3, <2>2, SerialNext
  <2>. QED  BY <2>1, <2>3
<1>5. Streams'
  BY <1>1, <1>2, <1>3 DEF StreamInv, Streams
<1>6. \A c \in Conns : \A i \in 1..Len(uplink'[c]) :
        \E j \in 1..Len(uplink[c]) :
            uplink'[c][i] = uplink[c][j] /\ j = IF c = k THEN i + 1 ELSE i
  <2>1. ASSUME NEW c \in Conns, NEW i \in 1..Len(uplink'[c])
        PROVE  \E j \in 1..Len(uplink[c]) :
                  uplink'[c][i] = uplink[c][j] /\ j = IF c = k THEN i + 1 ELSE i
    <3>1. CASE c = k
      <4>1. i + 1 \in 1..Len(uplink[k]) /\ uplink'[k][i] = uplink[k][i + 1]
        BY <1>3, <2>1, <3>1
      <4>. QED  BY <3>1, <4>1
    <3>2. CASE c # k
      BY <1>3, <2>1, <3>2
    <3>. QED  BY <3>1, <3>2
  <2>. QED  BY <2>1
<1>7. \A p : InFlight(p)' => InFlight(p)
  BY <1>1, <1>6 DEF InFlight
<1>8. PiecesSent'
  BY <1>1, <1>2, <1>7 DEF PiecesSent
<1>9. PiecesOnce'
  <2>1. /\ \A i, j \in 1..Len(inputBuffer') : inputBuffer'[i] = inputBuffer'[j] => i = j
        /\ \A c \in Conns : \A i \in 1..Len(inputBuffer'), j \in 1..Len(uplink'[c]) :
              inputBuffer'[i] # uplink'[c][j]
    <3>1. Len(inputBuffer') = 0
      BY <1>1
    <3>. QED  BY <3>1
  <2>2. ASSUME NEW c \in Conns, NEW d \in Conns,
               NEW i \in 1..Len(uplink'[c]), NEW j \in 1..Len(uplink'[d]),
               uplink'[c][i] = uplink'[d][j]
        PROVE  c = d /\ i = j
    <3>1. PICK p \in 1..Len(uplink[c]) :
            uplink'[c][i] = uplink[c][p] /\ p = IF c = k THEN i + 1 ELSE i
      BY <1>6
    <3>2. PICK q \in 1..Len(uplink[d]) :
            uplink'[d][j] = uplink[d][q] /\ q = IF d = k THEN j + 1 ELSE j
      BY <1>6
    <3>3. uplink[c][p] = uplink[d][q] => c = d /\ p = q
      BY <1>2 DEF PiecesOnce
    <3>4. c = d /\ p = q
      BY <2>2, <3>1, <3>2, <3>3, Zenon
    <3>5. \A a, b \in Int : a + 1 = b + 1 => a = b
      OBVIOUS
    <3>6. i \in Int /\ j \in Int
      BY <1>3
    <3>. QED  BY <3>1, <3>2, <3>4, <3>5, <3>6
  <2>. QED  BY <2>1, <2>2 DEF PiecesOnce
<1>10. RestStep /\ SameServer
  BY <1>1, <1>7, StreamRest DEF Processing, Typed, SameServer, Orderly
<1>11. WebSocketInv'
  <2>1. StreamInv'
    BY <1>1, <1>2, <1>5, <1>8, <1>9 DEF StreamInv
  <2>. QED  BY <1>1, <1>4, <2>1 DEF WebSocketInv
<1>. QED  BY <1>10, <1>11, RestKeeps

(* The buffer is reset: with clients one by one, it has only the message   *)
(* that was processed.                                                     *)
LEMMA WebSocketDone ==
    ASSUME server = "websocket", UNCHANGED server, Processing, WebSocketInv,
           WebSocket!FrameDone
    PROVE  Processing' /\ WebSocketInv'
<1>1. /\ current # 0 /\ output' = [output EXCEPT ![current] = 0] /\ current' = 0
      /\ inputBuffer' = <<>>
      /\ UNCHANGED <<sent, from, oneway, executed, unfinished, unwritten, responses>>
      /\ UNCHANGED <<conn, overlapped, uplink, websocket, mangled>>
  BY DEF WebSocket!FrameDone
<1>2. /\ Len(inputBuffer) \in Nat /\ Len(inputBuffer) >= 2
      /\ inputBuffer[1] = Piece(current, 1)
      /\ ~overlapped => Len(inputBuffer) = 2
      /\ inputBuffer \in Seq(Framed!Pieces) /\ StreamInv
  <2>1. inputBuffer \in Seq(Framed!Pieces) /\ StreamInv
    BY DEF WebSocketInv, StreamInv, Streams
  <2>2. Len(inputBuffer) >= 2 /\ inputBuffer[1] = Piece(current, 1)
    BY <1>1 DEF WebSocketInv
  <2>3. ~overlapped => Len(inputBuffer) <= 2
    BY <1>1 DEF WebSocketInv
  <2>4. Len(inputBuffer) \in Nat
    BY <2>1
  <2>5. \A n \in Nat : n >= 2 /\ n <= 2 => n = 2
    OBVIOUS
  <2>6. ~overlapped => Len(inputBuffer) = 2
    BY <2>2, <2>3, <2>4, <2>5, Zenon
  <2>. QED  BY <2>1, <2>2, <2>4, <2>6
<1>3. /\ Streams' /\ PiecesOnce' /\ PiecesSent'
      /\ ~overlapped' => OneClient(websocket)'
      /\ \A p : InFlight(p)' => InFlight(p)
      /\ \A r : r = current => ~InFlight(Piece(r, 1))'
  <2>1. PICK field : field = websocket
    OBVIOUS
  <2>2. PICK n : n = Len(inputBuffer)
    OBVIOUS
  <2>3. inputBuffer' = SubSeq(inputBuffer, n + 1, Len(inputBuffer)) /\ n \in 1..Len(inputBuffer)
    BY <1>1, <1>2, <2>2
  <2>4. ~overlapped => OneClient(field) /\ n = 2
    BY <1>2, <2>1, <2>2 DEF WebSocketInv
  <2>5. /\ Streams' /\ PiecesOnce' /\ PiecesSent'
        /\ ~overlapped' => OneClient(field)'
        /\ \A p : InFlight(p)' => InFlight(p)
        /\ \A i \in 1..n : \A p : p = inputBuffer[i] => ~InFlight(p)'
    BY <1>1, <1>2, <2>3, <2>4, StreamTake
  <2>. QED  BY <1>1, <1>2, <2>1, <2>3, <2>5 DEF OneClient
<1>4. output' \in [Requests -> 0..Limit] /\ \A r \in Requests : output'[r] \in {0, output[r]}
  <2>1. 0 \in 0..Limit
    BY ServersAssumption DEF Limit
  <2>. QED  BY <1>1, <2>1 DEF Processing, Typed
<1>5. RestStep /\ SameServer
  BY <1>1, <1>3, <1>4, StreamRest DEF Processing, SameServer, Orderly
<1>6. WebSocketInv'
  <2>1. \A q \in Requests : output'[q] # 0 => q = current'
    BY <1>1 DEF WebSocketInv, StreamInv, Processing, Typed
  <2>2. StreamInv'
    BY <1>1, <1>3, <2>1 DEF WebSocketInv, StreamInv, Processing, Typed
  <2>3. Len(inputBuffer') = 0
    BY <1>1
  <2>. QED  BY <1>1, <1>3, <2>2, <2>3 DEF WebSocketInv
<1>. QED  BY <1>5, <1>6, RestKeeps

(* A WebSocket is gone: nothing is processed at that moment.               *)
LEMMA WebSocketCloses ==
    ASSUME server = "websocket", UNCHANGED server, Processing, WebSocketInv,
           NEW k \in Conns, WebSocket!HandleClose(k)
    PROVE  Processing' /\ WebSocketInv'
<1>1. /\ current = 0 /\ conn[k] = "open" /\ conn' = [conn EXCEPT ![k] = "closed"]
      /\ uplink' = [uplink EXCEPT ![k] = <<>>] /\ inputBuffer' = <<>>
      /\ UNCHANGED <<sent, from, oneway, output, executed, unfinished, unwritten, responses>>
      /\ UNCHANGED <<overlapped, websocket, current, mangled>>
  BY DEF WebSocket!HandleClose, WebSocket!Idle, WebSocket!processVars
<1>2. /\ StreamInv' /\ (~overlapped' => OneClient(websocket)')
      /\ \A p : InFlight(p)' => InFlight(p)
  <2>1. PICK field : field = websocket
    OBVIOUS
  <2>2. /\ StreamInv' /\ (~overlapped' => OneClient(field)')
        /\ \A p : InFlight(p)' => InFlight(p)
    BY <1>1, <2>1, StreamClose DEF WebSocketInv
  <2>. QED  BY <1>1, <2>1, <2>2 DEF OneClient
<1>3. WebSocketInv'
  <2>1. Len(inputBuffer') = 0
    BY <1>1
  <2>. QED  BY <1>1, <1>2, <2>1 DEF WebSocketInv
<1>4. RestStep /\ SameServer
  BY <1>1, <1>2, StreamRest DEF Processing, Typed, SameServer, Orderly
<1>. QED  BY <1>3, <1>4, RestKeeps

(* The service completes a call of a WebSocket client.                     *)
LEMMA WebSocketCompletes ==
    ASSUME server = "websocket", UNCHANGED server, Processing, WebSocketInv,
           NEW r \in Requests, WebSocket!ServiceCompletes(r)
    PROVE  Processing' /\ WebSocketInv'
<1>1. PICK field, open : field = websocket /\ open = {k \in Conns : conn[k] = "open"}
  OBVIOUS
<1>2. /\ Processor!Complete(r, open)
      /\ UNCHANGED <<conn, overlapped, uplink, inputBuffer, current, mangled, websocket>>
  <2>1. WebSocket!OpenConns = open
    BY <1>1 DEF WebSocket!OpenConns, WebSocket!Conns, Conns
  <2>. QED  BY <2>1, OneProcessor DEF WebSocket!ServiceCompletes, WebSocket!webSocketVars
<1>3. /\ StreamInv /\ (~overlapped => OneClient(field))
      /\ current # 0 => Len(inputBuffer) >= 2 /\ inputBuffer[1] = Piece(current, 1)
  BY <1>1 DEF WebSocketInv
<1>4. Processing' /\ StreamInv' /\ (~overlapped' => OneClient(field)')
  BY <1>1, <1>2, <1>3, StreamCompletes
<1>5. ~overlapped' => OneClient(websocket)'
  BY <1>1, <1>2, <1>4 DEF OneClient
<1>6. WebSocketInv'
  BY <1>2, <1>4, <1>5 DEF WebSocketInv
<1>. QED  BY <1>4, <1>6

(* Every step of the server over WebSockets.                               *)
LEMMA WebSocketKeeps ==
    ASSUME server = "websocket", UNCHANGED server, Processing, WebSocketInv, WebSocket!Next
    PROVE  Processing' /\ WebSocketInv'
<1>1. ASSUME NEW k \in Conns, NEW state \in {"open", "closed"}, WebSocket!Accept(k, state)
      PROVE  Processing' /\ WebSocketInv'
  BY <1>1, WebSocketAccepts
<1>2. ASSUME NEW k \in Conns, NEW isOneway \in BOOLEAN, WebSocket!Send(k, isOneway)
      PROVE  Processing' /\ WebSocketInv'
  BY <1>2, WebSocketSends
<1>3. ASSUME NEW k \in Conns,
             \/ WebSocket!HandleFirstFrame(k) \/ WebSocket!HandleFinalFrame(k)
             \/ WebSocket!HandleLostMessage(k) \/ WebSocket!HandleClose(k)
      PROVE  Processing' /\ WebSocketInv'
  BY <1>3, WebSocketFirst, WebSocketFinal, WebSocketLoses, WebSocketCloses
<1>4. ASSUME NEW r \in Requests, WebSocket!ServiceCompletes(r)
      PROVE  Processing' /\ WebSocketInv'
  BY <1>4, WebSocketCompletes
<1>. QED
  BY <1>1, <1>2, <1>3, <1>4, WebSocketDone
     DEF WebSocket!Next, WebSocket!Conns, Conns, WebSocket!Requests, Requests
------------------------------------------------------------------------------
(* The actions of the server over HTTP.  A request without an answer is in *)
(* an exchange without a response.                                         *)
LEMMA NoResponse ==
    ASSUME Typed, Unanswered, OwnResponses, ExchangesOwn, NEW r \in 1..sent, ~Answered(r)
    PROVE  responses[from[r]] = <<>> /\ from[r] \in 1..Limit
<1>1. r \in Requests /\ from[r] \in 1..Limit /\ DOMAIN responses = 1..Limit
  BY ServersAssumption DEF Typed, Requests
<1>2. responses[from[r]] \in Seq(Framed!Responses)
  BY <1>1 DEF Typed
<1>3. ASSUME NEW i \in DOMAIN responses[from[r]]
      PROVE  FALSE
  <2>1. PICK q : q = responses[from[r]][i].req
    OBVIOUS
  <2>2. q \in Requests /\ Answered(q)
    <3>1. responses[from[r]][i] \in Framed!Responses
      BY <1>2
    <3>2. q \in Requests
      BY <2>1, <3>1 DEF Framed!Responses, Framed!Requests, Requests
    <3>. QED  BY <1>1, <2>1, <3>2 DEF Answered, AnsweredAt
  <2>3. q \in 1..sent /\ from[q] = from[r]
    BY <1>1, <2>1, <2>2 DEF Unanswered, OwnResponses
  <2>. QED  BY <2>2, <2>3 DEF ExchangesOwn
<1>4. responses[from[r]] = <<>>
  <2>1. Len(responses[from[r]]) \in Nat
        /\ DOMAIN responses[from[r]] = 1..Len(responses[from[r]])
    BY <1>2
  <2>2. \A n \in Nat : n # 0 => 1 \in 1..n
    OBVIOUS
  <2>3. Len(responses[from[r]]) = 0
    BY <1>3, <2>1, <2>2, Zenon
  <2>. QED  BY <1>2, <2>3, EmptySeq
<1>. QED  BY <1>1, <1>4

(* The head of a request that is accepted: its exchange is a new one.      *)
LEMMA HttpAccepts ==
    ASSUME server = "http", UNCHANGED <<server, inputBuffer>>, Processing, HttpInv,
           NEW k \in 1..MaxExchanges, NEW p \in Services, NEW isOneway \in BOOLEAN,
           Http!AcceptRequest(k, p, isOneway)
    PROVE  Processing' /\ HttpInv'
<1>. DEFINE r == sent + 1
<1>1. /\ current = 0 /\ conn[k] = "none" /\ request' = k /\ uri' = p
      /\ path' = [path EXCEPT ![k] = p]
      /\ overlapped' = (overlapped \/ \E c \in 1..MaxExchanges : conn[c] = "open")
      /\ sent' = r /\ r \in Requests /\ conn' = [conn EXCEPT ![k] = "open"]
      /\ from' = [from EXCEPT ![r] = k] /\ oneway' \in {oneway, oneway \cup {r}}
      /\ UNCHANGED <<output, executed, unfinished, unwritten, responses, current, mangled>>
  BY DEF Http!AcceptRequest, Http!HandleHead, Http!Idle, Http!BodyDue, Http!Conns,
         Http!Requests, Requests
<1>2. Typed /\ Limit = MaxExchanges /\ sent \in 0..MaxRequests
  BY DEF Processing, Typed, Limit
<1>3. /\ 1..sent' = 1..sent \cup {r} /\ r \notin 1..sent
      /\ \A q \in 1..sent : from'[q] = from[q] /\ from[q] # k
      /\ from'[r] = k
  <2>1. 1..sent' = 1..sent \cup {r} /\ r \notin 1..sent
    BY <1>1, <1>2
  <2>2. \A q \in 1..sent : q \in Requests /\ q # r
    BY <1>2, ServersAssumption DEF Requests
  <2>. QED  BY <1>1, <1>2, <2>1, <2>2 DEF Typed, HttpInv
<1>4. /\ conn'[k] = "open" /\ \A c \in 1..MaxExchanges \ {k} : conn'[c] = conn[c]
      /\ \A q \in 1..sent : from[q] \in 1..MaxExchanges
  <2>1. \A q \in 1..sent : q \in Requests /\ q # 0
    BY <1>2, ServersAssumption DEF Requests
  <2>. QED  BY <1>1, <1>2, <2>1 DEF HttpInv, Typed
<1>5. Waiting' = Waiting \cup {r}
  BY <1>3, <1>4 DEF Waiting
<1>6. SendStep(k) /\ SameServer
  <2>1. Owed' = Owed
    BY <1>3, <1>5 DEF Owed
  <2>. QED  BY <1>1, <1>2, <1>5, <2>1 DEF SendStep, SameServer, Orderly
<1>7. HttpInv'
  <2>1. ExchangesOwn'
    BY <1>1, <1>2, <1>3 DEF HttpInv, ExchangesOwn
  <2>2. \A q \in 1..sent' : conn'[from'[q]] \in {"open", "processed"}
    BY <1>3, <1>4 DEF HttpInv
  <2>3. ASSUME ~overlapped', NEW c \in 1..MaxExchanges, conn'[c] = "open"
        PROVE  request' = c /\ uri' = path'[c]
    <3>1. c = k
      BY <1>1, <1>4, <2>3
    <3>. QED  BY <1>1, <3>1 DEF HttpInv
  <2>4. /\ conn' \in [1..MaxExchanges -> {"none", "open", "processed", "refused"}]
        /\ path' \in [1..MaxExchanges -> Services \cup {"nowhere"}]
        /\ request' \in 0..MaxExchanges /\ uri' \in Services \cup {"nowhere"}
        /\ overlapped' \in BOOLEAN /\ mangled' \subseteq 1..sent'
        /\ ~overlapped' => mangled' = {}
    BY <1>1, <1>3 DEF HttpInv
  <2>. QED  BY <2>1, <2>2, <2>3, <2>4 DEF HttpInv
<1>. QED  BY <1>6, <1>7, SendKeeps

(* A refused request overwrites the fields, but no body will come.         *)
LEMMA HttpRefuses ==
    ASSUME server = "http", UNCHANGED <<server, inputBuffer>>, Processing, HttpInv,
           NEW k \in 1..MaxExchanges, NEW p \in Services \cup {"nowhere"},
           Http!RefuseRequest(k, p)
    PROVE  Processing' /\ HttpInv'
<1>1. /\ conn[k] = "none" /\ request' = k /\ uri' = p
      /\ path' = [path EXCEPT ![k] = p]
      /\ overlapped' = (overlapped \/ \E c \in 1..MaxExchanges : conn[c] = "open")
      /\ conn' = [conn EXCEPT ![k] = "refused"]
      /\ UNCHANGED <<sent, from, oneway, output, executed, unfinished, unwritten, responses>>
      /\ UNCHANGED <<current, mangled>>
  BY DEF Http!RefuseRequest, Http!HandleHead, Http!BodyDue, Http!Conns, Http!processVars
<1>2. /\ conn'[k] = "refused" /\ \A c \in 1..MaxExchanges \ {k} : conn'[c] = conn[c]
      /\ \A q \in 1..sent : conn'[from[q]] = conn[from[q]]
  BY <1>1 DEF HttpInv
<1>3. Waiting' = Waiting
  BY <1>1, <1>2 DEF Waiting
<1>4. RestStep /\ SameServer
  BY <1>1, <1>3 DEF RestStep, Owed, Processing, Typed, SameServer, Orderly
<1>5. HttpInv'
  <2>1. ExchangesOwn'
    BY <1>1 DEF HttpInv, ExchangesOwn
  <2>2. \A q \in 1..sent' : conn'[from'[q]] \in {"open", "processed"}
    BY <1>1, <1>2 DEF HttpInv
  <2>3. ~overlapped' => mangled' = {} /\ \A c \in 1..MaxExchanges : conn'[c] # "open"
    BY <1>1, <1>2 DEF HttpInv
  <2>4. /\ conn' \in [1..MaxExchanges -> {"none", "open", "processed", "refused"}]
        /\ path' \in [1..MaxExchanges -> Services \cup {"nowhere"}]
        /\ request' \in 0..MaxExchanges /\ uri' \in Services \cup {"nowhere"}
        /\ overlapped' \in BOOLEAN /\ mangled' \subseteq 1..sent'
    BY <1>1 DEF HttpInv
  <2>. QED  BY <2>1, <2>2, <2>3, <2>4 DEF HttpInv
<1>. QED  BY <1>4, <1>5, RestKeeps

(* A body is processed for the exchange in the fields: with clients one by *)
(* one, for its own, where nothing was answered so far.                    *)
LEMMA HttpProcesses ==
    ASSUME server = "http", UNCHANGED <<server, inputBuffer>>, Processing, HttpInv,
           NEW k \in 1..MaxExchanges, NEW r \in Requests,
           Http!BodyProcessed(k, r) \/ Http!BodyThrows(k, r) \/ Http!ClientDied(k, r)
    PROVE  Processing' /\ HttpInv'
<1>1. /\ current = 0 /\ conn[k] = "open" /\ from[r] = k
      /\ conn' = [conn EXCEPT ![k] = "processed"] /\ current' = r
      /\ output' = [output EXCEPT ![r] = request]
      /\ mangled' = IF uri = path[k] THEN mangled ELSE mangled \cup {r}
      /\ UNCHANGED <<sent, from, oneway, overlapped, path, request, uri>>
  BY DEF Http!BodyProcessed, Http!BodyThrows, Http!ClientDied, Http!BeginBody, Http!Idle
<1>2. Typed /\ Unanswered /\ Limit = MaxExchanges /\ Limit' = Limit /\ sent \in 0..MaxRequests
  BY DEF Processing, Typed, Limit
<1>3. r \in 1..sent /\ r \in Waiting /\ ~Answered(r) /\ r \notin executed
  <2>1. r \in 1..sent
    BY <1>1, <1>2, ServersAssumption DEF Typed, Requests
  <2>2. r \in Waiting
    BY <1>1, <2>1 DEF Waiting
  <2>. QED  BY <1>2, <2>1, <2>2 DEF Unanswered
<1>4. Orderly => request = k /\ uri = path[k] /\ request \in Http!Unended
  <2>1. ASSUME Orderly
        PROVE  request = k /\ uri = path[k] /\ request \in Http!Unended
    <3>1. request = k /\ uri = path[k] /\ OwnResponses
      BY <1>1, <2>1 DEF Orderly, HttpInv, Processing, Serving
    <3>2. responses[k] = <<>>
      BY <1>1, <1>2, <1>3, <3>1, NoResponse DEF HttpInv
    <3>. QED  BY <1>1, <3>1, <3>2 DEF Http!Unended, Http!Ended, Http!Conns
  <2>. QED  BY <2>1
<1>5. PICK c, open : c = request /\ open = Http!Unended
  OBVIOUS
<1>6. open \in SUBSET (1..Limit) /\ c \in 0..Limit
  BY <1>2, <1>5 DEF Http!Unended, Http!Conns, HttpInv
<1>7. /\ Progress(r, c)
      /\ \/ UNCHANGED unfinished
         \/ unfinished' = unfinished \cup {r} /\ r \in executed' /\ UNCHANGED responses
      /\ c \in open => r \in oneway \cup unfinished' \cup unwritten' \/ AnsweredAt(r, c)'
  <2>. HIDE DEF AnsweredAt
  <2>1. CASE Http!BodyProcessed(k, r)
    <3>1. Processor!ProcessReturns(r, c, open)
      BY <1>5, <2>1, OneProcessor DEF Http!BodyProcessed
    <3>. QED  BY <1>2, <1>6, <3>1, ReturnsFacts
  <2>2. CASE Http!BodyThrows(k, r)
    <3>1. Processor!Respond(r, "error", c, open)
      BY <1>5, <2>2 DEF Http!BodyThrows, Http!Respond, Processor!Respond
    <3>2. "error" \in Kinds
      BY DEF Kinds
    <3>3. Answers(r, c) /\ (c \in open => AnsweredAt(r, c)')
      BY <1>2, <1>6, <3>1, <3>2, RespondFacts
    <3>4. /\ UNCHANGED unfinished
          /\ executed \subseteq executed' /\ executed' \subseteq executed \cup {r}
          /\ unwritten \subseteq unwritten' /\ unwritten' \subseteq unwritten \cup {r}
      BY <2>2 DEF Http!BodyThrows, Http!ProcessThrows
    <3>. QED  BY <3>3, <3>4 DEF Progress
  <2>3. CASE Http!ClientDied(k, r)
    BY <2>3 DEF Http!ClientDied, Progress, Answers
  <2>. QED  BY <2>1, <2>2, <2>3
<1>8. /\ conn'[k] = "processed" /\ \A l \in 1..MaxExchanges \ {k} : conn'[l] = conn[l]
      /\ \A q \in 1..sent \ {r} : from[q] # k /\ conn'[from[q]] = conn[from[q]]
  <2>1. \A q \in 1..sent \ {r} : from[q] # k
    BY <1>1, <1>3 DEF HttpInv, ExchangesOwn
  <2>. QED  BY <1>1, <2>1 DEF HttpInv
<1>9. Waiting' \subseteq Waiting \ {r} /\ Owed' \subseteq Owed \cup {r}
  BY <1>1, <1>8 DEF Waiting, Owed
<1>10. ProcessStep(r, c) /\ SameServer
  <2>1. Orderly => c = from[r] /\ c \in open
    BY <1>1, <1>4, <1>5
  <2>2. output' = [output EXCEPT ![r] = c]
    BY <1>1, <1>5
  <2>3. SameServer
    BY <1>1 DEF SameServer, Orderly
  <2>. QED  BY <1>1, <1>3, <1>6, <1>7, <1>9, <2>1, <2>2, <2>3 DEF ProcessStep
<1>11. HttpInv'
  <2>1. ExchangesOwn'
    BY <1>1, <1>3 DEF HttpInv, ExchangesOwn
  <2>2. \A q \in 1..sent' : conn'[from'[q]] \in {"open", "processed"}
    BY <1>1, <1>8 DEF HttpInv
  <2>3. ~overlapped' => mangled' = {}
    BY <1>1, <1>4 DEF HttpInv, Orderly
  <2>4. ~overlapped' => \A l \in 1..MaxExchanges :
            conn'[l] = "open" => request' = l /\ uri' = path'[l]
    BY <1>1, <1>8 DEF HttpInv
  <2>5. /\ conn' \in [1..MaxExchanges -> {"none", "open", "processed", "refused"}]
        /\ path' \in [1..MaxExchanges -> Services \cup {"nowhere"}]
        /\ request' \in 0..MaxExchanges /\ uri' \in Services \cup {"nowhere"}
        /\ overlapped' \in BOOLEAN /\ mangled' \subseteq 1..sent'
    BY <1>1, <1>3 DEF HttpInv
  <2>. QED  BY <2>1, <2>2, <2>3, <2>4, <2>5 DEF HttpInv
<1>. QED  BY <1>10, <1>11, ProcessKeeps

(* process() has ended: the transport is closed.                           *)
LEMMA HttpDone ==
    ASSUME server = "http", UNCHANGED <<server, inputBuffer>>, Processing, HttpInv, Http!BodyDone
    PROVE  Processing' /\ HttpInv'
<1>1. /\ output' = [output EXCEPT ![current] = 0] /\ current' = 0
      /\ UNCHANGED <<sent, from, oneway, executed, unfinished, unwritten, responses>>
      /\ UNCHANGED <<conn, overlapped, path, request, uri, mangled>>
  BY DEF Http!BodyDone
<1>2. output' \in [Requests -> 0..Limit] /\ \A r \in Requests : output'[r] \in {0, output[r]}
  <2>1. 0 \in 0..Limit
    BY ServersAssumption DEF Limit
  <2>. QED  BY <1>1, <2>1 DEF Processing, Typed
<1>3. Waiting' = Waiting /\ Owed' = Owed
  BY <1>1 DEF Waiting, Owed
<1>4. RestStep /\ SameServer
  BY <1>1, <1>2, <1>3 DEF RestStep, SameServer, Orderly
<1>5. HttpInv'
  BY <1>1 DEF HttpInv, ExchangesOwn, Processing, Typed
<1>. QED  BY <1>4, <1>5, RestKeeps

(* The transport of a call that completes in time writes to its exchange,  *)
(* where nothing was answered.                                             *)
LEMMA HttpCompletes ==
    ASSUME server = "http", UNCHANGED <<server, inputBuffer>>, Processing, HttpInv,
           NEW r \in Requests, Http!ServiceCompletes(r)
    PROVE  Processing' /\ HttpInv'
<1>1. Typed /\ Unanswered /\ Limit = MaxExchanges /\ Limit' = Limit
  BY DEF Processing, Limit
<1>2. PICK k, open : k = output[r] /\ open = Http!Unended
  OBVIOUS
<1>3. /\ Processor!Complete(r, open) /\ open \in SUBSET (1..Limit)
      /\ UNCHANGED <<conn, overlapped, path, request, uri, current, mangled>>
  BY <1>1, <1>2, OneProcessor DEF Http!ServiceCompletes, Http!httpVars, Http!Unended, Http!Conns
<1>4. /\ Progress(r, k)
      /\ r \in unfinished /\ unfinished' = unfinished \ {r}
      /\ UNCHANGED <<sent, from, oneway, output, executed>>
      /\ k \in {0} \cup open => r \in oneway \cup unwritten' \/ AnsweredAt(r, k)'
  <2>. HIDE DEF AnsweredAt
  <2>. QED  BY <1>1, <1>2, <1>3, CompleteFacts
<1>5. Orderly => k \in {0, from[r]} /\ k \in {0} \cup open
  <2>1. ASSUME Orderly PROVE k \in {0, from[r]} /\ k \in {0} \cup open
    <3>1. k \in {0, from[r]} /\ OwnResponses
      BY <1>2, <2>1 DEF Processing, Serving
    <3>2. r \in 1..sent /\ ~Answered(r)
      BY <1>1, <1>4 DEF Typed, Unanswered
    <3>3. responses[from[r]] = <<>> /\ from[r] \in 1..Limit
      BY <1>1, <3>1, <3>2, NoResponse DEF HttpInv
    <3>4. conn[from[r]] # "refused"
      BY <3>2 DEF HttpInv
    <3>. QED  BY <1>1, <1>2, <3>1, <3>3, <3>4 DEF Http!Unended, Http!Ended, Http!Conns
  <2>. QED  BY <2>1
<1>6. CompleteStep(r)
  <2>1. Waiting' \subseteq Waiting /\ Owed' = Owed
    BY <1>3, <1>4 DEF Waiting, Owed
  <2>2. k = 0 => r \in oneway \cup unwritten'
    BY <1>2, <1>3 DEF Processor!Complete, Processor!ResultHandler
  <2>3. Orderly => r \in oneway \cup unwritten' \/ AnsweredAt(r, from[r])'
    <3>1. PICK c : c = from[r]
      OBVIOUS
    <3>2. Orderly => r \in oneway \cup unwritten' \/ AnsweredAt(r, c)'
      BY <1>4, <1>5, <2>2, <3>1
    <3>. QED  BY <1>4, <3>1, <3>2 DEF AnsweredAt
  <2>. QED  BY <1>2, <1>4, <2>1, <2>3 DEF CompleteStep
<1>7. SameServer
  BY <1>3 DEF SameServer, Orderly
<1>8. HttpInv'
  BY <1>3, <1>4 DEF HttpInv, ExchangesOwn
<1>. QED  BY <1>6, <1>7, <1>8, CompleteKeeps

(* Every step of the server over HTTP.                                     *)
LEMMA HttpKeeps ==
    ASSUME server = "http", UNCHANGED <<server, inputBuffer>>, Processing, HttpInv, Http!Next
    PROVE  Processing' /\ HttpInv'
<1>1. ASSUME NEW k \in 1..MaxExchanges, NEW p \in Services, NEW isOneway \in BOOLEAN,
             Http!AcceptRequest(k, p, isOneway)
      PROVE  Processing' /\ HttpInv'
  BY <1>1, HttpAccepts
<1>2. ASSUME NEW k \in 1..MaxExchanges, NEW p \in Services \cup {"nowhere"},
             Http!RefuseRequest(k, p)
      PROVE  Processing' /\ HttpInv'
  BY <1>2, HttpRefuses
<1>3. ASSUME NEW k \in 1..MaxExchanges, NEW r \in Requests,
             Http!BodyProcessed(k, r) \/ Http!BodyThrows(k, r) \/ Http!ClientDied(k, r)
      PROVE  Processing' /\ HttpInv'
  BY <1>3, HttpProcesses
<1>4. ASSUME NEW r \in Requests, Http!ServiceCompletes(r)
      PROVE  Processing' /\ HttpInv'
  BY <1>4, HttpCompletes
<1>. QED
  BY <1>1, <1>2, <1>3, <1>4, HttpDone
     DEF Http!Next, Http!Conns, Http!Requests, Requests, Http!NoService
------------------------------------------------------------------------------
(* The actions of the server on the event bus.                             *)
LEMMA BusSends ==
    ASSUME server = "eventbus", UNCHANGED <<server, overlapped, inputBuffer, mangled>>,
           Processing, BusInv,
           NEW k \in 1..MaxExchanges, NEW isOneway \in BOOLEAN, Bus!Send(k, isOneway)
    PROVE  Processing' /\ BusInv'
<1>. DEFINE r == sent + 1
<1>1. /\ conn[k] = "none" /\ sent' = r /\ r \in Requests /\ conn' = [conn EXCEPT ![k] = "sent"]
      /\ from' = [from EXCEPT ![r] = k] /\ oneway' \in {oneway, oneway \cup {r}}
      /\ UNCHANGED <<output, executed, unfinished, unwritten, responses, current>>
  BY DEF Bus!Send, Bus!Requests, Requests
<1>2. Typed /\ Limit = MaxExchanges /\ sent \in 0..MaxRequests
  BY DEF Processing, Typed, Limit
<1>3. /\ 1..sent' = 1..sent \cup {r} /\ r \notin 1..sent
      /\ \A q \in 1..sent : from'[q] = from[q] /\ from[q] # k /\ from[q] \in 1..MaxExchanges
      /\ from'[r] = k
  <2>1. 1..sent' = 1..sent \cup {r} /\ r \notin 1..sent
    BY <1>1, <1>2
  <2>2. \A q \in 1..sent : q \in Requests /\ q # r /\ q # 0
    BY <1>2, ServersAssumption DEF Requests
  <2>3. \A q \in 1..sent : from[q] # k /\ from[q] \in 0..MaxExchanges /\ from[q] # 0
    <3>1. \A q \in 1..sent : from[q] # k
      BY <1>1 DEF BusInv
    <3>2. \A q \in Requests : from[q] \in 0..MaxExchanges /\ (q <= sent => from[q] # 0)
      BY <1>2 DEF Typed
    <3>3. \A q \in 1..sent : q <= sent
      BY <1>2
    <3>. QED  BY <2>2, <3>1, <3>2, <3>3
  <2>4. from'[r] = k /\ \A q \in 1..sent : from'[q] = from[q]
    BY <1>1, <1>2, <2>2 DEF Typed
  <2>5. \A n \in 0..MaxExchanges : n # 0 => n \in 1..MaxExchanges
    BY ServersAssumption
  <2>. QED  BY <2>1, <2>3, <2>4, <2>5
<1>4. conn'[k] = "sent" /\ \A c \in 1..MaxExchanges \ {k} : conn'[c] = conn[c]
  BY <1>1 DEF BusInv
<1>5. Waiting' \subseteq Waiting \cup {r} /\ Owed' = Owed
  BY <1>1, <1>3, <1>4 DEF Waiting, Owed
<1>6. SendStep(k) /\ SameServer
  BY <1>1, <1>2, <1>5 DEF SendStep, SameServer, Orderly
<1>7. BusInv'
  <2>1. ExchangesOwn'
    BY <1>1, <1>2, <1>3 DEF BusInv, ExchangesOwn
  <2>2. \A q \in 1..sent' : conn'[from'[q]] \in {"sent", "handled"}
    BY <1>3, <1>4 DEF BusInv
  <2>. QED  BY <1>1, <2>1, <2>2 DEF BusInv
<1>. QED  BY <1>6, <1>7, SendKeeps

(* A message that is not a buffer is refused.                              *)
LEMMA BusRefuses ==
    ASSUME server = "eventbus", UNCHANGED <<server, overlapped, inputBuffer, mangled>>,
           Processing, BusInv, NEW k \in 1..MaxExchanges, Bus!HandleOther(k)
    PROVE  Processing' /\ BusInv'
<1>1. /\ conn[k] = "none" /\ conn' = [conn EXCEPT ![k] = "unsupported"]
      /\ UNCHANGED <<sent, from, oneway, output, executed, unfinished, unwritten, responses, current>>
  BY DEF Bus!HandleOther, Bus!processVars
<1>2. \A q \in 1..sent : conn'[from[q]] = conn[from[q]]
  BY <1>1 DEF BusInv
<1>3. Waiting' = Waiting /\ Owed' = Owed
  BY <1>1, <1>2 DEF Waiting, Owed
<1>4. RestStep /\ SameServer
  BY <1>1, <1>3 DEF RestStep, Processing, Typed, SameServer, Orderly
<1>5. BusInv'
  BY <1>1, <1>2 DEF BusInv, ExchangesOwn
<1>. QED  BY <1>4, <1>5, RestKeeps

(* A message is processed by a transport of its own, which answers it with *)
(* a reply to this message.                                                *)
LEMMA BusProcesses ==
    ASSUME server = "eventbus", UNCHANGED <<server, overlapped, inputBuffer, mangled>>,
           Processing, BusInv,
           NEW k \in 1..MaxExchanges, NEW r \in Requests, Bus!HandleMessage(k, r)
    PROVE  Processing' /\ BusInv'
<1>1. /\ conn[k] = "sent" /\ from[r] = k /\ conn' = [conn EXCEPT ![k] = "handled"]
      /\ current' = r /\ output' = [output EXCEPT ![r] = k]
      /\ \/ Bus!ProcessReturns(r, k, Bus!Conns)
         \/ Bus!ProcessThrows(r) /\ UNCHANGED responses
      /\ UNCHANGED <<sent, from, oneway>>
  BY DEF Bus!HandleMessage
<1>2. Typed /\ Unanswered /\ Limit = MaxExchanges /\ Limit' = Limit /\ sent \in 0..MaxRequests
  BY DEF Processing, Typed, Limit
<1>3. r \in 1..sent /\ r \in Waiting /\ r \notin executed
  <2>1. r \in 1..sent
    BY <1>1, <1>2, ServersAssumption DEF Typed, Requests
  <2>2. r \in Waiting
    BY <1>1, <2>1 DEF Waiting
  <2>. QED  BY <1>2, <2>1, <2>2 DEF Unanswered
<1>4. PICK open : open = Bus!Conns
  OBVIOUS
<1>5. open \in SUBSET (1..Limit) /\ k \in open /\ k \in 0..Limit
  BY <1>2, <1>4 DEF Bus!Conns
<1>6. /\ Progress(r, k)
      /\ \/ UNCHANGED unfinished
         \/ unfinished' = unfinished \cup {r} /\ r \in executed' /\ UNCHANGED responses
      /\ r \in oneway \cup unfinished' \cup unwritten' \/ r \notin executed' \/ AnsweredAt(r, k)'
  <2>. HIDE DEF AnsweredAt
  <2>1. CASE Bus!ProcessReturns(r, k, Bus!Conns)
    <3>1. Processor!ProcessReturns(r, k, open)
      BY <1>4, <2>1, OneProcessor
    <3>. QED  BY <1>2, <1>5, <3>1, ReturnsFacts
  <2>2. CASE Bus!ProcessThrows(r) /\ UNCHANGED responses
    <3>1. /\ executed \subseteq executed' /\ executed' \subseteq executed \cup {r}
          /\ unwritten \subseteq unwritten' /\ unwritten' \subseteq unwritten \cup {r}
          /\ r \in executed' => r \in executed \cup unwritten'
          /\ UNCHANGED unfinished
      BY <2>2, OneProcessor, ThrowsFacts
    <3>2. Progress(r, k)
      BY <2>2, <3>1 DEF Progress, Answers
    <3>. QED  BY <1>3, <3>1, <3>2
  <2>. QED  BY <1>1, <2>1, <2>2
<1>7. \A q \in 1..sent \ {r} : from[q] # k /\ conn'[from[q]] = conn[from[q]]
  <2>1. \A q \in 1..sent \ {r} : from[q] # k
    BY <1>1, <1>3 DEF BusInv, ExchangesOwn
  <2>. QED  BY <1>1, <2>1 DEF BusInv
<1>8. conn'[k] = "handled"
  BY <1>1 DEF BusInv
<1>9. Waiting' \subseteq Waiting \ {r} /\ Owed' \subseteq Owed \cup {r} /\ Owed' = executed'
  BY <1>1, <1>6, <1>7, <1>8 DEF Waiting, Owed, Progress
<1>10. ProcessStep(r, k)
  BY <1>1, <1>3, <1>5, <1>6, <1>9 DEF ProcessStep
<1>11. SameServer
  BY DEF SameServer, Orderly
<1>12. BusInv'
  <2>1. ExchangesOwn'
    BY <1>1, <1>3 DEF BusInv, ExchangesOwn
  <2>2. \A q \in 1..sent' : conn'[from'[q]] \in {"sent", "handled"}
    BY <1>1, <1>7, <1>8 DEF BusInv
  <2>. QED  BY <1>1, <2>1, <2>2 DEF BusInv
<1>. QED  BY <1>10, <1>11, <1>12, ProcessKeeps

(* process() has ended: the transport of the message is closed.            *)
LEMMA BusDone ==
    ASSUME server = "eventbus", UNCHANGED <<server, overlapped, inputBuffer, mangled>>,
           Processing, BusInv, Bus!MessageDone
    PROVE  Processing' /\ BusInv'
<1>1. /\ output' = [output EXCEPT ![current] = 0] /\ current' = 0
      /\ UNCHANGED <<sent, from, oneway, executed, unfinished, unwritten, responses, conn>>
  BY DEF Bus!MessageDone
<1>2. output' \in [Requests -> 0..Limit] /\ \A r \in Requests : output'[r] \in {0, output[r]}
  <2>1. 0 \in 0..Limit
    BY ServersAssumption DEF Limit
  <2>. QED  BY <1>1, <2>1 DEF Processing, Typed
<1>3. Waiting' = Waiting /\ Owed' = Owed
  BY <1>1 DEF Waiting, Owed
<1>4. RestStep /\ SameServer
  BY <1>1, <1>2, <1>3 DEF RestStep, SameServer, Orderly
<1>5. BusInv'
  BY <1>1 DEF BusInv, ExchangesOwn, Processing, Typed
<1>. QED  BY <1>4, <1>5, RestKeeps

(* The transport of a call still writes to the message of its request.     *)
LEMMA BusCompletes ==
    ASSUME server = "eventbus", UNCHANGED <<server, overlapped, inputBuffer, mangled>>,
           Processing, BusInv, NEW r \in Requests, Bus!ServiceCompletes(r)
    PROVE  Processing' /\ BusInv'
<1>1. Typed /\ Limit = MaxExchanges /\ Limit' = Limit
  BY DEF Processing, Limit
<1>2. PICK k, open : k = output[r] /\ open = Bus!Conns
  OBVIOUS
<1>3. Processor!Complete(r, open) /\ open = 1..Limit /\ UNCHANGED <<conn, current>>
  BY <1>1, <1>2, OneProcessor DEF Bus!ServiceCompletes, Bus!Conns
<1>4. /\ Progress(r, k)
      /\ r \in unfinished /\ unfinished' = unfinished \ {r}
      /\ UNCHANGED <<sent, from, oneway, output, executed>>
      /\ k \in {0} \cup open => r \in oneway \cup unwritten' \/ AnsweredAt(r, k)'
  <2>. HIDE DEF AnsweredAt
  <2>. QED  BY <1>1, <1>2, <1>3, CompleteFacts
<1>5. Orderly => k \in {0, from[r]} /\ k \in {0} \cup open
  <2>1. r \in 1..sent /\ k \in 0..Limit
    BY <1>1, <1>2, <1>4 DEF Typed
  <2>2. k \in {0} \cup open
    BY <1>3, <2>1, <1>1, ServersAssumption
  <2>. QED  BY <1>2, <2>2 DEF Processing, Serving
<1>6. CompleteStep(r)
  <2>1. Waiting' \subseteq Waiting /\ Owed' = Owed
    BY <1>3, <1>4 DEF Waiting, Owed
  <2>2. k = 0 => r \in oneway \cup unwritten'
    BY <1>2, <1>3 DEF Processor!Complete, Processor!ResultHandler
  <2>3. Orderly => r \in oneway \cup unwritten' \/ AnsweredAt(r, from[r])'
    <3>1. PICK c : c = from[r]
      OBVIOUS
    <3>2. Orderly => r \in oneway \cup unwritten' \/ AnsweredAt(r, c)'
      BY <1>4, <1>5, <2>2, <3>1
    <3>. QED  BY <1>4, <3>1, <3>2 DEF AnsweredAt
  <2>. QED  BY <1>2, <1>4, <2>1, <2>3 DEF CompleteStep
<1>7. SameServer
  BY DEF SameServer, Orderly
<1>8. BusInv'
  BY <1>3, <1>4 DEF BusInv, ExchangesOwn
<1>. QED  BY <1>6, <1>7, <1>8, CompleteKeeps

(* Every step of the server on the event bus.                              *)
LEMMA BusKeeps ==
    ASSUME server = "eventbus", UNCHANGED <<server, overlapped, inputBuffer, mangled>>,
           Processing, BusInv, Bus!Next
    PROVE  Processing' /\ BusInv'
<1>1. ASSUME NEW k \in 1..MaxExchanges, NEW isOneway \in BOOLEAN, Bus!Send(k, isOneway)
      PROVE  Processing' /\ BusInv'
  BY <1>1, BusSends
<1>2. ASSUME NEW k \in 1..MaxExchanges, Bus!HandleOther(k)
      PROVE  Processing' /\ BusInv'
  BY <1>2, BusRefuses
<1>3. ASSUME NEW k \in 1..MaxExchanges, NEW r \in Requests, Bus!HandleMessage(k, r)
      PROVE  Processing' /\ BusInv'
  BY <1>3, BusProcesses
<1>4. ASSUME NEW r \in Requests, Bus!ServiceCompletes(r)
      PROVE  Processing' /\ BusInv'
  BY <1>4, BusCompletes
<1>. QED
  BY <1>1, <1>2, <1>3, <1>4, BusDone DEF Bus!Next, Bus!Conns, Bus!Requests, Requests
------------------------------------------------------------------------------
(* At first nothing is sent.                                               *)
LEMMA InitInv == Init => Inv
<1>. SUFFICES ASSUME Init PROVE Inv
  OBVIOUS
<1>1. /\ sent = 0 /\ from = [r \in Requests |-> 0] /\ output = [r \in Requests |-> 0]
      /\ oneway = {} /\ executed = {} /\ unfinished = {} /\ unwritten = {}
      /\ responses = [k \in 1..Limit |-> <<>>]
      /\ overlapped = FALSE /\ mangled = {} /\ current = 0 /\ inputBuffer = <<>>
      /\ server \in {"framed", "websocket", "http", "eventbus"}
  BY DEF Init, Framed!Init, Framed!ProcessInit, Framed!Requests, Framed!Conns,
         WebSocket!Init, WebSocket!ProcessInit, WebSocket!Requests, WebSocket!Conns,
         Http!Init, Http!ProcessInit, Http!Requests, Http!Conns,
         Bus!Init, Bus!ProcessInit, Bus!Requests, Bus!Conns, Requests, Limit, NoStream
<1>2. 1..sent = {} /\ 0 \in 0..Limit /\ 0 \in 0..MaxRequests
  BY <1>1, ServersAssumption DEF Limit
<1>3. Typed
  <2>1. <<>> \in Seq(Framed!Responses)
    OBVIOUS
  <2>2. \A r \in Requests : from[r] # 0 <=> r <= sent
    BY <1>1 DEF Requests
  <2>. QED  BY <1>1, <1>2, <2>1, <2>2 DEF Typed
<1>4. AnsweredOnce /\ \A r : ~Answered(r)
  BY <1>1 DEF AnsweredOnce, Answered, AnsweredAt
<1>5. Processing
  <2>1. Waiting = {} /\ Owed = {}
    BY <1>1, <1>2 DEF Waiting, Owed
  <2>2. OwnResponses
    BY <1>1 DEF OwnResponses
  <2>. QED  BY <1>1, <1>3, <1>4, <2>1, <2>2 DEF Processing, Unanswered, Serving
<1>6. ASSUME server \in {"framed", "websocket"}
      PROVE  /\ StreamInv /\ \A field : OneClient(field)
             /\ Len(inputBuffer) = 0 /\ socket = 0 /\ websocket = 0 /\ reading = FALSE
  <2>1. /\ conn = [k \in Conns |-> "none"] /\ uplink = [k \in Conns |-> <<>>]
        /\ socket = 0 /\ websocket = 0 /\ reading = FALSE
    BY <1>6 DEF Init, Framed!Init, WebSocket!Init, Framed!Conns, WebSocket!Conns, Conns,
                NoFramed, NoWebSocket
  <2>2. Len(<<>>) = 0 /\ <<>> \in Seq(Framed!Pieces)
    OBVIOUS
  <2>3. Streams /\ PiecesOnce /\ PiecesSent
    BY <1>1, <2>1, <2>2 DEF Streams, PiecesOnce, PiecesSent, InFlight
  <2>4. StreamInv
    <3>1. \A r \in Requests : output[r] = 0
      BY <1>1
    <3>2. conn \in [Conns -> {"none", "open", "closed"}]
      BY <2>1
    <3>3. overlapped \in BOOLEAN /\ mangled \subseteq 1..sent /\ current \in 0..sent
      <4>1. 0 \in 0..0
        OBVIOUS
      <4>. QED  BY <1>1, <4>1
    <3>. QED  BY <2>3, <3>1, <3>2, <3>3 DEF StreamInv
  <2>. QED  BY <1>1, <2>1, <2>2, <2>4 DEF OneClient
<1>7. server = "framed" => FramedInv
  BY <1>1, <1>6, ServersAssumption DEF FramedInv
<1>8. server = "websocket" => WebSocketInv
  BY <1>1, <1>6, ServersAssumption DEF WebSocketInv
<1>9. ExchangesOwn
  BY <1>1, <1>2 DEF ExchangesOwn
<1>10. ASSUME server = "http" PROVE HttpInv
  <2>1. /\ conn = [k \in 1..MaxExchanges |-> "none"]
        /\ path = [k \in 1..MaxExchanges |-> "nowhere"] /\ request = 0 /\ uri = "nowhere"
    BY <1>10 DEF Init, Http!Init, Http!Conns, Http!NoService
  <2>2. request \in 0..MaxExchanges
    BY <2>1, ServersAssumption
  <2>3. \A k \in 1..MaxExchanges : conn[k] # "open"
    BY <2>1
  <2>4. overlapped \in BOOLEAN /\ mangled = {} /\ \A r \in 1..sent : FALSE
    BY <1>1, <1>2
  <2>. QED  BY <1>9, <2>1, <2>2, <2>3, <2>4 DEF HttpInv
<1>11. server = "eventbus" => BusInv
  BY <1>1, <1>2, <1>9 DEF BusInv, Init, Bus!Init, Bus!Conns
<1>. QED  BY <1>1, <1>5, <1>7, <1>8, <1>10, <1>11 DEF Inv

(* Whichever server runs, each of its steps keeps the invariant.           *)
LEMMA NextInv == Inv /\ [Next]_vars => Inv'
<1>. SUFFICES ASSUME Inv, [Next]_vars PROVE Inv'
  OBVIOUS
<1>1. CASE FramedStep
  <2>1. server = "framed" /\ UNCHANGED server /\ Framed!Next
    BY <1>1 DEF FramedStep
  <2>2. Processing' /\ FramedInv'
    BY <2>1, FramedKeeps DEF Inv
  <2>. QED  BY <2>1, <2>2 DEF Inv
<1>2. CASE WebSocketStep
  <2>1. server = "websocket" /\ UNCHANGED server /\ WebSocket!Next
    BY <1>2 DEF WebSocketStep
  <2>2. Processing' /\ WebSocketInv'
    BY <2>1, WebSocketKeeps DEF Inv
  <2>. QED  BY <2>1, <2>2 DEF Inv
<1>3. CASE HttpStep
  <2>1. server = "http" /\ UNCHANGED <<server, inputBuffer>> /\ Http!Next
    BY <1>3 DEF HttpStep
  <2>2. Processing' /\ HttpInv'
    BY <2>1, HttpKeeps DEF Inv
  <2>. QED  BY <2>1, <2>2 DEF Inv
<1>4. CASE BusStep
  <2>1. /\ server = "eventbus" /\ UNCHANGED <<server, overlapped, inputBuffer, mangled>>
        /\ Bus!Next
    BY <1>4 DEF BusStep, streamVars
  <2>2. Processing' /\ BusInv'
    BY <2>1, BusKeeps DEF Inv
  <2>. QED  BY <2>1, <2>2 DEF Inv
<1>5. CASE UNCHANGED vars
  <2>1. /\ UNCHANGED <<server, sent, from, oneway, output, executed, unfinished, unwritten>>
        /\ UNCHANGED <<responses, conn, current, overlapped, uplink, inputBuffer, mangled>>
        /\ UNCHANGED <<socket, reading, websocket, request, uri, path>>
    BY <1>5 DEF vars, processVars, streamVars, framedFields, httpFields
  <2>2. Processing' <=> Processing
    BY <2>1 DEF Processing, Typed, AnsweredOnce, Unanswered, Serving, Orderly, OwnResponses,
                Owed, Waiting, InFlight, Answered, AnsweredAt, Limit
  <2>3. \A field : (StreamInv' <=> StreamInv) /\ (OneClient(field)' <=> OneClient(field))
    BY <2>1 DEF StreamInv, Streams, PiecesOnce, PiecesSent, InFlight, OneClient
  <2>4. (FramedInv' <=> FramedInv) /\ (WebSocketInv' <=> WebSocketInv)
    BY <2>1, <2>3 DEF FramedInv, WebSocketInv, OneClient
  <2>5. (HttpInv' <=> HttpInv) /\ (BusInv' <=> BusInv)
    BY <2>1 DEF HttpInv, BusInv, ExchangesOwn
  <2>. QED  BY <2>1, <2>2, <2>4, <2>5 DEF Inv
<1>. QED  BY <1>1, <1>2, <1>3, <1>4, <1>5 DEF Next

(* The invariant holds in all reachable states, whatever the constants.    *)
THEOREM Invariance == Spec => []Inv
BY InitInv, NextInv, PTL DEF Spec

(* The state of each server has its type.                                  *)
THEOREM TypeCorrectness == Spec => []TypeOK
<1>1. Inv => TypeOK
  <2>. SUFFICES ASSUME Inv PROVE TypeOK
    OBVIOUS
  <2>1. Typed /\ sent \in 0..MaxRequests /\ server \in {"framed", "websocket", "http", "eventbus"}
    BY DEF Inv, Processing, Typed
  <2>2. current \in 0..sent => current \in 0..MaxRequests
    BY <2>1, ServersAssumption
  <2>3. server = "framed" => Framed!TypeOK
    BY <2>1, <2>2 DEF Inv, Typed, Limit, FramedInv, StreamInv, Streams, Framed!TypeOK,
       Framed!ProcessTypeOK, Framed!Requests, Framed!Conns, Requests, Conns
  <2>4. server = "websocket" => WebSocket!TypeOK
    BY <2>1, <2>2 DEF Inv, Typed, Limit, WebSocketInv, StreamInv, Streams, WebSocket!TypeOK,
       WebSocket!ProcessTypeOK, WebSocket!Requests, WebSocket!Conns, Requests, Conns,
       WebSocket!Responses, Framed!Responses, Framed!Requests, WebSocket!Pieces, Framed!Pieces
  <2>5. server = "http" => Http!TypeOK
    BY <2>1, <2>2 DEF Inv, Typed, Limit, HttpInv, ExchangesOwn, Http!TypeOK,
       Http!ProcessTypeOK, Http!Requests, Http!Conns, Requests, Http!NoService,
       Http!Responses, Framed!Responses, Framed!Requests
  <2>6. server = "eventbus" => Bus!TypeOK
    BY <2>1, <2>2 DEF Inv, Typed, Limit, BusInv, ExchangesOwn, Bus!TypeOK,
       Bus!ProcessTypeOK, Bus!Requests, Bus!Conns, Requests,
       Bus!Responses, Framed!Responses, Framed!Requests
  <2>. QED  BY <2>1, <2>3, <2>4, <2>5, <2>6 DEF TypeOK
<1>. QED  BY <1>1, Invariance, PTL

(* No request is answered twice, by whichever server.                      *)
THEOREM Once == Spec => []AnsweredOnce
<1>1. Inv => AnsweredOnce
  BY DEF Inv, Processing
<1>. QED  BY <1>1, Invariance, PTL

(* Clients that come one by one get responses to their own requests, made  *)
(* by the service they asked; on the event bus all clients do.             *)
THEOREM Served == Spec => []SerialClientsServed
<1>1. Inv => SerialClientsServed
  BY DEF Inv, Processing, Serving, SerialClientsServed, Orderly, FramedInv, WebSocketInv,
         OneClient, HttpInv, BusInv
<1>. QED  BY <1>1, Invariance, PTL

(* Their two-way calls are answered, on their connection.                  *)
THEOREM Arrive == Spec => []AnswersArrive
<1>1. Inv => AnswersArrive
  <2>1. Inv => executed \subseteq Owed
    BY DEF Inv, Processing, Typed, Unanswered, Owed
  <2>. QED  BY <2>1 DEF Inv, Processing, Serving, AnswersArrive, AnsweredAt, Typed, Owed
<1>. QED  BY <1>1, Invariance, PTL

(* No whole frame of theirs is left in the buffer.                         *)
THEOREM NoneWaits == Spec => []NoFrameWaits
<1>1. Inv => NoFrameWaits
  <2>1. Len(<<>>) = 0
    OBVIOUS
  <2>. QED  BY <2>1 DEF Inv, NoFrameWaits, Orderly, FramedInv, WebSocketInv, HttpInv, BusInv,
                 ExchangesOwn
<1>. QED  BY <1>1, Invariance, PTL

(* Their exchanges over HTTP end when the body was processed.              *)
THEOREM EndOfExchanges == Spec => []ExchangesEnd
<1>1. Inv => ExchangesEnd
  <2>. SUFFICES ASSUME Inv, server = "http", ~overlapped, NEW r \in 1..sent,
                       conn[from[r]] = "processed",
                       r \notin oneway \cup unfinished \cup unwritten
                PROVE  from[r] \in Http!Ended
    BY DEF ExchangesEnd, Http!ExchangesEnd
  <2>1. Typed /\ Serving
    BY DEF Inv, Processing
  <2>2. from[r] \in 1..MaxExchanges
    BY <2>1, ServersAssumption DEF Typed, Limit, Requests
  <2>3. r \in Owed
    BY DEF Owed, Waiting
  <2>4. AnsweredAt(r, from[r])
    BY <2>1, <2>3 DEF Serving, Orderly
  <2>5. responses[from[r]] # <<>>
    BY <2>4 DEF AnsweredAt
  <2>. QED  BY <2>2, <2>5 DEF Http!Ended, Http!Conns
<1>. QED  BY <1>1, Invariance, PTL
==============================================================================
