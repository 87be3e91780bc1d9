------------------------- MODULE GeneratedServices -------------------------
(***************************************************************************)
(* The client of a service generated for one target calls a processor      *)
(* generated for another over one connection.  The client makes its calls  *)
(* one after the other and waits for the reply of every call that is not   *)
(* oneway; the server processes what arrives in order.  Around the         *)
(* generated code stands what the servers of the libraries do: a process() *)
(* that throws costs the connection.                                       *)
(***************************************************************************)
EXTENDS GeneratedCode

CONSTANTS
  Clients,     \* the targets of clients
  Servers,     \* the targets of processors
  Functions,   \* the functions of the client's service
  Unserved,    \* those of them that the server's IDL does not have
  MaxCalls     \* how many calls the client makes

ASSUME ClientsAssumption == Clients \subseteq ClientTargets
ASSUME ServersAssumption == Servers \subseteq ServerTargets
ASSUME CallsAssumption == MaxCalls \in Nat \ {0}

VARIABLES
  client, server,   \* the targets of the two programs
  open,             \* the connection is open
  requests,         \* the calls on the way to the server
  replies,          \* what is on the way to the client
  waiting,          \* the client is in recv_<function>
  calls,            \* history: the functions called so far
  ends,             \* history: how the handlers of these calls ended
  told              \* history: what the client was told of each call

vars == <<client, server, open, requests, replies, waiting, calls, ends, told>>

Kind(fn) == IF fn.ret = <<>> THEN "void" ELSE TrueType(fn.ret[1]).kind
NotYet == Refused("not yet")

Init ==
  /\ client \in Clients /\ server \in Servers
  /\ open = TRUE
  /\ requests = <<>> /\ replies = <<>>
  /\ waiting = FALSE
  /\ calls = <<>> /\ ends = <<>> /\ told = <<>>

(* The sequence number of a client that counts is the number of the call.  *)
CallFunction ==
  /\ ~waiting
  /\ open
  /\ Len(calls) < MaxCalls
  /\ \E fn \in Functions :
       /\ requests' = requests \o SendCall(client, fn, Len(calls) + 1)
       /\ calls' = Append(calls, fn)
       /\ waiting' = ~fn.oneway
       /\ told' = Append(told, IF fn.oneway THEN Returns(Void) ELSE NotYet)
  /\ UNCHANGED <<client, server, open, replies, ends>>

(* How the handler of a function may end: null is a value where an unset   *)
(* member is null.  A call that does not get to the handler has failed.    *)
EndsOf(fn) ==
  LET Nullable(type) == NewMember(server, Field(SuccessId, type, "default", NULL)).val = NULL
  IN  IF ~CallsHandler(server, fn) THEN {Fails}
      ELSE (IF fn.ret = <<>> THEN {Returns(Void)}
            ELSE {Returns(Zero), Returns(One)}
                   \cup IF Nullable(fn.ret[1]) THEN {Returns(NULL)} ELSE {})
             \cup (IF fn.throws THEN {Throws} ELSE {}) \cup {Fails}

Answer(processed) ==
  /\ replies' = replies \o processed.reply
  /\ open' = ~processed.thrown
  /\ requests' = IF processed.thrown THEN <<>> ELSE AfterMessage(requests)
  /\ UNCHANGED <<client, server, waiting, calls, told>>

Serve ==
  /\ requests # <<>>
  /\ LET fn == calls[Len(ends) + 1]
         seqid == Head(requests).num
     IN  IF fn \in Unserved
           THEN /\ Answer(UnknownMethod(server, fn.name, seqid))
                /\ ends' = Append(ends, Fails)
           ELSE \E end \in EndsOf(fn) :
                  /\ Answer(ProcessFunction(server, fn, seqid, end))
                  /\ ends' = Append(ends, end)

(* A client that counts drops what is not for its call and waits on.       *)
ReceiveReply ==
  /\ waiting
  /\ replies # <<>>
  /\ LET fn == calls[Len(calls)]
         got == RecvReply(client, fn, Len(calls), replies)
         done == got.outcome.kind # "ignored"
     IN  /\ replies' = got.rest
         /\ waiting' = ~done
         /\ told' = IF done THEN [told EXCEPT ![Len(calls)] = got.outcome] ELSE told
  /\ UNCHANGED <<client, server, open, requests, calls, ends>>

LoseConnection ==
  /\ waiting
  /\ ~open
  /\ replies = <<>>
  /\ waiting' = FALSE
  /\ told' = [told EXCEPT ![Len(calls)] = Refused("transport")]
  /\ UNCHANGED <<client, server, open, requests, replies, calls, ends>>

Next == CallFunction \/ Serve \/ ReceiveReply \/ LoseConnection

Spec == Init /\ [][Next]_vars
-----------------------------------------------------------------------------
TypeOK ==
  /\ open \in BOOLEAN /\ waiting \in BOOLEAN
  /\ Len(calls) \in 0..MaxCalls
  /\ Len(ends) <= Len(calls)
  /\ Len(told) = Len(calls)

(* What the code of these targets does otherwise.                          *)
FalseIsUnset == {"lua"}             \* if result.success then
DeafToVoidExceptions == {"lua"}     \* recv_ of a void function
LosesDeclaredExceptions == {"cocoa"}    \* no @try in the processor
AddsResultToException == {"go"}     \* result.Success = &retval in any case
ResultFirst == ClientTargets \ {"go", "js"}  \* success is asked before exceptions
ForgetsFailures == {"perl", "js"}   \* a failure leaves an empty result
InventsResults == {"go"}            \* GetSuccess() of a missing result
AnswersOneway == {"java-sync"}      \* an EXCEPTION for a oneway call

Excepted(fn, end) ==
  CASE end = Throws ->
         \/ server \in LosesDeclaredExceptions
         \/ fn.ret = <<>> /\ client \in DeafToVoidExceptions
         \/ /\ server \in AddsResultToException /\ client \in ResultFirst
            /\ fn.ret # <<>> /\ Kind(fn) \in BaseKinds \cup {"enum"}
    [] end = Fails ->
         /\ server \in ForgetsFailures
         /\ fn.ret = <<>> \/ client \in InventsResults
    [] end = Returns(Zero) ->
         Kind(fn) = "bool" /\ {client, server} \cap FalseIsUnset # {}
    [] end = Returns(NULL) -> client \in InventsResults
    [] OTHER -> FALSE

(* A oneway call was answered, and what came after it is out of step.      *)
OnewayAnswered ==
  /\ server \in AnswersOneway
  /\ \E i \in 1..Len(ends) : calls[i].oneway /\ ends[i] = Fails

(* The result a handler returned is what the caller is told; a declared    *)
(* exception arrives as itself; any other failure, an unknown function or  *)
(* a null result is reported as some error, and never as a result.         *)
ToldTheTruth ==
  \A i \in 1..Len(ends) :
    /\ ~calls[i].oneway /\ told[i] # NotYet
    /\ ~Excepted(calls[i], ends[i]) /\ ~OnewayAnswered
    => IF ends[i] \in {Fails, Returns(NULL)}
         THEN told[i].kind \notin {"returned", "declared"}
         ELSE told[i] = ends[i]

(* A client never waits for a reply that will not come.                    *)
EveryCallAnswered == ~(waiting /\ open /\ requests = <<>> /\ replies = <<>>)

(* Between two calls nothing is left on the connection that the next call  *)
(* would take for its reply.                                               *)
InStep == ~waiting /\ requests = <<>> /\ ~OnewayAnswered => replies = <<>>

(* Only a failure of a handler, or a function that the service does not    *)
(* have, costs the client the connection.                                  *)
LostForCause ==
  ~open => \E i \in 1..Len(ends) :
             \/ ends[i] = Fails
             \/ ends[i] = Throws /\ server \in LosesDeclaredExceptions

(* "throws" of the IDL: a declared exception that the handler throws is    *)
(* what the caller gets.                                                   *)
DeclaredExceptionsArrive ==
  \A i \in 1..Len(ends) :
    ~calls[i].oneway /\ ends[i] = Throws => told[i] \in {Throws, NotYet}
------------------------------------------------------------------------------
(* The functions of the run GeneratedServices: with and without a result,  *)
(* a declared exception and a reply, and one that the server lacks.        *)
Missing == Function("missing", <<>>, FALSE, FALSE)
MCUnserved == {Missing}
MCFunctions ==
  {Function("getBool", <<Base("bool")>>, FALSE, FALSE),
   Function("getName", <<Base("string")>>, TRUE, FALSE),
   Function("getOne", <<Base("struct")>>, FALSE, FALSE),
   Function("ping", <<>>, TRUE, FALSE),
   Function("notify", <<>>, FALSE, TRUE), Missing}
=============================================================================
