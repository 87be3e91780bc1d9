# A verification project for thrift-for-vertx

thrift-for-vertx is an asynchronous Thrift RPC library for Vert.x 2: a Java library
(`src/lib/vertx-java`), a JavaScript one (`src/lib/vertx-js`) and a patched Thrift IDL
compiler (`src/compiler/cpp/src`) whose generators write the code that runs on them. This
directory holds TLA+ models of the Java library's four clients, its four servers with their
processors and its compact protocol, of the compiler from the files it reads to the trees its
generators are given, and of the code that 14 of the generators emit; the TLC runs that check
them and the theorems TLAPS proves about them. Paths
below are relative to `src/lib/vertx-java/src/main/java/org/apache/thrift/` (library) or
`src/compiler/cpp/src/` (compiler) unless they start with `src/`.

## 1. Inventory

| Component | State it keeps | Operations | Talks to |
|---|---|---|---|
| `async/TAsyncClientManager` | `seqid2MethodCall`, the transport | constructor (opens nothing, throws if the transport is closed, sets itself as response handler), `call`, `registerMethodCall`, `unregisterMethodCall`, `handleResponse` | one client transport; the method calls |
| `async/TAsyncMethodCall` | `seqid_`, `completed`, response timer id, result handler | `start` (register, write, flush), `responseReady`, `onComplete`, `onError` | manager, transport, the application's handler |
| `TFramedNetClientTransport` | `client_`, `socket_`, `methodCall_`, `outputBuffer_`, `pendingOutputBuffers_`, the data handler's `inputBuffer` | `open`, `close`, `write`, `flush`, `setTimeoutForResponse`; connect, data, close and timer events | Vert.x `NetClient`, the event loop |
| `TWebSocketTransport` | as above, with `websocket_` | as above, with the frame handler | Vert.x `HttpClient` |
| `THttpClientTransport` | `client_`, `outputBuffer_` | `open`, `close`, `flush`; response, body, timeout and exception handlers of each request | Vert.x `HttpClient` |
| `TEventBusTransport` | `methodCall_`, `outputBuffer_` | `flush`; the reply handler | Vert.x event bus |
| Servers (`server/*`) | per server one handler whose fields its connections share: `socket` and `inputBuffer` (TCP), `websocket` and `inputBuffer` (WebSocket), `request` and `uri` (HTTP), none (event bus) | connect, data, head, body, message and close events; `process` | processors, server transports |
| Processors (`TBaseProcessor`, `ProcessFunction`, `TBaseAsyncProcessor`, `AsyncProcessFunction`, `TMultiplexedProcessor`) | the process map | `process` | the service implementation, a protocol |
| Compact protocol (`TCompactProtocol`, `ShortStack`, `TProtocolUtil.skip`) | `lastFieldId_`, the stack `lastField_`, `booleanField_`, `boolValue_` | read and write of each type | a transport, generated code |
| Other protocols (`protocol/*`) | JSON contexts | read and write of each type | a transport |
| JavaScript library (`src/lib/vertx-js`) | connections, pending requests by sequence id | `open`, `close`, `call`, events | Vert.x |
| Compiler: driver and parser (`main.cc`, `thrifty.yy`, `parse/*`) | the globals of `main.cc` (`g_program`, `g_scope`, `g_parent_scope`, `g_parent_prefix`, `g_parse_mode`, `y_field_val`), a `t_program` per parsed file, scopes by name, the stack of `parse()` | `parse()` in two passes (`INCLUDES`, `PROGRAM`) for every include, the grammar's actions for each definition, `t_struct::append`, `t_scope` lookups, `generate()` | the files; the generators, which share the tree |
| Compiler: generators (`generate/t_*_generator.cc`) | none of their own between programs; the Go one changes the tree | one function per piece of code they emit | the tree; through the emitted code, each other |
| Generated code | structs with members and flags; a client's sequence id | construct, set, clear, copy, equals, read, write, validate; `send_` and `recv_`, `process_` | protocols, handlers, code generated for other targets |

What makes each part correct, and what is hard about it:

* **Calls.** Every call is told its outcome, once, and the outcome is its own: its reply,
  its failure, or its deadline. Hard: the handler that is told is the application's and may
  throw *before* the call is unregistered; a timer races a reply; replies come in any order,
  late or never; the connection may be gone.
* **Socket transports.** The fields describe the connection that exists; what is written is
  one whole message per frame; what is received is dispatched once. Hard: close events of one
  connection arrive while another exists; serialization fails half way; a handler
  throws in the middle of the frames of one data event.
* **HTTP and event bus.** The deadline belongs to the request or the bus; handlers of a call
  run long after the next call has begun. Hard: what is captured by the handler and what is
  read from a field; what is reported twice; what is ignored.
* **Servers and processors.** A response goes to the client that asked, carries one message,
  and is sent although the service answers later. Hard: fields shared by connections.
* **Protocols.** Reading gives back what was written, at every boundary of the widths. Hard: the
  compact protocol sends field ids as differences and booleans inside of field headers, so that
  each value depends on what was written before it, in the struct and in those around it.
* **Compiler.** What a generator is given says what the files say: each name means the
  definition it names, each field has its id, each struct is in the order of its ids. Hard: all
  of it goes through globals that a recursive `parse()` saves, changes and restores; names of an
  included file are put into scopes by a prefix that is the last part of the file's path; a
  typedef may stand before what it names; automatic ids count down across the nonpositive ones
  that the file gives, in one counter for a list and the lists of `xsd_attrs` inside of it; a file
  included twice is parsed twice.
* **Generated code.** Two programs that were generated from one IDL, or from an older and a newer
  version of it, for any two languages, understand each other: what one writes the other reads,
  byte for byte, what was set arrives, what was not set is not made up, and the caller of a
  function is told how the handler ended. Hard: every generator decides on its own what "set"
  means (a flag, a null, a comparison with the default), which types it sees through a typedef,
  which fields it insists on, and in which order a reply is asked for a result and an exception.
  The code of one generator is tested against itself; the pairs are what nobody tests.

`PROJECT.json` lists every component, with its status, and every hazard, with its line.

## 2. The models

| Module | Models | Lines of state |
|---|---|---|
| `AsyncMethodCall` | `TAsyncClientManager`, `TAsyncMethodCall` | registry, flags, timers, history of results |
| `ClientSocketTransport` | what the TCP and the WebSocket transports share | client, socket, connections, buffers, network, service |
| `FramedNetClient` | `TFramedNetClientTransport` | extends the former with the connect and data handlers |
| `WebSocketClient` | `TWebSocketTransport` | extends it with the connect and frame handlers |
| `HttpClient` | `THttpClientTransport` | requests and their fates |
| `EventBusClient` | `TEventBusTransport` | `methodCall_`, reply handlers outstanding |
| `Clients` | a program over a WebSocket, HTTP or the event bus: the three former, composed | theirs, and which transport it is |
| `ServerProcessor` | `TBaseProcessor`, `ProcessFunction`, `TBaseAsyncProcessor`, `AsyncProcessFunction`, `TMultiplexedProcessor`, the result handler that the Java generator emits, the output of the server transports | requests, their transports, futures not completed, responses written |
| `FramedNetServer` | the socket handler of `TFramedNetServer` | extends it with the connections, the fields shared by them, the network |
| `WebSocketServer` | the handler of `TWebSocketServer` | likewise, with frames of messages |
| `HttpServer` | the request handler of `THttpServer` | extends it with the exchanges and the fields `request` and `uri` |
| `EventBusServer` | the message handler of `TEventBusServer` | extends it with the messages |
| `Servers` | a program that serves with one of the four | theirs, and which server it is |
| `CompactProtocol` | `TCompactProtocol`, `TProtocolUtil.skip` | the two protocol objects, the wire in bytes, what is to be finished, histories of calls |
| `CallContract` | nothing of the code: the promise made to a caller | issued, verdict, answered, expired |
| `IdlParser` | `main.cc`'s `parse()`, the actions of `thrifty.yy`, `parse/t_scope.h`, `t_struct.h`, `t_program.h`, `t_const_value.h`, `t_typedef.cc` | globals, stack of `parse()`, reader, tree, scopes |
| `IdlCompiler` | `main()` and `generate()` | extends the former with the calls of `generate()` and what each generator was given |
| `ThriftIdl` | no state: types, fields, values of the IDL and the protocol calls that generated code makes | none |
| `GenCpp`, `GenJava`, `GenPy`, `GenAs3`, `GenCocoa`, `GenCSharp`, `GenGo`, `GenJavame`, `GenJs`, `GenLua`, `GenPerl`, `GenPhp`, `GenRb`, `GenSt` | the code that `generate/t_<target>_generator.cc` emits, one operator per emitted function | none |
| `GeneratedCode` | the dispatch over the targets (`t_generator_registry`) | none |
| `GeneratedStructs` | a struct that travels between generated programs | phase, the current program, the struct in memory, the wire |
| `GeneratedServices` | a generated client and a generated processor on one connection | both ends of the connection, histories of calls, ends and results |

`MCIdlCompiler`, `MCGeneratedStructs` and `MCCompactProtocol` give the
constants of the modules in their names; the other modules are run as they are. `Clients` and
`Servers` compose their parts with `INSTANCE`: the program has one of them, which is chosen in
`Init`, and the variables of the others stay as they began.

A call is its sequence id: the generator counts from 1, so that `Started = 1..seqidGenerator`.
`results[c]` is the history of what the result handler of `c` was invoked with; `thrown` is
a parameter of every operator that invokes a handler and says whether it throws. In the code
the handler runs first and `onComplete` (unregister, cancel the timer, set the flag) after it,
so that a throw leaves the call registered: `HandleResult` has exactly this order.

The event loop of a verticle runs one event at a time. An action is one event, or one call of
the application into the library. The one loop in which the application can run in the middle
is the data handler's (`FramedNetClient!ReadFrame`, one frame per step): result handlers run
there and may make calls, close and open. No other event runs until it ends (`Idle`). A frame
is the sequence of messages in it. Responses are `reply` (the service executed the call),
`exception`, `corrupt` (`getResult` throws something other than a `TException`) or `garbled`
(the header cannot be read).

The network keeps the order of each connection, splits it into arbitrary data events, and drops
everything when the connection closes; connections are closed by either side at any moment.
The service answers requests in any order, or never. A message that was cut short (because its
serialization failed) is not executed; what follows it in the frame is not read.

**Servers** are seen from their handlers. `serve()` gives one handler object to Vert.x, so that its
fields belong to all connections, and the models have one of each: `socket` and `inputBuffer`
over TCP, `websocket` and `inputBuffer` over WebSockets, `request` and `uri` over HTTP. The handler
of the event bus keeps nothing; a request's transport holds its message.

`ServerProcessor` says how one request can end, once for all servers. `ProcessReturns`: the method
is unknown or its arguments cannot be read (`Unprocessable`), a synchronous service has answered
(`ProcessSync`, with `mixed` for a reply header with an exception behind it), or an
asynchronous one has its future (`ProcessAsync`). `ProcessThrows`: what `process()` passes on, and
each server deals with in its own way; HTTP ends the exchange with status 500 (`error`). `Complete`
is the future, in time or late; it calls `ResultHandler`, the code that the Java generator emits for
it (`generate/t_java_generator.cc:3002-3080`): it writes the result, the declared exception or the
failure, or fails to serialize them, which it logs and tells nobody (`:3028`, `:3068`). `process()` is two steps, its outcome and its end, between which
an asynchronous service may complete; it may also do so in a later event (`ServiceCompletes`), when
the transport of the request (`output`) has been closed. `unwritten` remembers the requests for
which the code gave up: `process()` passes the exception on, the result handler logs it, or the
transport is closed. A connection of `ServerProcessor` is a TCP connection, a WebSocket, an HTTP
exchange or a message on the bus.

A TCP request is two pieces of equal size, the first with the headers: a data event brings any
number of pieces, so that a frame may be cut in the middle or come with others. When the piece at
the head of the buffer has no size header (another client's close reset the buffer, or pieces of
two clients were joined), the code reads some other bytes as a size: `EndRead` (it looks too large,
or negative and `getBuffer` throws) or `DropGarbage` (it looks small, and `readMessageBegin` fails
on what it holds; that these bytes might be a valid message is left out). A message over a
WebSocket is two of its frames, the second final. An HTTP request is a head, which may be refused,
and a body, which comes later or never.

Three of the four handlers are right only for clients that come one after the other. `overlapped`
is a history variable: was a connection accepted (a head received) while another was open (another
body due)? `Orderly` is its negation, or the event bus.

**The compact protocol** is the one model with bytes. One protocol object writes a message, another
reads it. The reader makes the calls that the types it reads ask for, as generated code and
`TProtocolUtil.skip` do; `todo` is their call stack: the structs and containers not finished, with
the types of the values that are due. The writer makes any calls that make up a struct. A method
that would throw is a reader that is stuck, which TLC reports as a deadlock. Values are
integers; a string is the number of its bytes. `I32` stands for `I16`, `I32` and `I64`, which have
the same code at three widths, and `LIST` for `LIST` and `SET`. `Width` stands for 32 and 64: it is
30 in the runs, because TLC's integers have 32 bits. Left out: doubles, the length limits, `reset()`
in the middle of a message, and `guessProtocolFactory`.

Left out of clients and servers: SSL, reconnect and buffer size settings, the handlers an application may set on the
transport (`connectHandler` and its like), logging, the wording of errors, and the payload.

**The parser** is a reader that goes through a file (`cursor`: headers, definition, field,
end), with one action per thing the grammar reduces: `ReadHeaders`, `StartDefinition`,
`ReadField`, `EndFieldList`, the declaration itself, `EndOfFile`; between them the steps of
`parse()`, whose recursion is the variable `stack`, one record per call. `globals` holds what
`main.cc` keeps in global variables, so that what an include leaves in them is there afterwards.
A file is its includes, a namespace and its definitions in order; a definition has its fields
(two lists for a service with one function: arguments and exceptions). A name is the sequence of
its parts. Types are `i32` and definitions, constants are integers and identifiers. The compiler
ends in one of `exited`, `failed` (a message and exit 1), `crashed` (a null or unset pointer is
followed), `hung` (`get_true_type` runs in a circle of typedefs) and `overflow` (includes deeper
than `MaxDepth`: for a cycle of files the C++ stack, as nothing stops the recursion). A value that
is never set (`enum_` of an identifier without a type) is `Garbage`: following it is a crash or
not, both are allowed. An `int32_t` is `KeyRange` wide. A field may have `xsd_attrs`, a list of
fields of its own (`thrifty.yy:824`): its start sets `y_field_val` to -1 in the middle of the list
around it (`:956`), its fields count on from there, and so do those behind it (`Counted`,
`FieldValBehind`). An id or a name taken twice in it, or an automatic id under `-strict`, is refused
(`IdentifierRefused`). Only the XSD generator looks at what `xsd_attrs` hold: their fields are read for
ids and names alone, and have neither defaults nor `xsd_attrs`.

**A generator** is seen through what its code does, as the same operators in each `Gen` module:
the initial member (`NewMember`), its setter, `WriteStruct` as the sequence of protocol calls,
the read of one field with the type test and the skip, what validates a struct before writing and
after reading, `Copy`, `Clear` and `Equal` where they are emitted, how a literal is rendered, the
client's `send` and `recv`, and the processor's answer for each way a handler ends. Where
generators emit the same code the operator is in `ThriftIdl`, with the differences as
parameters. Values are atoms (zero, one, null, an enumerator the reader does not declare); a
struct within a struct is one atom and one call; the elements of a container are no containers;
the wire is the sequence of protocol calls, so that it is the same for every protocol that gives
back what was written.

`GeneratedStructs` has two fields in its struct. The *probe* takes every type, requiredness and
default, and an id that is given or negative; the *sentinel*, declared behind it, shows whether
what happens to the probe disturbs the rest. The reader's IDL is the writer's, or has the probe
removed, moved behind the sentinel, made required, or of another type; it knows one enumerator less than the
first writer. What was read may be written again, by a program of any target.
`GeneratedServices` puts a client and a processor on a connection that a failing `process()`
closes, as the servers of the libraries do.

### Mapping to the contract

`CallContract` knows of a call only: was it issued, what is its verdict, did the service answer
it, has its deadline passed. A call starts, perhaps with a verdict at once (`sent` for a oneway
call, `error` when it could not be sent); a pending call gets one verdict more and keeps it.
`reply` needs the service's answer to *this* call, `timeout` this call's deadline. Each client
maps `issued` to `seqidGenerator`, `verdict` to the last result of a *completed* call, and
`expired` to the timers that fired (over HTTP, to the requests that timed out).

## 3. The runs

Passing runs:

| Run | Constants | Shows |
|---|---|---|
| `FramedNetClient` | 2 calls, 1 throw each, 2 sockets, 1 fault | the invariants, `ImplementsContract`, `EventuallyNotified` (334,510 states) |
| `Clients` | 2 calls over a WebSocket, 3 over HTTP or the bus, 1 throw, 2 sockets, 1 fault | `NotifiedOnce`, `RepliesAreAnswers`, `KeepsContract`, `EventuallyNotified` (449,603 states) |
| `Servers` | 3 requests, 2 connections, 3 exchanges, 2 services | `AnsweredOnce`, `SerialClientsServed`, `AnswersArrive`, `NoFrameWaits`, `ExchangesEnd` (1,440,057 states) |
| `CompactProtocol` | 6 families of messages, 30 bits | `ReadsWhatWasWritten`, `NothingRemembered`, no deadlock (638,137 states) |
| `GeneratedStructs` | 14 targets, 16 types, 3 writes | seven properties of a struct that travels (385,000 states) |
| `GeneratedServices` | 13 clients, 14 processors, 6 functions, 3 calls | `ToldTheTruth`, `EveryCallAnswered`, `InStep`, `LostForCause` (1,750,000 states) |
| `IdlCompiler` | 6,904 inputs | five invariants and `ValidInputsAreCompiled` (177,919 states) |

`RegistryExact`: the registry is `Started \ completed`, whatever threw. `NotifiedOnce`: a handler
that has returned is not invoked again. `TimersGuardCalls`: no timer outlives its call, and no
sent two-way call waits without one unless its own handler threw. `RepliesAreAnswers`: nobody is
told a reply that is another's. `SocketIsLive`: `socket_` is never a closed socket.
`NothingPending`: the queue of pending buffers is empty in every reachable state: `write` refuses
a call before `flush` could queue it, so that `PendingOutputBuffers` is never used, although
comments speak of it ("flush any pending buffers", "in case it is not yet sent").
`EventuallyNotified` is the liveness of every call, over TCP and WebSockets; over HTTP it fails
(below), and on the bus a timeout may go to another call. `KeepsContract`: each step over a
WebSocket or HTTP is one that `CallContract` allows (TCP: `ImplementsContract`).

`AnsweredOnce` holds for all four servers with any number of clients. The others are conditional on
`Orderly`. `SerialClientsServed`: a response goes to the client that asked, and is made from its
own request, by the service it asked for, and from nothing that an earlier client left in a field.
`AnswersArrive`: a two-way request that the service was invoked for is answered, whether it
returned, threw or completed its future in time. It leaves out the requests that the code gives up
(`unwritten`), whose clients wait for their timeout: the result of a synchronous service fails to
serialize with an exception that the processor passes on; the result or the declared exception of an
asynchronous one fails to serialize at all; the future is completed late. `NoFrameWaits`: pipelined requests are all
processed. `ExchangesEnd`: an HTTP exchange whose body was processed is ended, but for oneway calls
and those whose result came late or could not be written, which nothing ever ends. With
overlapping clients `SerialClientsServed` fails for the three servers with shared fields.

`ReadsWhatWasWritten`: call by call, the reader is given what the writer gave: every id, however it
was sent, every boolean, in a header or not, every size, value and type, after any structs
and containers; in the end the wire is empty. `NothingRemembered`: outside of structs both
protocol objects are as new. An empty map loses its types, which nothing asks for, and a
ONEWAY message its type (below).

`Aligned`: whoever wrote a struct, every read call meets the write call it is made for, and the
reader ends where the writer ended. `ProbeArrives`, `SentinelArrives`: what was set arrives
through any number of programs, even if a writer left it out because it has its default, and
nothing that happens to one field harms the other. `NothingInvented`: a field that was not
written is at its default or at none. `UnwritableForCause`, `RejectedForCause`: a struct is
refused for a missing value or an unknown enumerator only. `ReceivedEqualsSent`: the emitted
`equals` agrees with reading and writing. `ToldTheTruth`: the caller is told the result that the
handler returned or the declared exception that it threw, and a failure never looks like a
result. `EveryCallAnswered`: no client waits for a reply that will not come. `InStep`: no reply is
left for the next call to take for its own. `LostForCause`: only failures cost the connection.

`StructsWellFormed`: in each struct, argument list and throws clause the ids are in strict order
and the names differ, at every moment. `ReferencesMeanTheirDefinition`,
`ConstantsMeanTheirDefinition`: when all is parsed, a type or a constant is the one that its name
stands for in the file it is written in; both are stated on the text and compared with what the
scopes, prefixes and forward typedefs came to. `TargetsSeeTheSource`: each generator gets every
definition with its fields, ids (against a reference definition of automatic ids, `DeclaredKey`,
but in a list with an automatic id behind `xsd_attrs`) and requiredness. `ValidInputsAreCompiled`: an input that is in order by its text alone (`Valid`)
leads to an exit with code for every file and target. This makes the four invariants mean
something: the parser cannot keep them by refusing.

### Where the generators differ

The generators do not agree everywhere. Where the code of a target departs from a property, a set
named for what it does lists the target, and the property leaves out exactly the case that it
makes; all other pairs of targets are held to it. These sets are the result of running the
properties, and each can be seen by emptying it:

| Set | Target | What its code does |
|---|---|---|
| `FalseIsUnset` | Lua | `if self.<field> then`: a false bool is not written, a false result is not returned |
| `WritesNoContainer` | Lua | asks `string.len` of a table, which throws |
| `NoI64Constants` | Lua | renders an `i64` constant as a string |
| `IgnoresDefaults` | Lua, Smalltalk | no member is initialised with the default of the IDL |
| `GarblesDefaults` | ActionScript | takes `get_integer()` of any literal |
| `AlwaysWrites` | ActionScript | writes primitives whether they are set or not |
| `DefaultsAreUnset` | Java ME | a primitive at its default fails `validate()` as unset |
| `NoNullInTables` | Java ME | puts an unknown enumerator, which is null, into a `Hashtable` |
| `ReadsSetsAsHashes` | Perl | reads a set as a hash and writes it from an array |
| `OwnBinaryType` | Go | `thrift.BINARY` as type byte, which no other reader takes or skips |
| `NegatesIds` | Go | writes an automatic (negative) id as a positive one |
| `TrustsTypes` | Go, Smalltalk | reads a field by its id without comparing the type |
| `TypedefsHideBools` | Ruby | a required `bool` behind a typedef is missing when it is false |
| `ChecksEnums` | Ruby, ActionScript | refuse an enumerator they do not know |
| `ComparesArrays` | C#, Java ME | compare arrays by reference |
| `DeafToVoidExceptions` | Lua | `recv_` of a void function does not look at the exceptions |
| `LosesDeclaredExceptions` | Cocoa | no `@try` in the processor: a declared exception ends `process()` |
| `AddsResultToException` | Go | writes `Success` into the result that carries an exception; clients that ask for success first (`ResultFirst`) return it |
| `InventsResults` | Go | `GetSuccess()` of a missing result is a zero value |
| `ForgetsFailures` | Perl, JavaScript | a handler's failure leaves an empty result: a void function looks done |
| `AnswersOneway` | Java, blocking processor | answers a oneway call with an exception when the handler fails, which the next call takes for its reply |

In the compiler the properties leave out: a constant or default whose `enum_` nobody set (`Unset`:
the value is garbage, and following it may crash), a constant of one enum that names an enumerator
of another (`NamesOtherEnum`: only the last part of the name is compared), the ids of a list with one
that does not fit an `int32_t` or with an automatic one behind `xsd_attrs`, which have set the count back
(`Regular`), and the exceptions of a function after the Go generator, which makes them optional in
the tree that the next generator is given (`AfterGo`). `Valid` asks for lists,
`xsd_attrs` included, in which no id or name occurs twice and every id is `Regular` (a second automatic
id of one number is refused), for no automatic id under `-strict`, no cycle of includes (nothing ends
the recursion),
no two includes whose paths end alike (their names share a prefix), and no typedef of a
typedef (a circle of them hangs).

Runs that end in a counterexample, each for a sentence of the repository that the code does not
keep (`PROJECT.json`, "findings", quotes them):

| Run | Property | What happens |
|---|---|---|
| `FramedNetClientReopen` | `OpenWhenConnected` | `open()` and `open()` again before the first connection is made, which is not refused; both are connected, `socket_` holds the second; then the close event of the first sets it to null |
| `HttpClientLive` | `EventuallyNotified` | a 200 response with an unreadable header ends the request and nobody is told |
| `FramedNetServerLate` | `CanStillAnswer` | `process()` returns and the transport is closed; the asynchronous service can no longer answer |
| `CompactProtocolOneway` | `RequestsAreTaken` | the type of a message is written to three bits and read from two: ONEWAY (4) arrives as 0, and the multiplexing processor, which takes CALL and ONEWAY, refuses the request |
| `GeneratedStructsClear` | `ClearedIsNew` | `clear()` of a Java bean assigns the default of a primitive and leaves its isset bit |

Six more sentences of this kind are stated in the modules and belong to no run. Each is violated
when it is put into the configuration of its module, with these bounds:

| Property | Module, bounds | What happens |
|---|---|---|
| `FramesAreMessages` | `FramedNetClient`, 2 calls, no throw, 1 socket, 1 fault | a call fails to serialize; its bytes are sent in front of the next call |
| `ArrivalReachesCall` | `WebSocketClient`, 2 calls, 1 throw, 1 socket, no fault | one handler throws in `handleFrame`; the next message is appended and never dispatched |
| `TimeoutsAreOwn` | `EventBusClient`, 2 calls, no throw, no fault | the timeout of one call is reported to the call made last |
| `FramesComplete` | `FramedNetServer`, 2 requests, 2 connections | pieces of two clients' requests are processed as one frame |
| `DeclaredExceptionsArrive` | `GeneratedServices` as in its run | see `LosesDeclaredExceptions`, `AddsResultToException` and `DeafToVoidExceptions` above |
| `AutomaticIdsCountDown` | `IdlCompiler` as in its run | "Field values are automatically assigned starting from -1 and working their way down" (`thrifty.yy:50`): `xsd_attrs` set the counter back, so that `b` of `1: i32 a xsd_attrs {i32 x, i32 y}, i32 b` is -3, and with an automatic id before them the file may be refused |

**Bounds.** `MaxCalls`: two calls are what a race between calls needs; where the model is small
(`MaxMessages`: HTTP, event bus) a third shows that nothing depends on there being two. `MaxThrows = 1`: a
handler that throws is invoked again, by the frame dispatched again or the late reply, which is
the second invocation. `MaxSockets = 2`: an old and a new connection. `MaxFaults = 1`: one
message left in `outputBuffer_` in front of another. The servers' three requests are two of one
client in one data event and one of another; two connections are the one that `socket` forgets and
the one it holds; three exchanges are the one in the field, one before it and one that is refused;
two services are the right and the wrong one. For the clients and the servers, and for what is proved
of the compiler and the compact protocol, the proofs remove the bounds from the safety part.
`CHECK_DEADLOCK FALSE` everywhere but in `CompactProtocol`, because a client whose calls
have all been made and settled, and whose connections are closed, does stop, and so do a server
without requests, a program that has read its struct and the compiler.

The families of messages of `MCCompactProtocol` are small, because the interplays are disjoint:
three fields of seven ids (differences up to 15, of 16 and above, varints of one to three bytes,
negative ones) in nested structs with booleans; values of every type at the edges of a varint's
bytes and of the width, with sizes 0, 2, 14 and 15; lists and structs in one another, up to four
levels; maps; headers of each type with sequence ids and names of one byte and more, and the two
types that a multiplexing processor takes.

A struct with two fields suffices because generated code treats its fields one by one, and the
second shows whether the first is left cleanly. The 16 probe types have each way in which the
generators tell types apart: the base types with a case of their own, the three containers, and
typedefs of both; `MaxHops = 3` is a first writer, a program that passes the struct on and one
that receives what was passed on, so that a flag lost by reading shows in the next write. Three
calls are one whose reply is left behind, one that takes it, and one after both. The inputs of the
compiler are five families, because the interplays are disjoint: three fields in a list with every
sort of id and both settings of `-allow-neg-keys` (600), three fields of which the second or third may have
`xsd_attrs`, with and without `-strict` (504), pairs of definitions of every kind that
refer to each other in both orders, with one target and with Go, an unknown one and C++ (1,444
combinations), chains of constants
through typedefs and enums (36), and trees of four files with relative includes, a search path,
two files of one name, namespaces and `-r` (the rest). 421 inputs are valid, 64 of them trees and 99 of the lists with `xsd_attrs`.
`KeyRange = 8` is the first given id that does not fit, 17 one that wraps around to a small id, and -8
the last before which automatic ids do not fit; `MaxDepth = 4` is deeper than any
tree of these files that has no cycle.

**Fairness.** Only what the event loop does: a timer that is due fires, and a data handler that
runs goes on (TCP, WebSocket); the HTTP client reports an end of each request, once, though it may report a second failure (`ResponseFails`: to request and response, or behind a timeout); the bus calls each
reply handler, with its timeout if nothing else. In `Clients` only the timers of a WebSocket are
used. Nothing is assumed of the application, the
network or the service, so that `EventuallyNotified` holds on timers alone. The compiler is one
thread that runs until it ends: `WF_vars(Next)`.

Every property has a mutant of the code under which its run fails (`PROJECT.json`, "mutants"):
the registry entry that stays, the flag not set, the timer not cancelled or not set, the timer
handler that uses the latest call, the response given to any call, the socket not reset; a
setter that does not set its flag, a `validate` that asks for every field, a generator that
forgets the end of a container; an exception where an answer is due; a prefix or a
counter of automatic ids that survives its program or its list; a duplicate name that is accepted;
a frame processed again, a buffer or a field id left to the next client or struct, an exception
that is only logged, a difference of 16 in four bits.

Each module has a type invariant. Those of `GeneratedServices` and `CompactProtocol` are in no
run's configuration; they hold in those runs when they are added, and both are proved.

## 4. The proofs

Forty theorems in seven modules rest on lemmas in these and in `ClientSocketProofs`.
`PROJECT.json` lists them. Each is proved for every value of the constants
that the named assumptions allow; these say that bounds are naturals, mostly above 0
(`CallAssumption`, `SocketAssumption`, `ClientsAssumption`, `ServersAssumption`, `BoundsAssumption`),
that a client and a processor are of targets that have a generator for one (`GeneratedServices`:
`ClientsAssumption`, `ServersAssumption`), what form an input of the compiler has (`InputsAssumption`; `ConstantsAssumption`: in a file a constant
has a type, and a number or a name for a value), and that the headers, ids, sizes and values of a
message have the types that the signatures of `TProtocol` give them, with integers of more than 16
bits (`CompactAssumption`).

### The socket clients

For TCP and WebSocket all safety is proved.

* `ClientSocketProofs`, first part: each operator of `AsyncMethodCall` keeps `CallsInv`, which is
  `CallsTypeOK /\ RegistryExact /\ NotifiedOnce`. The centre is `HandleResultInv`, where the
  handler throws or returns.
* `ClientSocketProofs`, second part: the actions the two transports share keep `SocketInv`, and
  each is a step of `CallContract` or one it does not see (`ContractStep`).
* `FramedNetClientProofs`, `WebSocketClientProofs`: the transports' own actions, and the theorems.

The inductive invariant is `SocketInv` (TCP: with `ReadingHasFrame`, that a running data
handler has a frame to dispatch). What is in it beyond the checked properties:

* `TimersUnset`: a call not started has no timer. Without it a new call's timer could be any.
* `MessagesStarted`: only started calls are written or requested, so that an answer is to a call
  that was issued.
* `ResponsesLegit`: a normal response on its way or in a buffer is to a call the service
  answered. This is what makes `RepliesAreAnswers` inductive: the answer is recorded long before
  the response is dispatched, across a buffer that may hold it twice.
* `NothingPending`: an invariant only because `write` asks `isOpen` before `flush` does. It is
  needed for `MessagesStarted` when a connection is made.
* `UnusedSockets`: a socket not asked for is unused, so that `open` cannot hit THE socket.

The argument for `NotifiedOnce` is the equation `Len(results[c]) = throws[c] + (1 if completed)`:
each invocation either throws, which counts, or completes, which closes the call, and both entry
points look at `completed` first. `TimersGuardCalls` follows because every completion goes through
`onComplete`, which cancels, and only `flush` arms. For the contract, an invocation changes the
verdict of its own call at most (`HandleResultVerdict`), and that call is pending.

### The clients composed

`ClientsProofs` proves of `Clients` what its run checks but for liveness. Over a WebSocket the
module takes the lemmas of `WebSocketClientProofs` by `INSTANCE`, over the others those of
of the first part of `ClientSocketProofs`. HTTP and the event bus have an invariant of three parts: the calls (`CallsSafe`:
`CallsInv`, and that who was told a reply was answered), the messages (`Traffic`: only started calls
are written, answered or expire), and what each transport keeps. `HttpInv`: a request is a started
call's and not empty. Each handler of a request belongs to that call, so that its deadline reaches no
other, and every step is one of the contract. `BusInv` adds that while a reply handler waits, the call
made last exists: failures are reported to `methodCall_`, which the next call overwrites, and
whoever that is has begun. A timeout may therefore reach another call, but a reply goes through
the registry and is the call's own; `KeepsContract` leaves out the bus for this reason.

### The compiler

`IdlCompilerProofs` proves for every set of inputs, options, targets and bounds that the globals,
the stack and the tree always refer to programs and files that exist (`TypeCorrect`), that
every list of fields is in the strict order of its ids, without a duplicate id or name
(`StructsAlwaysWellFormed`), that every generator is given what the file declares
(`SourceIsSeen`), and that types and constants are the ones that their names stand for
(`ReferencesAlwaysMeant`, `ConstantsAlwaysMeant`). The generators rely on the second: the Python one
counts from 0 to the next id of `sorted_members` (`generate/t_py_generator.cc:730`), a loop that
an id out of order or a second one of the same number would never end.

The first invariant, `Inv`, is `StructsWellFormed` in three places (the list that is being read,
the lists of the definition that is being read, the definitions of the tree) with what it takes
to get there: `CursorInv`, that the reader is inside a file and a list, so that what it reads is a
field of the input; `MembersInv`, that the ids read so far and the counter `y_field_val` are
integers, without which "before" and "behind" mean nothing; `TreeInv` and `ParserInv`, that the
program that is read, its parent and the calls on the stack exist, because an include returns to
one of them. `InsertOrdered` is the centre: inserting at `PlaceOf` keeps a list strictly ordered.
Each action has a lemma; the Go generator's change of the tree is one (`LeftByIsOrdered`): it
touches requiredness, not ids.

The second, `SourceInv`, follows a file through the compiler:

* `ReaderInv`, `KeyInv`: the list that is read holds the fields of the declaration that are behind
  the reader, each with its declared id, name and requiredness, and `y_field_val` is the
  next automatic id. `DeclaredKey` defines that id from the text alone, by the last field that
  anchors the count; `OneMoreKey` shows that counting agrees, while the ids fit an `int32_t` and no
  `xsd_attrs` have come.
* `NamesInv`: in one program kind and name tell definitions apart. Without it a second
  definition could be taken for the first, and their number would not be that of the file.
* `NodesInv`: a program is the child of one that includes it, so that programs are paths in a tree.
* `ParsingInv`: the calls of `parse()` lie on one path (`Descent`); every program is on
  the stack, still to come, or `Complete`: it has as many definitions as its file, and each of the
  file. The globals are the ones of the call on top, in whichever pass it is. So a program is
  parsed once, and not until its includes are.
* `GeneratingInv`: every program is `Complete`, and as it was parsed unless the Go generator has
  passed it (`Passed`): it is the current one and a Go turn is behind, or it lies behind the path of the calls of
  `generate()` (`Behind`). `CurrentIsNotBehind` is the centre: what a generator is given has been changed
  only if Go stands before it in `--gen`, which is the exception `AfterGo` states.

The third, `MeaningInv`, says what names of types stand for:

* `ScopesInv`: the types of a scope are exactly those that are `Visible` in its program, its own and,
  behind the program's name, those of its includes. The second half, that none is missing, is what makes
  a name without a type (`NoType`) right.
* `FramesInv`: a call of `parse()` is for an include of the one below it, so that the globals
  `parent` and `prefix` are its parent and its own name when a definition is bound. That the
  globals are set again behind the recursion (`main.cc:969`) is what this needs.
* `TypesInv`, `DefsInv`: a name of a type in the list that is read, or in a definition, is taken for a
  type that is visible, or for a forward reference in its program (`RightType`), which
  `Found` resolves in the same scope. A scope only grows, and a type that is bound under a name
  twice is `Visible` both times, so what was right remains right.

The fourth, `ConstantInv`, says what constants are worth:

* `ApartInv`: types and services of a program differ in name, enumerators of an enum too. So
  the enum behind a type is the one the type was made of, and an enumerator has one number.
  The parser stops at a name that is bound twice. The model counts the names of an enum; that as many
  names as enumerators are different names is the lemma `AsManyNames`.
* `ConstsInv`: what a scope binds to a name is the value of a constant or an enumerator that the
  name stands for there.
* `ValuesInv`: what is kept of a value is the number or the name that was written, the enumerator of the
  constant's enum with that number or that last name, or what the name is bound to. `NumberIsKept` and
  `NameIsKept` follow the value through the parser, `KeptIsMeant` draws the conclusion. Where only the
  last part of a name decides, the enum may not be the one that is named: that is the exception
  in the property.

The attempt to prove `SourceInv` corrected the model: `y_field_val` is an `int32_t`, so that an automatic id
below the range wraps around, and the property had excepted only ids that are too large. `InRange` is now two-sided,
`NextFieldVal` wraps, and the run has fields at the lower end.

### The servers

`ServersProofs` proves every invariant of `Servers`, with whichever of the four servers and for
every number of requests, connections, exchanges and services. The inductive invariant has a part for
the requests, `Processing`, the same for all servers, and one for what a server keeps of its input:
`FramedInv`, `WebSocketInv`, `HttpInv`, `BusInv`. Each action is shown to be a step of one of
four kinds for the requests: one is sent (`SendStep`), nothing happens to them (`RestStep`),
`process()` begins or ends with one (`ProcessStep`), a future completes (`CompleteStep`). These
four keep `Processing`, so that an action's own proof is about its buffer alone.

`Processing` says that a request which waits, and a call the service works on, has no answer yet
(`Unanswered`); this makes `AnsweredOnce` inductive, as the future comes any time later. While clients come one by one
(`Orderly`), the transport of a request writes to its own client, and who is owed an answer
has it (`Serving`). The servers' parts say why. Over TCP and WebSockets no piece of a request is found twice in
the buffer and on the wire (`PiecesOnce`); without an overlap the shared field is the open connection, and the buffer
with what is still on its way is a row of whole requests of that client, cut anywhere (`OneClient`, `WholeRequests`);
what the handlers leave in the buffer is less than a request. Over HTTP `request` and `uri` are those of
the exchange whose body is due. The first overlap destroys this for good, but not `AnsweredOnce`.

### The compact protocol

`CompactProtocolProofs` proves both properties of the run, for every family of messages and every
width of an integer above 16 bits: outside of structs both protocol objects are as new (`AsNew`),
and what is read is what was written (`ReadBack`); and type correctness (`TypesKept`).

The first invariant does not look at bytes: an object at work has put aside
one field id for each struct it is in, the outermost being 0, and holds a boolean only until the
value that is due next. `Structs` numbers the structs of the call stack by their heights, so that
what is pushed in front of them leaves them alone.

`ReadBack` goes over the bytes, in three layers.

* Integers. `Varint` is recursive; that it is what its equation says (`VarintIs`), and that its
  bytes and no shorter piece make up its number (`VarintVaried`), is shown for every number through
  the smallest one for which it would be wrong (`Smallest`): the library's induction theorems take
  an operator and cannot be used. The powers of two come from the subsets of an interval
  (`Doubled`). On these rest zigzag and its inverse at every width (`ZigZagged`), and the signed
  integers cut out of unsigned ones (`SeqidKept`, `ByteKept`, `IdKept`).
* Headers and values. With any bytes behind it, what each writing method sends is taken off the
  wire by its reading method, to the byte, and gives what was sent: `FieldInFront` for both
  encodings of an id, `ListInFront`, `MapInFront` (an empty map loses its types), `StringInFront`,
  `MessageInFront` (two bits of the type are left).
* Calls. The invariant `Told` says that there is an account of what was written: a `Chain` of the
  calls, each with its bytes and with what a reader knows before and after it, its object and the
  types it has to finish, where the bytes mean the call to such a reader (`Means`). The writer is
  at the end of the chain, or one call ahead of it while a boolean field waits for its value
  (`Pending`); the reader is where its calls have led it, with the rest of the bytes. So writing
  adds to the chain (`ChainLonger`) with what the writer's object is at that time, and reading
  follows it: the type that is due tells which call it must be (`MeantByType`).

The chain is needed because the two objects are never alike at one time: what the reader's is when it
reads a difference of ids is what the writer's was when it sent it, however many calls ago.

### The generated services

`GeneratedServicesProofs` proves `LostForCause`, and the type invariant, for the client and the
processor of every two targets, any functions with any types, and any number of calls.

* Every one of the 13 `SendCall`s writes a message of five protocol calls, the last of which is the
  only `MessageEnd` in it (`SentAsMessage`, `MessageOfCall`). So the requests under way are five
  times the calls that are not processed, with an end at every fifth place (`Requested`), and
  `AfterMessage` takes away one call and no more (`FirstCallTaken`): the server never processes more
  calls than were made.
* An exception leaves each of the 14 `ProcessFunction`s only if the handler failed, or if it threw a
  declared exception and the target is Cocoa (`ThrownForCause`). The premise `Ended` says that a
  function whose handler is not called has failed, as `EndsOf` has it for ActionScript and Lua.
* `Inv` adds that nothing is on the way to the server once the connection is lost. Without it the
  server could answer one more request, and `Serve` would make `open` true again.

### Only model-checked

* `EventuallyNotified`, `ValidInputsAreCompiled` and every other liveness statement: the prover has
  no rules for `ENABLED`.
* That the reader of the compact protocol is never stuck: the run checks it as the absence of
  deadlock, which is a matter of `ENABLED`.
* `GeneratedStructs`, and `ToldTheTruth`, `EveryCallAnswered` and `InStep` of `GeneratedServices`:
  they depend on what a generated reader takes off the wire, and the operators for it follow lists
  of fields and elements by recursion. They are also about types for which the generators agree: a
  client that meets a type byte it does not know is out of step, and where its next read begins the
  model does not say.
* The counterexamples.

## 5. Plan

Written, in this order: calls, socket transports, TCP, WebSocket, HTTP, event bus, the contract,
the proofs for the socket transports, the processors and the TCP server; the generators, structs
and services of generated code; the parser, the compiler and its first proofs; the other servers and their
composition; the clients' composition; the compact protocol; the proofs of the servers, the composed
clients, the compact protocol, the generated services, and of what generators, names and constants
see of the source. What could come next:

1. A client and a server composed over one network, with the generated client and processor of
   `GenJava` at the ends and `CompactProtocol` between them.
2. `FrameSize` for the signed header of a frame (`transport/TFramedTransportUtil.java:31`).
3. Containers, several functions and inheritance of services in `IdlParser`; the remaining
   generators.
4. Theorems: `InStep` for functions without a `binary`, and that each guard of the compact protocol's reader holds when its call is due.
5. The JavaScript connections, which share the shape of the clients, on a module of their own.
6. Two managers on one transport (`async/TAsyncClientManager.java:66`).

## 6. Not modelled

* The binary, JSON, tuple and multiplexed protocols, which but for the JSON contexts encode each
  type on its own, without shared state; the data model helpers, which compare and copy
  generated structures; the JavaScript library.
* Of the servers: listening, stopping, SSL, the headers of CORS; the server base class, which holds
  arguments and factories.
* The generators for D, Delphi, C (GLib), OCaml, Haskell and Erlang. Their structs and services
  have the shape of those that are modelled; those of D, Haskell and Erlang leave reading and writing to a
  library that the repository does not hold.
* The generators for HTML, Graphviz and XSD emit documents, which have no behaviour.
* Of the generators that are modelled: unions with one member set, the tuple scheme, callback
  services, inheritance of services, `toString`, hashes, documentation, skeletons and build files.
  The services of Smalltalk, which have no processor.
* Of the compiler: containers and constants of them, annotations, doc texts, warnings, options of
  single generators, and where files are written.
* Tests and tutorials were read to see how the library is driven: one manager per transport, calls
  after `open`.
