-------------------------------- MODULE GenJs --------------------------------
(***************************************************************************)
(* The JavaScript that generate/t_js_generator.cc emits with the option    *)
(* vertx: a constructor per struct whose members are null until they are   *)
(* set, and a client that keeps a callback per sequence number.            *)
(***************************************************************************)
EXTENDS ThriftIdl

RenderConst(type, literal) == PositiveIsTrue(type, literal)

(* this.<field> = <default>;                                               *)
NewMember(f) ==
  Member(IF f.default = NULL THEN NULL ELSE RenderConst(f.type, f.default),
         FALSE)
NewStruct(fields) == EveryMember(fields, NewMember)
SetMember(f, member, val) == Member(val, FALSE)

TypeToEnum(type) == TTypeOf[TrueType(type).kind]

SerializeContainer(type, val) == ContainerCalls(type, val, TypeToEnum, CallOf)
SerializeField(f, val) ==
  FieldCalls(f, val, TypeToEnum, CallOf, SerializeContainer)

(* Members are written in the order of their declaration.                  *)
NotNull(f, member) == member.val # NULL
WriteStruct(fields, obj) == StructCalls(fields, obj, NotNull, SerializeField)

DeserializeContainer(type, wire) == ReadContainer(type, wire, CallOf, KeepAtom)
DeserializeField(type, wire) ==
  ReadValue(type, wire, CallOf, KeepAtom, DeserializeContainer)

Accepts(f, id, ttype) == IdAndType(f, id, ttype, TypeToEnum)
Assign(f, member, val) == Member(val, FALSE)
ReadField(fields, obj, wire) ==
  ReadOneField(fields, obj, wire, Accepts, DeserializeField, Assign)
ReadStruct(fields, wire) ==
  ReadWholeStruct(fields, NewStruct(fields), wire, ReadField)

ResultFields(fn) == ResultFieldsOf(fn, "default")

(* new_seqid, and recv_<function>: without a callback under the sequence   *)
(* number of the reply nobody hears of it.  The exceptions come first.     *)
SendCall(fn, seqid) == Message("CALL", fn.name, seqid, NoArguments)
ReadException(fields, wire) ==
  LET r == ReadStruct(fields, wire)
  IN  IF ExceptionId \in DOMAIN r.obj /\ r.obj[ExceptionId].val # NULL
        THEN [r EXCEPT !.obj = [id \in DOMAIN @ |->
                                  IF id = ExceptionId THEN @[id] ELSE Member(NULL, FALSE)]]
        ELSE r
RecvReply(fn, seqid, wire) ==
  IF Head(wire).num # seqid
    THEN Received(Refused("ignored"), AfterMessage(wire))
    ELSE Receive(fn, ResultFields(fn), wire, ReadException, NotNull)

(* process_<function> passes the handler a callback.  An err that is not a *)
(* declared exception makes a result of its properties: an empty one.      *)
ResultOf(fn, end) ==
  LET new == NewStruct(ResultFields(fn))
  IN  CASE end.kind = "declared" ->
             [new EXCEPT ![ExceptionId] = Member(One, FALSE)]
        [] end.kind = "returned" /\ fn.ret # <<>> ->
             [new EXCEPT ![SuccessId] = Member(end.val, FALSE)]
        [] OTHER -> new
ProcessFunction(fn, seqid, end) ==
  IF fn.oneway THEN NoReply
  ELSE Processed(Message("REPLY", fn.name, seqid,
                         WriteStruct(ResultFields(fn), ResultOf(fn, end))),
                 FALSE)

(* process() of a name without a process_<name>.                           *)
UnknownMethod(name, seqid) ==
  Processed(AppException(name, seqid, "UNKNOWN_METHOD"), FALSE)
==============================================================================
