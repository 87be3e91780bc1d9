-------------------------------- MODULE GenRb --------------------------------
(***************************************************************************)
(* The Ruby that generate/t_rb_generator.cc emits: a class per struct with *)
(* a table FIELDS and a validate() that the Thrift::Struct of the Ruby     *)
(* library works from, and the Client and Processor of a service.          *)
(***************************************************************************)
EXTENDS ThriftIdl

RenderConst(type, literal) == PositiveIsTrue(type, literal)

(* :default of FIELDS, or nil.                                             *)
NewMember(f) ==
  Member(IF f.default = NULL THEN NULL ELSE RenderConst(f.type, f.default),
         FALSE)
NewStruct(fields) == EveryMember(fields, NewMember)
SetMember(f, member, val) == Member(val, FALSE)

TypeToEnum(type) == TTypeOf[TrueType(type).kind]

SerializeContainer(type, val) == ContainerCalls(type, val, TypeToEnum, CallOf)
SerializeField(f, val) ==
  FieldCalls(f, val, TypeToEnum, CallOf, SerializeContainer)

(* validate() asks the declared type: only a member that is declared bool  *)
(* may be false, and only one that is declared an enum is checked.         *)
Validate(fields, obj) ==
  \A i \in 1..Len(fields) :
    LET f == fields[i]
        val == obj[f.id].val
        falsy == TrueType(f.type).kind = "bool" /\ val = Zero
    IN  /\ f.req = "required"
             => val # NULL /\ (falsy => DeclaredKind(f.type) = "bool")
        /\ DeclaredKind(f.type) = "enum" => val # Unknown

NotNil(f, member) == member.val # NULL
WriteAccepts(fields, obj) == Validate(fields, obj)
WriteStruct(fields, obj) ==
  StructCalls(SortedMembers(fields), obj, NotNil, SerializeField)

DeserializeContainer(type, wire) == ReadContainer(type, wire, CallOf, KeepAtom)
DeserializeField(type, wire) ==
  ReadValue(type, wire, CallOf, KeepAtom, DeserializeContainer)

Accepts(f, id, ttype) == IdAndType(f, id, ttype, TypeToEnum)
Assign(f, member, val) == Member(val, FALSE)
ReadField(fields, obj, wire) ==
  ReadOneField(fields, obj, wire, Accepts, DeserializeField, Assign)
ReadAccepts(fields, obj) == Validate(fields, obj)
ReadStruct(fields, wire) ==
  LET r == ReadWholeStruct(fields, NewStruct(fields), wire, ReadField)
  IN  [r EXCEPT !.ok = @ /\ ReadAccepts(fields, r.obj)]

ResultFields(fn) == ResultFieldsOf(fn, "default")

(* send_message and receive_message of Thrift::Client, with its @seqid 0.  *)
SendCall(fn, seqid) == Message("CALL", fn.name, 0, NoArguments)
RecvReply(fn, seqid, wire) ==
  Receive(fn, ResultFields(fn), wire, ReadStruct, NotNil)

(* process_<function> rescues the declared exceptions and no others.       *)
ResultOf(fn, end) ==
  LET new == NewStruct(ResultFields(fn))
  IN  CASE end.kind = "declared" ->
             [new EXCEPT ![ExceptionId] = Member(One, FALSE)]
        [] end.kind = "returned" /\ fn.ret # <<>> ->
             [new EXCEPT ![SuccessId] = Member(end.val, FALSE)]
        [] OTHER -> new
ProcessFunction(fn, seqid, end) ==
  CASE end.kind = "undeclared" -> Processed(<<>>, TRUE)
    [] fn.oneway /\ end.kind # "undeclared" -> NoReply
    [] OTHER ->
         Processed(Message("REPLY", fn.name, seqid,
                           WriteStruct(ResultFields(fn), ResultOf(fn, end))),
                   FALSE)

(* process() of Thrift::Processor.                                         *)
UnknownMethod(name, seqid) ==
  Processed(AppException(name, seqid, "UNKNOWN_METHOD"), FALSE)
==============================================================================
