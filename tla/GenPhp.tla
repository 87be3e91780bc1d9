-------------------------------- MODULE GenPhp --------------------------------
(***************************************************************************)
(* The PHP that generate/t_php_generator.cc emits without options: a class *)
(* per struct whose members are null until they are set, and the client    *)
(* and processor classes of a service.                                     *)
(***************************************************************************)
EXTENDS ThriftIdl

RenderConst(type, literal) == PositiveIsTrue(type, literal)

(* public $<field> = <default>;                                            *)
NewMember(f) ==
  Member(IF f.default = NULL THEN NULL ELSE RenderConst(f.type, f.default),
         FALSE)
NewStruct(fields) == EveryMember(fields, NewMember)
SetMember(f, member, val) == Member(val, FALSE)

TypeToEnum(type) == TTypeOf[TrueType(type).kind]

(* A scalar is a key of the array that stands for a set, in both ways.     *)
SerializeContainer(type, val) ==
  ContainerCalls(type, val, TypeToEnum, BinaryAsString)
SerializeField(f, val) ==
  FieldCalls(f, val, TypeToEnum, BinaryAsString, SerializeContainer)

NotNull(f, member) == member.val # NULL
WriteStruct(fields, obj) ==
  StructCalls(SortedMembers(fields), obj, NotNull, SerializeField)

DeserializeContainer(type, wire) ==
  ReadContainer(type, wire, BinaryAsString, KeepAtom)
DeserializeField(type, wire) ==
  ReadValue(type, wire, BinaryAsString, KeepAtom, DeserializeContainer)

Accepts(f, id, ttype) == IdAndType(f, id, ttype, TypeToEnum)
Assign(f, member, val) == Member(val, FALSE)
ReadField(fields, obj, wire) ==
  ReadOneField(fields, obj, wire, Accepts, DeserializeField, Assign)
ReadStruct(fields, wire) ==
  ReadWholeStruct(fields, NewStruct(fields), wire, ReadField)

ResultFields(fn) == ResultFieldsOf(fn, "default")

(* $this->seqid_ stays 0; recv_<function> compares nothing.                *)
SendCall(fn, seqid) == Message("CALL", fn.name, 0, NoArguments)
RecvReply(fn, seqid, wire) ==
  Receive(fn, ResultFields(fn), wire, ReadStruct, NotNull)

(* process_<function> catches the declared exceptions and no others.       *)
ResultOf(fn, end) ==
  LET new == NewStruct(ResultFields(fn))
  IN  CASE end.kind = "declared" ->
             [new EXCEPT ![ExceptionId] = Member(One, FALSE)]
        [] end.kind = "returned" /\ fn.ret # <<>> ->
             [new EXCEPT ![SuccessId] = Member(end.val, FALSE)]
        [] OTHER -> new
ProcessFunction(fn, seqid, end) ==
  CASE end.kind = "undeclared" -> Processed(<<>>, TRUE)
    [] fn.oneway /\ end.kind # "undeclared" -> NoReply
    [] OTHER ->
         Processed(Message("REPLY", fn.name, seqid,
                           WriteStruct(ResultFields(fn), ResultOf(fn, end))),
                   FALSE)

(* process() of a name without a process_<name>.                           *)
UnknownMethod(name, seqid) ==
  Processed(AppException(name, seqid, "UNKNOWN_METHOD"), FALSE)
===============================================================================
