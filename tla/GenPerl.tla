------------------------------- MODULE GenPerl -------------------------------
(***************************************************************************)
(* The Perl that generate/t_perl_generator.cc emits: a blessed hash per    *)
(* struct whose members are undef until they are set, and the Client and   *)
(* Processor of a service.                                                 *)
(***************************************************************************)
EXTENDS ThriftIdl

RenderConst(type, literal) == PositiveIsTrue(type, literal)

(* new: the default or undef.                                              *)
NewMember(f) ==
  Member(IF f.default = NULL THEN NULL ELSE RenderConst(f.type, f.default),
         FALSE)
NewStruct(fields) == EveryMember(fields, NewMember)

(* isset says that a set is a hash, as read() leaves it; a program sets it *)
(* to the array that write() goes through.                                 *)
SetMember(f, member, val) == Member(val, FALSE)

TypeToEnum(type) == TTypeOf[TrueType(type).kind]

SerializeContainer(type, val) ==
  ContainerCalls(type, val, TypeToEnum, BinaryAsString)
SerializeField(f, val) ==
  FieldCalls(f, val, TypeToEnum, BinaryAsString, SerializeContainer)

Defined(f, member) == member.val # NULL
WriteStruct(fields, obj) ==
  StructCalls(SortedMembers(fields), obj, Defined, SerializeField)

(* @{...} of a hash is an error.                                           *)
WriteAccepts(fields, obj) == \A id \in DOMAIN obj : ~obj[id].isset

DeserializeContainer(type, wire) ==
  ReadContainer(type, wire, BinaryAsString, KeepAtom)
DeserializeField(type, wire) ==
  ReadValue(type, wire, BinaryAsString, KeepAtom, DeserializeContainer)

Accepts(f, id, ttype) == IdAndType(f, id, ttype, TypeToEnum)
Assign(f, member, val) == Member(val, TrueType(f.type).kind = "set")
ReadField(fields, obj, wire) ==
  ReadOneField(fields, obj, wire, Accepts, DeserializeField, Assign)
ReadStruct(fields, wire) ==
  ReadWholeStruct(fields, NewStruct(fields), wire, ReadField)

ResultFields(fn) == ResultFieldsOf(fn, "default")

(* $self->{seqid} stays 0; recv_<function> compares nothing.               *)
SendCall(fn, seqid) == Message("CALL", fn.name, 0, NoArguments)
RecvReply(fn, seqid, wire) ==
  Receive(fn, ResultFields(fn), wire, ReadStruct, Defined)

(* process_<function>: a function that declares exceptions runs in an eval *)
(* that forgets every exception that is not one of them; the others let    *)
(* any exception pass.                                                     *)
ResultOf(fn, end) ==
  LET new == NewStruct(ResultFields(fn))
  IN  CASE end.kind = "declared" ->
             [new EXCEPT ![ExceptionId] = Member(One, FALSE)]
        [] end.kind = "returned" /\ fn.ret # <<>> ->
             [new EXCEPT ![SuccessId] = Member(end.val, FALSE)]
        [] OTHER -> new
ProcessFunction(fn, seqid, end) ==
  CASE end.kind = "undeclared" /\ ~fn.throws -> Processed(<<>>, TRUE)
    [] fn.oneway /\ end.kind # "undeclared" -> NoReply
    [] OTHER ->
         Processed(Message("REPLY", fn.name, seqid,
                           WriteStruct(ResultFields(fn), ResultOf(fn, end))),
                   FALSE)

(* process() of a name without a process_<name>.                           *)
UnknownMethod(name, seqid) ==
  Processed(AppException(name, seqid, "UNKNOWN_METHOD"), FALSE)
==============================================================================
