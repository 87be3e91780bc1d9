-------------------------------- MODULE GenPy --------------------------------
(***************************************************************************)
(* The Python that generate/t_py_generator.cc emits without options: a     *)
(* class per struct whose members are None until they are set, read() and  *)
(* write(), and the Client and Processor of a service.                     *)
(***************************************************************************)
EXTENDS ThriftIdl

RenderConst(type, literal) == PositiveIsTrue(type, literal)

(* __init__: the default of the argument, or None.                         *)
NewMember(f) ==
  Member(IF f.default = NULL THEN NULL ELSE RenderConst(f.type, f.default),
         FALSE)
NewStruct(fields) == EveryMember(fields, NewMember)
SetMember(f, member, val) == Member(val, FALSE)

(* __eq__ compares the dictionaries of members.                            *)
Equal(fields, a, b) == a = b

TypeToEnum(type) == TTypeOf[TrueType(type).kind]

(* A binary is a str in Python and goes through writeString.               *)
SerializeContainer(type, val) ==
  ContainerCalls(type, val, TypeToEnum, BinaryAsString)
SerializeField(f, val) ==
  FieldCalls(f, val, TypeToEnum, BinaryAsString, SerializeContainer)

Written(f, member) == member.val # NULL
WriteStruct(fields, obj) ==
  StructCalls(SortedMembers(fields), obj, Written, SerializeField)

DeserializeContainer(type, wire) ==
  ReadContainer(type, wire, BinaryAsString, KeepAtom)
DeserializeField(type, wire) ==
  ReadValue(type, wire, BinaryAsString, KeepAtom, DeserializeContainer)

(* read() checks the type byte and no required field: validate() is        *)
(* emitted, but nothing that is generated calls it.                        *)
Accepts(f, id, ttype) == IdAndType(f, id, ttype, TypeToEnum)
Assign(f, member, val) == Member(val, FALSE)
ReadField(fields, obj, wire) ==
  ReadOneField(fields, obj, wire, Accepts, DeserializeField, Assign)
Validate(fields, obj) ==
  \A i \in 1..Len(fields) :
    fields[i].req = "required" => obj[fields[i].id].val # NULL
ReadStruct(fields, wire) ==
  ReadWholeStruct(fields, NewStruct(fields), wire, ReadField)

ResultFields(fn) == ResultFieldsOf(fn, "default")

(* self._seqid is 0 for ever in a client without twisted or tornado.       *)
SendCall(fn, seqid) == Message("CALL", fn.name, 0, NoArguments)
RecvReply(fn, seqid, wire) ==
  Receive(fn, ResultFields(fn), wire, ReadStruct,
          LAMBDA f, member : member.val # NULL)

(* process_<function>: an exception that is not declared leaves it.        *)
ResultOf(fn, end) ==
  LET new == NewStruct(ResultFields(fn))
  IN  CASE end.kind = "declared" ->
             [new EXCEPT ![ExceptionId] = Member(One, FALSE)]
        [] end.kind = "returned" /\ fn.ret # <<>> ->
             [new EXCEPT ![SuccessId] = Member(end.val, FALSE)]
        [] OTHER -> new
ProcessFunction(fn, seqid, end) ==
  CASE end.kind = "undeclared" -> Processed(<<>>, TRUE)
    [] fn.oneway /\ end.kind # "undeclared" -> NoReply
    [] OTHER ->
         Processed(Message("REPLY", fn.name, seqid,
                           WriteStruct(ResultFields(fn), ResultOf(fn, end))),
                   FALSE)

(* process() of a name that is not in self._processMap.                    *)
UnknownMethod(name, seqid) ==
  Processed(AppException(name, seqid, "UNKNOWN_METHOD"), FALSE)
==============================================================================
