------------------------------- MODULE GenAs3 -------------------------------
(***************************************************************************)
(* The ActionScript that generate/t_as3_generator.cc emits: a class per    *)
(* struct with an __isset_ flag for every primitive member, the <Service>  *)
(* Impl that calls a service and the Processor, which can only carry out   *)
(* oneway functions.                                                       *)
(***************************************************************************)
EXTENDS ThriftIdl

(* base_type_name throws for an i64.                                       *)
Generates(fields) ==
  \A i \in 1..Len(fields) :
    LET type == TrueType(fields[i].type)
    IN  /\ type.kind # "i64"
        /\ \A k \in 1..Len(type.of) : TrueType(type.of[k]).kind # "i64"

RenderConst(type, literal) == PositiveIsTrue(type, literal)

CanBeNull(type) == TrueType(type).kind \notin Scalars

(* The constructor assigns get_integer() of every default: a bool is then  *)
(* true if it is not zero, and a string has no integer to give.            *)
Garbage == <<"garbage">>
DefaultOf(f) ==
  CASE CanBeNull(f.type) -> Garbage
    [] TrueType(f.type).kind = "bool" -> IF f.default = Zero THEN Zero ELSE One
    [] OTHER -> f.default
NewMember(f) ==
  Member(IF f.default = NULL THEN ZeroOrNull(f.type) ELSE DefaultOf(f), FALSE)
NewStruct(fields) == EveryMember(fields, NewMember)

SetMember(f, member, val) == Member(val, ~CanBeNull(f.type))
IsSet(f, member) ==
  IF CanBeNull(f.type) THEN member.val # NULL ELSE member.isset

TypeToEnum(type) == TTypeOf[TrueType(type).kind]

SerializeContainer(type, val) == ContainerCalls(type, val, TypeToEnum, CallOf)
SerializeField(f, val) ==
  FieldCalls(f, val, TypeToEnum, CallOf, SerializeContainer)

(* validate(), which write() calls first and read() last: required members *)
(* that can be null, and enumerators unless the enum is behind a typedef.  *)
Validate(fields, obj) ==
  \A i \in 1..Len(fields) :
    LET f == fields[i]
        m == obj[f.id]
    IN  /\ f.req = "required" /\ CanBeNull(f.type) => m.val # NULL
        /\ DeclaredKind(f.type) = "enum" /\ m.isset => m.val # Unknown

(* write() does not ask whether a field is optional.                       *)
Written(f, member) == CanBeNull(f.type) => member.val # NULL
WriteStruct(fields, obj) ==
  StructCalls(SortedMembers(fields), obj, Written, SerializeField)
WriteAccepts(fields, obj) == Validate(fields, obj)

(* write() of a result: if ... else if ... on isSet<Field>().              *)
WriteResult(fields, obj) ==
  LET sorted == SortedMembers(fields)
      First(f, member) ==
        /\ IsSet(f, member)
        /\ \A i \in 1..Len(sorted) :
             sorted[i].id < f.id => ~IsSet(sorted[i], obj[sorted[i].id])
  IN  StructCalls(sorted, obj, First, SerializeField)

DeserializeContainer(type, wire) == ReadContainer(type, wire, CallOf, KeepAtom)
DeserializeField(type, wire) ==
  ReadValue(type, wire, CallOf, KeepAtom, DeserializeContainer)

Accepts(f, id, ttype) == IdAndType(f, id, ttype, TypeToEnum)
Assign(f, member, val) == Member(val, ~CanBeNull(f.type))
ReadField(fields, obj, wire) ==
  ReadOneField(fields, obj, wire, Accepts, DeserializeField, Assign)
ReadAccepts(fields, obj) ==
  /\ \A i \in 1..Len(fields) :
       fields[i].req = "required" => IsSet(fields[i], obj[fields[i].id])
  /\ Validate(fields, obj)
ReadStruct(fields, wire) ==
  LET r == ReadWholeStruct(fields, NewStruct(fields), wire, ReadField)
  IN  [r EXCEPT !.ok = @ /\ ReadAccepts(fields, r.obj)]

ResultFields(fn) == ResultFieldsOf(fn, "default")

(* seqid_ stays 0; the callback of flush() reads the reply and compares    *)
(* nothing.                                                                *)
SendCall(fn, seqid) == Message("CALL", fn.name, 0, NoArguments)
RecvReply(fn, seqid, wire) ==
  Receive(fn, ResultFields(fn), wire, ReadStruct, IsSet)

(* The function in PROCESS_MAP throws instead of calling the handler of a  *)
(* function that is not oneway; its last catch is there if the function    *)
(* declares exceptions.                                                    *)
CallsHandler(fn) == fn.oneway
ProcessFunction(fn, seqid, end) ==
  CASE CallsHandler(fn) /\ end.kind # "undeclared" -> NoReply
    [] ~CallsHandler(fn) /\ fn.throws ->
         Processed(AppException(fn.name, seqid, "INTERNAL_ERROR"), FALSE)
    [] OTHER -> Processed(<<>>, TRUE)

(* process() of a name that is not in PROCESS_MAP.                         *)
UnknownMethod(name, seqid) ==
  Processed(AppException(name, seqid, "UNKNOWN_METHOD"), FALSE)
==============================================================================
