------------------------------ MODULE GenCSharp ------------------------------
(***************************************************************************)
(* The C# that generate/t_csharp_generator.cc emits without the option     *)
(* nullable: a class per struct with a property per field, an __isset flag *)
(* for every field that is not required, and the Client and Processor of a *)
(* service.  Equal is what the option hashcode adds.                       *)
(***************************************************************************)
EXTENDS ThriftIdl

RenderConst(type, literal) == PositiveIsTrue(type, literal)

(* The constructor assigns the defaults and sets their flags.              *)
NewMember(f) ==
  IF f.default = NULL THEN Member(ZeroOrNull(f.type), FALSE)
  ELSE Member(RenderConst(f.type, f.default), f.req # "required")
NewStruct(fields) == EveryMember(fields, NewMember)

(* The set accessor; the property of a required field has no flag.         *)
SetMember(f, member, val) == Member(val, f.req # "required")

CanBeNull(type) == TrueType(type).kind \notin Scalars

(* Equals(): a container is compared by its elements when the declared     *)
(* type says that it is one; what is left to System.Object is compared by  *)
(* reference if it is an array or a collection.                            *)
ByReference(type) ==
  \/ TrueType(type).kind = "binary"
  \/ type.alias /\ TrueType(type).kind \in ContainerKinds
Equal(fields, a, b) ==
  \A i \in 1..Len(fields) :
    LET f == fields[i]
        x == a[f.id]
        y == b[f.id]
        same == IF ByReference(f.type) THEN x.val = NULL /\ y.val = NULL
                ELSE x.val = y.val
    IN  IF f.req = "required" THEN same
        ELSE x.isset = y.isset /\ (x.isset => same)

TypeToEnum(type) == TTypeOf[TrueType(type).kind]

SerializeContainer(type, val) == ContainerCalls(type, val, TypeToEnum, CallOf)
SerializeField(f, val) ==
  FieldCalls(f, val, TypeToEnum, CallOf, SerializeContainer)

(* Write(): a required member is written as it is, and null is not a value *)
(* that any Write method takes.                                            *)
Written(f, member) ==
  \/ f.req = "required"
  \/ member.isset /\ (CanBeNull(f.type) => member.val # NULL)
WriteStruct(fields, obj) ==
  StructCalls(SortedMembers(fields), obj, Written, SerializeField)
WriteAccepts(fields, obj) ==
  \A i \in 1..Len(fields) :
    fields[i].req = "required" => obj[fields[i].id].val # NULL

(* Write() of a result: if ... else if ... on the flags, and null behind   *)
(* the flag leaves the result empty.                                       *)
WriteResult(fields, obj) ==
  LET sorted == SortedMembers(fields)
      First(f, member) ==
        /\ Written(f, member)
        /\ \A i \in 1..Len(sorted) :
             sorted[i].id < f.id => ~obj[sorted[i].id].isset
  IN  StructCalls(sorted, obj, First, SerializeField)

DeserializeContainer(type, wire) == ReadContainer(type, wire, CallOf, KeepAtom)
DeserializeField(type, wire) ==
  ReadValue(type, wire, CallOf, KeepAtom, DeserializeContainer)

(* Read(): isset of a required member stands for the local isset_<field>.  *)
Accepts(f, id, ttype) == IdAndType(f, id, ttype, TypeToEnum)
Assign(f, member, val) == Member(val, TRUE)
ReadField(fields, obj, wire) ==
  ReadOneField(fields, obj, wire, Accepts, DeserializeField, Assign)
ReadAccepts(fields, obj) ==
  \A i \in 1..Len(fields) :
    fields[i].req = "required" => obj[fields[i].id].isset
ReadStruct(fields, wire) ==
  LET r == ReadWholeStruct(fields, NewStruct(fields), wire, ReadField)
  IN  [r EXCEPT !.ok = @ /\ ReadAccepts(fields, r.obj)]

ResultFields(fn) == ResultFieldsOf(fn, "default")

(* seqid_ stays 0, and recv_<function> compares nothing.                   *)
SendCall(fn, seqid) == Message("CALL", fn.name, 0, NoArguments)
RecvReply(fn, seqid, wire) ==
  Receive(fn, ResultFields(fn), wire, ReadStruct,
          LAMBDA f, member : member.isset)

(* <function>_Process catches the declared exceptions and no others.       *)
ResultOf(fn, end) ==
  LET new == NewStruct(ResultFields(fn))
  IN  CASE end.kind = "declared" ->
             [new EXCEPT ![ExceptionId] = Member(One, TRUE)]
        [] end.kind = "returned" /\ fn.ret # <<>> ->
             [new EXCEPT ![SuccessId] = Member(end.val, TRUE)]
        [] OTHER -> new
ProcessFunction(fn, seqid, end) ==
  CASE end.kind = "undeclared" -> Processed(<<>>, TRUE)
    [] fn.oneway /\ end.kind # "undeclared" -> NoReply
    [] OTHER ->
         Processed(Message("REPLY", fn.name, seqid,
                           WriteResult(ResultFields(fn), ResultOf(fn, end))),
                   FALSE)

(* Process() of a name that is not in processMap_.                         *)
UnknownMethod(name, seqid) ==
  Processed(AppException(name, seqid, "UNKNOWN_METHOD"), FALSE)
==============================================================================
