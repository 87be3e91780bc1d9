------------------------------ MODULE GenJavame ------------------------------
(***************************************************************************)
(* The Java ME that generate/t_javame_generator.cc emits: a class per      *)
(* struct with an isset flag for every primitive member, containers made   *)
(* of Vector and Hashtable, and a blocking Client and Processor.           *)
(***************************************************************************)
EXTENDS ThriftIdl

RenderConst(type, literal) == PositiveIsTrue(type, literal)

(* type_can_be_null: an enumerator is an object.                           *)
CanBeNull(type) == TrueType(type).kind \notin Scalars \ {"enum"}
Unassigned(type) == IF CanBeNull(type) THEN NULL ELSE Zero

(* The default constructor assigns the defaults; no flag is set.           *)
NewMember(f) ==
  Member(IF f.default = NULL THEN Unassigned(f.type)
         ELSE RenderConst(f.type, f.default), FALSE)
NewStruct(fields) == EveryMember(fields, NewMember)

SetMember(f, member, val) == Member(val, ~CanBeNull(f.type))
IsSet(f, member) ==
  IF CanBeNull(f.type) THEN member.val # NULL ELSE member.isset
Copy(fields, obj) == obj

(* clear(): a default is assigned, and the flag of that member kept.       *)
Clear(fields, obj) ==
  LET Cleared(f) == IF f.default # NULL
                      THEN Member(RenderConst(f.type, f.default), obj[f.id].isset)
                      ELSE Member(Unassigned(f.type), FALSE)
  IN  EveryMember(fields, Cleared)

(* equals(): a binary is compared by its bytes, but Vector and Hashtable   *)
(* compare the arrays inside them by reference.                            *)
HoldsBinaries(type) ==
  \E i \in 1..Len(type.of) : TrueType(type.of[i]).kind = "binary"
Equal(fields, a, b) ==
  \A i \in 1..Len(fields) :
    LET f == fields[i]
        present(obj) == f.req = "optional" \/ CanBeNull(f.type)
                          => IsSet(f, obj[f.id])
    IN  /\ present(a) = present(b)
        /\ present(a) => /\ a[f.id].val = b[f.id].val
                         /\ HoldsBinaries(f.type) => a[f.id].val = <<>>

TypeToEnum(type) == TTypeOf[TrueType(type).kind]

SerializeContainer(type, val) == ContainerCalls(type, val, TypeToEnum, CallOf)
SerializeField(f, val) ==
  FieldCalls(f, val, TypeToEnum, CallOf, SerializeContainer)

(* validate(), which write() calls first and read() last, asks the flag of *)
(* a primitive too, so that a required default alone does not pass.        *)
Validate(fields, obj) ==
  \A i \in 1..Len(fields) :
    fields[i].req = "required" => IsSet(fields[i], obj[fields[i].id])

Written(f, member) ==
  IF f.req = "optional" THEN IsSet(f, member)
  ELSE CanBeNull(f.type) => member.val # NULL
WriteStruct(fields, obj) ==
  StructCalls(SortedMembers(fields), obj, Written, SerializeField)

(* findByValue returns null for a value that the enum does not declare.    *)
(* Null in a Vector has no getValue() when it is written.                  *)
Decode(type, atom) ==
  IF TrueType(type).kind = "enum" /\ atom = "unknown" THEN "null" ELSE atom
DecodeElement(type, atom) ==
  IF Decode(type, atom) = "null" THEN "no enumerator" ELSE atom
NullInside(kinds, fields, obj) ==
  \E i \in 1..Len(fields) :
    /\ TrueType(fields[i].type).kind \in kinds
    /\ \E k \in 1..Len(obj[fields[i].id].val) :
         obj[fields[i].id].val[k] = "no enumerator"
WriteAccepts(fields, obj) ==
  Validate(fields, obj) /\ ~NullInside({"list"}, fields, obj)

(* write() of a result: if ... else if ... on isSet.                       *)
WriteResult(fields, obj) ==
  LET sorted == SortedMembers(fields)
      First(f, member) ==
        /\ IsSet(f, member)
        /\ \A i \in 1..Len(sorted) :
             sorted[i].id < f.id => ~IsSet(sorted[i], obj[sorted[i].id])
  IN  StructCalls(sorted, obj, First, SerializeField)

DeserializeContainer(type, wire) ==
  ReadContainer(type, wire, CallOf, DecodeElement)
DeserializeField(type, wire) ==
  ReadValue(type, wire, CallOf, Decode, DeserializeContainer)

(* read(): Hashtable.put takes no null, so that an enumerator that is not  *)
(* declared ends the reading when it is in a set or a map.                 *)
Accepts(f, id, ttype) == IdAndType(f, id, ttype, TypeToEnum)
Assign(f, member, val) == SetMember(f, member, val)
ReadField(fields, obj, wire) ==
  ReadOneField(fields, obj, wire, Accepts, DeserializeField, Assign)
ReadAccepts(fields, obj) ==
  Validate(fields, obj) /\ ~NullInside({"set", "map"}, fields, obj)
ReadStruct(fields, wire) ==
  LET r == ReadWholeStruct(fields, NewStruct(fields), wire, ReadField)
  IN  [r EXCEPT !.ok = @ /\ ReadAccepts(fields, r.obj)]

ResultFields(fn) == ResultFieldsOf(fn, "default")

(* send_<function> counts in seqid_; recv_<function> throws on another     *)
(* number and leaves the result unread.                                    *)
SendCall(fn, seqid) == Message("CALL", fn.name, seqid, NoArguments)
RecvReply(fn, seqid, wire) ==
  IF MessageType(Head(wire)) # "EXCEPTION" /\ Head(wire).num # seqid
    THEN Received(Refused("BAD_SEQUENCE_ID"), Tail(wire))
    ELSE Receive(fn, ResultFields(fn), wire, ReadStruct, IsSet)

(* process() of <function>: only around a function that declares           *)
(* exceptions stands a try, whose last catch takes any Throwable.          *)
ResultOf(fn, end) ==
  LET new == NewStruct(ResultFields(fn))
  IN  CASE end.kind = "declared" ->
             [new EXCEPT ![ExceptionId] = Member(One, FALSE)]
        [] end.kind = "returned" /\ fn.ret # <<>> ->
             [new EXCEPT ![SuccessId] = Member(end.val, ~CanBeNull(fn.ret[1]))]
        [] OTHER -> new
ProcessFunction(fn, seqid, end) ==
  CASE end.kind = "undeclared" /\ fn.throws /\ ~fn.oneway ->
         Processed(AppException(fn.name, seqid, "INTERNAL_ERROR"), FALSE)
    [] end.kind = "undeclared" /\ (fn.throws => fn.oneway) ->
         Processed(<<>>, TRUE)
    [] end.kind # "undeclared" /\ fn.oneway -> NoReply
    [] OTHER ->
         Processed(Message("REPLY", fn.name, seqid,
                           WriteResult(ResultFields(fn), ResultOf(fn, end))),
                   FALSE)

(* process() of a name that is not in processMap_.                         *)
UnknownMethod(name, seqid) ==
  Processed(AppException(name, seqid, "UNKNOWN_METHOD"), FALSE)
==============================================================================
