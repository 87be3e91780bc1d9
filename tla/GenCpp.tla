------------------------------- MODULE GenCpp -------------------------------
(***************************************************************************)
(* The C++ that generate/t_cpp_generator.cc emits: a class per struct with *)
(* an __isset flag for every field that is not required, read() and        *)
(* write(), and the clients and processors of services.                    *)
(***************************************************************************)
EXTENDS ThriftIdl

RenderConst(type, literal) == PositiveIsTrue(type, literal)

(* The constructor sets every member and starts __isset with the defaults. *)
NewMember(f) ==
  Member(IF f.default = NULL THEN ZeroValue(f.type)
         ELSE RenderConst(f.type, f.default),
         f.req # "required" /\ f.default # NULL)
(* Mutant of NewStruct: the field declared last gets no member.            *)
NewStruct_MissesLast(fields) ==
  EveryMember(SubSeq(fields, 1, Len(fields) - 1), NewMember)

NewStruct(fields) == EveryMember(fields, NewMember)

(* __set_<field>.                                                          *)
SetMember(f, member, val) == Member(val, member.isset \/ f.req = "optional")

(* The copy constructor and operator ==.                                   *)
Copy(fields, obj) == obj
Equal(fields, a, b) ==
  \A i \in 1..Len(fields) :
    LET f == fields[i]
        x == a[f.id]
        y == b[f.id]
    IN  IF f.req # "optional" THEN x.val = y.val
        ELSE x.isset = y.isset /\ (x.isset => x.val = y.val)

TypeToEnum(type) == TTypeOf[TrueType(type).kind]

(* Mutant of SerializeContainer: the end of a container is not written.    *)
SerializeContainer_NoEnd(type, val) ==
  LET calls == ContainerCalls(type, val, TypeToEnum, CallOf)
  IN  SubSeq(calls, 1, Len(calls) - 1)

SerializeContainer(type, val) == ContainerCalls(type, val, TypeToEnum, CallOf)
SerializeField(f, val) ==
  FieldCalls(f, val, TypeToEnum, CallOf, SerializeContainer)

(* Mutant of Written: a field is written whether it is set or not.         *)
Written_Always(f, member) == TRUE

(* write(): a field is optional by its requiredness, or because its        *)
(* declared type is an exception.                                          *)
Written(f, member) ==
  f.req = "optional" \/ DeclaredKind(f.type) = "xception" => member.isset
WriteStruct(fields, obj) ==
  StructCalls(SortedMembers(fields), obj, Written, SerializeField)

(* write() of a result: if ... else if ... on __isset.                     *)
WriteResult(fields, obj) ==
  LET sorted == SortedMembers(fields)
      First(f, member) ==
        /\ member.isset
        /\ \A i \in 1..Len(sorted) :
             sorted[i].id < f.id => ~obj[sorted[i].id].isset
  IN  StructCalls(sorted, obj, First, SerializeField)

DeserializeContainer(type, wire) == ReadContainer(type, wire, CallOf, KeepAtom)
DeserializeField(type, wire) ==
  ReadValue(type, wire, CallOf, KeepAtom, DeserializeContainer)

(* read(): switch on the id, the type byte checked in each case.  isset of *)
(* a required member stands for the local isset_<field>.                   *)
Accepts(f, id, ttype) == IdAndType(f, id, ttype, TypeToEnum)
Assign(f, member, val) == Member(val, TRUE)
ReadField(fields, obj, wire) ==
  ReadOneField(fields, obj, wire, Accepts, DeserializeField, Assign)
(* Mutant of ReadAccepts: a field of default requiredness is required too. *)
ReadAccepts_EveryField(fields, obj) ==
  \A i \in 1..Len(fields) :
    fields[i].req # "optional" => obj[fields[i].id].isset

ReadAccepts(fields, obj) ==
  \A i \in 1..Len(fields) :
    fields[i].req = "required" => obj[fields[i].id].isset
ReadStruct(fields, wire) ==
  LET r == ReadWholeStruct(fields, NewStruct(fields), wire, ReadField)
  IN  [r EXCEPT !.ok = @ /\ ReadAccepts(fields, r.obj)]

(* generate_function_helpers.                                              *)
ResultFields(fn) == ResultFieldsOf(fn, "default")

(* send_<function>: T_CALL with sequence number 0, a oneway call too.      *)
SendCall(fn, seqid) == Message("CALL", fn.name, 0, NoArguments)

(* recv_<function>: a reply of another type or to another function is      *)
(* skipped, and the message behind it read as the result of this call.     *)
RecvReply(fn, seqid, wire) ==
  LET begin == Head(wire)
      other == MessageName(begin) # fn.name
  IN  IF MessageType(begin) = "EXCEPTION" \/ ~other
        THEN Receive(fn, ResultFields(fn), wire, ReadStruct,
                     LAMBDA f, member : member.isset)
        ELSE Received(Refused("transport"), AfterMessage(wire))

(* Mutant of ResultOf: __isset.success is not set.                         *)
ResultOf_NoIsset(fn, end) ==
  LET new == NewStruct(ResultFields(fn))
  IN  CASE end.kind = "declared" ->
             [new EXCEPT ![ExceptionId] = Member(One, TRUE)]
        [] end.kind = "returned" /\ fn.ret # <<>> ->
             [new EXCEPT ![SuccessId] = Member(end.val, FALSE)]
        [] OTHER -> new

(* process_<function>: the arguments are read outside of the try.          *)
ResultOf(fn, end) ==
  LET new == NewStruct(ResultFields(fn))
  IN  CASE end.kind = "declared" ->
             [new EXCEPT ![ExceptionId] = Member(One, TRUE)]
        [] end.kind = "returned" /\ fn.ret # <<>> ->
             [new EXCEPT ![SuccessId] = Member(end.val, TRUE)]
        [] OTHER -> new

(* Mutants of ProcessFunction: a oneway call is answered; a declared       *)
(* exception leaves process().                                             *)
ProcessFunction_AnswersOneway(fn, seqid, end) ==
  IF end.kind = "undeclared"
    THEN Processed(AppException(fn.name, seqid, "UNKNOWN"), FALSE)
    ELSE Processed(Message("REPLY", fn.name, seqid,
                           WriteResult(ResultFields(fn), ResultOf(fn, end))),
                   FALSE)
ProcessFunction_Throws(fn, seqid, end) ==
  CASE fn.oneway -> NoReply
    [] ~fn.oneway /\ end.kind = "declared" -> Processed(<<>>, TRUE)
    [] ~fn.oneway /\ end.kind = "undeclared" ->
         Processed(AppException(fn.name, seqid, "UNKNOWN"), FALSE)
    [] OTHER ->
         Processed(Message("REPLY", fn.name, seqid,
                           WriteResult(ResultFields(fn), ResultOf(fn, end))),
                   FALSE)

ProcessFunction(fn, seqid, end) ==
  CASE fn.oneway -> NoReply
    [] end.kind = "undeclared" /\ ~fn.oneway ->
         Processed(AppException(fn.name, seqid, "UNKNOWN"), FALSE)
    [] OTHER ->
         Processed(Message("REPLY", fn.name, seqid,
                           WriteResult(ResultFields(fn), ResultOf(fn, end))),
                   FALSE)

(* Mutant of UnknownMethod: nothing is written.                            *)
UnknownMethod_Silent(name, seqid) == NoReply

(* dispatchCall of a name that neither this service nor a parent has.      *)
UnknownMethod(name, seqid) ==
  Processed(AppException(name, seqid, "UNKNOWN_METHOD"), FALSE)
==============================================================================
