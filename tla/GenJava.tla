------------------------------- MODULE GenJava -------------------------------
(***************************************************************************)
(* The Java that generate/t_java_generator.cc emits: a bean per struct     *)
(* with an isset bit for every primitive member, the standard scheme that  *)
(* reads and writes it, and the Vert.x clients and processors of services. *)
(***************************************************************************)
EXTENDS ThriftIdl

RenderConst(type, literal) == PositiveIsTrue(type, literal)

(* type_can_be_null: an enumerator is an object here.                      *)
CanBeNull(type) == TrueType(type).kind \notin Scalars \ {"enum"}
Unassigned(type) == IF CanBeNull(type) THEN NULL ELSE Zero

(* The default constructor assigns the defaults; the isset bits start 0.   *)
NewMember(f) ==
  Member(IF f.default = NULL THEN Unassigned(f.type)
         ELSE RenderConst(f.type, f.default), FALSE)
NewStruct(fields) == EveryMember(fields, NewMember)

(* Mutant of SetMember: the isset bit of a primitive is left as it was.    *)
SetMember_KeepsIsset(f, member, val) == Member(val, member.isset)

(* set<Field>, isSet<Field>, and the copy constructor.                     *)
SetMember(f, member, val) == Member(val, ~CanBeNull(f.type))
IsSet(f, member) ==
  IF CanBeNull(f.type) THEN member.val # NULL ELSE member.isset
Copy(fields, obj) == obj

(* clear(): a default is assigned, and the isset bit of that member kept.  *)
Clear(fields, obj) ==
  LET Cleared(f) == IF f.default # NULL
                      THEN Member(RenderConst(f.type, f.default), obj[f.id].isset)
                      ELSE Member(Unassigned(f.type), FALSE)
  IN  EveryMember(fields, Cleared)

(* Mutant of Equal: the isset bits are compared.                           *)
Equal_ByFlag(fields, a, b) == a = b

(* equals().                                                               *)
Equal(fields, a, b) ==
  \A i \in 1..Len(fields) :
    LET f == fields[i]
        present(obj) == f.req = "optional" \/ CanBeNull(f.type)
                          => IsSet(f, obj[f.id])
    IN  /\ present(a) = present(b)
        /\ present(a) => a[f.id].val = b[f.id].val

TypeToEnum(type) == TTypeOf[TrueType(type).kind]

SerializeContainer(type, val) == ContainerCalls(type, val, TypeToEnum, CallOf)
SerializeField(f, val) ==
  FieldCalls(f, val, TypeToEnum, CallOf, SerializeContainer)

(* Mutant of Validate: it asks every field.                                *)
Validate_EveryField(fields, obj) ==
  \A i \in 1..Len(fields) :
    CanBeNull(fields[i].type) => obj[fields[i].id].val # NULL

(* validate(), which write() calls first and read() last.                  *)
Validate(fields, obj) ==
  \A i \in 1..Len(fields) :
    fields[i].req = "required" /\ CanBeNull(fields[i].type)
      => obj[fields[i].id].val # NULL

Written(f, member) ==
  /\ CanBeNull(f.type) => member.val # NULL
  /\ f.req = "optional" => IsSet(f, member)
WriteStruct(fields, obj) ==
  StructCalls(SortedMembers(fields), obj, Written, SerializeField)

(* An enumerator that was null in a container has no getValue().           *)
WriteAccepts(fields, obj) ==
  /\ Validate(fields, obj)
  /\ \A i \in 1..Len(fields) :
       TrueType(fields[i].type).kind \in ContainerKinds
         => LET val == obj[fields[i].id].val
            IN  val # NULL => \A k \in 1..Len(val) : val[k] # "no enumerator"

(* The result of a call: every primitive asks its isset bit.               *)
WriteResult(fields, obj) ==
  LET SetInResult(f, member) ==
        /\ CanBeNull(f.type) => member.val # NULL
        /\ f.req = "optional" \/ ~CanBeNull(f.type) => IsSet(f, member)
  IN  StructCalls(SortedMembers(fields), obj, SetInResult, SerializeField)

(* findByValue returns null for a value that the enum does not declare.    *)
Decode(type, atom) ==
  IF TrueType(type).kind = "enum" /\ atom = "unknown" THEN "null" ELSE atom
DecodeElement(type, atom) ==
  IF Decode(type, atom) = "null" THEN "no enumerator" ELSE atom
DeserializeContainer(type, wire) ==
  ReadContainer(type, wire, CallOf, DecodeElement)
DeserializeField(type, wire) ==
  ReadValue(type, wire, CallOf, Decode, DeserializeContainer)

Accepts(f, id, ttype) == IdAndType(f, id, ttype, TypeToEnum)
Assign(f, member, val) == SetMember(f, member, val)
ReadField(fields, obj, wire) ==
  ReadOneField(fields, obj, wire, Accepts, DeserializeField, Assign)
ReadAccepts(fields, obj) ==
  /\ \A i \in 1..Len(fields) :
       fields[i].req = "required" => IsSet(fields[i], obj[fields[i].id])
  /\ Validate(fields, obj)
ReadStruct(fields, wire) ==
  LET r == ReadWholeStruct(fields, NewStruct(fields), wire, ReadField)
  IN  [r EXCEPT !.ok = @ /\ ReadAccepts(fields, r.obj)]

ResultFields(fn) == ResultFieldsOf(fn, "default")

(* write_args() of the <function>_call classes, which write a CALL whether *)
(* or not the function is oneway.                                          *)
SendCall(fn, seqid) == Message("CALL", fn.name, seqid, NoArguments)

(* getResult() of the <function>_call classes, reached when the sequence   *)
(* number is that of the call; any other message is dropped.               *)
RecvReply(fn, seqid, wire) ==
  IF Head(wire).num # seqid
    THEN Received(Refused("ignored"), AfterMessage(wire))
    ELSE Receive(fn, ResultFields(fn), wire, ReadStruct, IsSet)

(* The result handler of a Vert.x processor function.                      *)
ResultOf(fn, end) ==
  LET new == NewStruct(ResultFields(fn))
  IN  CASE end.kind = "declared" ->
             [new EXCEPT ![ExceptionId] = Member(One, FALSE)]
        [] end.kind = "returned" /\ fn.ret # <<>> ->
             [new EXCEPT ![SuccessId] = Member(end.val, ~CanBeNull(fn.ret[1]))]
        [] OTHER -> new
ProcessFunction(fn, seqid, end) ==
  CASE fn.oneway -> NoReply
    [] ~fn.oneway /\ end.kind = "undeclared" ->
         Processed(AppException(fn.name, seqid, "INTERNAL_ERROR"), FALSE)
    [] OTHER ->
         Processed(Message("REPLY", fn.name, seqid,
                           WriteResult(ResultFields(fn), ResultOf(fn, end))),
                   FALSE)

(* getResult() of the synchronous <function> classes and the process() of  *)
(* ProcessFunction around it: a TException is reported for oneway calls    *)
(* too.                                                                    *)
ProcessFunctionSync(fn, seqid, end) ==
  CASE end.kind = "undeclared" ->
         Processed(AppException(fn.name, seqid, "INTERNAL_ERROR"), FALSE)
    [] fn.oneway /\ end.kind # "undeclared" -> NoReply
    [] OTHER ->
         Processed(Message("REPLY", fn.name, seqid,
                           WriteResult(ResultFields(fn), ResultOf(fn, end))),
                   FALSE)

(* TBaseAsyncProcessor.process of a name that is not in its map.           *)
UnknownMethod(name, seqid) ==
  Processed(AppException(name, seqid, "UNKNOWN_METHOD"), FALSE)
==============================================================================
