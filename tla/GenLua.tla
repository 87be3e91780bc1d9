-------------------------------- MODULE GenLua --------------------------------
(***************************************************************************)
(* The Lua that generate/t_lua_generator.cc emits: a table per struct      *)
(* whose members are nil until they are set, and the Client and Processor  *)
(* of a service.  Where Lua code tests a member with if, false counts as   *)
(* nil.                                                                    *)
(***************************************************************************)
EXTENDS ThriftIdl

(* An i64 is rendered from the string of a literal that holds an integer:  *)
(* the string is empty.                                                    *)
RenderConst(type, literal) ==
  IF TrueType(type).kind = "i64" THEN Zero ELSE PositiveIsTrue(type, literal)

(* The table constructor lists the members and no default.                 *)
NewMember(f) == Member(NULL, FALSE)
NewStruct(fields) == EveryMember(fields, NewMember)
SetMember(f, member, val) == Member(val, FALSE)

TypeToEnum(type) == TTypeOf[TrueType(type).kind]

(* The size of a container is string.len of a table: an error before       *)
(* write<Kind>Begin is called.                                             *)
SerializeContainer(type, val) == <<>>
SerializeField(f, val) ==
  FieldCalls(f, val, TypeToEnum, BinaryAsString, SerializeContainer)

(* if self.<field> then ...                                                *)
Truthy(f, member) ==
  /\ member.val # NULL
  /\ TrueType(f.type).kind = "bool" => member.val # Zero
WriteStruct(fields, obj) == StructCalls(fields, obj, Truthy, SerializeField)
WriteAccepts(fields, obj) ==
  \A i \in 1..Len(fields) :
    TrueType(fields[i].type).kind \in ContainerKinds
      => obj[fields[i].id].val = NULL

DeserializeContainer(type, wire) ==
  ReadContainer(type, wire, BinaryAsString, KeepAtom)
DeserializeField(type, wire) ==
  ReadValue(type, wire, BinaryAsString, KeepAtom, DeserializeContainer)

(* read() checks the type byte and no required field.                      *)
Accepts(f, id, ttype) == IdAndType(f, id, ttype, TypeToEnum)
Assign(f, member, val) == Member(val, FALSE)
ReadField(fields, obj, wire) ==
  ReadOneField(fields, obj, wire, Accepts, DeserializeField, Assign)
ReadStruct(fields, wire) ==
  ReadWholeStruct(fields, NewStruct(fields), wire, ReadField)

ResultFields(fn) == ResultFieldsOf(fn, "default")

(* self._seqid never changes.                                              *)
SendCall(fn, seqid) == Message("CALL", fn.name, 0, NoArguments)

(* A void function reads its result and looks at no exception.             *)
RecvReply(fn, seqid, wire) ==
  LET got == Receive(fn, ResultFields(fn), wire, ReadStruct, Truthy)
  IN  IF fn.ret = <<>> /\ got.outcome = Throws
        THEN [got EXCEPT !.outcome = Returns(Void)] ELSE got

(* process_<function> runs the handler under pcall.  A declared exception  *)
(* is one that the handler returns; one that it raises is reported as an   *)
(* application exception.  A oneway function has no <function>_result to   *)
(* make a new one of, which fails before the handler is called.            *)
ResultOf(fn, end) ==
  LET new == NewStruct(ResultFields(fn))
  IN  CASE end.kind = "declared" ->
             [new EXCEPT ![ExceptionId] = Member(One, FALSE)]
        [] end.kind = "returned" /\ fn.ret # <<>> ->
             [new EXCEPT ![SuccessId] = Member(end.val, FALSE)]
        [] OTHER -> new
CallsHandler(fn) == ~fn.oneway
ProcessFunction(fn, seqid, end) ==
  CASE ~CallsHandler(fn) -> Processed(<<>>, TRUE)
    [] CallsHandler(fn) /\ end.kind = "undeclared" ->
         Processed(AppException(fn.name, seqid, "UNKNOWN"), FALSE)
    [] OTHER ->
         Processed(Message("REPLY", fn.name, seqid,
                           WriteStruct(ResultFields(fn), ResultOf(fn, end))),
                   FALSE)

(* process() of a name without a process_<name>.                           *)
UnknownMethod(name, seqid) ==
  Processed(AppException(name, seqid, "UNKNOWN_METHOD"), FALSE)
===============================================================================
