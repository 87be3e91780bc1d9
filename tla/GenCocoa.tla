------------------------------ MODULE GenCocoa ------------------------------
(***************************************************************************)
(* The Objective-C that generate/t_cocoa_generator.cc emits without the    *)
(* option validate_required: a class per struct with an isset flag for     *)
(* every member, and the Client and Processor of a service.                *)
(***************************************************************************)
EXTENDS ThriftIdl

RenderConst(type, literal) == PositiveIsTrue(type, literal)

(* init assigns the defaults through the properties, which set the flags.  *)
NewMember(f) ==
  IF f.default = NULL THEN Member(ZeroOrNull(f.type), FALSE)
  ELSE Member(RenderConst(f.type, f.default), TRUE)
NewStruct(fields) == EveryMember(fields, NewMember)
SetMember(f, member, val) == Member(val, TRUE)

TypeToEnum(type) == TTypeOf[TrueType(type).kind]

SerializeContainer(type, val) == ContainerCalls(type, val, TypeToEnum, CallOf)
SerializeField(f, val) ==
  FieldCalls(f, val, TypeToEnum, CallOf, SerializeContainer)

(* write: takes the members in the order of their declaration, and those   *)
(* whose flag is set and that are not nil, whatever their requiredness.    *)
Written(f, member) == member.isset /\ member.val # NULL
WriteStruct(fields, obj) == StructCalls(fields, obj, Written, SerializeField)

(* write: of a result: if ... else if ... on the flags.                    *)
WriteResult(fields, obj) ==
  LET First(f, member) ==
        /\ Written(f, member)
        /\ f.id # SuccessId /\ SuccessId \in DOMAIN obj
             => ~obj[SuccessId].isset
  IN  StructCalls(fields, obj, First, SerializeField)

(* containerize and decontainerize are inverse on the kinds they box.      *)
DeserializeContainer(type, wire) == ReadContainer(type, wire, CallOf, KeepAtom)
DeserializeField(type, wire) ==
  ReadValue(type, wire, CallOf, KeepAtom, DeserializeContainer)

(* read: checks the type byte and, without the option, no required field.  *)
Accepts(f, id, ttype) == IdAndType(f, id, ttype, TypeToEnum)
Assign(f, member, val) == SetMember(f, member, val)
ReadField(fields, obj, wire) ==
  ReadOneField(fields, obj, wire, Accepts, DeserializeField, Assign)
ReadStruct(fields, wire) ==
  ReadWholeStruct(fields, NewStruct(fields), wire, ReadField)

ResultFields(fn) == ResultFieldsOf(fn, "default")

(* send_<function> writes sequence number 0; recv_<function> asks for no   *)
(* number and no name.                                                     *)
SendCall(fn, seqid) == Message("CALL", fn.name, 0, NoArguments)
RecvReply(fn, seqid, wire) ==
  Receive(fn, ResultFields(fn), wire, ReadStruct,
          LAMBDA f, member : member.isset)

(* process_<function> has no @try: whatever the service throws, declared   *)
(* or not, leaves the processor.                                           *)
ResultOf(fn, end) ==
  LET new == NewStruct(ResultFields(fn))
  IN  IF fn.ret = <<>> THEN new
      ELSE [new EXCEPT ![SuccessId] = Member(end.val, TRUE)]
ProcessFunction(fn, seqid, end) ==
  CASE end.kind # "returned" -> Processed(<<>>, TRUE)
    [] end.kind = "returned" /\ fn.oneway -> NoReply
    [] OTHER ->
         Processed(Message("REPLY", fn.name, seqid,
                           WriteResult(ResultFields(fn), ResultOf(fn, end))),
                   FALSE)

(* processOnInputProtocol: of a name that is not in mMethodMap.            *)
UnknownMethod(name, seqid) ==
  Processed(AppException(name, seqid, "UNKNOWN_METHOD"), FALSE)
==============================================================================
