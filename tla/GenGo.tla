------------------------------- MODULE GenGo -------------------------------
(***************************************************************************)
(* The Go that generate/t_go_generator.cc emits: a Go struct per struct,   *)
(* whose optional members are pointers, and a blocking Client and          *)
(* Processor that report errors by returning them.                         *)
(***************************************************************************)
EXTENDS ThriftIdl

RenderConst(type, literal) == PositiveIsTrue(type, literal)

(* is_pointer_field.  A binary is a slice, which may be nil like a         *)
(* container.                                                              *)
Slices == {"binary"} \cup ContainerKinds
IsPointer(f) ==
  LET kind == TrueType(f.type).kind
  IN  \/ kind \in Structs
      \/ /\ f.req = "optional"
         /\ (kind \in ContainerKinds) = (f.default # NULL)
         /\ kind # "binary"

(* New<Struct>() assigns the defaults of members that are no pointers; the *)
(* rest has the zero value of its Go type.  A nil container that is always *)
(* written counts as an empty one.                                         *)
NewMember(f) ==
  LET kind == TrueType(f.type).kind
  IN  Member(IF IsPointer(f) THEN NULL
             ELSE IF f.default # NULL THEN RenderConst(f.type, f.default)
             ELSE IF kind \in Slices /\ f.req = "optional" THEN NULL
             ELSE ZeroValue(TrueType(f.type)), FALSE)
NewStruct(fields) == EveryMember(fields, NewMember)

SetMember(f, member, val) == Member(val, FALSE)

(* IsSet<Field>(): a pointer or a slice is not nil; a value with a default *)
(* differs from it.                                                        *)
IsSet(f, member) ==
  IF IsPointer(f) \/ f.default = NULL THEN member.val # NULL
  ELSE member.val # RenderConst(f.type, f.default)

(* A binary is announced with a type byte of its own.                      *)
TypeToEnum(type) ==
  IF TrueType(type).kind = "binary" THEN "BINARY" ELSE TTypeOf[TrueType(type).kind]

SerializeContainer(type, val) == ContainerCalls(type, val, TypeToEnum, CallOf)
SerializeField(f, val) == FieldCalls(f, val, TypeToEnum, CallOf, SerializeContainer)

(* The id of a field on the wire: field_id *= -1 of a negative one.        *)
WireId(id) == IF id < 0 THEN -id ELSE id

Written(f, member) == f.req = "optional" => IsSet(f, member)
WriteStruct(fields, obj) ==
  LET Calls(f, val) == SerializeField([f EXCEPT !.id = WireId(f.id)], val)
  IN  StructCalls(SortedMembers(fields), obj, Written, Calls)

(* A nil struct that is to be written ends Write() with a panic.           *)
WriteAccepts(fields, obj) ==
  \A i \in 1..Len(fields) :
    fields[i].req # "optional" => obj[fields[i].id].val # NULL

DeserializeContainer(type, wire) == ReadContainer(type, wire, CallOf, KeepAtom)
DeserializeField(type, wire) ==
  ReadValue(type, wire, CallOf, KeepAtom, DeserializeContainer)

(* Read(): the type byte is not looked at, and nothing is required.        *)
Accepts(f, id, ttype) == WireId(f.id) = id
Assign(f, member, val) == Member(val, FALSE)
ReadField(fields, obj, wire) ==
  ReadOneField(fields, obj, wire, Accepts, DeserializeField, Assign)
ReadStruct(fields, wire) ==
  ReadWholeStruct(fields, NewStruct(fields), wire, ReadField)

(* generate_go_function_helpers makes success and the declared exceptions  *)
(* optional.                                                               *)
ResultFields(fn) == ResultFieldsOf(fn, "optional")

(* send<Function> counts in SeqId and sends a oneway function as a CALL.   *)
SendCall(fn, seqid) == Message("CALL", fn.name, seqid, NoArguments)

(* recv<Function>: an EXCEPTION is not asked for its number; a REPLY with  *)
(* another number is left unread.  Exceptions come first, and without them *)
(* GetSuccess() returns the zero value for a result that is not there.     *)
GetSuccess(fn, obj) ==
  LET success == ResultFields(fn)[1]
  IN  IF obj[SuccessId].val # NULL THEN obj[SuccessId].val
      ELSE ZeroOrNull(TrueType(success.type))
RecvReply(fn, seqid, wire) ==
  LET r == ReadStruct(ResultFields(fn), Tail(wire))
  IN  CASE MessageType(Head(wire)) = "EXCEPTION" ->
             Received(Refused(wire[2].type[1]), AfterMessage(wire))
        [] MessageType(Head(wire)) # "EXCEPTION" /\ Head(wire).num # seqid ->
             Received(Refused("BAD_SEQUENCE_ID"), Tail(wire))
        [] OTHER ->
             IF ~r.ok THEN Received(Refused("INVALID_DATA"), r.wire)
             ELSE Received(IF fn.throws /\ r.obj[ExceptionId].val # NULL THEN Throws
                           ELSE IF fn.ret = <<>> THEN Returns(Void)
                           ELSE Returns(GetSuccess(fn, r.obj)),
                           Tail(r.wire))

(* The results of a handler are assigned also when its error is a declared *)
(* exception: &retval, for a type that needs a reference, is never nil.    *)
NeedsReference(type) == TrueType(type).kind \notin Slices \cup Structs
ResultOf(fn, end) ==
  LET new == NewStruct(ResultFields(fn))
      returned == IF end.kind = "returned" THEN end.val
                  ELSE IF NeedsReference(fn.ret[1]) THEN Zero ELSE NULL
  IN  [id \in DOMAIN new |->
         IF id = SuccessId THEN Member(returned, FALSE)
         ELSE IF end.kind = "declared" THEN Member(One, FALSE) ELSE new[id]]

(* Process() of a function: any other error is reported to the client and  *)
(* returned, whatever the function.                                        *)
ProcessFunction(fn, seqid, end) ==
  IF end.kind = "undeclared"
    THEN Processed(IF fn.oneway THEN <<>>
                   ELSE AppException(fn.name, seqid, "INTERNAL_ERROR"), TRUE)
    ELSE IF fn.oneway THEN NoReply
    ELSE Processed(Message("REPLY", fn.name, seqid,
                           WriteStruct(ResultFields(fn), ResultOf(fn, end))),
                   FALSE)

(* Process() of a name that is not in processorMap: the error is returned  *)
(* too.                                                                    *)
UnknownMethod(name, seqid) ==
  Processed(AppException(name, seqid, "UNKNOWN_METHOD"), TRUE)
=============================================================================
