------------------------------ MODULE ThriftIdl ------------------------------
(***************************************************************************)
(* What the code generators of the compiler have in common: the types,     *)
(* fields and values of an IDL struct as the parser hands them to a        *)
(* generator (parse/t_type.h, t_typedef.h, t_field.h), and the calls that  *)
(* generated code makes on a protocol.  A module Gen<Target> per target    *)
(* language says what the code that t_<target>_generator.cc emits does in  *)
(* terms of these.                                                         *)
(*                                                                         *)
(* Abstractions: a base value is one of a few atoms, a struct inside a     *)
(* struct is one atom and one protocol call, and an element of a container *)
(* is not itself a container.                                              *)
(***************************************************************************)
EXTENDS Integers, Sequences

(* Types.  of holds the element types of a container.  alias says that the *)
(* type is declared through a typedef: a generator that asks the declared  *)
(* type for its kind does not see through the typedef.                     *)
Base(kind) == [kind |-> kind, alias |-> FALSE, of |-> <<>>]
ListOf(elem) == [Base("list") EXCEPT !.of = <<elem>>]
SetOf(elem) == [Base("set") EXCEPT !.of = <<elem>>]
MapOf(key, val) == [Base("map") EXCEPT !.of = <<key, val>>]
Typedef(type) == [type EXCEPT !.alias = TRUE]

TrueType(type) == [type EXCEPT !.alias = FALSE]
DeclaredKind(type) == IF type.alias THEN "typedef" ELSE type.kind

BaseKinds ==
  {"bool", "byte", "i16", "i32", "i64", "double", "string", "binary"}
ContainerKinds == {"list", "set", "map"}
Structs == {"struct", "xception"}

(* The type byte of a field, as every type_to_enum gives it.               *)
TTypeOf ==
  [bool |-> "BOOL", byte |-> "BYTE", i16 |-> "I16", i32 |-> "I32",
   i64 |-> "I64", double |-> "DOUBLE", string |-> "STRING",
   binary |-> "STRING", enum |-> "I32", struct |-> "STRUCT",
   xception |-> "STRUCT", list |-> "LIST", set |-> "SET", map |-> "MAP"]

(* The protocol method, without its read or write, for a value of a kind   *)
(* that is not a container.                                                *)
CallOf ==
  [bool |-> "Bool", byte |-> "Byte", i16 |-> "I16", i32 |-> "I32",
   i64 |-> "I64", double |-> "Double", string |-> "String",
   binary |-> "Binary", enum |-> "I32", struct |-> "Struct",
   xception |-> "Struct"]
BinaryAsString == [CallOf EXCEPT !.binary = "String"]

(* Values are sequences of atoms: one atom for a base value, an enumerator *)
(* or a struct, any number for a container (keys and values alternate in a *)
(* map).  unknown is an enumerator that the reader's IDL does not declare. *)
NULL == <<"null">>
Zero == <<"zero">>
One == <<"one">>
Unknown == <<"unknown">>

(* The value of a member that nobody has set, in a target whose members    *)
(* are values and in one whose scalars are values and the rest references. *)
Scalars == (BaseKinds \ {"string", "binary"}) \cup {"enum"}
ZeroValue(type) == IF type.kind \in ContainerKinds THEN <<>> ELSE Zero
ZeroOrNull(type) == IF type.kind \in Scalars THEN Zero ELSE NULL

(* A literal for a bool is an integer, rendered as value > 0.              *)
PositiveIsTrue(type, literal) ==
  IF TrueType(type).kind = "bool" THEN IF literal = One THEN One ELSE Zero
  ELSE literal

(* A field of a struct; default is NULL when the IDL gives none.           *)
Field(id, type, req, default) ==
  [id |-> id, type |-> type, req |-> req, default |-> default]

(* The state of one member of a generated object.                          *)
Member(val, isset) == [val |-> val, isset |-> isset]

(* One call on a protocol.  num is the id of a field or the size of a      *)
(* container, type the type bytes that the call passes.                    *)
Call(op, type, num, val) ==
  [op |-> op, type |-> type, num |-> num, val |-> val]
Mark(op) == Call(op, <<>>, 0, <<>>)

(* write<Kind>Begin, one call per element, write<Kind>End.                 *)
ContainerCalls(type, val, ToEnum(_), ops) ==
  LET width == Len(type.of)
      elem(i) == type.of[1 + ((i - 1) % width)]
  IN  <<Call(type.kind \o "Begin", [i \in 1..width |-> ToEnum(type.of[i])],
             Len(val) \div width, <<>>)>>
      \o [i \in 1..Len(val) |-> Call(ops[elem(i).kind], <<>>, 0, <<val[i]>>)]
      \o <<Mark(type.kind \o "End")>>

(* A protocol carries strings and binaries alike.                          *)
SameCall(written, read) ==
  \/ written = read
  \/ {written, read} = {"String", "Binary"}

(* What reading a value returns: whether every read call met the write     *)
(* call it is made for, the value, and what is left of the wire.           *)
ReadResult(ok, val, rest) == [ok |-> ok, val |-> val, rest |-> rest]

ReadContainer(type, wire, ops, Decode(_, _)) ==
  LET width == Len(type.of)
      elem(i) == type.of[1 + ((i - 1) % width)]
      n == Head(wire).num * width
  IN  IF /\ Head(wire).op = type.kind \o "Begin"
         /\ Len(wire) > n + 1
         /\ \A i \in 1..n : SameCall(wire[i + 1].op, ops[elem(i).kind])
         /\ wire[n + 2].op = type.kind \o "End"
        THEN ReadResult(TRUE,
                        [i \in 1..n |-> Decode(elem(i), wire[i + 1].val[1])],
                        SubSeq(wire, n + 3, Len(wire)))
        ELSE ReadResult(FALSE, NULL, wire)

(* The fields of a struct in the order of their ids (t_struct::append      *)
(* keeps members_in_id_order_ sorted).                                     *)
SortedMembers(fields) ==
  CHOOSE s \in [1..Len(fields) -> {fields[i] : i \in 1..Len(fields)}] :
    \A i \in 1..Len(fields) - 1 : s[i].id < s[i + 1].id

(* The value of a field of any type: ops gives the calls for the kinds     *)
(* that are not containers.                                                *)
ReadValue(type, wire, ops, Decode(_, _), Container(_, _)) ==
  LET true == TrueType(type)
  IN  IF true.kind \in ContainerKinds THEN Container(true, wire)
      ELSE IF SameCall(Head(wire).op, ops[true.kind])
        THEN ReadResult(TRUE, <<Decode(true, Head(wire).val[1])>>, Tail(wire))
        ELSE ReadResult(FALSE, NULL, wire)

KeepAtom(type, atom) == atom

(* writeFieldBegin, the value, writeFieldEnd.                              *)
FieldCalls(f, val, ToEnum(_), ops, Container(_, _)) ==
  LET true == TrueType(f.type)
  IN  <<Call("FieldBegin", <<ToEnum(f.type)>>, f.id, <<>>)>>
      \o (IF true.kind \in ContainerKinds THEN Container(true, val)
          ELSE <<Call(ops[true.kind], <<>>, 0, val)>>)
      \o <<Mark("FieldEnd")>>

(* A whole struct: the fields for which Written holds, in the given order. *)
StructCalls(fields, obj, Written(_, _), Calls(_, _)) ==
  LET upTo[i \in 0..Len(fields)] ==
        IF i = 0 THEN <<Mark("StructBegin")>>
        ELSE LET f == fields[i]
             IN  upTo[i - 1] \o IF Written(f, obj[f.id])
                                  THEN Calls(f, obj[f.id].val) ELSE <<>>
  IN  upTo[Len(fields)] \o <<Mark("FieldStop"), Mark("StructEnd")>>

(* Mutant of AfterField: everything up to the last field is skipped.       *)
AfterField_LastEnd(wire) ==
  LET ends == {i \in 1..Len(wire) : wire[i].op = "FieldEnd"}
      last == CHOOSE i \in ends : \A j \in ends : i >= j
  IN  SubSeq(wire, last + 1, Len(wire))

(* The wire behind the field that it starts with: what skip() and          *)
(* readFieldEnd leave.                                                     *)
AfterField(wire) ==
  LET ends == {i \in 1..Len(wire) : wire[i].op = "FieldEnd"}
      first == CHOOSE i \in ends : \A j \in ends : i <= j
  IN  SubSeq(wire, first + 1, Len(wire))

(* skip() goes by the type bytes; one that it does not know consumes       *)
(* nothing (TProtocolUtil.java:143).                                       *)
CanSkip(wire) ==
  LET known == {TTypeOf[kind] : kind \in DOMAIN TTypeOf}
      n == Len(wire) - Len(AfterField(wire))
  IN  \A i \in 1..n : \A k \in 1..Len(wire[i].type) : wire[i].type[k] \in known

(* One round of the loop of a generated reader: the field that the wire    *)
(* starts with is read into the member that Accepts it, or skipped.        *)
ReadOneField(fields, obj, wire, Accepts(_, _, _), Read(_, _), Assign(_, _, _)) ==
  LET begin == Head(wire)
      targets == {i \in 1..Len(fields) :
                    Accepts(fields[i], begin.num, begin.type[1])}
      f == fields[CHOOSE i \in targets : TRUE]
      r == Read(f.type, Tail(wire))
  IN  IF targets = {}
        THEN [ok |-> CanSkip(wire), obj |-> obj, wire |-> AfterField(wire)]
        ELSE [ok |-> r.ok /\ Head(r.rest).op = "FieldEnd",
              obj |-> [obj EXCEPT ![f.id] = Assign(f, @, r.val)],
              wire |-> IF r.ok THEN Tail(r.rest) ELSE r.rest]

IdAndType(f, id, ttype, ToEnum(_)) == f.id = id /\ ttype = ToEnum(f.type)

(* The members of a new object.                                            *)
EveryMember(fields, New(_)) ==
  [id \in {fields[i].id : i \in 1..Len(fields)} |->
     New(fields[CHOOSE i \in 1..Len(fields) : fields[i].id = id])]

(* readStructBegin, the loop over the fields up to the stop field, and     *)
(* readStructEnd.                                                          *)
ReadWholeStruct(fields, obj, wire, ReadField(_, _, _)) ==
  LET read[k \in 0..Len(wire)] ==
        IF k = 0 THEN [ok |-> Head(wire).op = "StructBegin",
                       obj |-> obj, wire |-> Tail(wire)]
        ELSE LET sofar == read[k - 1]
             IN  IF sofar.ok /\ Head(sofar.wire).op = "FieldBegin"
                   THEN ReadField(fields, sofar.obj, sofar.wire)
                   ELSE sofar
      last == read[Len(wire)]
  IN  [last EXCEPT !.wire = SubSeq(@, 3, Len(@))]

(***************************************************************************)
(* Calls of a service.  A function returns a value of the type in ret, or  *)
(* nothing when ret is empty, may declare one exception and may be oneway. *)
(***************************************************************************)
Function(name, ret, throws, oneway) ==
  [name |-> name, ret |-> ret, throws |-> throws, oneway |-> oneway]

SuccessId == 0
ExceptionId == 1

(* The result struct: success under id 0, then the declared exceptions.    *)
ResultFieldsOf(fn, req) ==
  [i \in 1..Len(fn.ret) |-> Field(SuccessId, fn.ret[i], req, NULL)]
    \o IF fn.throws
         THEN <<Field(ExceptionId, Base("xception"), req, NULL)>> ELSE <<>>

MessageBegin(mtype, name, seqid) ==
  Call("MessageBegin", <<mtype, name>>, seqid, <<>>)
MessageType(begin) == begin.type[1]
MessageName(begin) == begin.type[2]

NoArguments == <<Mark("StructBegin"), Mark("FieldStop"), Mark("StructEnd")>>
Message(mtype, name, seqid, body) ==
  <<MessageBegin(mtype, name, seqid)>> \o body \o <<Mark("MessageEnd")>>

(* A TApplicationException; its cause is its type.                         *)
AppException(name, seqid, cause) ==
  Message("EXCEPTION", name, seqid,
          <<Call("AppException", <<cause>>, 0, <<>>)>>)

AfterMessage(wire) ==
  LET ends == {i \in 1..Len(wire) : wire[i].op = "MessageEnd"}
      first == CHOOSE i \in ends : \A j \in ends : i <= j
  IN  SubSeq(wire, first + 1, Len(wire))

(* How a handler ends: it returns val, throws the declared exception or    *)
(* throws something else.  And what a caller is told.                      *)
Returns(val) == [kind |-> "returned", val |-> val]
Throws == [kind |-> "declared", val |-> NULL]
Fails == [kind |-> "undeclared", val |-> NULL]
Refused(cause) == [kind |-> cause, val |-> NULL]
Void == <<"void">>

Received(outcome, rest) == [outcome |-> outcome, rest |-> rest]

(* The end of every recv: success first, then the exceptions, then void.   *)
OutcomeOf(fn, fields, obj, Present(_, _)) ==
  LET set == {fields[i].id : i \in {j \in 1..Len(fields) :
                              Present(fields[j], obj[fields[j].id])}}
  IN  IF SuccessId \in set THEN Returns(obj[SuccessId].val)
      ELSE IF ExceptionId \in set THEN Throws
      ELSE IF fn.ret = <<>> THEN Returns(Void)
      ELSE Refused("MISSING_RESULT")

(* The beginning of every recv: an EXCEPTION is read and thrown, otherwise *)
(* the result struct is read.                                              *)
Receive(fn, fields, wire, ReadStruct(_, _), Present(_, _)) ==
  IF MessageType(Head(wire)) = "EXCEPTION"
    THEN Received(Refused(wire[2].type[1]), AfterMessage(wire))
    ELSE LET r == ReadStruct(fields, Tail(wire))
         IN  IF r.ok THEN Received(OutcomeOf(fn, fields, r.obj, Present),
                                   Tail(r.wire))
             ELSE Received(Refused("INVALID_DATA"), r.wire)

(* What a processor does with a call: the calls it makes on its output and *)
(* whether an exception leaves process().                                  *)
Processed(reply, thrown) == [reply |-> reply, thrown |-> thrown]
NoReply == Processed(<<>>, FALSE)
==============================================================================
