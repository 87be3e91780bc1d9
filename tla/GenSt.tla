-------------------------------- MODULE GenSt --------------------------------
(***************************************************************************)
(* The Smalltalk that generate/t_st_generator.cc emits: a class with       *)
(* accessors per struct, and readers and writers that are blocks in the    *)
(* methods of a client.  There are no processors.                          *)
(***************************************************************************)
EXTENDS ThriftIdl

RenderConst(type, literal) == PositiveIsTrue(type, literal)

(* Instance variables are nil, whatever default the field has.             *)
NewMember(f) == Member(NULL, FALSE)
NewStruct(fields) == EveryMember(fields, NewMember)
SetMember(f, member, val) == Member(val, FALSE)

TypeToEnum(type) == TTypeOf[TrueType(type).kind]

SerializeContainer(type, val) ==
  ContainerCalls(type, val, TypeToEnum, BinaryAsString)
SerializeField(f, val) ==
  FieldCalls(f, val, TypeToEnum, BinaryAsString, SerializeContainer)

(* struct_writer asks an optional member alone whether it is nil; writing  *)
(* nil is an error of the protocol.                                        *)
Written(f, member) == f.req = "optional" => member.val # NULL
WriteStruct(fields, obj) ==
  StructCalls(SortedMembers(fields), obj, Written, SerializeField)
WriteAccepts(fields, obj) ==
  \A i \in 1..Len(fields) :
    Written(fields[i], obj[fields[i].id]) => obj[fields[i].id].val # NULL

DeserializeContainer(type, wire) ==
  ReadContainer(type, wire, BinaryAsString, KeepAtom)
DeserializeField(type, wire) ==
  ReadValue(type, wire, BinaryAsString, KeepAtom, DeserializeContainer)

(* struct_reader compares the id of a field and never its type.            *)
Accepts(f, id, ttype) == f.id = id
Assign(f, member, val) == Member(val, FALSE)
ReadField(fields, obj, wire) ==
  ReadOneField(fields, obj, wire, Accepts, DeserializeField, Assign)
==============================================================================
