--------------------------- MODULE CompactProtocol ---------------------------
(***************************************************************************)
(* TCompactProtocol: one protocol object writes a message whose struct has *)
(* nested structs, lists and maps, another reads it.  Both keep the id of  *)
(* the last field and a stack of those of the structs around it, because   *)
(* ids are sent as differences; and both put a boolean field aside until   *)
(* its value comes, because the value is sent in the field's header.       *)
(*                                                                         *)
(* The reader is generated code or TProtocolUtil.skip: it makes the calls  *)
(* that the types it reads ask for.  The writer makes any calls that make  *)
(* up a struct.  Values are integers: 0 and 1 for false and true; a string *)
(* is the number of its bytes.  I32 stands for I16, I32 and I64, LIST for  *)
(* LIST and SET.                                                           *)
(***************************************************************************)
EXTENDS Integers, Sequences

CONSTANTS
    Families,    (* the messages written: families of small documents, each *)
                 (* with the choices that one interplay needs               *)
    Width        (* bits of an integer                                      *)

VARIABLES
    family,      (* the family of the message                               *)
    wire,        (* the bytes that were written and not read                *)
    out,         (* the TCompactProtocol that writes                        *)
    in,          (* the TCompactProtocol that reads                         *)
    todo,        (* the structs and containers to finish, innermost first   *)
    phase,       (* what happens to the message                             *)
    fields,      (* bookkeeping: the fields written                         *)
    written,     (* history: the calls of the writer, with their arguments  *)
    read         (* history: the calls of the reader, with what they return *)

vars == <<family, wire, out, in, todo, phase, fields, written, read>>

Phases == {"new", "writing", "sent", "reading", "done", "refused"}

(* lastFieldId_, lastField_ (which grows as needed), and booleanField_ of  *)
(* a writer (its id) or boolValue_ of a reader: <<>> is null.              *)
NewProtocol == [lastFieldId |-> 0, lastField |-> <<>>, boolean |-> <<>>]

Call(op, types, num) == [op |-> op, types |-> types, num |-> num]

CALL == 1
REPLY == 2
EXCEPTION == 3
ONEWAY == 4

(* The type nibbles; BOOL stands for two: true, and false behind it.       *)
CompactType ==
    [STOP |-> 0, BOOL |-> 1, BYTE |-> 3, I32 |-> 5, STRING |-> 8, LIST |-> 9,
     MAP |-> 11, STRUCT |-> 12]
TTypes == DOMAIN CompactType \ {"STOP"}
False == 2
Scalars == {"BOOL", "BYTE", "I32", "STRING"}

(* headers are <<type, sequence id, bytes of the name>>.  types are those  *)
(* of fields and elements, sizes those of lists and maps.  fields and      *)
(* depth are bounds: on the fields of a message, and on the structs and    *)
(* containers around a value.  multiplexed messages are read by a          *)
(* TMultiplexedProcessor: clients send it requests.                        *)
ASSUME CompactAssumption ==
    /\ Width \in Nat /\ Width > 16
    /\ LET ints == -(2^(Width - 1))..(2^(Width - 1) - 1)
           sizes == 0..(2^(Width - 1) - 1)
       IN  \A f \in Families :
             /\ f.headers \subseteq (CALL..ONEWAY) \X ints \X sizes
             /\ f.multiplexed => \A header \in f.headers : header[1] \in {CALL, ONEWAY}
             /\ f.ids \subseteq -(2^15)..(2^15 - 1)
             /\ f.types \subseteq TTypes /\ f.fields \in Nat
             /\ f.sizes \subseteq sizes
             /\ f.values["BYTE"] \subseteq -128..127
             /\ f.values["I32"] \subseteq ints
             /\ f.values["STRING"] \subseteq sizes

TTypeOf(nibble) ==
    IF nibble = False THEN "BOOL"
    ELSE CHOOSE type \in DOMAIN CompactType : CompactType[type] = nibble
IsCompactType(nibble) == nibble = False \/ \E t \in DOMAIN CompactType : CompactType[t] = nibble

------------------------------------------------------------------------------
(* Integers in bytes.                                                      *)
Byte(n) == n % 256
Unsigned(n) == n % 2^Width
Signed(n, width) == ((n + 2^(width - 1)) % 2^width) - 2^(width - 1)

ZigZag(n) ==
    LET shifted == Unsigned(2 * n)
    IN  IF n < 0 THEN 2^Width - 1 - shifted ELSE shifted

UnZigZag(u) == IF u % 2 = 1 THEN -1 - (u \div 2) ELSE u \div 2

Varint[u \in Nat] ==
    IF u < 128 THEN <<u>> ELSE <<128 + (u % 128)>> \o Varint[u \div 128]

(* The bytes of the varint at the head of the wire.                        *)
HasVarint(bytes) == \E i \in DOMAIN bytes : bytes[i] < 128
VarintLength(bytes) ==
    CHOOSE i \in DOMAIN bytes : bytes[i] < 128 /\ \A j \in 1..(i - 1) : bytes[j] >= 128

ReadVarint(bytes) ==
    LET from[i \in 1..VarintLength(bytes)] ==
          (bytes[i] % 128) + (IF bytes[i] < 128 THEN 0 ELSE 128 * from[i + 1])
    IN  Unsigned(from[1])

Drop(bytes, n) == SubSeq(bytes, n + 1, Len(bytes))

------------------------------------------------------------------------------
(* What the writing methods send.                                          *)
MessageHeader(type, seqid, name) ==
    <<130, Byte(1 + type * 32)>> \o Varint[Unsigned(seqid)] \o Varint[name]
    \o [i \in 1..name |-> 12]

(* Mutant of FieldHeader: the difference of 16 is sent in four bits.       *)
FieldHeader_Delta16(id, nibble) ==
    IF id > out.lastFieldId /\ id - out.lastFieldId <= 16
    THEN <<Byte((id - out.lastFieldId) * 16 + nibble)>>
    ELSE <<nibble>> \o Varint[ZigZag(id)]

FieldHeader(id, nibble) ==
    IF id > out.lastFieldId /\ id - out.lastFieldId <= 15
    THEN <<Byte((id - out.lastFieldId) * 16 + nibble)>>
    ELSE <<nibble>> \o Varint[ZigZag(id)]

ListHeader(elem, size) ==
    IF size <= 14 THEN <<Byte(size * 16 + CompactType[elem])>>
    ELSE <<240 + CompactType[elem]>> \o Varint[size]

MapHeader(key, val, size) ==
    IF size = 0 THEN <<0>>
    ELSE Varint[size] \o <<Byte(CompactType[key] * 16 + CompactType[val])>>

ValueBytes(type, val) ==
    CASE type = "BOOL" -> <<IF val = 1 THEN CompactType["BOOL"] ELSE False>>
      [] type = "BYTE" -> <<Byte(val)>>
      [] type = "I32" -> Varint[ZigZag(val)]
      [] type = "STRING" -> Varint[val] \o [i \in 1..val |-> 12]

------------------------------------------------------------------------------
(* What is to be finished: a struct that may have fields of some ids, or   *)
(* values of some types, of which those before the last are plain.         *)
Struct(ids, depth) == [ids |-> ids, types |-> <<>>, plain |-> FALSE, depth |-> depth]
Elements(types, isPlain, depth) ==
    [ids |-> {}, types |-> types, plain |-> isPlain, depth |-> depth]
Message == Elements(<<"STRUCT">>, FALSE, 0)

InStruct == todo # <<>> /\ Head(todo).types = <<>>
Due(type) == todo # <<>> /\ ~InStruct /\ Head(Head(todo).types) = type
Plain == Head(todo).plain \/ Len(Head(todo).types) > 1

(* What remains when the next value has been dealt with, or has begun.     *)
AfterValue ==
    LET left == Tail(Head(todo).types)
    IN  IF left = <<>> THEN Tail(todo)
        ELSE <<[Head(todo) EXCEPT !.types = left]>> \o Tail(todo)

InsideField(type) == <<Elements(<<type>>, FALSE, Head(todo).depth)>>
InsideStruct(ids) == <<Struct(ids, Head(todo).depth + 1)>>
InsideContainer(types, isPlain) ==
    IF types = <<>> THEN <<>> ELSE <<Elements(types, isPlain, Head(todo).depth + 1)>>

(* Within the bound, values of these types may be this many levels further *)
(* in.                                                                     *)
MayHold(types, levels) ==
    types \subseteq Scalars \/ Head(todo).depth + levels < family.depth

ListOf(elem, size) == [i \in 1..size |-> elem]
MapOf(key, val, size) == [i \in 1..(2 * size) |-> IF i % 2 = 1 THEN key ELSE val]

(* The elements of a list before the last are all alike, and the           *)
(* containers among them empty.                                            *)
Typical(type) == CHOOSE val \in family.values[type] : TRUE

Init ==
    /\ family \in Families
    /\ wire = <<>>
    /\ out = NewProtocol /\ in = NewProtocol
    /\ todo = <<>>
    /\ phase = "new"
    /\ fields = 0
    /\ written = <<>> /\ read = <<>>

------------------------------------------------------------------------------
Writes(call, bytes) ==
    /\ wire' = wire \o bytes
    /\ written' = Append(written, call)
    /\ UNCHANGED <<family, in, read>>

WriteMessageBegin(type, seqid, name) ==
    /\ phase = "new"
    /\ Writes(Call("MessageBegin", <<type, name>>, seqid), MessageHeader(type, seqid, name))
    /\ phase' = "writing"
    /\ todo' = <<Message>>
    /\ UNCHANGED <<out, fields>>

WriteStructBegin ==
    /\ phase = "writing" /\ Due("STRUCT")
    /\ Writes(Call("StructBegin", <<>>, 0), <<>>)
    /\ out' = [out EXCEPT !.lastField = Append(@, out.lastFieldId), !.lastFieldId = 0]
    /\ todo' = InsideStruct(IF Plain THEN {} ELSE family.ids) \o AfterValue
    /\ UNCHANGED <<phase, fields>>

(* A boolean field is put aside, any other one is sent.                    *)
WriteFieldBegin(id, type) ==
    /\ phase = "writing"
    /\ InStruct /\ id \in Head(todo).ids
    /\ fields < family.fields /\ MayHold({type}, 0)
    /\ fields' = fields + 1
    /\ todo' = InsideField(type) \o <<[Head(todo) EXCEPT !.ids = @ \ {id}]>> \o Tail(todo)
    /\ IF type = "BOOL"
       THEN /\ Writes(Call("FieldBegin", <<type>>, id), <<>>)
            /\ out' = [out EXCEPT !.boolean = <<id>>]
       ELSE /\ Writes(Call("FieldBegin", <<type>>, id), FieldHeader(id, CompactType[type]))
            /\ out' = [out EXCEPT !.lastFieldId = id]
    /\ UNCHANGED phase

(* writeBool sends the field that was put aside, or the value alone.       *)
WriteBool(val) ==
    LET nibble == IF val = 1 THEN CompactType["BOOL"] ELSE False IN
    /\ phase = "writing" /\ Due("BOOL")
    /\ Plain => val = 1
    /\ IF out.boolean # <<>>
       THEN /\ Writes(Call("BOOL", <<>>, val), FieldHeader(out.boolean[1], nibble))
            /\ out' = [out EXCEPT !.lastFieldId = out.boolean[1], !.boolean = <<>>]
       ELSE Writes(Call("BOOL", <<>>, val), ValueBytes("BOOL", val)) /\ UNCHANGED out
    /\ todo' = AfterValue
    /\ UNCHANGED <<phase, fields>>

WriteScalar(type, val) ==
    /\ phase = "writing" /\ Due(type)
    /\ Plain => val = Typical(type)
    /\ Writes(Call(type, <<>>, val), ValueBytes(type, val))
    /\ todo' = AfterValue
    /\ UNCHANGED <<out, phase, fields>>

WriteListBegin(elem, size) ==
    /\ phase = "writing" /\ Due("LIST")
    /\ Plain => size = 0
    /\ MayHold({elem}, 1)
    /\ Writes(Call("ListBegin", <<elem>>, size), ListHeader(elem, size))
    /\ todo' = InsideContainer(ListOf(elem, size), Plain) \o AfterValue
    /\ UNCHANGED <<out, phase, fields>>

WriteMapBegin(key, val, size) ==
    /\ phase = "writing" /\ Due("MAP")
    /\ Plain => size = 0
    /\ MayHold({key, val}, 1)
    /\ Writes(Call("MapBegin", <<key, val>>, size), MapHeader(key, val, size))
    /\ todo' = InsideContainer(MapOf(key, val, size), Plain) \o AfterValue
    /\ UNCHANGED <<out, phase, fields>>

(* Mutant of WriteStructEnd: the struct around it does not get its last    *)
(* field back.                                                             *)
WriteStructEnd_NoPop ==
    /\ phase = "writing"
    /\ InStruct
    /\ Writes(Call("StructEnd", <<>>, 0), <<0>>)
    /\ UNCHANGED out
    /\ todo' = Tail(todo)
    /\ phase' = IF todo' = <<>> THEN "sent" ELSE "writing"
    /\ UNCHANGED fields

(* writeFieldStop and writeStructEnd; behind the outermost struct the      *)
(* message ends.                                                           *)
WriteStructEnd ==
    /\ phase = "writing"
    /\ InStruct
    /\ Writes(Call("StructEnd", <<>>, 0), <<0>>)
    /\ out' = [out EXCEPT !.lastFieldId = out.lastField[Len(out.lastField)],
                          !.lastField = SubSeq(@, 1, Len(@) - 1)]
    /\ todo' = Tail(todo)
    /\ phase' = IF todo' = <<>> THEN "sent" ELSE "writing"
    /\ UNCHANGED fields

------------------------------------------------------------------------------
(* A reading method takes bytes off the wire.  Where they end too soon, or *)
(* a type is not known, it throws: here the reader is stuck.               *)
Reads(call, bytes) ==
    /\ wire' = Drop(wire, bytes)
    /\ read' = Append(read, call)
    /\ UNCHANGED <<family, out, fields, written>>

(* readMessageBegin takes two bits for the type, where it was written to   *)
(* three.                                                                  *)
ReadMessageBegin ==
    LET type == (wire[2] \div 32) % 4
        seqid == ReadVarint(Drop(wire, 2))
        body == Drop(wire, 2 + VarintLength(Drop(wire, 2)))
        name == ReadVarint(body)
    IN  /\ phase = "sent"
        /\ wire[1] = 130 /\ wire[2] % 32 = 1
        /\ Reads(Call("MessageBegin", <<type, name>>, Signed(seqid, Width)),
                 Len(wire) - Len(body) + VarintLength(body) + name)
        /\ IF family.multiplexed /\ type \notin {CALL, ONEWAY}
           THEN phase' = "refused" /\ UNCHANGED todo
           ELSE phase' = "reading" /\ todo' = <<Message>>
        /\ UNCHANGED in

ReadStructBegin ==
    /\ phase = "reading" /\ Due("STRUCT")
    /\ Reads(Call("StructBegin", <<>>, 0), 0)
    /\ in' = [in EXCEPT !.lastField = Append(@, in.lastFieldId), !.lastFieldId = 0]
    /\ todo' = InsideStruct({}) \o AfterValue
    /\ UNCHANGED phase

(* A header gives the id as a difference, or a varint behind it.           *)
ReadFieldBegin ==
    LET nibble == Head(wire) % 16
        delta == Head(wire) \div 16
        id == IF delta = 0 THEN Signed(UnZigZag(ReadVarint(Tail(wire))), 16)
              ELSE Signed(in.lastFieldId + delta, 16)
        type == TTypeOf(nibble)
    IN  /\ phase = "reading"
        /\ InStruct
        /\ wire # <<>> /\ Head(wire) # 0
        /\ IsCompactType(nibble)
        /\ delta = 0 => HasVarint(Tail(wire))
        /\ Reads(Call("FieldBegin", <<type>>, id),
                 1 + (IF delta = 0 THEN VarintLength(Tail(wire)) ELSE 0))
        /\ in' = [in EXCEPT !.lastFieldId = id,
                            !.boolean = IF type = "BOOL"
                                        THEN <<IF nibble = False THEN 0 ELSE 1>> ELSE @]
        /\ todo' = InsideField(type) \o todo
        /\ UNCHANGED phase

(* readBool takes the value out of the header that was read, or a byte.    *)
ReadBool ==
    /\ phase = "reading" /\ Due("BOOL")
    /\ IF in.boolean # <<>>
       THEN /\ Reads(Call("BOOL", <<>>, in.boolean[1]), 0)
            /\ in' = [in EXCEPT !.boolean = <<>>]
       ELSE /\ wire # <<>>
            /\ Reads(Call("BOOL", <<>>, IF Head(wire) = CompactType["BOOL"] THEN 1 ELSE 0), 1)
            /\ UNCHANGED in
    /\ todo' = AfterValue
    /\ UNCHANGED phase

ReadByte ==
    /\ phase = "reading" /\ Due("BYTE")
    /\ wire # <<>>
    /\ Reads(Call("BYTE", <<>>, Signed(Head(wire), 8)), 1)
    /\ todo' = AfterValue
    /\ UNCHANGED <<in, phase>>

ReadI32 ==
    /\ phase = "reading" /\ Due("I32")
    /\ HasVarint(wire)
    /\ Reads(Call("I32", <<>>, UnZigZag(ReadVarint(wire))), VarintLength(wire))
    /\ todo' = AfterValue
    /\ UNCHANGED <<in, phase>>

ReadString ==
    /\ phase = "reading" /\ Due("STRING")
    /\ HasVarint(wire)
    /\ Len(wire) >= VarintLength(wire) + ReadVarint(wire)
    /\ Reads(Call("STRING", <<>>, ReadVarint(wire)), VarintLength(wire) + ReadVarint(wire))
    /\ todo' = AfterValue
    /\ UNCHANGED <<in, phase>>

ReadListBegin ==
    LET elem == TTypeOf(Head(wire) % 16)
        long == Head(wire) \div 16 = 15
        size == IF long THEN ReadVarint(Tail(wire)) ELSE Head(wire) \div 16
    IN  /\ phase = "reading"
        /\ Due("LIST")
        /\ wire # <<>> /\ IsCompactType(Head(wire) % 16)
        /\ long => HasVarint(Tail(wire))
        /\ Reads(Call("ListBegin", <<elem>>, size),
                 1 + (IF long THEN VarintLength(Tail(wire)) ELSE 0))
        /\ todo' = InsideContainer(ListOf(elem, size), FALSE) \o AfterValue
        /\ UNCHANGED <<in, phase>>

(* The types of an empty map are not on the wire.                          *)
ReadMapBegin ==
    LET size == ReadVarint(wire)
        types == IF size = 0 THEN 0 ELSE wire[VarintLength(wire) + 1]
        key == TTypeOf(types \div 16)
        val == TTypeOf(types % 16)
    IN  /\ phase = "reading"
        /\ Due("MAP")
        /\ HasVarint(wire)
        /\ IsCompactType(types \div 16) /\ IsCompactType(types % 16)
        /\ Reads(Call("MapBegin", <<key, val>>, size),
                 VarintLength(wire) + (IF size = 0 THEN 0 ELSE 1))
        /\ todo' = InsideContainer(MapOf(key, val, size), FALSE) \o AfterValue
        /\ UNCHANGED <<in, phase>>

(* readFieldBegin returns STOP, and readStructEnd follows.                 *)
ReadStructEnd ==
    /\ phase = "reading"
    /\ InStruct
    /\ wire # <<>> /\ Head(wire) = 0
    /\ Reads(Call("StructEnd", <<>>, 0), 1)
    /\ in' = [in EXCEPT !.lastFieldId = in.lastField[Len(in.lastField)],
                        !.lastField = SubSeq(@, 1, Len(@) - 1)]
    /\ todo' = Tail(todo)
    /\ phase' = IF todo' = <<>> THEN "done" ELSE "reading"

------------------------------------------------------------------------------
Write ==
    \/ \E header \in family.headers : WriteMessageBegin(header[1], header[2], header[3])
    \/ WriteStructBegin
    \/ \E id \in family.ids, type \in family.types :
         WriteFieldBegin(id, type)
    \/ \E val \in {0, 1} : WriteBool(val)
    \/ \E type \in Scalars \ {"BOOL"} : \E val \in family.values[type] : WriteScalar(type, val)
    \/ \E elem \in family.types, size \in family.sizes :
         WriteListBegin(elem, size)
    \/ \E key, val \in family.types, size \in family.sizes :
         WriteMapBegin(key, val, size)
    \/ WriteStructEnd

Read ==
    \/ ReadMessageBegin \/ ReadStructBegin \/ ReadFieldBegin \/ ReadBool \/ ReadByte
    \/ ReadI32 \/ ReadString \/ ReadListBegin \/ ReadMapBegin \/ ReadStructEnd

Finished == phase \in {"done", "refused"} /\ UNCHANGED vars

Next == Write \/ Read \/ Finished

Spec == Init /\ [][Next]_vars
------------------------------------------------------------------------------
TypeOK ==
    /\ wire \in Seq(0..255)
    /\ phase \in Phases
    /\ fields \in 0..family.fields
    /\ \A p \in {in, out} : p.lastFieldId \in -(2^15)..(2^15 - 1)

(* What a call that was written is read as: an empty map loses its types,  *)
(* which nothing asks for.  The type of a ONEWAY message is left out here. *)
ReadAs(call) ==
    CASE call.op = "MapBegin" /\ call.num = 0 -> [call EXCEPT !.types = <<"STOP", "STOP">>]
      [] call.op = "MessageBegin" /\ call.types[1] = ONEWAY -> [call EXCEPT !.types[1] = 0]
      [] OTHER -> call

(* The reader makes the calls of the writer and each returns what it was   *)
(* given: every id, whether it was sent as a difference or not, every      *)
(* boolean, whether in a header or not, every size and every value.  In    *)
(* the end all is read.                                                    *)
ReadsWhatWasWritten ==
    /\ Len(read) <= Len(written)
    /\ \A i \in DOMAIN read : read[i] = ReadAs(written[i])
    /\ phase = "done" => Len(read) = Len(written) /\ wire = <<>>

(* Outside of structs a protocol object is as new: the next message on it  *)
(* is written or read like the first.                                      *)
NothingRemembered ==
    /\ phase \in {"new", "sent", "refused", "done"} => out = NewProtocol
    /\ phase \in {"new", "sent", "refused", "done"} => in = NewProtocol

(* The multiplexing processor refuses no request: what comes is of type    *)
(* CALL or ONEWAY, whatever protocol brought it.                           *)
RequestsAreTaken == phase # "refused"
==============================================================================
