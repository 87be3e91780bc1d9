-------------------------- MODULE GeneratedStructs --------------------------
(***************************************************************************)
(* A struct travels between programs generated for different targets: it   *)
(* is created and set in one, written, read field by field in another that *)
(* may know an older or a newer IDL, and passed on from there.             *)
(*                                                                         *)
(* The struct has two fields.  The probe takes every type, requiredness    *)
(* and default of interest, and an id that is given or one that the parser *)
(* gives (a negative one).  The sentinel, which is declared behind the     *)
(* probe, shows whether what happens to the probe disturbs the rest of the *)
(* struct.                                                                 *)
(*                                                                         *)
(* Where the code of a target departs from the properties below, a set     *)
(* names the targets and the properties leave out what it names.           *)
(***************************************************************************)
EXTENDS GeneratedCode, FiniteSets

CONSTANTS
  Targets,      \* the targets programs are generated for
  ProbeTypes,   \* the types of the probe
  MaxHops       \* how often a struct is written

ASSUME TargetsAssumption == Targets \subseteq AllTargets
ASSUME HopsAssumption == MaxHops \in Nat \ {0}

VARIABLES
  phase,     \* what the current program does with the struct
  target,    \* the target of the current program
  fields,    \* the fields that the current program's IDL declares
  obj,       \* the struct in the memory of the current program
  wire,      \* what is still to be read
  aligned,   \* every read call so far met the write call made for it
  hops,      \* how often the struct has been written
  sent       \* history: what the first program sent

vars == <<phase, target, fields, obj, wire, aligned, hops, sent>>

SentinelId == 1
Sentinel == Field(SentinelId, Base("i32"), "default", NULL)
KnowsProbe == \E i \in 1..Len(fields) : fields[i].id # SentinelId
Probe == fields[CHOOSE i \in 1..Len(fields) : fields[i].id # SentinelId]
SameType == KnowsProbe /\ Probe.type = sent.type
Nobody == "nobody"

(* What the code of these targets does otherwise.                          *)
FalseIsUnset == {"lua"}         \* if self.<field> then
WritesNoContainer == {"lua"}    \* string.len of a table
NoI64Constants == {"lua"}       \* the string of an integer literal
IgnoresDefaults == {"lua", "st"}
GarblesDefaults == {"as3"}      \* get_integer() of any literal
DefaultsAreUnset == {"javame"}  \* validate() asks the flag of a primitive
AlwaysWrites == {"as3"}         \* primitives, optional or not
ReadsSetsAsHashes == {"perl"}   \* and writes them from arrays
OwnBinaryType == {"go"}         \* thrift.BINARY, which no reader can skip
NegatesIds == {"go"}            \* field_id *= -1 of a negative id
TrustsTypes == {"st", "go"}     \* the type byte of a field is not compared
TypedefsHideBools == {"rb"}     \* validate() takes false for missing
ChecksEnums == {"rb", "as3"}    \* a declared enum has no unknown value
NoNullInTables == {"javame"}    \* Hashtable.put of an unknown enumerator
ComparesArrays == {"csharp", "javame"}  \* Equals() of arrays, by reference

Kind(type) == TrueType(type).kind
HoldsBinary(type) ==
  Kind(type) = "binary" \/ \E i \in 1..Len(type.of) : Kind(type.of[i]) = "binary"

DefaultsOf(type) ==
  CASE Kind(type) = "bool" -> {NULL, Zero, One, <<"negative">>}
    [] Kind(type) \in {"i32", "string"} -> {NULL, One}
    [] OTHER -> {NULL}
ProbeFields ==
  UNION {{Field(2, type, req, default) :
            req \in {"required", "optional", "default"},
            default \in DefaultsOf(type)} : type \in ProbeTypes}
    \cup {Field(-2, type, "default", NULL) : type \in ProbeTypes \cap {Base("i32")}}

(* Values the first program may set: it knows one enumerator more than the *)
(* programs that read.                                                     *)
ValuesOf(type) ==
  CASE Kind(type) \in BaseKinds -> {Zero, One}
    [] Kind(type) = "enum" -> {Zero, One, Unknown}
    [] Kind(type) \in Structs -> {One}
    [] OTHER -> {<<>>} \cup
         {[i \in 1..Len(type.of) |-> v[1]] :
            v \in IF \A i \in 1..Len(type.of) : type.of[i].kind = "enum"
                    THEN {One, Unknown} ELSE {Zero, One}}

Init ==
  \E t \in Targets, probe \in ProbeFields :
    /\ Generates(t, <<probe, Sentinel>>)
    /\ phase = "created"
    /\ target = t
    /\ fields = <<probe, Sentinel>>
    /\ obj = NewStruct(t, <<probe, Sentinel>>)
    /\ wire = <<>>
    /\ aligned = TRUE
    /\ hops = 0
    /\ sent = [set |-> FALSE, val |-> NULL, type |-> probe.type, onWire |-> FALSE,
               plain |-> TRUE, by |-> t, obj |-> <<>>]

Set(val, meant, plain) ==
  /\ obj' = [obj EXCEPT ![Probe.id] = SetMember(target, Probe, @, val)]
  /\ sent' = [sent EXCEPT !.set = TRUE, !.val = meant, !.plain = plain]
  /\ phase' = "set"
  /\ UNCHANGED <<target, fields, wire, aligned, hops>>

(* The program sets the probe, which it may leave alone too, to a value or *)
(* to a constant that the IDL declares.                                    *)
SetProbe ==
  /\ phase = "created"
  /\ \E val \in ValuesOf(Probe.type) : Set(val, val, TRUE)

SetToConstant ==
  /\ phase = "created"
  /\ Kind(Probe.type) \in BaseKinds \ {"binary"}
  /\ \E literal \in {Zero, One} :
       Set(RenderConst(target, Probe.type, literal),
           PositiveIsTrue(Probe.type, literal),
           Kind(Probe.type) = "i64" => target \notin NoI64Constants)

(* The program goes on with a copy of the struct.                          *)
UseCopy ==
  /\ phase = "set"
  /\ target \in CopyTargets
  /\ obj' = Copy(target, fields, obj)
  /\ phase' = "copied"
  /\ UNCHANGED <<target, fields, wire, aligned, hops, sent>>

(* The struct is brought back to its initial state.                        *)
ClearStruct ==
  /\ phase = "set"
  /\ target \in ClearTargets
  /\ obj' = Clear(target, fields, obj)
  /\ phase' = "cleared"
  /\ UNCHANGED <<target, fields, wire, aligned, hops, sent>>

(* A program of target t departs from the properties when it writes val    *)
(* into f.                                                                 *)
Departs(t, f, val) ==
  \/ t \in FalseIsUnset /\ Kind(f.type) = "bool" /\ val = Zero
  \/ t \in OwnBinaryType /\ HoldsBinary(f.type)
  \/ t \in NegatesIds /\ f.id < 0
  \/ t \in GarblesDefaults /\ f.default # NULL

OnWire(calls) ==
  \E i \in 1..Len(calls) :
    calls[i].op = "FieldBegin" /\ calls[i].num # SentinelId

(* The first program sets the sentinel and writes the struct; one that     *)
(* received it and knows the probe under its type writes it as it is.      *)
Write ==
  LET complete == IF hops = 0
                    THEN [obj EXCEPT ![SentinelId] =
                            SetMember(target, Sentinel, @, One)]
                    ELSE obj
      calls == WriteStruct(target, fields, complete)
      written == WriteAccepts(target, fields, complete)
  IN  /\ phase \in {"created", "set", "copied", "accepted"}
      /\ hops < MaxHops
      /\ SameType
      /\ hops' = hops + 1
      /\ phase' = IF written THEN "sent" ELSE "unwritable"
      /\ wire' = IF written THEN calls ELSE <<>>
      /\ sent' = [sent EXCEPT
                    !.onWire = IF written THEN OnWire(calls) ELSE @,
                    !.plain = @ /\ ~Departs(target, Probe, complete[Probe.id].val),
                    !.obj = complete]
      /\ obj' = <<>>
      /\ UNCHANGED <<target, fields, aligned>>

(* The IDL of a program that reads what was written under fields.          *)
Evolved ==
  LET Retyped(type) == [Probe EXCEPT !.type = type, !.default = NULL]
  IN  {fields, <<Sentinel>>, <<Sentinel, Probe>>,
       <<[Probe EXCEPT !.req = "required"], Sentinel>>,
       <<Retyped(IF Kind(Probe.type) = "i16" THEN Base("string") ELSE Base("i16")),
         Sentinel>>}

(* Another program starts to read.  Who wrote is forgotten, except by a    *)
(* program of the same target and IDL.                                     *)
StartReading ==
  /\ phase = "sent"
  /\ \E t \in Targets, known \in Evolved :
       /\ Generates(t, known)
       /\ target' = t
       /\ fields' = known
       /\ obj' = NewStruct(t, known)
       /\ sent' = IF t = sent.by /\ known = fields THEN sent
                  ELSE [sent EXCEPT !.by = Nobody, !.obj = <<>>]
  /\ aligned' = (aligned /\ Head(wire).op = "StructBegin")
  /\ wire' = Tail(wire)
  /\ phase' = "reading"
  /\ UNCHANGED hops

ReadNext ==
  /\ phase = "reading"
  /\ aligned
  /\ Head(wire).op = "FieldBegin"
  /\ LET r == ReadField(target, fields, obj, wire)
     IN  /\ obj' = r.obj
         /\ wire' = r.wire
         /\ aligned' = r.ok
  /\ UNCHANGED <<phase, target, fields, hops, sent>>

ReadStop ==
  /\ phase = "reading"
  /\ aligned
  /\ Head(wire).op # "FieldBegin"
  /\ aligned' = (wire = <<Mark("FieldStop"), Mark("StructEnd")>>)
  /\ phase' = IF ReadAccepts(target, fields, obj) THEN "accepted" ELSE "rejected"
  /\ wire' = <<>>
  /\ UNCHANGED <<target, fields, obj, hops, sent>>

Next ==
  \/ SetProbe \/ SetToConstant \/ UseCopy \/ ClearStruct \/ Write
  \/ StartReading \/ ReadNext \/ ReadStop

Spec == Init /\ [][Next]_vars
-----------------------------------------------------------------------------
Accepted == phase = "accepted"
KnownValue == \A i \in 1..Len(sent.val) : sent.val[i] # "unknown"

TypeOK ==
  /\ phase \in {"created", "set", "copied", "cleared", "sent", "unwritable",
                "reading", "accepted", "rejected"}
  /\ target \in Targets
  /\ Len(fields) \in 1..2
  /\ aligned \in BOOLEAN
  /\ hops \in 0..MaxHops
  /\ sent.set \in BOOLEAN /\ sent.onWire \in BOOLEAN /\ sent.plain \in BOOLEAN
  /\ phase \in {"created", "set", "copied", "cleared", "reading", "accepted",
                "rejected"}
       => /\ DOMAIN obj = {fields[i].id : i \in 1..Len(fields)}
          /\ \A id \in DOMAIN obj : obj[id].isset \in BOOLEAN

(* Whatever target wrote a struct and whatever target reads it under       *)
(* whatever version of the IDL, every read call meets the write call it is *)
(* made for and the reader ends where the writer ended: the generators     *)
(* agree on type bytes, calls, the sizes and ends of containers and on     *)
(* what a typedef stands for.                                              *)
Aligned ==
  \/ aligned
  \/ ~sent.plain
  \/ target \in TrustsTypes /\ ~SameType

(* A probe that was set arrives with its value in a program that knows it  *)
(* under its type, through any number of programs, even if a writer left   *)
(* it out because it has its default value.                                *)
ProbeArrives ==
  /\ Accepted /\ SameType
  /\ sent.set /\ KnownValue /\ sent.plain
  /\ Probe.id < 0 => target \notin NegatesIds
  /\ ~sent.onWire => target \notin IgnoresDefaults \cup GarblesDefaults
  => obj[Probe.id].val = sent.val

(* The sentinel arrives whether the probe is unknown to the reader, has    *)
(* another type there, is missing or holds an unknown enumerator.          *)
SentinelArrives == Accepted => obj[SentinelId].val = One

FalseIsMissing ==
  /\ target \in TypedefsHideBools
  /\ Probe.req = "required" /\ Kind(Probe.type) = "bool" /\ Probe.type.alias

(* The writer of a struct that cannot be written has no value for a field  *)
(* that is not optional, or one that no enumerator stands for.             *)
UnwritableForCause ==
  phase = "unwritable" =>
    \/ FalseIsMissing
    \/ /\ Probe.req # "optional"
       /\ IF hops = 1 THEN ~sent.set ELSE ~sent.onWire \/ ~sent.plain
       /\ \/ Probe.default = NULL
          \/ target \in IgnoresDefaults \cup DefaultsAreUnset
    \/ ~KnownValue
    \/ target \in WritesNoContainer /\ Kind(Probe.type) \in ContainerKinds
    \/ target \in ReadsSetsAsHashes /\ Kind(Probe.type) = "set" /\ hops > 1

(* A reader that refuses a struct misses a required field, or meets an     *)
(* enumerator that it does not know.                                       *)
RejectedForCause ==
  phase = "rejected" =>
    /\ KnowsProbe
    /\ \/ FalseIsMissing
       \/ /\ Probe.req = "required"
          /\ ~sent.onWire \/ ~SameType \/ ~sent.plain
       \/ /\ ~KnownValue
          /\ Probe.req = "required" \/ target \in ChecksEnums \cup NoNullInTables

(* A struct without the probe is read as one whose probe is at its         *)
(* declared default, or at none; an optional probe without default is not  *)
(* written by the program that received none.                              *)
NothingInvented ==
  Accepted /\ KnowsProbe /\ ~sent.onWire =>
    /\ target \notin GarblesDefaults =>
         obj[Probe.id].val \in
           IF Probe.default = NULL \/ target \in IgnoresDefaults
             THEN {NULL, ZeroValue(Probe.type)}
             ELSE {PositiveIsTrue(Probe.type, Probe.default)}
    /\ target \notin AlwaysWrites /\ Probe.req = "optional" /\ Probe.default = NULL
         => ~OnWire(WriteStruct(target, fields, obj))

(* A program that reads what a program of its own target and IDL wrote     *)
(* finds the struct equal to the one that was written.                     *)
ReceivedEqualsSent ==
  /\ Accepted /\ KnownValue /\ hops = 1 /\ sent.by = target
  /\ target \in EqualTargets
  /\ target \in ComparesArrays => /\ ~HoldsBinary(Probe.type)
                                  /\ Kind(Probe.type) \notin ContainerKinds
  => Equal(target, fields, obj, sent.obj)

(* "Return to the state of having just been initialized, as though you had *)
(* just called the default constructor." (TBase.clear() of the library.)   *)
ClearedIsNew == phase = "cleared" => obj = NewStruct(target, fields)
=============================================================================
