--------------------------- MODULE GeneratedCode ---------------------------
(***************************************************************************)
(* The generators of the compiler side by side: one operator for each      *)
(* thing that generated code does, which takes the target as its first     *)
(* argument (t_generator_registry finds a generator by its short name).    *)
(* Where a target does not appear, its code has no such function or no     *)
(* such check.                                                             *)
(***************************************************************************)
EXTENDS ThriftIdl

AllTargets ==
  {"cpp", "java", "py", "as3", "cocoa", "csharp", "go", "javame",
   "js", "lua", "perl", "php", "rb", "st"}

(* Targets whose code has such a function.  java-sync is the Java target    *)
(* with its blocking processor.                                            *)
ClientTargets ==
  {"cpp", "java", "py", "as3", "cocoa", "csharp", "go", "javame",
   "js", "lua", "perl", "php", "rb"}
ServerTargets ==
  {"cpp", "java", "py", "as3", "cocoa", "csharp", "go", "javame",
   "js", "lua", "perl", "php", "rb", "java-sync"}
EqualTargets ==
  {"cpp", "java", "py", "csharp", "javame"}
CopyTargets ==
  {"cpp", "java", "javame"}
ClearTargets ==
  {"java", "javame"}

Cpp == INSTANCE GenCpp
Java == INSTANCE GenJava
Py == INSTANCE GenPy
As3 == INSTANCE GenAs3
Cocoa == INSTANCE GenCocoa
CSharp == INSTANCE GenCSharp
Go == INSTANCE GenGo
Javame == INSTANCE GenJavame
Js == INSTANCE GenJs
Lua == INSTANCE GenLua
Perl == INSTANCE GenPerl
Php == INSTANCE GenPhp
Rb == INSTANCE GenRb
St == INSTANCE GenSt

(* Whether the generator has code for a struct of these fields.            *)
Generates(target, fields) ==
  CASE target = "as3" -> As3!Generates(fields)
    [] OTHER -> TRUE

(* The value that a literal of the IDL has in the generated code.          *)
RenderConst(target, type, literal) ==
  CASE target = "cpp" -> Cpp!RenderConst(type, literal)
    [] target = "java" -> Java!RenderConst(type, literal)
    [] target = "py" -> Py!RenderConst(type, literal)
    [] target = "as3" -> As3!RenderConst(type, literal)
    [] target = "cocoa" -> Cocoa!RenderConst(type, literal)
    [] target = "csharp" -> CSharp!RenderConst(type, literal)
    [] target = "go" -> Go!RenderConst(type, literal)
    [] target = "javame" -> Javame!RenderConst(type, literal)
    [] target = "js" -> Js!RenderConst(type, literal)
    [] target = "lua" -> Lua!RenderConst(type, literal)
    [] target = "perl" -> Perl!RenderConst(type, literal)
    [] target = "php" -> Php!RenderConst(type, literal)
    [] target = "rb" -> Rb!RenderConst(type, literal)
    [] target = "st" -> St!RenderConst(type, literal)

(* The state of a member of a new struct.                                  *)
NewMember(target, f) ==
  CASE target = "cpp" -> Cpp!NewMember(f)
    [] target = "java" -> Java!NewMember(f)
    [] target = "py" -> Py!NewMember(f)
    [] target = "as3" -> As3!NewMember(f)
    [] target = "cocoa" -> Cocoa!NewMember(f)
    [] target = "csharp" -> CSharp!NewMember(f)
    [] target = "go" -> Go!NewMember(f)
    [] target = "javame" -> Javame!NewMember(f)
    [] target = "js" -> Js!NewMember(f)
    [] target = "lua" -> Lua!NewMember(f)
    [] target = "perl" -> Perl!NewMember(f)
    [] target = "php" -> Php!NewMember(f)
    [] target = "rb" -> Rb!NewMember(f)
    [] target = "st" -> St!NewMember(f)
    [] target = "java-sync" -> Java!NewMember(f)

(* new <Struct>()                                                          *)
NewStruct(target, fields) ==
  CASE target = "cpp" -> Cpp!NewStruct(fields)
    [] target = "java" -> Java!NewStruct(fields)
    [] target = "py" -> Py!NewStruct(fields)
    [] target = "as3" -> As3!NewStruct(fields)
    [] target = "cocoa" -> Cocoa!NewStruct(fields)
    [] target = "csharp" -> CSharp!NewStruct(fields)
    [] target = "go" -> Go!NewStruct(fields)
    [] target = "javame" -> Javame!NewStruct(fields)
    [] target = "js" -> Js!NewStruct(fields)
    [] target = "lua" -> Lua!NewStruct(fields)
    [] target = "perl" -> Perl!NewStruct(fields)
    [] target = "php" -> Php!NewStruct(fields)
    [] target = "rb" -> Rb!NewStruct(fields)
    [] target = "st" -> St!NewStruct(fields)

(* The setter of one member.                                               *)
SetMember(target, f, member, val) ==
  CASE target = "cpp" -> Cpp!SetMember(f, member, val)
    [] target = "java" -> Java!SetMember(f, member, val)
    [] target = "py" -> Py!SetMember(f, member, val)
    [] target = "as3" -> As3!SetMember(f, member, val)
    [] target = "cocoa" -> Cocoa!SetMember(f, member, val)
    [] target = "csharp" -> CSharp!SetMember(f, member, val)
    [] target = "go" -> Go!SetMember(f, member, val)
    [] target = "javame" -> Javame!SetMember(f, member, val)
    [] target = "js" -> Js!SetMember(f, member, val)
    [] target = "lua" -> Lua!SetMember(f, member, val)
    [] target = "perl" -> Perl!SetMember(f, member, val)
    [] target = "php" -> Php!SetMember(f, member, val)
    [] target = "rb" -> Rb!SetMember(f, member, val)
    [] target = "st" -> St!SetMember(f, member, val)

(* Whether write() gets past its own checks.                               *)
WriteAccepts(target, fields, obj) ==
  CASE target = "java" -> Java!WriteAccepts(fields, obj)
    [] target = "as3" -> As3!WriteAccepts(fields, obj)
    [] target = "csharp" -> CSharp!WriteAccepts(fields, obj)
    [] target = "go" -> Go!WriteAccepts(fields, obj)
    [] target = "javame" -> Javame!WriteAccepts(fields, obj)
    [] target = "lua" -> Lua!WriteAccepts(fields, obj)
    [] target = "perl" -> Perl!WriteAccepts(fields, obj)
    [] target = "rb" -> Rb!WriteAccepts(fields, obj)
    [] target = "st" -> St!WriteAccepts(fields, obj)
    [] OTHER -> TRUE

(* The calls that write() makes.                                           *)
WriteStruct(target, fields, obj) ==
  CASE target = "cpp" -> Cpp!WriteStruct(fields, obj)
    [] target = "java" -> Java!WriteStruct(fields, obj)
    [] target = "py" -> Py!WriteStruct(fields, obj)
    [] target = "as3" -> As3!WriteStruct(fields, obj)
    [] target = "cocoa" -> Cocoa!WriteStruct(fields, obj)
    [] target = "csharp" -> CSharp!WriteStruct(fields, obj)
    [] target = "go" -> Go!WriteStruct(fields, obj)
    [] target = "javame" -> Javame!WriteStruct(fields, obj)
    [] target = "js" -> Js!WriteStruct(fields, obj)
    [] target = "lua" -> Lua!WriteStruct(fields, obj)
    [] target = "perl" -> Perl!WriteStruct(fields, obj)
    [] target = "php" -> Php!WriteStruct(fields, obj)
    [] target = "rb" -> Rb!WriteStruct(fields, obj)
    [] target = "st" -> St!WriteStruct(fields, obj)

(* One round of the loop of read().                                        *)
ReadField(target, fields, obj, wire) ==
  CASE target = "cpp" -> Cpp!ReadField(fields, obj, wire)
    [] target = "java" -> Java!ReadField(fields, obj, wire)
    [] target = "py" -> Py!ReadField(fields, obj, wire)
    [] target = "as3" -> As3!ReadField(fields, obj, wire)
    [] target = "cocoa" -> Cocoa!ReadField(fields, obj, wire)
    [] target = "csharp" -> CSharp!ReadField(fields, obj, wire)
    [] target = "go" -> Go!ReadField(fields, obj, wire)
    [] target = "javame" -> Javame!ReadField(fields, obj, wire)
    [] target = "js" -> Js!ReadField(fields, obj, wire)
    [] target = "lua" -> Lua!ReadField(fields, obj, wire)
    [] target = "perl" -> Perl!ReadField(fields, obj, wire)
    [] target = "php" -> Php!ReadField(fields, obj, wire)
    [] target = "rb" -> Rb!ReadField(fields, obj, wire)
    [] target = "st" -> St!ReadField(fields, obj, wire)

(* Whether read() accepts what it has read.                                *)
ReadAccepts(target, fields, obj) ==
  CASE target = "cpp" -> Cpp!ReadAccepts(fields, obj)
    [] target = "java" -> Java!ReadAccepts(fields, obj)
    [] target = "as3" -> As3!ReadAccepts(fields, obj)
    [] target = "csharp" -> CSharp!ReadAccepts(fields, obj)
    [] target = "javame" -> Javame!ReadAccepts(fields, obj)
    [] target = "rb" -> Rb!ReadAccepts(fields, obj)
    [] OTHER -> TRUE

(* Equality of two structs of one type.                                    *)
Equal(target, fields, a, b) ==
  CASE target = "cpp" -> Cpp!Equal(fields, a, b)
    [] target = "java" -> Java!Equal(fields, a, b)
    [] target = "py" -> Py!Equal(fields, a, b)
    [] target = "csharp" -> CSharp!Equal(fields, a, b)
    [] target = "javame" -> Javame!Equal(fields, a, b)

(* A copy of a struct.                                                     *)
Copy(target, fields, obj) ==
  CASE target = "cpp" -> Cpp!Copy(fields, obj)
    [] target = "java" -> Java!Copy(fields, obj)
    [] target = "javame" -> Javame!Copy(fields, obj)

(* A struct brought back to its initial state.                             *)
Clear(target, fields, obj) ==
  CASE target = "java" -> Java!Clear(fields, obj)
    [] target = "javame" -> Javame!Clear(fields, obj)

(* The fields of the result struct of a function.                          *)
ResultFields(target, fn) ==
  CASE target = "cpp" -> Cpp!ResultFields(fn)
    [] target = "java" -> Java!ResultFields(fn)
    [] target = "py" -> Py!ResultFields(fn)
    [] target = "as3" -> As3!ResultFields(fn)
    [] target = "cocoa" -> Cocoa!ResultFields(fn)
    [] target = "csharp" -> CSharp!ResultFields(fn)
    [] target = "go" -> Go!ResultFields(fn)
    [] target = "javame" -> Javame!ResultFields(fn)
    [] target = "js" -> Js!ResultFields(fn)
    [] target = "lua" -> Lua!ResultFields(fn)
    [] target = "perl" -> Perl!ResultFields(fn)
    [] target = "php" -> Php!ResultFields(fn)
    [] target = "rb" -> Rb!ResultFields(fn)

(* send_<function>.                                                        *)
SendCall(target, fn, seqid) ==
  CASE target = "cpp" -> Cpp!SendCall(fn, seqid)
    [] target = "java" -> Java!SendCall(fn, seqid)
    [] target = "py" -> Py!SendCall(fn, seqid)
    [] target = "as3" -> As3!SendCall(fn, seqid)
    [] target = "cocoa" -> Cocoa!SendCall(fn, seqid)
    [] target = "csharp" -> CSharp!SendCall(fn, seqid)
    [] target = "go" -> Go!SendCall(fn, seqid)
    [] target = "javame" -> Javame!SendCall(fn, seqid)
    [] target = "js" -> Js!SendCall(fn, seqid)
    [] target = "lua" -> Lua!SendCall(fn, seqid)
    [] target = "perl" -> Perl!SendCall(fn, seqid)
    [] target = "php" -> Php!SendCall(fn, seqid)
    [] target = "rb" -> Rb!SendCall(fn, seqid)

(* recv_<function>.                                                        *)
RecvReply(target, fn, seqid, wire) ==
  CASE target = "cpp" -> Cpp!RecvReply(fn, seqid, wire)
    [] target = "java" -> Java!RecvReply(fn, seqid, wire)
    [] target = "py" -> Py!RecvReply(fn, seqid, wire)
    [] target = "as3" -> As3!RecvReply(fn, seqid, wire)
    [] target = "cocoa" -> Cocoa!RecvReply(fn, seqid, wire)
    [] target = "csharp" -> CSharp!RecvReply(fn, seqid, wire)
    [] target = "go" -> Go!RecvReply(fn, seqid, wire)
    [] target = "javame" -> Javame!RecvReply(fn, seqid, wire)
    [] target = "js" -> Js!RecvReply(fn, seqid, wire)
    [] target = "lua" -> Lua!RecvReply(fn, seqid, wire)
    [] target = "perl" -> Perl!RecvReply(fn, seqid, wire)
    [] target = "php" -> Php!RecvReply(fn, seqid, wire)
    [] target = "rb" -> Rb!RecvReply(fn, seqid, wire)

(* Whether process_<function> comes to calling the handler.                *)
CallsHandler(target, fn) ==
  CASE target = "as3" -> As3!CallsHandler(fn)
    [] target = "lua" -> Lua!CallsHandler(fn)
    [] OTHER -> TRUE

(* process_<function>, whose handler ends with end.                        *)
ProcessFunction(target, fn, seqid, end) ==
  CASE target = "cpp" -> Cpp!ProcessFunction(fn, seqid, end)
    [] target = "java" -> Java!ProcessFunction(fn, seqid, end)
    [] target = "py" -> Py!ProcessFunction(fn, seqid, end)
    [] target = "as3" -> As3!ProcessFunction(fn, seqid, end)
    [] target = "cocoa" -> Cocoa!ProcessFunction(fn, seqid, end)
    [] target = "csharp" -> CSharp!ProcessFunction(fn, seqid, end)
    [] target = "go" -> Go!ProcessFunction(fn, seqid, end)
    [] target = "javame" -> Javame!ProcessFunction(fn, seqid, end)
    [] target = "js" -> Js!ProcessFunction(fn, seqid, end)
    [] target = "lua" -> Lua!ProcessFunction(fn, seqid, end)
    [] target = "perl" -> Perl!ProcessFunction(fn, seqid, end)
    [] target = "php" -> Php!ProcessFunction(fn, seqid, end)
    [] target = "rb" -> Rb!ProcessFunction(fn, seqid, end)
    [] target = "java-sync" -> Java!ProcessFunctionSync(fn, seqid, end)

(* process() of a function that the service does not have.                 *)
UnknownMethod(target, name, seqid) ==
  CASE target = "cpp" -> Cpp!UnknownMethod(name, seqid)
    [] target = "java" -> Java!UnknownMethod(name, seqid)
    [] target = "py" -> Py!UnknownMethod(name, seqid)
    [] target = "as3" -> As3!UnknownMethod(name, seqid)
    [] target = "cocoa" -> Cocoa!UnknownMethod(name, seqid)
    [] target = "csharp" -> CSharp!UnknownMethod(name, seqid)
    [] target = "go" -> Go!UnknownMethod(name, seqid)
    [] target = "javame" -> Javame!UnknownMethod(name, seqid)
    [] target = "js" -> Js!UnknownMethod(name, seqid)
    [] target = "lua" -> Lua!UnknownMethod(name, seqid)
    [] target = "perl" -> Perl!UnknownMethod(name, seqid)
    [] target = "php" -> Php!UnknownMethod(name, seqid)
    [] target = "rb" -> Rb!UnknownMethod(name, seqid)
    [] target = "java-sync" -> Java!UnknownMethod(name, seqid)
=============================================================================
