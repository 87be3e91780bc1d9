------------------------------ MODULE IdlParser ------------------------------
(***************************************************************************)
(* The front end of the compiler: parse() of main.cc reads every file      *)
(* twice, first for its includes, which it then parses, and then for its   *)
(* definitions; the actions of the grammar, thrifty.yy, work on global     *)
(* variables that say which program, which scope and which parent's scope  *)
(* they are for.                                                           *)
(*                                                                         *)
(* A name is the sequence of its parts: T is <<"T">>, a.E.V is             *)
(* <<"a", "E", "V">>.  A path is the sequence of its directories and the   *)
(* name of the file.  A t_program is known by its place in the tree of     *)
(* includes: <<>> is the root, n \o <<i>> the i-th include of n.  The only *)
(* base type is i32, containers and values other than integers are left    *)
(* out, and a service has one function.  The fields of an xsd_attrs list   *)
(* have the type i32, no default and no xsd_attrs of their own; they are   *)
(* read for their ids and names, and nothing is kept of them.              *)
(***************************************************************************)
EXTENDS Integers, Sequences, FiniteSets

CONSTANTS
  Inputs,     \* what the compiler may be started with
  KeyRange,   \* a field key is an int32_t, from -KeyRange to KeyRange - 1
  MaxDepth    \* the calls of parse() that the stack has room for

VARIABLES
  input,      \* the files and the command line
  status,     \* parsing, generating, exited (0), failed (1) or what went wrong
  globals,    \* g_parse_mode, g_curdir, g_program, g_parent_scope, g_parent_prefix
  stack,      \* the calls of parse(): a program, its parent, the includes parsed
  cursor,     \* where yyparse() is in the file
  fieldVal,   \* y_field_val, the next automatic key
  members,    \* members_in_id_order_ of the t_struct under construction
  lists,      \* the complete field lists of the definition that is read
  nodes,      \* the t_programs: path, includes and namespace
  scopes,     \* their t_scopes: types, constants and services
  decls       \* the definitions added to them

readerVars == <<cursor, fieldVal, members, lists>>
treeVars == <<nodes, scopes, decls>>
parserVars == <<input, status, globals, stack, readerVars, treeVars>>

Root == <<>>
NoNode == <<0>>
Last1(seq) == seq[Len(seq)]
Directory(path) == SubSeq(path, 1, Len(path) - 1)
Bind(f, new, val) ==
  [x \in DOMAIN f \cup new |-> IF x \in new THEN val[x] ELSE f[x]]

(* An input: the files under their paths, the path of the main one and the *)
(* options -I, --allow-neg-keys, -strict, -r and --gen.  A file has the    *)
(* sites of its includes, a namespace ("" when it has none) and            *)
(* definitions.  A definition that is no service has at most one list of   *)
(* fields; that of a service are the arguments and the exceptions of its   *)
(* function.  A field has no xsd_attrs, <<>>, or a list of them, <<list>>. *)
SourceField(given, id, name, type, req, default, attrs) ==
  [given |-> given, id |-> id, name |-> name, type |-> type, req |-> req,
   default |-> default, attrs |-> attrs]

ASSUME InputsAssumption ==
  \A in \in Inputs :
    /\ in.root \in DOMAIN in.files
    /\ Len(in.targets) \in Nat
    /\ \A path \in DOMAIN in.files :
         LET defs == in.files[path].defs
         IN  /\ Len(defs) \in Nat
             /\ \A d \in 1..Len(defs) :
                  /\ Len(defs[d].lists) \in Nat
                  /\ \A l \in 1..Len(defs[d].lists) :
                       /\ Len(defs[d].lists[l]) \in Nat
                       /\ \A f \in 1..Len(defs[d].lists[l]) :
                            LET field == defs[d].lists[l][f]
                            IN  /\ field.id \in Int
                                /\ Len(field.attrs) \in {0, 1}
                                /\ \A n \in 1..Len(field.attrs) : Len(field.attrs[n]) \in Nat
ASSUME BoundsAssumption == KeyRange \in Nat \ {0} /\ MaxDepth \in Nat \ {0}

Int32 == -KeyRange..KeyRange - 1
ToInt32(v) == ((v + KeyRange) % (2 * KeyRange)) - KeyRange

(* A t_type*: a base type, a definition, or the typedef that stands for a  *)
(* name that was not declared when it was met; NoType is NULL.             *)
Type(kind, node, name) == [kind |-> kind, node |-> node, name |-> name]
NoType == Type("null", NoNode, <<>>)
I32 == Type("base", NoNode, <<"i32">>)

(* A t_const_value: an integer, or an identifier with the enum that was    *)
(* set; enum_ is not initialized.                                          *)
Number(n) == [kind |-> "int", num |-> n, name |-> <<>>, enum |-> NoType]
Identifier(name, enum) ==
  [kind |-> "id", num |-> 0, name |-> name, enum |-> enum]
NoValue == [Number(0) EXCEPT !.kind = "none"]
BadValue == [NoValue EXCEPT !.kind = "bad"]
Garbage == [NoValue EXCEPT !.kind = "garbage"]
Endless == [NoValue EXCEPT !.kind = "endless"]

(* In the file a constant has a type, and a number or a name for a value.  *)
ASSUME ConstantsAssumption ==
  \A in \in Inputs : \A path \in DOMAIN in.files :
    LET defs == in.files[path].defs
    IN  \A d \in 1..Len(defs) :
          /\ Len(defs[d].values) \in Nat
          /\ defs[d].kind = "const" =>
               /\ defs[d].type # <<>>
               /\ \/ defs[d].value = Number(defs[d].value.num)
                  \/ defs[d].value = Identifier(defs[d].value.name, NoType)

Failures(value) ==
  IF value.kind = "bad" THEN {"failed"}
  ELSE IF value.kind = "garbage" THEN {"failed", "crashed"}
  ELSE IF value.kind = "endless" THEN {"hung"} ELSE {}

Mode == globals.mode
Program == globals.program
File == input.files[nodes[Program].path]
Def == File.defs[cursor.def]
Scope == scopes[Program]
ProgramName(node) == Last1(nodes[node].path)

(* The includes of a program are the places of those that were found.      *)
Child(node, i) == node \o <<i>>
IncludesOf(node) == {Child(node, i) : i \in nodes[node].includes}
Node(path, includes, namespace) ==
  [path |-> path, includes |-> includes, namespace |-> namespace]
NewNode(path) == Node(path, {}, "")
EmptyMap == [x \in {} |-> x]
NewScope == [types |-> EmptyMap, consts |-> EmptyMap, services |-> EmptyMap]
At(stage, def, list, field) ==
  [stage |-> stage, def |-> def, list |-> list, field |-> field]
AtHeaders == At("headers", 1, 1, 1)
Frame(node, parent, child) == [node |-> node, parent |-> parent, child |-> child]
Globals(mode, curdir, program, parent, prefix) ==
  [mode |-> mode, curdir |-> curdir, program |-> program, parent |-> parent,
   prefix |-> prefix]

ParserInit ==
  /\ input \in Inputs
  /\ status = "parsing"
  /\ globals = Globals("INCLUDES", Directory(input.root), Root, NoNode, "")
  /\ stack = <<Frame(Root, NoNode, 0)>>
  /\ cursor = AtHeaders
  /\ fieldVal = -1
  /\ members = <<>>
  /\ lists = <<>>
  /\ nodes = [n \in {Root} |-> NewNode(input.root)]
  /\ scopes = [n \in {Root} |-> NewScope]
  /\ decls = {}

Stop(how) ==
  /\ status' = how
  /\ UNCHANGED <<input, globals, stack, readerVars, treeVars>>
-----------------------------------------------------------------------------
(* Types.  get_true_type() follows typedefs; one that was never declared   *)
(* ends the compiler, a circle of them never ends.                         *)
DeclOf(type) ==
  CHOOSE d \in decls : d.kind # "const" /\ d.node = type.node /\ <<d.name>> = type.name
IsA(type, kind) == type.kind = "defined" /\ DeclOf(type).kind = kind
IsTypedef(type) == type.kind = "forward" \/ IsA(type, "typedef")

TypedefTarget(type) ==
  IF ~IsTypedef(type) THEN type
  ELSE IF type.kind = "forward"
    THEN IF type.name \in DOMAIN scopes[type.node].types
           THEN scopes[type.node].types[type.name] ELSE NoType
    ELSE DeclOf(type).type

TrueType(type) ==
  LET hops == 2 * Cardinality(decls) + 2
      after[i \in 0..hops] ==
        IF i = 0 THEN {type} ELSE {TypedefTarget(t) : t \in after[i - 1]}
  IN  CHOOSE t \in after[hops] : TRUE

FieldType(name) ==
  CASE name = <<"i32">> -> I32
    [] name # <<"i32">> /\ Mode = "INCLUDES" -> NoType
    [] OTHER -> IF name \in DOMAIN Scope.types THEN Scope.types[name]
                ELSE Type("forward", Program, name)
-----------------------------------------------------------------------------
(* Values.                                                                 *)
ByName(enum, name) ==
  LET values == DeclOf(enum).values
      same == {i \in 1..Len(values) : values[i].name = name}
  IN  values[CHOOSE i \in same : \A j \in same : i <= j]
HasValue(enum, name) ==
  \E i \in 1..Len(DeclOf(enum).values) : DeclOf(enum).values[i].name = name

(* Mutant of GetInteger: every identifier is 0.                            *)
GetInteger_Zero(value) == IF value.kind = "int" THEN value ELSE Number(0)

GetInteger(value) ==
  CASE value.kind = "int" -> value
    [] value.kind = "id" /\ value.enum # NoType ->
         Number(ByName(value.enum, Last1(value.name)).num)
    [] OTHER -> Garbage

ResolveIdentifier(value, type) ==
  IF IsA(type, "enum") THEN Identifier(value.name, type)
  ELSE IF value.name \notin DOMAIN Scope.consts THEN BadValue
  ELSE LET constant == Scope.consts[value.name]
           true == TrueType(constant.type)
       IN  CASE true = I32 -> GetInteger(constant.value)
             [] true = NoType -> BadValue
             [] IsTypedef(true) -> Endless
             [] OTHER -> value

ResolveInteger(value, type) ==
  IF ~IsA(type, "enum") THEN value
  ELSE LET enum == DeclOf(type)
           same == {i \in 1..Len(enum.values) : enum.values[i].num = value.num}
           first == CHOOSE i \in same : \A j \in same : i <= j
       IN  IF same = {} THEN BadValue
           ELSE Identifier(<<enum.name, enum.values[first].name>>, type)

(* validate_const_rec: a value whose type is a typedef is not looked at.   *)
Validated(value, type) ==
  CASE type = I32 -> value.kind = "int"
    [] IsA(type, "enum") -> /\ value.kind = "id"
                            /\ Len(value.name) > 1
                            /\ HasValue(type, Last1(value.name))
    [] OTHER -> IsTypedef(type)

(* resolve_const_value and the validation behind it.                       *)
ConstValue(value, type) ==
  LET resolved == IF value.kind = "id" THEN ResolveIdentifier(value, type)
                  ELSE ResolveInteger(value, type)
  IN  CASE value.kind = "none" \/ Mode = "INCLUDES" -> NoValue
        [] value.kind # "none" /\ Mode = "PROGRAM" ->
             IF Failures(resolved) # {} \/ Validated(resolved, type)
               THEN resolved ELSE BadValue
-----------------------------------------------------------------------------
(* Headers.  An include is searched in the directory of the file and then  *)
(* in the search path; one that is not found is left out with a warning.   *)
IncludeFile(in, dir, site) ==
  LET dirs == <<dir>> \o in.searchPath
  IN  {path \in DOMAIN in.files :
         \E i \in 1..Len(dirs) :
           /\ path = dirs[i] \o site
           /\ \A j \in 1..i - 1 : dirs[j] \o site \notin DOMAIN in.files}

(* Every new t_program has a scope of its own.  Mutant: it has none.       *)
WithScopes_None(new) == scopes
WithScopes(new) == Bind(scopes, new, [n \in new |-> NewScope])

ReadHeaders ==
  LET paths(i) == IncludeFile(input, globals.curdir, File.includes[i])
      found == {i \in 1..Len(File.includes) : paths(i) # {}}
      new == {Child(Program, i) : i \in found}
      path(n) == CHOOSE p \in paths(CHOOSE i \in found : n = Child(Program, i)) : TRUE
  IN  /\ status = "parsing"
      /\ cursor.stage = "headers"
      /\ \/ /\ Mode = "INCLUDES"
            /\ nodes' = Bind([nodes EXCEPT ![Program] = Node(@.path, found, @.namespace)],
                             new,
                             [n \in new |-> NewNode(path(n))])
            /\ scopes' = WithScopes(new)
         \/ /\ Mode = "PROGRAM"
            /\ nodes' = [nodes EXCEPT ![Program] =
                           Node(@.path, @.includes, File.namespace)]
            /\ UNCHANGED scopes
      /\ cursor' = [cursor EXCEPT !.stage = "definition"]
      /\ UNCHANGED <<input, status, globals, stack, fieldVal, members, lists, decls>>
-----------------------------------------------------------------------------
(* Lists of fields.                                                        *)
Fields == Def.lists[cursor.list]

(* Mutant of OpenList: y_field_val goes on from the list before.           *)
OpenList_KeepsFieldVal(list) ==
  /\ cursor' = At("fields", cursor.def, list, 1)
  /\ UNCHANGED fieldVal
  /\ members' = <<>>

OpenList(list) ==
  /\ cursor' = At("fields", cursor.def, list, 1)
  /\ fieldVal' = -1
  /\ members' = <<>>

(* A service can only extend one that is known by now.                     *)
StartDefinition ==
  /\ status = "parsing"
  /\ cursor.stage = "definition"
  /\ cursor.def <= Len(File.defs)
  /\ IF /\ Mode = "PROGRAM"
        /\ Def.extends # <<>>
        /\ Def.extends \notin DOMAIN Scope.services
       THEN Stop("failed")
       ELSE /\ IF Len(Def.lists) = 0
                 THEN /\ cursor' = [cursor EXCEPT !.stage = "defined"]
                      /\ UNCHANGED <<fieldVal, members>>
                 ELSE OpenList(1)
            /\ lists' = <<>>
            /\ UNCHANGED <<input, status, globals, stack, treeVars>>

Automatic(f) == ~f.given \/ (f.id <= 0 /\ ~input.allowNegKeys)

(* The key of a field when y_field_val is val, and what it is then.        *)
Key(f, val) == IF Automatic(f) THEN val ELSE ToInt32(f.id)
NextFieldVal(f, val) ==
  IF Automatic(f) THEN ToInt32(val - 1)
  ELSE IF f.id <= 0 THEN ToInt32(f.id - 1) ELSE val

(* The xsd_attrs of a field are a FieldList: it begins with -1 like every  *)
(* other, in the middle of the list that the field is in, and what         *)
(* y_field_val was before is lost.                                         *)
Attributes(f) == {f.attrs[n] : n \in 1..Len(f.attrs)}
Counted(fields) ==
  {vals \in [0..Len(fields) -> Int32] :
     /\ vals[0] = -1
     /\ \A i \in 1..Len(fields) : vals[i] = NextFieldVal(fields[i], vals[i - 1])}
FieldValBehind(f) ==
  IF Attributes(f) = {} THEN {NextFieldVal(f, fieldVal)}
  ELSE UNION {{vals[Len(fields)] : vals \in Counted(fields)} : fields \in Attributes(f)}

(* Refused before the field is made: an automatic key under -strict, a key *)
(* or a name that is taken in its xsd_attrs.                               *)
IdentifierRefused(f) ==
  \/ input.strict /\ Automatic(f)
  \/ \E fields \in Attributes(f) :
       \/ input.strict /\ \E i \in 1..Len(fields) : Automatic(fields[i])
       \/ \E vals \in Counted(fields) : \E i, j \in 1..Len(fields) :
            /\ i < j
            /\ \/ fields[i].name = fields[j].name
               \/ Key(fields[i], vals[i - 1]) = Key(fields[j], vals[j - 1])

(* optional is ignored in the arguments and exceptions of a function.      *)
Requiredness(f) ==
  IF f.req = "optional" /\ Def.kind = "service" THEN "default" ELSE f.req

Field(id, name, type, req, default) ==
  [id |-> id, name |-> name, type |-> type, req |-> req, default |-> default]
WithReq(f, req) == Field(f.id, f.name, f.type, req, f.default)

ParsedField(f) ==
  Field(Key(f, fieldVal), f.name, FieldType(f.type), Requiredness(f),
        ConstValue(f.default, FieldType(f.type)))

(* t_struct::append: the place that equal_range finds for the key.         *)
PlaceOf(elem, i) ==
  /\ \A j \in 1..Len(members) : j < i => members[j].id < elem.id
  /\ \A j \in 1..Len(members) : j >= i => elem.id < members[j].id
Insert(elem, i) ==
  [j \in 1..Len(members) + 1 |->
     IF j < i THEN members[j] ELSE IF j = i THEN elem ELSE members[j - 1]]
(* Mutant of NameTaken: two members of one name are accepted.              *)
NameTaken_Never(elem) == FALSE

NameTaken(elem) == \E j \in 1..Len(members) : members[j].name = elem.name

ReadField ==
  /\ status = "parsing"
  /\ cursor.stage = "fields"
  /\ cursor.field <= Len(Fields)
  /\ LET f == Fields[cursor.field]
         elem == ParsedField(f)
     IN  \/ /\ ~IdentifierRefused(f)
            /\ Failures(elem.default) = {}
            /\ ~NameTaken(elem)
            /\ \E i \in 1..Len(members) + 1 :
                 PlaceOf(elem, i) /\ members' = Insert(elem, i)
            /\ fieldVal' \in FieldValBehind(f)
            /\ cursor' = [cursor EXCEPT !.field = @ + 1]
            /\ UNCHANGED <<input, status, globals, stack, lists, treeVars>>
         \/ /\ \/ IdentifierRefused(f)
               \/ /\ Failures(elem.default) = {}
                  /\ \/ NameTaken(elem)
                     \/ \E j \in 1..Len(members) : members[j].id = elem.id
            /\ Stop("failed")
         \/ /\ ~IdentifierRefused(f)
            /\ \E how \in Failures(elem.default) : Stop(how)

(* A throws clause may only contain exceptions.                            *)
NoExceptions(fields) ==
  \E i \in 1..Len(fields) : ~IsA(TrueType(fields[i].type), "exception")

EndFieldList ==
  /\ status = "parsing"
  /\ cursor.stage = "fields"
  /\ cursor.field > Len(Fields)
  /\ LET checks == Mode = "PROGRAM" /\ Def.kind = "service" /\ cursor.list = 2
         circular == checks /\ \E i \in 1..Len(members) :
                                 IsTypedef(TrueType(members[i].type))
         refused == checks /\ NoExceptions(members)
     IN  \/ circular /\ Stop("hung")
         \/ ~circular /\ refused /\ Stop("failed")
         \/ /\ ~circular /\ ~refused
            /\ lists' = [l \in 1..cursor.list |->
                           IF l = cursor.list THEN members ELSE lists[l]]
            /\ IF cursor.list < Len(Def.lists)
                 THEN OpenList(cursor.list + 1)
                 ELSE /\ cursor' = [cursor EXCEPT !.stage = "defined"]
                      /\ members' = <<>>
                      /\ UNCHANGED fieldVal
            /\ UNCHANGED <<input, status, globals, stack, treeVars>>
-----------------------------------------------------------------------------
(* Definitions.                                                            *)
EnumValues ==
  LET num[i \in 0..Len(Def.values)] ==
        IF i = 0 THEN -1
        ELSE IF Def.values[i].given THEN Def.values[i].num ELSE num[i - 1] + 1
  IN  [i \in 1..Len(Def.values) |->
         [name |-> Def.values[i].name, num |-> num[i]]]

(* set_union and set_name: no field of a union is required.                *)
UnionMembers(fields) ==
  [i \in DOMAIN fields |->
     WithReq(fields[i],
             IF fields[i].req = "required" THEN "optional" ELSE fields[i].req)]
DefaultsOf(fields) == {i \in 1..Len(fields) : fields[i].default.kind # "none"}

Declaration(kind, name, node, type, values, value, fieldLists) ==
  [kind |-> kind, name |-> name, node |-> node, type |-> type,
   values |-> values, value |-> value, lists |-> fieldLists]
Decl(value) ==
  Declaration(Def.kind, Def.name, Program,
              IF Def.type = <<>> THEN NoType ELSE FieldType(Def.type),
              EnumValues, value,
              IF Def.kind = "union"
                THEN [l \in DOMAIN lists |-> UnionMembers(lists[l])] ELSE lists)

(* Names go into the scope, and into the parent's behind the prefix.       *)
Declare(table, names, entry) ==
  LET qualified(parts) == {<<globals.prefix>> \o n : n \in parts}
      own == [Scope EXCEPT ![table] = Bind(@, names, entry)]
      parent(scope) ==
        [scope EXCEPT ![table] =
           Bind(@, qualified(names), [n \in qualified(names) |-> entry[Tail(n)]])]
  IN  [n \in DOMAIN scopes |->
         IF n = Program THEN own
         ELSE IF n = globals.parent THEN parent(scopes[n]) ELSE scopes[n]]

(* add_constant refuses a name that is taken.                              *)
ConstantTaken(names) ==
  \/ \E n \in names : n \in DOMAIN Scope.consts
  \/ /\ globals.parent # NoNode
     /\ \E n \in names :
          <<globals.prefix>> \o n \in DOMAIN scopes[globals.parent].consts

(* is_unique_typename: the program and what it includes are searched.      *)
Taken(name) ==
  \E d \in decls :
    /\ d.name = name /\ d.kind # "const"
    /\ \/ d.node = Program
       \/ /\ d.node \in IncludesOf(Program)
          /\ nodes[d.node].namespace = nodes[Program].namespace

NextDefinition ==
  cursor' = [cursor EXCEPT !.stage = "definition", !.def = @ + 1]

Reading(kinds) ==
  /\ status = "parsing"
  /\ cursor.stage = "defined"
  /\ Def.kind \in kinds
Added(d) ==
  /\ decls' = decls \cup {d}
  /\ NextDefinition
  /\ UNCHANGED <<input, status, globals, stack, fieldVal, members, lists, nodes>>

(* Nothing is kept of a definition in the first pass.                      *)
SkipDefinition ==
  /\ status = "parsing"
  /\ cursor.stage = "defined"
  /\ Mode = "INCLUDES"
  /\ NextDefinition
  /\ UNCHANGED <<input, status, globals, stack, fieldVal, members, lists, treeVars>>

DefineType ==
  LET d == Decl(NoValue)
  IN  /\ Reading({"typedef", "struct", "union", "exception"})
      /\ Mode = "PROGRAM"
      /\ IF \/ Taken(Def.name)
            \/ d.kind = "union" /\ Cardinality(DefaultsOf(d.lists[1])) > 1
           THEN Stop("failed")
           ELSE /\ scopes' = Declare("types", {<<d.name>>},
                               [n \in {<<d.name>>} |-> Type("defined", Program, n)])
                /\ Added(d)

DefineEnum ==
  LET d == Decl(NoValue)
      names == {<<d.name, d.values[i].name>> : i \in 1..Len(d.values)}
      type == [n \in {<<d.name>>} |-> Type("defined", Program, n)]
      constant == [n \in names |->
                     [type |-> I32,
                      value |-> Number(d.values[CHOOSE i \in 1..Len(d.values) :
                                          d.values[i].name = n[2]].num)]]
      own == Declare("consts", names, constant)
      all == Declare("types", {<<d.name>>}, type)
  IN  /\ Reading({"enum"})
      /\ Mode = "PROGRAM"
      /\ IF \/ Cardinality(names) < Len(d.values)
            \/ ConstantTaken(names)
            \/ Taken(Def.name)
           THEN Stop("failed")
           ELSE /\ scopes' = [n \in DOMAIN scopes |->
                                [all[n] EXCEPT !.consts = own[n].consts]]
                /\ Added(d)

DefineConst ==
  LET type == FieldType(Def.type)
      value == ConstValue(Def.value, type)
  IN  /\ Reading({"const"})
      /\ Mode = "PROGRAM"
      /\ \/ /\ Failures(value) = {}
            /\ ~ConstantTaken({<<Def.name>>})
            /\ scopes' = Declare("consts", {<<Def.name>>},
                           [n \in {<<Def.name>>} |-> [type |-> type, value |-> value]])
            /\ Added(Decl(value))
         \/ /\ Failures(value) = {}
            /\ ConstantTaken({<<Def.name>>})
            /\ Stop("failed")
         \/ \E how \in Failures(value) : Stop(how)

DefineService ==
  LET d == Decl(NoValue)
  IN  /\ Reading({"service"})
      /\ Mode = "PROGRAM"
      /\ IF Taken(Def.name)
           THEN Stop("failed")
           ELSE /\ scopes' = Declare("services", {<<d.name>>},
                               [n \in {<<d.name>>} |-> Type("service", Program, n)])
                /\ Added(d)
-----------------------------------------------------------------------------
(* parse(): after the first pass over a file come its includes, then the   *)
(* second.                                                                 *)
EndOfFile ==
  /\ status = "parsing"
  /\ cursor.stage = "definition"
  /\ cursor.def > Len(File.defs)
  /\ cursor' = [cursor EXCEPT !.stage = "recurse"]
  /\ IF Mode = "INCLUDES"
       THEN UNCHANGED <<stack, status>>
       ELSE /\ stack' = SubSeq(stack, 1, Len(stack) - 1)
            /\ status' = IF Len(stack) = 1 THEN "generating" ELSE status
  /\ UNCHANGED <<input, globals, fieldVal, members, lists, treeVars>>

Caller == Last1(stack)
Comes(frame, i) ==
  /\ i \in nodes[frame.node].includes
  /\ i > frame.child
  /\ \A j \in nodes[frame.node].includes : j > frame.child => i <= j
NoneComes(frame) == \A i \in nodes[frame.node].includes : i <= frame.child

ParseInclude ==
  /\ status = "parsing"
  /\ cursor.stage = "recurse"
  /\ \E i \in nodes[Caller.node].includes :
       LET node == Child(Caller.node, i)
       IN  /\ Comes(Caller, i)
           /\ IF Len(stack) = MaxDepth
                THEN Stop("overflow")
                ELSE /\ stack' = Append([stack EXCEPT ![Len(stack)] =
                                           Frame(@.node, @.parent, i)],
                                        Frame(node, Caller.node, 0))
                     /\ globals' = Globals("INCLUDES", Directory(nodes[node].path),
                                      node, globals.parent, globals.prefix)
                     /\ cursor' = AtHeaders
                     /\ UNCHANGED <<input, status, fieldVal, members, lists, treeVars>>

(* Mutant of ProgramPass: the prefix stays that of the include parsed last. *)
ProgramPass_KeepsPrefix ==
  /\ status = "parsing"
  /\ cursor.stage = "recurse"
  /\ NoneComes(Caller)
  /\ globals' = Globals("PROGRAM", globals.curdir, Caller.node, Caller.parent,
                        globals.prefix)
  /\ cursor' = AtHeaders
  /\ UNCHANGED <<input, status, stack, fieldVal, members, lists, treeVars>>

ProgramPass ==
  /\ status = "parsing"
  /\ cursor.stage = "recurse"
  /\ NoneComes(Caller)
  /\ globals' = Globals("PROGRAM", globals.curdir, Caller.node, Caller.parent,
                        ProgramName(Caller.node))
  /\ cursor' = AtHeaders
  /\ UNCHANGED <<input, status, stack, fieldVal, members, lists, treeVars>>

ParserNext ==
  \/ ReadHeaders \/ StartDefinition \/ ReadField \/ EndFieldList
  \/ SkipDefinition \/ DefineType \/ DefineEnum \/ DefineConst \/ DefineService
  \/ EndOfFile \/ ParseInclude \/ ProgramPass
==============================================================================
