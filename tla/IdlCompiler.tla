----------------------------- MODULE IdlCompiler -----------------------------
(***************************************************************************)
(* The whole compiler: main() parses the file and its includes, and        *)
(* generate() hands the tree of every program to the generator of every    *)
(* target that --gen names, with -r to those of the includes first.  What  *)
(* a generator does with a tree is in the modules Gen<Target>; here it is  *)
(* what it sees of the tree, how it fails and what it leaves behind.       *)
(***************************************************************************)
EXTENDS IdlParser

CONSTANT KnownTargets   \* the registered generators

VARIABLES
  generating,   \* the calls of generate(): program, includes done, next target
  output        \* what each generator was given

generateVars == <<generating, output>>
vars == <<parserVars, generateVars>>

Init == ParserInit /\ generating = <<>> /\ output = {}

Parse == ParserNext /\ UNCHANGED generateVars

Call(node) == [node |-> node, child |-> 0, turn |-> 1]
Current == Last1(generating)
DeclsOf(node) == {d \in decls : d.node = node}

StartGenerating ==
  /\ status = "generating"
  /\ generating = <<>>
  /\ generating' = <<Call(Root)>>
  /\ UNCHANGED <<parserVars, output>>

GenerateInclude ==
  /\ status = "generating" /\ generating # <<>>
  /\ input.recurse
  /\ \E i \in nodes[Current.node].includes :
       /\ Comes(Current, i)
       /\ generating' = Append([generating EXCEPT ![Len(generating)].child = i],
                               Call(Child(Current.node, i)))
  /\ UNCHANGED <<parserVars, output>>

Turn(target) ==
  /\ status = "generating" /\ generating # <<>>
  /\ input.recurse => NoneComes(Current)
  /\ Current.turn <= Len(input.targets)
  /\ input.targets[Current.turn] = target

NextTarget == generating' = [generating EXCEPT ![Len(generating)].turn = @ + 1]
NoMoreTargets ==
  generating' = [generating EXCEPT ![Len(generating)].turn = Len(input.targets) + 1]

(* Mutant of GenerateUnknown: the targets behind it are left out.          *)
GenerateUnknown_Stops ==
  /\ \E target \in {input.targets[t] : t \in 1..Len(input.targets)} \ KnownTargets :
       Turn(target)
  /\ NoMoreTargets
  /\ UNCHANGED <<parserVars, output>>

(* No generator of that name: a warning.                                   *)
GenerateUnknown ==
  /\ \E target \in {input.targets[t] : t \in 1..Len(input.targets)} \ KnownTargets :
       Turn(target)
  /\ NextTarget
  /\ UNCHANGED <<parserVars, output>>

(* The types that every generator looks at, and those that some do: a      *)
(* typedef is nothing in many languages.                                   *)
TypesOf(node) ==
  {d.type : d \in {e \in DeclsOf(node) : e.kind = "const"}}
    \cup UNION {UNION {{d.lists[l][i].type : i \in 1..Len(d.lists[l])} :
                         l \in 1..Len(d.lists)} : d \in DeclsOf(node)}
TypedefsOf(node) == {d.type : d \in {e \in DeclsOf(node) : e.kind = "typedef"}}
Undeclared(type) == TrueType(type) = NoType
Circular(type) == IsTypedef(TrueType(type))

(* A constant or default whose enum_ nobody set.                           *)
Unset(value) == value.kind = "id" /\ GetInteger(value) = Garbage
UnsetIn(node) ==
  \E d \in DeclsOf(node) :
    \/ Unset(d.value)
    \/ \E l \in 1..Len(d.lists) : \E i \in 1..Len(d.lists[l]) :
         Unset(d.lists[l][i].default)

(* The Go generator makes the exceptions of a function optional, in the    *)
(* tree that all generators share.                                         *)
OptionalThrows(d) ==
  IF d.kind = "service"
    THEN Declaration(d.kind, d.name, d.node, d.type, d.values, d.value,
           [l \in DOMAIN d.lists |->
              IF l = 2 THEN [i \in DOMAIN d.lists[l] |->
                               WithReq(d.lists[l][i], "optional")]
              ELSE d.lists[l]])
    ELSE d
LeftBy(target, node) ==
  IF target = "go"
    THEN (decls \ DeclsOf(node)) \cup {OptionalThrows(d) : d \in DeclsOf(node)}
    ELSE decls

Seen(node, target) ==
  [path |-> nodes[node].path, target |-> target, decls |-> DeclsOf(node)]

Generate ==
  \E target \in KnownTargets :
    LET node == Current.node
        sound == \A type \in TypesOf(node) : ~Undeclared(type) /\ ~Circular(type)
    IN  /\ Turn(target)
        /\ \/ /\ sound /\ ~UnsetIn(node)
              /\ output' = output \cup {Seen(node, target)}
              /\ decls' = LeftBy(target, node)
              /\ NextTarget
              /\ UNCHANGED <<input, status, globals, stack, readerVars, nodes, scopes>>
           \/ /\ sound /\ UnsetIn(node)
              /\ NoMoreTargets
              /\ UNCHANGED <<parserVars, output>>
           \/ /\ \/ sound /\ UnsetIn(node) /\ Stop("crashed")
                 \/ /\ \E type \in TypesOf(node) \cup TypedefsOf(node) : Undeclared(type)
                    /\ Stop("failed")
                 \/ /\ \E type \in TypesOf(node) \cup TypedefsOf(node) : Circular(type)
                    /\ Stop("hung")
              /\ UNCHANGED generateVars

EndGenerate ==
  /\ status = "generating" /\ generating # <<>>
  /\ Current.turn > Len(input.targets)
  /\ generating' = SubSeq(generating, 1, Len(generating) - 1)
  /\ status' = IF Len(generating) = 1 THEN "exited" ELSE status
  /\ UNCHANGED <<input, globals, stack, readerVars, treeVars, output>>

Next ==
  \/ Parse \/ StartGenerating \/ GenerateInclude \/ GenerateUnknown
  \/ Generate \/ EndGenerate

(* The compiler is one thread that runs until it ends.                     *)
Spec == Init /\ [][Next]_vars /\ WF_vars(Next)
-----------------------------------------------------------------------------
Parsed == status \in {"generating", "exited"}
Ordered(fields) ==
  \A i, j \in DOMAIN fields :
    i < j => fields[i].id < fields[j].id /\ fields[i].name # fields[j].name

TypeOK ==
  /\ status \in {"parsing", "generating", "exited", "failed", "crashed", "hung",
                 "overflow"}
  /\ Mode \in {"INCLUDES", "PROGRAM"}
  /\ Program \in DOMAIN nodes
  /\ globals.parent \in DOMAIN nodes \cup {NoNode}
  /\ DOMAIN scopes = DOMAIN nodes
  /\ Len(stack) <= MaxDepth
  /\ fieldVal \in Int
  /\ \A n \in DOMAIN nodes : nodes[n].path \in DOMAIN input.files
  /\ \A d \in decls : d.node \in DOMAIN nodes

(* The fields that a struct is given are in the order of their ids, and no *)
(* two have the same id or name, whether the ids come from the file or     *)
(* from the parser, in every struct, argument list and throws clause: what *)
(* the generators build on.                                                *)
StructsWellFormed ==
  /\ Ordered(members)
  /\ \A l \in DOMAIN lists : Ordered(lists[l])
  /\ \A d \in decls : \A l \in DOMAIN d.lists : Ordered(d.lists[l])

SourceOf(d) ==
  LET defs == input.files[nodes[d.node].path].defs
  IN  defs[CHOOSE i \in 1..Len(defs) : defs[i].kind = d.kind /\ defs[i].name = d.name]

(* The definitions that a name stands for in a program: its own, or behind *)
(* the name of an include that one's.                                      *)
Visible(d, node, name) ==
  \/ d.node = node /\ <<d.name>> = name
  \/ /\ d.node \in IncludesOf(node)
     /\ <<ProgramName(d.node), d.name>> = name
Meaning(node, name) ==
  IF name = <<"i32">> THEN {I32}
  ELSE LET types == {d \in decls : /\ d.kind \notin {"const", "service"}
                                   /\ Visible(d, node, name)}
       IN  IF types = {} THEN {NoType}
           ELSE {Type("defined", d.node, <<d.name>>) : d \in types}
Found(type) == IF type.kind = "forward" THEN TypedefTarget(type) ELSE type

(* When everything is parsed, the type that a name was taken for is the    *)
(* one that the name stands for in the file it is written in, wherever in  *)
(* the tree of includes and before or behind the definition that is, and   *)
(* no type where the name stands for none.                                 *)
ReferencesMeanTheirDefinition ==
  Parsed =>
    \A d \in decls :
      LET source == SourceOf(d)
      IN  /\ source.type # <<>> => Found(d.type) \in Meaning(d.node, source.type)
          /\ \A l \in DOMAIN d.lists : \A i \in DOMAIN d.lists[l] :
               \E j \in 1..Len(source.lists[l]) :
                 /\ source.lists[l][j].name = d.lists[l][i].name
                 /\ Found(d.lists[l][i].type)
                      \in Meaning(d.node, source.lists[l][j].type)

Numbers(node, name) ==
  {GetInteger(d.value) : d \in {c \in decls : c.kind = "const" /\ Visible(c, node, name)}}
    \cup UNION {{Number(d.values[i].num) :
                  i \in {k \in DOMAIN d.values : d.values[k].name = Last1(name)}} :
               d \in {e \in decls : /\ e.kind = "enum" /\ Len(name) > 1
                                     /\ Visible(e, node, SubSeq(name, 1, Len(name) - 1))}}
NamesOtherEnum(d, name) ==
  IsA(d.type, "enum") /\ d.type \notin Meaning(d.node, SubSeq(name, 1, Len(name) - 1))

(* A constant has the number that it is given or that of the constant or   *)
(* enumerator that it names, in this file or in an included one, except    *)
(* one of an enum type that names another enum (only the last part of the  *)
(* name is compared) and one whose value was never set.                    *)
ConstantsMeanTheirDefinition ==
  Parsed =>
    \A d \in {c \in decls : c.kind = "const"} :
      LET value == SourceOf(d).value
      IN  \/ Unset(d.value)
          \/ value.kind = "int" /\ GetInteger(d.value) = value
          \/ /\ value.kind = "id"
             /\ \/ GetInteger(d.value) \in Numbers(d.node, value.name)
                \/ NamesOtherEnum(d, value.name)

(* The id of a field: the given one, or by one less than that of the       *)
(* automatic or nonpositive field before it, beginning with -1.            *)
AutomaticIn(in, f) == ~f.given \/ (f.id <= 0 /\ ~in.allowNegKeys)
Anchors(in, fields, i) ==
  {j \in 1..i : fields[j].id <= 0 /\ ~AutomaticIn(in, fields[j])}
LastAnchor(in, fields, i) ==
  LET anchors == Anchors(in, fields, i)
  IN  IF anchors = {} THEN 0
      ELSE CHOOSE j \in anchors : \A k \in anchors : k <= j
AutomaticKey(in, fields, i) ==   \* behind field i
  LET from == LastAnchor(in, fields, i)
      start == IF from = 0 THEN 0 ELSE fields[from].id
  IN  start - 1 - Cardinality({j \in (from + 1)..i : AutomaticIn(in, fields[j])})
DeclaredKey(in, fields, i) ==
  IF AutomaticIn(in, fields[i]) THEN AutomaticKey(in, fields, i - 1) ELSE fields[i].id

(* The id of field i is an int32_t, without being made one,                *)
InRange(in, fields, i) ==
  /\ fields[i].id \in -KeyRange..(KeyRange - 1)
  /\ DeclaredKey(in, fields, i) >= -KeyRange
(* and no xsd_attrs before it have set the automatic ids back to -1.       *)
CountsDown(in, fields, i) ==
  AutomaticIn(in, fields[i]) => \A j \in 1..(i - 1) : fields[j].attrs = <<>>
Regular(in, fields, i) == InRange(in, fields, i) /\ CountsDown(in, fields, i)

DeclaredReq(kind, req) ==
  CASE kind = "service" /\ req = "optional" -> "default"
    [] kind = "union" /\ req = "required" -> "optional"
    [] OTHER -> req

(* A definition as it is declared, with all its fields.                    *)
DeclaredAs(in, d, def, afterGo) ==
  /\ d.kind = def.kind /\ d.name = def.name
  /\ Len(d.lists) = Len(def.lists)
  /\ \A l \in 1..Len(d.lists) :
       LET fields == def.lists[l]
           same(a, i) ==
             /\ a.name = fields[i].name
             /\ a.id = DeclaredKey(in, fields, i)
             /\ \/ a.req = DeclaredReq(d.kind, fields[i].req)
                \/ d.kind = "service" /\ l = 2 /\ afterGo
       IN  /\ Len(d.lists[l]) = Len(fields)
           /\ \/ \E i \in 1..Len(fields) : ~Regular(in, fields, i)
              \/ \A i \in 1..Len(fields) :
                   \E j \in 1..Len(fields) : same(d.lists[l][j], i)

AfterGo(o) ==
  \E t \in 1..Len(input.targets) :
    /\ input.targets[t] = o.target
    /\ \E before \in 1..t : input.targets[before] = "go"

(* Every generator is given every definition of the file it generates code *)
(* for, with exactly the fields that are declared there, their ids and     *)
(* their requiredness, however often the file was included and whatever    *)
(* was parsed and generated before: except the ids of a list with one that *)
(* is no int32_t or with an automatic one behind xsd_attrs, which set      *)
(* y_field_val back, and the exceptions of a function once the Go          *)
(* generator has run.                                                      *)
TargetsSeeTheSource ==
  \A o \in output :
    LET defs == input.files[o.path].defs
    IN  /\ Cardinality(o.decls) = Len(defs)
        /\ \A k \in 1..Len(defs) : \E d \in o.decls :
             DeclaredAs(input, d, defs[k], AfterGo(o))

(* Automatic ids are assigned "starting from -1 and working their way      *)
(* down" (thrifty.yy:50-54): not behind xsd_attrs, where they start again. *)
AutomaticIdsCountDown ==
  \A d \in decls : \A l \in DOMAIN d.lists :
    LET fields == SourceOf(d).lists[l]
    IN  \A i \in 1..Len(fields) :
          AutomaticIn(input, fields[i]) /\ InRange(input, fields, i) =>
            \E j \in DOMAIN d.lists[l] :
              /\ d.lists[l][j].name = fields[i].name
              /\ d.lists[l][j].id = DeclaredKey(input, fields, i)

(* A sufficient condition for an input to be in order, on its text alone.  *)
TypeKinds == {"typedef", "enum", "struct", "union", "exception"}
SiteOf(in, path, i) ==
  IncludeFile(in, Directory(path), in.files[path].includes[i])
SitesOf(in, path) ==
  UNION {SiteOf(in, path, i) : i \in 1..Len(in.files[path].includes)}
Defined(in, path, kinds, last) ==
  {in.files[path].defs[k].name :
     k \in {j \in 1..last : in.files[path].defs[j].kind \in kinds}}
Usable(in, path, kinds, last) ==
  {<<name>> : name \in Defined(in, path, kinds, last)}
    \cup UNION {{<<Last1(p), name>> :
                  name \in Defined(in, p, kinds, Len(in.files[p].defs))} :
               p \in SitesOf(in, path)}

Enumerators(in, path, last) ==
  UNION {{<<in.files[path].defs[k].name, in.files[path].defs[k].values[i].name>> :
            i \in 1..Len(in.files[path].defs[k].values)} : k \in 1..last}
EnumeratorsUsable(in, path, last) ==
  Enumerators(in, path, last)
    \cup UNION {{<<Last1(p)>> \o name :
                  name \in Enumerators(in, p, Len(in.files[p].defs))} :
               p \in SitesOf(in, path)}

ValidKeys(in, fields) ==
  /\ \A i \in 1..Len(fields) :
       /\ Regular(in, fields, i)
       /\ in.strict => ~AutomaticIn(in, fields[i])
  /\ \A i, j \in 1..Len(fields) : i # j =>
       /\ fields[i].name # fields[j].name
       /\ DeclaredKey(in, fields, i) # DeclaredKey(in, fields, j)
ValidList(in, path, kind, fields) ==
  LET file == in.files[path]
  IN  /\ ValidKeys(in, fields)
      /\ \A i \in 1..Len(fields) :
           /\ \A attrs \in Attributes(fields[i]) : ValidKeys(in, attrs)
           /\ fields[i].type
                \in {<<"i32">>} \cup Usable(in, path, TypeKinds, Len(file.defs))
           /\ \/ fields[i].default.kind = "none"
              \/ fields[i].default.kind = "int" /\ fields[i].type = <<"i32">>
      /\ kind = "union" => Cardinality(DefaultsOf(fields)) <= 1

ValidDef(in, path, k) ==
  LET file == in.files[path]
      d == file.defs[k]
      before == k - 1
  IN  /\ \A l \in 1..Len(d.lists) : ValidList(in, path, d.kind, d.lists[l])
      /\ \A i, j \in 1..Len(d.values) : i # j => d.values[i].name # d.values[j].name
      /\ d.kind = "typedef" =>
           d.type \in {<<"i32">>} \cup
             Usable(in, path, TypeKinds \ {"typedef"}, Len(file.defs))
      /\ d.kind = "const" =>
           /\ d.type = <<"i32">>
           /\ \/ d.value.kind = "int"
              \/ d.value.name \in Usable(in, path, {"const"}, before)
                                   \cup EnumeratorsUsable(in, path, before)
      /\ d.kind = "service" =>
           /\ d.extends \in {<<>>} \cup Usable(in, path, {"service"}, before)
           /\ \A i \in 1..Len(d.lists[2]) :
                d.lists[2][i].type \in Usable(in, path, {"exception"}, before)

ValidFile(in, path) ==
  LET file == in.files[path]
      defs == Len(file.defs)
  IN  /\ \A i \in 1..Len(file.includes) : SiteOf(in, path, i) # {}
      /\ Cardinality({Last1(p) : p \in SitesOf(in, path)}) = Len(file.includes)
      /\ \A k, l \in 1..defs : k # l => file.defs[k].name # file.defs[l].name
      /\ \A p \in SitesOf(in, path) :
           Defined(in, p, TypeKinds \cup {"service"}, Len(in.files[p].defs))
             \cap Defined(in, path, TypeKinds \cup {"service"}, defs) = {}
      /\ \A k \in 1..defs : ValidDef(in, path, k)

NoCycle(in) ==
  \E rank \in [DOMAIN in.files -> 1..Cardinality(DOMAIN in.files)] :
    \A path \in DOMAIN in.files : \A p \in SitesOf(in, path) : rank[p] < rank[path]

Valid(in) ==
  /\ NoCycle(in)
  /\ \A path \in DOMAIN in.files : ValidFile(in, path)

(* Files that are in order are compiled: the compiler ends, no definition  *)
(* is refused, and every target has its code for the main file and, with   *)
(* -r, for every file that it includes directly or through others.         *)
Compiled ==
  /\ status = "exited"
  /\ {<<o.path, o.target>> : o \in output} =
       {IF input.recurse THEN p ELSE input.root : p \in {nodes[n].path : n \in DOMAIN nodes}}
         \X (KnownTargets \cap {input.targets[t] : t \in 1..Len(input.targets)})
Started == Program = Root /\ Mode = "INCLUDES" /\ cursor = AtHeaders
ValidInputsAreCompiled == (Started /\ Valid(input)) ~> Compiled
==============================================================================
