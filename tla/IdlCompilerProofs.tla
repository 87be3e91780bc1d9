-------------------------- MODULE IdlCompilerProofs --------------------------
(***************************************************************************)
(* The compiler keeps its tree typed and its structs well formed, for all  *)
(* files, options and bounds: whatever ids a file gives or leaves to the   *)
(* parser, the fields of a list end up in the strict order of their ids.   *)
(* And what every generator is given of a program is what its file         *)
(* declares: SourceInv follows a file from the field that is read to the   *)
(* definition, the program, the tree of the includes and the turns of the  *)
(* generators.  MeaningInv adds what the names of types stand for, and     *)
(* ConstantInv what the constants are worth.                               *)
(***************************************************************************)
EXTENDS IdlCompiler, SequenceTheorems, FiniteSetTheorems, FunctionTheorems,
        WellFoundedInduction, TLAPS

Stages == {"headers", "definition", "fields", "defined", "recurse"}

(* What the globals and the calls of parse() refer to exists.              *)
ParserInv ==
  /\ input \in Inputs
  /\ status \in {"parsing", "generating", "exited", "failed", "crashed", "hung",
                 "overflow"}
  /\ Mode \in {"INCLUDES", "PROGRAM"}
  /\ Program \in DOMAIN nodes
  /\ globals.parent \in DOMAIN nodes \cup {NoNode}
  /\ stack \in Seq([node : DOMAIN nodes, parent : DOMAIN nodes \cup {NoNode},
                    child : Int])
  /\ Len(stack) <= MaxDepth
  /\ status = "parsing" => stack # <<>>

TreeInv ==
  /\ DOMAIN scopes = DOMAIN nodes
  /\ \A n \in DOMAIN nodes :
       /\ nodes[n].path \in DOMAIN input.files
       /\ nodes[n].includes \subseteq Nat
       /\ IncludesOf(n) \subseteq DOMAIN nodes
  /\ \A d \in decls : d.node \in DOMAIN nodes

(* The reader is inside the file and inside the list that it reads.        *)
CursorInv ==
  /\ cursor \in [stage : Stages, def : Nat \ {0}, list : Nat \ {0}, field : Nat \ {0}]
  /\ cursor.stage = "fields" =>
       /\ cursor.def <= Len(File.defs)
       /\ cursor.list <= Len(Def.lists)
       /\ DOMAIN lists = 1..(cursor.list - 1)

MembersInv ==
  /\ Len(members) \in Nat
  /\ DOMAIN members = 1..Len(members)
  /\ \A i \in DOMAIN members : members[i].id \in Int
  /\ fieldVal \in Int

ListsInv ==
  /\ Ordered(members)
  /\ \A l \in DOMAIN lists : Ordered(lists[l])
DeclsInv == \A d \in decls : \A l \in DOMAIN d.lists : Ordered(d.lists[l])

Inv == ParserInv /\ TreeInv /\ CursorInv /\ MembersInv /\ ListsInv /\ DeclsInv
-----------------------------------------------------------------------------
(* A field that is inserted at its place leaves the fields in order.       *)
LEMMA InsertOrdered ==
  ASSUME MembersInv, Ordered(members), NEW elem, elem.id \in Int,
         ~NameTaken(elem), NEW i \in 1..Len(members) + 1, PlaceOf(elem, i)
  PROVE  /\ Ordered(Insert(elem, i))
         /\ Len(Insert(elem, i)) = Len(members) + 1
         /\ DOMAIN Insert(elem, i) = 1..Len(members) + 1
         /\ \A j \in DOMAIN Insert(elem, i) : Insert(elem, i)[j].id \in Int
<1> DEFINE n == Len(members)
           s == Insert(elem, i)
<1>0. n \in Nat /\ DOMAIN members = 1..n
  BY DEF MembersInv
<1>1. DOMAIN s = 1..n + 1
  BY DEF Insert
<1>2. s \in Seq({s[j] : j \in 1..n + 1})
  BY <1>0 DEF Insert
<1>3. Len(s) = n + 1
  BY <1>0, <1>1, <1>2
<1>4. \A j \in 1..n + 1 :
        s[j] = IF j < i THEN members[j] ELSE IF j = i THEN elem ELSE members[j - 1]
  BY DEF Insert
<1>5. ASSUME NEW j \in 1..n + 1
      PROVE  s[j].id \in Int
  <2>1. CASE j < i
    BY <1>0, <1>4, <2>1 DEF MembersInv
  <2>2. CASE j = i
    BY <1>4, <2>2
  <2>3. CASE j > i
    <3>1. s[j] = members[j - 1] /\ j - 1 \in 1..n
      BY <1>0, <1>4, <2>3
    <3> QED BY <1>0, <3>1 DEF MembersInv
  <2> QED BY <1>0, <2>1, <2>2, <2>3
<1>6. ASSUME NEW j \in 1..n + 1, NEW k \in 1..n + 1, j < k
      PROVE  s[j].id < s[k].id /\ s[j].name # s[k].name
  <2>1. CASE k < i
    BY <1>0, <1>4, <1>6, <2>1 DEF Ordered
  <2>2. CASE k = i
    BY <1>0, <1>4, <1>6, <2>2 DEF PlaceOf, NameTaken
  <2>3. CASE k > i /\ j < i
    <3>1. s[j] = members[j] /\ s[k] = members[k - 1]
      BY <1>4, <1>0, <2>3
    <3>2. j \in 1..n /\ k - 1 \in 1..n /\ j < k - 1
      BY <1>0, <1>6, <2>3
    <3> QED BY <1>0, <3>1, <3>2 DEF Ordered
  <2>4. CASE k > i /\ j = i
    <3>1. s[j] = elem /\ s[k] = members[k - 1]
      BY <1>4, <1>0, <2>4
    <3>2. k - 1 \in 1..n /\ k - 1 >= i
      BY <1>0, <1>6, <2>4
    <3> QED BY <1>0, <3>1, <3>2 DEF PlaceOf, NameTaken
  <2>5. CASE k > i /\ j > i
    <3>1. s[j] = members[j - 1] /\ s[k] = members[k - 1]
      BY <1>4, <1>0, <2>5
    <3>2. j - 1 \in 1..n /\ k - 1 \in 1..n /\ j - 1 < k - 1
      BY <1>0, <1>6, <2>5
    <3> QED BY <1>0, <3>1, <3>2 DEF Ordered
  <2> QED BY <1>0, <1>6, <2>1, <2>2, <2>3, <2>4, <2>5
<1> QED BY <1>1, <1>3, <1>5, <1>6 DEF Ordered

(* What the input guarantees of the list that is read.                     *)
LEMMA FieldsAreThere ==
  ASSUME Inv, cursor.stage = "fields"
  PROVE  /\ Len(Def.lists) \in Nat
         /\ Len(Fields) \in Nat
         /\ \A i \in 1..Len(Fields) : /\ Fields[i].id \in Int
                                     /\ \A n \in 1..Len(Fields[i].attrs) :
                                          Len(Fields[i].attrs[n]) \in Nat
<1> DEFINE files == input.files
           path == nodes[Program].path
<1>1. input \in Inputs /\ path \in DOMAIN files
  BY DEF Inv, ParserInv, TreeInv
<1>2. Len(files[path].defs) \in Nat
  BY <1>1, InputsAssumption
<1>3. cursor.def \in 1..Len(files[path].defs)
  BY <1>2 DEF Inv, CursorInv, File
<1>4. Len(files[path].defs[cursor.def].lists) \in Nat
  BY <1>1, <1>3, InputsAssumption
<1>5. cursor.list \in 1..Len(files[path].defs[cursor.def].lists)
  BY <1>4 DEF Inv, CursorInv, File, Def
<1>6. /\ Len(files[path].defs[cursor.def].lists[cursor.list]) \in Nat
      /\ \A i \in 1..Len(files[path].defs[cursor.def].lists[cursor.list]) :
           LET field == files[path].defs[cursor.def].lists[cursor.list][i]
           IN  /\ field.id \in Int
               /\ \A n \in 1..Len(field.attrs) : Len(field.attrs[n]) \in Nat
  BY <1>1, <1>3, <1>5, InputsAssumption
<1> QED BY <1>4, <1>6 DEF File, Def, Fields

(* The automatic and the given ids are integers, also behind xsd_attrs.    *)
LEMMA KeysAreIntegers ==
  ASSUME Inv, cursor.stage = "fields", cursor.field <= Len(Fields)
  PROVE  /\ Key(Fields[cursor.field], fieldVal) \in Int
         /\ \A val \in FieldValBehind(Fields[cursor.field]) : val \in Int
<1>1. cursor.field \in 1..Len(Fields)
  BY FieldsAreThere DEF Inv, CursorInv
<1>2. Fields[cursor.field].id \in Int
  BY <1>1, FieldsAreThere
<1>3. \A v \in Int : ToInt32(v) \in Int
  BY BoundsAssumption DEF ToInt32
<1>4. fieldVal \in Int
  BY DEF Inv, MembersInv
<1> DEFINE f == Fields[cursor.field]
<1>5. f.id - 1 \in Int /\ fieldVal - 1 \in Int
  BY <1>2, <1>4
<1>6. Key(f, fieldVal) \in {fieldVal, ToInt32(f.id)}
  BY DEF Key
<1>7. NextFieldVal(f, fieldVal) \in {ToInt32(fieldVal - 1), ToInt32(f.id - 1), fieldVal}
  BY DEF NextFieldVal
<1>8. /\ ToInt32(f.id) \in Int /\ ToInt32(f.id - 1) \in Int
      /\ ToInt32(fieldVal - 1) \in Int
  BY <1>2, <1>3, <1>5
<1> HIDE DEF f
<1>9. Key(f, fieldVal) \in Int /\ NextFieldVal(f, fieldVal) \in Int
  BY <1>4, <1>5, <1>6, <1>7, <1>8
<1>10. ASSUME NEW fields \in Attributes(f), NEW vals \in Counted(fields)
       PROVE  vals[Len(fields)] \in Int
  <2>1. PICK n \in 1..Len(f.attrs) : fields = f.attrs[n]
    BY <1>10 DEF Attributes
  <2>2. Len(fields) \in Nat
    BY <1>1, <2>1, FieldsAreThere DEF f
  <2>3. vals \in [0..Len(fields) -> Int32]
    BY <1>10 DEF Counted
  <2> QED BY <2>2, <2>3, BoundsAssumption DEF Int32
<1>11. ASSUME NEW val \in FieldValBehind(f)
       PROVE  val \in Int
  <2>1. \/ val = NextFieldVal(f, fieldVal)
        \/ \E fields \in Attributes(f) : \E vals \in Counted(fields) : val = vals[Len(fields)]
    BY <1>11 DEF FieldValBehind
  <2> QED BY <1>9, <1>10, <2>1
<1> QED BY <1>9, <1>11 DEF f

-----------------------------------------------------------------------------
(* A new t_program includes nothing yet.                                   *)
LEMMA NewNodeIsEmpty ==
  ASSUME NEW path
  PROVE  NewNode(path).path = path /\ NewNode(path).includes = {}
BY DEF NewNode, Node

(* The compiler starts with the main file and nothing read.                *)
LEMMA InitEstablishesInv ==
  Init => Inv
<1> SUFFICES ASSUME Init PROVE Inv
  OBVIOUS
<1>1. /\ input \in Inputs
      /\ status = "parsing"
      /\ nodes = [n \in {Root} |-> NewNode(input.root)]
      /\ scopes = [n \in {Root} |-> NewScope]
  BY DEF Init, ParserInit
<1>2. members = <<>> /\ lists = <<>> /\ decls = {} /\ fieldVal = -1
  BY DEF Init, ParserInit
<1>3. DOMAIN nodes = {Root} /\ DOMAIN scopes = {Root} /\ nodes[Root] = NewNode(input.root)
  BY <1>1
<1>4. ParserInv
  <2>1. Frame(Root, NoNode, 0) \in [node : DOMAIN nodes,
                                    parent : DOMAIN nodes \cup {NoNode}, child : Int]
    BY <1>3 DEF Frame
  <2>2. stack = <<Frame(Root, NoNode, 0)>>
    BY DEF Init, ParserInit
  <2>3. /\ stack \in Seq([node : DOMAIN nodes, parent : DOMAIN nodes \cup {NoNode},
                          child : Int])
        /\ Len(stack) = 1 /\ stack # <<>>
    <3> DEFINE Frames == [node : DOMAIN nodes, parent : DOMAIN nodes \cup {NoNode},
                          child : Int]
               first == Frame(Root, NoNode, 0)
    <3>1. first \in Frames /\ stack = <<first>>
      BY <2>1, <2>2
    <3> HIDE DEF Frames, first
    <3>2. stack \in Seq(Frames) /\ Len(stack) = 1 /\ stack # <<>>
      BY <3>1
    <3> QED BY <3>2 DEF Frames
  <2>4. globals = Globals("INCLUDES", Directory(input.root), Root, NoNode, "")
    BY DEF Init, ParserInit
  <2>5. Mode = "INCLUDES" /\ Program = Root /\ globals.parent = NoNode
    BY <2>4 DEF Mode, Program, Globals
  <2>6. 1 <= MaxDepth
    BY BoundsAssumption
  <2> QED BY <1>1, <1>3, <2>3, <2>5, <2>6 DEF ParserInv
<1>5. TreeInv
  <2>1. nodes[Root].path = input.root /\ nodes[Root].includes = {}
    BY <1>3, NewNodeIsEmpty
  <2>2. IncludesOf(Root) = {}
    BY <2>1 DEF IncludesOf
  <2>3. input.root \in DOMAIN input.files
    BY <1>1, InputsAssumption
  <2> QED BY <1>2, <1>3, <2>1, <2>2, <2>3 DEF TreeInv
<1>6. CursorInv
  <2>1. cursor = AtHeaders
    BY DEF Init, ParserInit
  <2> QED BY <2>1 DEF CursorInv, AtHeaders, At, Stages
<1>7. MembersInv
  BY <1>2 DEF MembersInv
<1>8. ListsInv /\ DeclsInv
  BY <1>2 DEF ListsInv, DeclsInv, Ordered
<1> QED BY <1>4, <1>5, <1>6, <1>7, <1>8 DEF Inv

(* The compiler may stop at any time.                                      *)
LEMMA StopKeepsInv ==
  ASSUME Inv, NEW how \in {"failed", "crashed", "hung", "overflow"}, Stop(how)
  PROVE  Inv'
<1> USE DEF Stop, readerVars, treeVars
<1>1. ParserInv'
  BY DEF Inv, ParserInv, Mode, Program
<1>2. TreeInv'
  BY DEF Inv, TreeInv, IncludesOf
<1>3. CursorInv'
  BY DEF Inv, CursorInv, File, Def, Program
<1>4. MembersInv' /\ ListsInv' /\ DeclsInv'
  BY DEF Inv, MembersInv, ListsInv, DeclsInv, Ordered
<1> QED BY <1>1, <1>2, <1>3, <1>4 DEF Inv

(* Whatever a default value does to the parser, it ends it one of four ways. *)
LEMMA FailureIsKnown ==
  ASSUME NEW value, NEW how \in Failures(value)
  PROVE  how \in {"failed", "crashed", "hung", "overflow"}
BY DEF Failures

(* The headers of a file: its includes become programs of the tree.       *)
LEMMA ReadHeadersKeepsInv ==
  ASSUME Inv, ReadHeaders
  PROVE  Inv'
<1> DEFINE paths(i) == IncludeFile(input, globals.curdir, File.includes[i])
           found == {i \in 1..Len(File.includes) : paths(i) # {}}
           new == {Child(Program, i) : i \in found}
           path(n) == CHOOSE p \in paths(CHOOSE i \in found : n = Child(Program, i)) : TRUE
           added == [n \in new |-> NewNode(path(n))]
<1>1. /\ UNCHANGED <<input, status, globals, stack, members, lists, decls, fieldVal>>
      /\ cursor' = [cursor EXCEPT !.stage = "definition"]
  BY DEF ReadHeaders
<1>2. DOMAIN nodes \subseteq DOMAIN nodes' /\ TreeInv'
  <2>0. /\ Program \in DOMAIN nodes /\ DOMAIN scopes = DOMAIN nodes
        /\ \A n \in DOMAIN nodes : /\ nodes[n].path \in DOMAIN input.files
                                   /\ nodes[n].includes \subseteq Nat
                                   /\ IncludesOf(n) \subseteq DOMAIN nodes
        /\ \A d \in decls : d.node \in DOMAIN nodes
    BY DEF Inv, ParserInv, TreeInv
  <2>1. CASE /\ nodes' = Bind([nodes EXCEPT ![Program] =
                                 Node(@.path, found, @.namespace)], new, added)
             /\ scopes' = WithScopes(new)
    <3> DEFINE passed == [nodes EXCEPT ![Program] = Node(@.path, found, @.namespace)]
    <3>1. /\ DOMAIN passed = DOMAIN nodes
          /\ passed[Program] = Node(nodes[Program].path, found, nodes[Program].namespace)
          /\ \A n \in DOMAIN nodes : n # Program => passed[n] = nodes[n]
      BY <2>0
    <3>2. ASSUME NEW n \in new
          PROVE  path(n) \in DOMAIN input.files /\ added[n] = NewNode(path(n))
      <4>1. (CHOOSE i \in found : n = Child(Program, i)) \in found
        OBVIOUS
      <4>2. path(n) \in paths(CHOOSE i \in found : n = Child(Program, i))
        BY <4>1
      <4> QED BY <4>2 DEF IncludeFile
    <3>3. found \subseteq Nat /\ new = {Child(Program, i) : i \in found}
      OBVIOUS
    <3> HIDE DEF passed, added, found, path, new
    <3>4. /\ DOMAIN nodes' = DOMAIN nodes \cup new
          /\ \A n \in DOMAIN nodes' : nodes'[n] = IF n \in new THEN added[n] ELSE passed[n]
      BY <2>1, <3>1 DEF Bind, passed
    <3>5. DOMAIN scopes' = DOMAIN nodes \cup new
      BY <2>0, <2>1 DEF Bind, WithScopes
    <3>6. ASSUME NEW n \in DOMAIN nodes'
          PROVE  /\ nodes'[n].path \in DOMAIN input.files
                 /\ nodes'[n].includes \subseteq Nat
                 /\ {Child(n, i) : i \in nodes'[n].includes} \subseteq DOMAIN nodes'
      <4>1. CASE n \in new
        <5>1. nodes'[n] = NewNode(path(n)) /\ path(n) \in DOMAIN input.files
          BY <3>2, <3>4, <4>1
        <5>2. nodes'[n].path = path(n) /\ nodes'[n].includes = {}
          BY <5>1, NewNodeIsEmpty
        <5> QED BY <5>1, <5>2
      <4>2. CASE n \notin new /\ n = Program
        <5>1. nodes'[n] = Node(nodes[n].path, found, nodes[n].namespace)
          BY <3>1, <3>4, <4>2
        <5>2. nodes'[n].path = nodes[n].path /\ nodes'[n].includes = found
          BY <5>1 DEF Node
        <5>3. nodes[n].path \in DOMAIN input.files
          BY <2>0, <4>2
        <5> QED BY <3>3, <3>4, <4>2, <5>2, <5>3
      <4>3. CASE n \notin new /\ n # Program
        <5>1. n \in DOMAIN nodes /\ nodes'[n] = nodes[n]
          BY <3>1, <3>4, <4>3
        <5> QED BY <2>0, <3>4, <5>1 DEF IncludesOf
      <4> QED BY <4>1, <4>2, <4>3
    <3> QED BY <1>1, <2>0, <3>4, <3>5, <3>6 DEF TreeInv, IncludesOf
  <2>2. CASE /\ nodes' = [nodes EXCEPT ![Program] =
                            Node(@.path, @.includes, File.namespace)]
             /\ UNCHANGED scopes
    <3>1. /\ DOMAIN nodes' = DOMAIN nodes
          /\ \A n \in DOMAIN nodes : n # Program => nodes'[n] = nodes[n]
          /\ nodes'[Program] = Node(nodes[Program].path, nodes[Program].includes,
                                    File.namespace)
      BY <2>0, <2>2
    <3>2. ASSUME NEW n \in DOMAIN nodes
          PROVE  nodes'[n].path = nodes[n].path /\ nodes'[n].includes = nodes[n].includes
      BY <3>1 DEF Node
    <3> QED BY <1>1, <2>0, <2>2, <3>1, <3>2 DEF TreeInv, IncludesOf
  <2> QED BY <2>1, <2>2 DEF ReadHeaders
<1>3. ParserInv'
  <2>1. stack' \in Seq([node : DOMAIN nodes', parent : DOMAIN nodes' \cup {NoNode},
                        child : Int])
    <3> DEFINE Old == [node : DOMAIN nodes, parent : DOMAIN nodes \cup {NoNode}, child : Int]
               New == [node : DOMAIN nodes', parent : DOMAIN nodes' \cup {NoNode}, child : Int]
    <3>1. stack \in Seq(Old) /\ stack' = stack
      BY <1>1 DEF Inv, ParserInv
    <3>2. Old \subseteq New
      BY <1>2
    <3> HIDE DEF Old, New
    <3>3. stack \in Seq(New)
      BY <3>1, <3>2, SeqMonotonic
    <3> QED BY <3>1, <3>3 DEF New
  <2> QED BY <1>1, <1>2, <2>1 DEF Inv, ParserInv, Mode, Program
<1>4. CursorInv'
  BY <1>1 DEF Inv, CursorInv, Stages
<1>5. MembersInv' /\ ListsInv' /\ DeclsInv'
  BY <1>1 DEF Inv, MembersInv, ListsInv, DeclsInv, Ordered
<1> QED BY <1>2, <1>3, <1>4, <1>5 DEF Inv

(* Opening a list leaves the cursor in its definition.                     *)
LEMMA ListIsOpened ==
  ASSUME Inv, NEW list \in Nat \ {0},
         cursor' = At("fields", cursor.def, list, 1)
  PROVE  /\ cursor' \in [stage : Stages, def : Nat \ {0}, list : Nat \ {0},
                         field : Nat \ {0}]
         /\ cursor'.stage = "fields"
         /\ cursor'.def = cursor.def
         /\ cursor'.list = list
<1>1. cursor \in [stage : Stages, def : Nat \ {0}, list : Nat \ {0}, field : Nat \ {0}]
  BY DEF Inv, CursorInv
<1> QED BY <1>1 DEF At, Stages

(* A definition is opened: its first list of fields has nothing in it.    *)
LEMMA StartDefinitionKeepsInv ==
  ASSUME Inv, StartDefinition
  PROVE  Inv'
<1>1. CASE Stop("failed")
  BY <1>1, StopKeepsInv
<1>2. CASE ~Stop("failed")
  <2>1. /\ UNCHANGED <<input, status, globals, stack, treeVars>>
        /\ lists' = <<>>
        /\ \/ /\ Len(Def.lists) = 0
              /\ cursor' = [cursor EXCEPT !.stage = "defined"]
              /\ UNCHANGED <<fieldVal, members>>
           \/ Len(Def.lists) # 0 /\ OpenList(1)
    BY <1>2 DEF StartDefinition
  <2>2. ParserInv' /\ TreeInv' /\ DeclsInv'
    BY <2>1 DEF Inv, ParserInv, TreeInv, DeclsInv, treeVars, Mode, Program,
                IncludesOf, Ordered
  <2>3. MembersInv' /\ ListsInv'
    BY <2>1 DEF Inv, MembersInv, ListsInv, OpenList, Ordered
  <2>4. CursorInv'
    <3>1. CASE cursor' = [cursor EXCEPT !.stage = "defined"]
      BY <3>1 DEF Inv, CursorInv, Stages
    <3>2. CASE Len(Def.lists) # 0 /\ OpenList(1)
      <4>1. cursor' = At("fields", cursor.def, 1, 1)
        BY <3>2 DEF OpenList
      <4>2. cursor.def \in Nat /\ cursor.def >= 1 /\ cursor.def <= Len(File.defs)
        BY DEF StartDefinition, Inv, CursorInv
      <4>3. input \in Inputs /\ nodes[Program].path \in DOMAIN input.files
        BY DEF Inv, ParserInv, TreeInv
      <4>4. Len(File.defs) \in Nat /\ Len(Def.lists) \in Nat
        <5>1. Len(input.files[nodes[Program].path].defs) \in Nat
          BY <4>3, InputsAssumption
        <5>2. cursor.def \in 1..Len(input.files[nodes[Program].path].defs)
          BY <4>2, <5>1 DEF File
        <5>3. Len(input.files[nodes[Program].path].defs[cursor.def].lists) \in Nat
          BY <4>3, <5>2, InputsAssumption
        <5> QED BY <5>1, <5>3 DEF File, Def
      <4>5. cursor'.stage = "fields" /\ cursor'.def = cursor.def /\ cursor'.list = 1
            /\ cursor' \in [stage : Stages, def : Nat \ {0}, list : Nat \ {0}, field : Nat \ {0}]
        BY <4>1, ListIsOpened
      <4>6. File' = File /\ Def' = Def
        <5>1. File' = File
          BY <2>1 DEF File, Program, treeVars
        <5> QED BY <4>5, <5>1 DEF Def
      <4>7. DOMAIN lists' = 1..(cursor'.list - 1)
        BY <2>1, <4>5
      <4> QED BY <3>2, <4>2, <4>4, <4>5, <4>6, <4>7 DEF CursorInv
    <3> QED BY <2>1, <3>1, <3>2
  <2> QED BY <2>2, <2>3, <2>4 DEF Inv
<1> QED BY <1>1, <1>2

(* A field is appended in order of the file, or inserted by its key.      *)
LEMMA ReadFieldKeepsInv ==
  ASSUME Inv, ReadField
  PROVE  Inv'
<1> DEFINE f == Fields[cursor.field]
           elem == ParsedField(f)
<1>1. CASE Stop("failed") \/ \E how \in Failures(elem.default) : Stop(how)
  BY <1>1, StopKeepsInv, FailureIsKnown
<1>2. CASE /\ ~NameTaken(elem)
           /\ \E i \in 1..Len(members) + 1 :
                PlaceOf(elem, i) /\ members' = Insert(elem, i)
           /\ fieldVal' \in FieldValBehind(f)
           /\ cursor' = [cursor EXCEPT !.field = @ + 1]
           /\ UNCHANGED <<input, status, globals, stack, lists, treeVars>>
  <2>1. PICK i \in 1..Len(members) + 1 : PlaceOf(elem, i) /\ members' = Insert(elem, i)
    BY <1>2
  <2>2. Key(f, fieldVal) \in Int /\ fieldVal' \in Int
    BY <1>2, KeysAreIntegers DEF ReadField
  <2>3. elem.id \in Int
    BY <2>2 DEF ParsedField, Field
  <2>4. MembersInv /\ Ordered(members)
    BY DEF Inv, ListsInv
  <2>5. /\ Ordered(members')
        /\ Len(members') = Len(members) + 1
        /\ DOMAIN members' = 1..Len(members) + 1
        /\ \A j \in DOMAIN members' : members'[j].id \in Int
    BY <1>2, <2>1, <2>3, <2>4, InsertOrdered
  <2>6. MembersInv'
    BY <1>2, <2>2, <2>4, <2>5 DEF MembersInv
  <2>7. ListsInv'
    BY <1>2, <2>5 DEF Inv, ListsInv, Ordered
  <2>8. ParserInv' /\ TreeInv' /\ DeclsInv'
    BY <1>2 DEF Inv, ParserInv, TreeInv, DeclsInv, treeVars, Mode, Program,
                IncludesOf, Ordered
  <2>9. CursorInv'
    <3>1. /\ cursor' \in [stage : Stages, def : Nat \ {0}, list : Nat \ {0}, field : Nat \ {0}]
          /\ cursor'.stage = cursor.stage
          /\ cursor'.def = cursor.def
          /\ cursor'.list = cursor.list
      BY <1>2 DEF Inv, CursorInv
    <3>2. File' = File
      BY <1>2 DEF File, Program, treeVars
    <3>3. Def' = Def
      BY <3>1, <3>2 DEF Def
    <3> QED BY <1>2, <3>1, <3>2, <3>3 DEF Inv, CursorInv
  <2> QED BY <2>6, <2>7, <2>8, <2>9 DEF Inv
<1> QED BY <1>1, <1>2 DEF ReadField

(* A list is closed: the next one is opened, or the definition is added.  *)
LEMMA EndFieldListKeepsInv ==
  ASSUME Inv, EndFieldList
  PROVE  Inv'
<1>1. CASE Stop("hung") \/ Stop("failed")
  BY <1>1, StopKeepsInv
<1>2. CASE /\ lists' = [l \in 1..cursor.list |->
                          IF l = cursor.list THEN members ELSE lists[l]]
           /\ IF cursor.list < Len(Def.lists)
                THEN OpenList(cursor.list + 1)
                ELSE /\ cursor' = [cursor EXCEPT !.stage = "defined"]
                     /\ members' = <<>>
                     /\ UNCHANGED fieldVal
           /\ UNCHANGED <<input, status, globals, stack, treeVars>>
  <2>1. ParserInv' /\ TreeInv' /\ DeclsInv'
    BY <1>2 DEF Inv, ParserInv, TreeInv, DeclsInv, treeVars, Mode, Program,
                IncludesOf, Ordered
  <2>2. members' = <<>> /\ fieldVal' \in Int
    BY <1>2 DEF OpenList, Inv, MembersInv
  <2>3. MembersInv'
    BY <2>2 DEF MembersInv
  <2>4. ListsInv'
    <3>1. cursor.stage = "fields" /\ cursor.list \in Nat \ {0}
          /\ DOMAIN lists = 1..(cursor.list - 1)
      BY DEF Inv, CursorInv, EndFieldList
    <3>2. ASSUME NEW l \in DOMAIN lists'
          PROVE  Ordered(lists'[l])
      <4>1. l \in 1..cursor.list
        BY <1>2, <3>2
      <4>2. CASE l = cursor.list
        <5>1. lists'[l] = members
          BY <1>2, <4>1, <4>2
        <5> QED BY <5>1 DEF Inv, ListsInv, Ordered
      <4>3. CASE l # cursor.list
        <5>1. lists'[l] = lists[l] /\ l \in DOMAIN lists
          BY <1>2, <3>1, <4>1, <4>3
        <5> QED BY <5>1 DEF Inv, ListsInv, Ordered
      <4> QED BY <4>2, <4>3
    <3> QED BY <2>2, <3>2 DEF ListsInv, Ordered
  <2>5. CursorInv'
    <3>1. CASE cursor' = [cursor EXCEPT !.stage = "defined"]
      BY <3>1 DEF Inv, CursorInv, Stages
    <3>2. CASE cursor.list < Len(Def.lists) /\ OpenList(cursor.list + 1)
      <4>1. cursor' = At("fields", cursor.def, cursor.list + 1, 1)
        BY <3>2 DEF OpenList
      <4>2. /\ cursor' \in [stage : Stages, def : Nat \ {0}, list : Nat \ {0}, field : Nat \ {0}]
            /\ cursor'.def = cursor.def /\ cursor'.list = cursor.list + 1
        <5>1. cursor.list + 1 \in Nat \ {0}
          BY DEF Inv, CursorInv
        <5> QED BY <4>1, <5>1, ListIsOpened
      <4>3. File' = File
        BY <1>2 DEF File, Program, treeVars
      <4>4. Def' = Def
        BY <4>2, <4>3 DEF Def
      <4>5. /\ cursor.stage = "fields" /\ cursor.def <= Len(File.defs)
            /\ cursor.list \in Nat /\ Len(Def.lists) \in Nat
        BY FieldsAreThere DEF EndFieldList, Inv, CursorInv
      <4>6. DOMAIN lists' = 1..cursor.list /\ cursor'.list - 1 = cursor.list
            /\ cursor'.list <= Len(Def.lists)
        BY <1>2, <3>2, <4>2, <4>5
      <4> QED BY <4>2, <4>3, <4>4, <4>5, <4>6 DEF CursorInv
    <3> QED BY <1>2, <3>1, <3>2
  <2> QED BY <2>1, <2>3, <2>4, <2>5 DEF Inv
<1> QED BY <1>1, <1>2 DEF EndFieldList

(* Adding to the scopes adds no program.                                   *)
LEMMA DeclareKeepsDomain ==
  ASSUME NEW table, NEW names, NEW entry
  PROVE  DOMAIN Declare(table, names, entry) = DOMAIN scopes
BY DEF Declare

(* The fields of a definition are the lists that were read.                *)
LEMMA DeclIsOrdered ==
  ASSUME Inv, NEW value
  PROVE  /\ Decl(value).node = Program
         /\ \A l \in DOMAIN Decl(value).lists : Ordered(Decl(value).lists[l])
<1>1. \A l \in DOMAIN lists : Ordered(lists[l])
  BY DEF Inv, ListsInv
<1>2. ASSUME NEW fields, Ordered(fields)
      PROVE  Ordered(UnionMembers(fields))
  <2>1. DOMAIN UnionMembers(fields) = DOMAIN fields
    BY DEF UnionMembers
  <2>2. \A i \in DOMAIN fields : /\ UnionMembers(fields)[i].id = fields[i].id
                                 /\ UnionMembers(fields)[i].name = fields[i].name
    BY DEF UnionMembers, WithReq, Field
  <2> QED BY <1>2, <2>1, <2>2 DEF Ordered
<1>3. CASE Def.kind = "union"
  <2>1. Decl(value).lists = [l \in DOMAIN lists |-> UnionMembers(lists[l])]
    BY <1>3 DEF Decl, Declaration
  <2> QED BY <1>1, <1>2, <2>1 DEF Decl, Declaration
<1>4. CASE Def.kind # "union"
  <2>1. Decl(value).lists = lists
    BY <1>4 DEF Decl, Declaration
  <2> QED BY <1>1, <2>1 DEF Decl, Declaration
<1> QED BY <1>3, <1>4

(* What all definitions have in common.                                    *)
LEMMA AddedKeepsInv ==
  ASSUME Inv, NEW d, Added(d), d.node = Program,
         \A l \in DOMAIN d.lists : Ordered(d.lists[l]),
         DOMAIN scopes' = DOMAIN scopes
  PROVE  Inv'
<1>1. /\ UNCHANGED <<input, status, globals, stack, fieldVal, members, lists, nodes>>
      /\ decls' = decls \cup {d}
      /\ cursor' = [cursor EXCEPT !.stage = "definition", !.def = @ + 1]
  BY DEF Added, NextDefinition
<1>2. ParserInv'
  BY <1>1 DEF Inv, ParserInv, Mode, Program
<1>3. TreeInv'
  BY <1>1 DEF Inv, ParserInv, TreeInv, IncludesOf
<1>4. CursorInv'
  <2>1. /\ cursor \in [stage : Stages, def : Nat \ {0}, list : Nat \ {0},
                       field : Nat \ {0}]
        /\ cursor.def + 1 \in Nat \ {0}
    BY DEF Inv, CursorInv
  <2>2. /\ cursor' \in [stage : Stages, def : Nat \ {0}, list : Nat \ {0},
                        field : Nat \ {0}]
        /\ cursor'.stage = "definition"
    BY <1>1, <2>1 DEF Stages
  <2> QED BY <2>2 DEF CursorInv
<1>5. MembersInv' /\ ListsInv'
  BY <1>1 DEF Inv, MembersInv, ListsInv, Ordered
<1>6. DeclsInv'
  <2>1. \A e \in decls' : \A l \in DOMAIN e.lists : Ordered(e.lists[l])
    BY <1>1 DEF Inv, DeclsInv
  <2> QED BY <2>1 DEF DeclsInv, Ordered
<1> QED BY <1>2, <1>3, <1>4, <1>5, <1>6 DEF Inv

(* In the pass over includes a definition is read and dropped.            *)
LEMMA SkipDefinitionKeepsInv ==
  ASSUME Inv, SkipDefinition
  PROVE  Inv'
<1>1. /\ UNCHANGED <<input, status, globals, stack, fieldVal, members, lists, nodes,
                     scopes, decls>>
      /\ cursor' = [cursor EXCEPT !.stage = "definition", !.def = @ + 1]
  BY DEF SkipDefinition, NextDefinition, treeVars
<1>2. ParserInv' /\ TreeInv'
  BY <1>1 DEF Inv, ParserInv, TreeInv, Mode, Program, IncludesOf
<1>3. CursorInv'
  <2>1. /\ cursor \in [stage : Stages, def : Nat \ {0}, list : Nat \ {0},
                       field : Nat \ {0}]
        /\ cursor.def + 1 \in Nat \ {0}
    BY DEF Inv, CursorInv
  <2>2. /\ cursor' \in [stage : Stages, def : Nat \ {0}, list : Nat \ {0},
                        field : Nat \ {0}]
        /\ cursor'.stage = "definition"
    BY <1>1, <2>1 DEF Stages
  <2> QED BY <2>2 DEF CursorInv
<1>4. MembersInv' /\ ListsInv' /\ DeclsInv'
  BY <1>1 DEF Inv, MembersInv, ListsInv, DeclsInv, Ordered
<1> QED BY <1>2, <1>3, <1>4 DEF Inv

(* The definitions without fields; services bring theirs in lists.        *)
LEMMA DefinitionKeepsInv ==
  ASSUME Inv, DefineType \/ DefineEnum \/ DefineConst \/ DefineService
  PROVE  Inv'
<1>1. CASE Stop("failed")
  BY <1>1, StopKeepsInv
<1>2. ASSUME NEW value, Added(Decl(value)), DOMAIN scopes' = DOMAIN scopes
      PROVE  Inv'
  BY <1>2, DeclIsOrdered, AddedKeepsInv
<1>3. CASE DefineType
  <2>1. \/ Stop("failed")
        \/ /\ Added(Decl(NoValue))
           /\ \E table, names, entry : scopes' = Declare(table, names, entry)
    BY <1>3 DEF DefineType
  <2> QED BY <1>1, <1>2, <2>1, DeclareKeepsDomain
<1>4. CASE DefineEnum
  <2>1. \/ Stop("failed")
        \/ Added(Decl(NoValue)) /\ DOMAIN scopes' = DOMAIN scopes
    BY <1>4 DEF DefineEnum
  <2> QED BY <1>1, <1>2, <2>1
<1>5. CASE DefineConst
  <2> DEFINE value == ConstValue(Def.value, FieldType(Def.type))
  <2>1. \/ Stop("failed")
        \/ \E how \in Failures(value) : Stop(how)
        \/ /\ Added(Decl(value))
           /\ \E table, names, entry : scopes' = Declare(table, names, entry)
    BY <1>5 DEF DefineConst
  <2> QED BY <1>1, <1>2, <2>1, DeclareKeepsDomain, FailureIsKnown, StopKeepsInv
<1>6. CASE DefineService
  <2>1. \/ Stop("failed")
        \/ /\ Added(Decl(NoValue))
           /\ \E table, names, entry : scopes' = Declare(table, names, entry)
    BY <1>6 DEF DefineService
  <2> QED BY <1>1, <1>2, <2>1, DeclareKeepsDomain
<1> QED BY <1>3, <1>4, <1>5, <1>6

(* The file ends: the cursor returns to the call of parse() below it.     *)
LEMMA EndOfFileKeepsInv ==
  ASSUME Inv, EndOfFile
  PROVE  Inv'
<1> DEFINE Frames == [node : DOMAIN nodes, parent : DOMAIN nodes \cup {NoNode},
                      child : Int]
<1>1. /\ UNCHANGED <<input, globals, fieldVal, members, lists, nodes, scopes, decls>>
      /\ cursor' = [cursor EXCEPT !.stage = "recurse"]
      /\ \/ UNCHANGED <<stack, status>>
         \/ /\ stack' = SubSeq(stack, 1, Len(stack) - 1)
            /\ status' = IF Len(stack) = 1 THEN "generating" ELSE status
  BY DEF EndOfFile, treeVars
<1>2. stack \in Seq(Frames) /\ stack # <<>>
  BY DEF Inv, ParserInv, EndOfFile
<1>3. Len(stack) \in Nat \ {0} /\ Len(stack) <= MaxDepth
  BY <1>2 DEF Inv, ParserInv
<1> HIDE DEF Frames
<1>4. stack' \in Seq(Frames) /\ Len(stack') <= MaxDepth
      /\ (Len(stack) # 1 => stack' # <<>>)
  <2>1. CASE UNCHANGED stack
    BY <1>2, <1>3, <2>1
  <2>2. CASE stack' = SubSeq(stack, 1, Len(stack) - 1)
    <3>1. \A j \in 1..(Len(stack) - 1) : stack[j] \in Frames
      BY <1>2, <1>3
    <3>2. /\ stack' \in Seq(Frames)
          /\ Len(stack') = IF 1 <= Len(stack) - 1 THEN Len(stack) - 1 ELSE 0
      BY <1>3, <2>2, <3>1, SubSeqProperties
    <3>3. Len(stack) # 1 => Len(stack') # 0
      <4> DEFINE n == Len(stack)
                 m == Len(stack')
      <4>1. n \in Nat \ {0} /\ m = IF 1 <= n - 1 THEN n - 1 ELSE 0
        BY <1>3, <3>2
      <4> HIDE DEF n, m
      <4>2. n # 1 => m # 0
        BY <4>1
      <4> QED BY <4>2 DEF n, m
    <3>4. Len(stack') <= MaxDepth
      BY <1>3, <3>2, BoundsAssumption
    <3>5. stack' = <<>> => Len(stack') = 0
      OBVIOUS
    <3> QED BY <3>2, <3>3, <3>4, <3>5
  <2> QED BY <1>1, <2>1, <2>2
<1> USE DEF Frames
<1>5. status' = "parsing" => stack' # <<>>
  BY <1>1, <1>2, <1>4
<1>6. status' \in {"parsing", "generating"}
  BY <1>1 DEF EndOfFile
<1>7. ParserInv'
  BY <1>1, <1>4, <1>5, <1>6 DEF Inv, ParserInv, Mode, Program
<1>8. TreeInv'
  BY <1>1 DEF Inv, TreeInv, IncludesOf
<1>9. CursorInv'
  BY <1>1 DEF Inv, CursorInv, Stages
<1>10. MembersInv' /\ ListsInv' /\ DeclsInv'
  BY <1>1 DEF Inv, MembersInv, ListsInv, DeclsInv, Ordered
<1> QED BY <1>7, <1>8, <1>9, <1>10 DEF Inv

(* The call of parse() that runs is for a program of the tree.             *)
LEMMA CallerIsThere ==
  ASSUME Inv, status = "parsing"
  PROVE  /\ Len(stack) \in Nat \ {0}
         /\ Caller \in [node : DOMAIN nodes, parent : DOMAIN nodes \cup {NoNode},
                        child : Int]
<1> DEFINE Frames == [node : DOMAIN nodes, parent : DOMAIN nodes \cup {NoNode},
                      child : Int]
<1>1. stack \in Seq(Frames) /\ stack # <<>>
  BY DEF Inv, ParserInv
<1>2. Len(stack) \in Nat \ {0}
  BY <1>1
<1>3. stack[Len(stack)] \in Frames
  <2> HIDE DEF Frames
  <2> QED BY <1>1, <1>2
<1> QED BY <1>2, <1>3 DEF Caller, Last1

(* parse() calls itself for an included program.                          *)
LEMMA ParseIncludeKeepsInv ==
  ASSUME Inv, ParseInclude
  PROVE  Inv'
<1> DEFINE Frames == [node : DOMAIN nodes, parent : DOMAIN nodes \cup {NoNode},
                      child : Int]
<1>1. PICK i \in nodes[Caller.node].includes :
        LET node == Child(Caller.node, i)
        IN  IF Len(stack) = MaxDepth
              THEN Stop("overflow")
              ELSE /\ stack' = Append([stack EXCEPT ![Len(stack)] =
                                         Frame(@.node, @.parent, i)],
                                      Frame(node, Caller.node, 0))
                   /\ globals' = Globals("INCLUDES", Directory(nodes[node].path),
                                    node, globals.parent, globals.prefix)
                   /\ cursor' = AtHeaders
                   /\ UNCHANGED <<input, status, fieldVal, members, lists, treeVars>>
  BY DEF ParseInclude
<1> DEFINE node == Child(Caller.node, i)
<1>2. CASE Stop("overflow")
  BY <1>2, StopKeepsInv
<1>3. CASE /\ Len(stack) # MaxDepth
           /\ stack' = Append([stack EXCEPT ![Len(stack)] = Frame(@.node, @.parent, i)],
                              Frame(node, Caller.node, 0))
           /\ globals' = Globals("INCLUDES", Directory(nodes[node].path),
                            node, globals.parent, globals.prefix)
           /\ cursor' = AtHeaders
           /\ UNCHANGED <<input, status, fieldVal, members, lists, treeVars>>
  <2>1. Len(stack) \in Nat \ {0} /\ Caller \in Frames
    BY CallerIsThere DEF ParseInclude
  <2>2. node \in DOMAIN nodes /\ i \in Int
    BY <2>1 DEF Inv, TreeInv, IncludesOf
  <2>3. Frame(Caller.node, Caller.parent, i) \in Frames
        /\ Frame(node, Caller.node, 0) \in Frames
    BY <2>1, <2>2 DEF Frame
  <2>4. stack \in Seq(Frames)
    BY DEF Inv, ParserInv
  <2>5. [stack EXCEPT ![Len(stack)] = Frame(@.node, @.parent, i)] \in Seq(Frames)
        /\ Len([stack EXCEPT ![Len(stack)] = Frame(@.node, @.parent, i)]) = Len(stack)
    BY <2>1, <2>3, <2>4 DEF Caller, Last1
  <2>6. stack' \in Seq(Frames) /\ Len(stack') = Len(stack) + 1 /\ stack' # <<>>
    <3> DEFINE s == [stack EXCEPT ![Len(stack)] = Frame(@.node, @.parent, i)]
               f == Frame(node, Caller.node, 0)
    <3>1. /\ s \in Seq(Frames) /\ Len(s) = Len(stack) /\ f \in Frames
          /\ stack' = Append(s, f)
      BY <1>3, <2>3, <2>5
    <3> HIDE DEF s, f, Frames
    <3> QED
      BY <2>1, <3>1
  <2>7. Len(stack') <= MaxDepth
    BY <1>3, <2>1, <2>6, BoundsAssumption DEF Inv, ParserInv
  <2>8. ParserInv'
    BY <1>3, <2>2, <2>6, <2>7 DEF Inv, ParserInv, Mode, Program, Globals, treeVars
  <2>9. TreeInv' /\ CursorInv'
    BY <1>3 DEF Inv, TreeInv, IncludesOf, CursorInv, AtHeaders, At, Stages, treeVars
  <2>10. MembersInv' /\ ListsInv' /\ DeclsInv'
    BY <1>3 DEF Inv, MembersInv, ListsInv, DeclsInv, Ordered, treeVars
  <2> QED BY <2>8, <2>9, <2>10 DEF Inv
<1> QED BY <1>1, <1>2, <1>3

(* parse() starts its second pass over the file of its program.           *)
LEMMA ProgramPassKeepsInv ==
  ASSUME Inv, ProgramPass
  PROVE  Inv'
<1>1. /\ globals' = Globals("PROGRAM", globals.curdir, Caller.node, Caller.parent,
                            ProgramName(Caller.node))
      /\ cursor' = AtHeaders
      /\ UNCHANGED <<input, status, stack, fieldVal, members, lists, nodes, scopes, decls>>
  BY DEF ProgramPass, treeVars
<1>2. Caller.node \in DOMAIN nodes /\ Caller.parent \in DOMAIN nodes \cup {NoNode}
  BY CallerIsThere DEF ProgramPass
<1>3. ParserInv'
  BY <1>1, <1>2 DEF Inv, ParserInv, Mode, Program, Globals
<1>4. TreeInv' /\ CursorInv'
  BY <1>1 DEF Inv, TreeInv, IncludesOf, CursorInv, AtHeaders, At, Stages
<1>5. MembersInv' /\ ListsInv' /\ DeclsInv'
  BY <1>1 DEF Inv, MembersInv, ListsInv, DeclsInv, Ordered
<1> QED BY <1>3, <1>4, <1>5 DEF Inv

(* Every step of the parser.                                              *)
LEMMA ParserNextKeepsInv ==
  ASSUME Inv, ParserNext
  PROVE  Inv'
BY ReadHeadersKeepsInv, StartDefinitionKeepsInv, ReadFieldKeepsInv,
   EndFieldListKeepsInv, SkipDefinitionKeepsInv, DefinitionKeepsInv,
   EndOfFileKeepsInv, ParseIncludeKeepsInv, ProgramPassKeepsInv DEF ParserNext
-----------------------------------------------------------------------------
(* A step of generate() that leaves the parser and its tree alone.         *)
LEMMA ParserUnchangedKeepsInv ==
  ASSUME Inv, UNCHANGED parserVars
  PROVE  Inv'
<1>1. UNCHANGED <<input, status, globals, stack, cursor, fieldVal, members, lists,
                  nodes, scopes, decls>>
  BY DEF parserVars, readerVars, treeVars
<1>2. ParserInv' /\ TreeInv'
  BY <1>1 DEF Inv, ParserInv, TreeInv, Mode, Program, IncludesOf
<1>3. CursorInv'
  BY <1>1 DEF Inv, CursorInv, File, Def, Program
<1>4. MembersInv' /\ ListsInv' /\ DeclsInv'
  BY <1>1 DEF Inv, MembersInv, ListsInv, DeclsInv, Ordered
<1> QED BY <1>2, <1>3, <1>4 DEF Inv

(* What the Go generator does to the tree leaves its structs in order.     *)
LEMMA LeftByIsOrdered ==
  ASSUME Inv, NEW target, NEW node
  PROVE  \A d \in LeftBy(target, node) :
           d.node \in DOMAIN nodes /\ \A l \in DOMAIN d.lists : Ordered(d.lists[l])
<1>1. ASSUME NEW d \in decls
      PROVE  /\ OptionalThrows(d).node = d.node
             /\ \A l \in DOMAIN OptionalThrows(d).lists : Ordered(OptionalThrows(d).lists[l])
  <2>1. CASE d.kind # "service"
    BY <2>1 DEF OptionalThrows, Inv, DeclsInv
  <2>2. CASE d.kind = "service"
    <3> DEFINE optional(l) == [i \in DOMAIN d.lists[l] |-> WithReq(d.lists[l][i], "optional")]
               o == OptionalThrows(d)
    <3>1. /\ o.node = d.node
          /\ o.lists = [l \in DOMAIN d.lists |-> IF l = 2 THEN optional(l) ELSE d.lists[l]]
      BY <2>2 DEF OptionalThrows, Declaration
    <3>2. ASSUME NEW l \in DOMAIN d.lists
          PROVE  Ordered(optional(l))
      <4>1. \A i \in DOMAIN d.lists[l] : /\ optional(l)[i].id = d.lists[l][i].id
                                         /\ optional(l)[i].name = d.lists[l][i].name
        BY DEF WithReq, Field
      <4>2. Ordered(d.lists[l]) /\ DOMAIN optional(l) = DOMAIN d.lists[l]
        BY DEF Inv, DeclsInv
      <4> QED BY <4>1, <4>2 DEF Ordered
    <3> QED BY <3>1, <3>2 DEF Inv, DeclsInv
  <2> QED BY <2>1, <2>2
<1>2. \A d \in decls : d.node \in DOMAIN nodes /\ \A l \in DOMAIN d.lists : Ordered(d.lists[l])
  BY DEF Inv, TreeInv, DeclsInv
<1>3. \A e \in LeftBy(target, node) : e \in decls \/ \E d \in decls : e = OptionalThrows(d)
  BY DEF LeftBy, DeclsOf
<1> QED BY <1>1, <1>2, <1>3

(* A generator reads the tree and writes back only what LeftBy says.      *)
LEMMA GenerateKeepsInv ==
  ASSUME Inv, Generate
  PROVE  Inv'
<1>1. CASE \E how \in {"failed", "crashed", "hung"} : Stop(how)
  BY <1>1, StopKeepsInv
<1>2. CASE UNCHANGED parserVars
  BY <1>2, ParserUnchangedKeepsInv
<1>3. ASSUME NEW target, NEW node, decls' = LeftBy(target, node),
             UNCHANGED <<input, status, globals, stack, readerVars, nodes, scopes>>
      PROVE  Inv'
  <2>1. /\ UNCHANGED <<input, status, globals, stack, cursor, fieldVal, members, lists,
                       nodes, scopes>>
    BY <1>3 DEF readerVars
  <2>2. \A d \in decls' :
          d.node \in DOMAIN nodes /\ \A l \in DOMAIN d.lists : Ordered(d.lists[l])
    BY <1>3, LeftByIsOrdered
  <2>3. ParserInv' /\ TreeInv'
    BY <2>1, <2>2 DEF Inv, ParserInv, TreeInv, Mode, Program, IncludesOf
  <2>4. CursorInv'
    BY <2>1 DEF Inv, CursorInv, File, Def, Program
  <2>5. MembersInv' /\ ListsInv' /\ DeclsInv'
    BY <2>1, <2>2 DEF Inv, MembersInv, ListsInv, DeclsInv, Ordered
  <2> QED BY <2>3, <2>4, <2>5 DEF Inv
<1> QED BY <1>1, <1>2, <1>3 DEF Generate

(* The driver goes on to the next generator, or exits.                    *)
LEMMA EndGenerateKeepsInv ==
  ASSUME Inv, EndGenerate
  PROVE  Inv'
<1>1. /\ status' \in {"generating", "exited"}
      /\ UNCHANGED <<input, globals, stack, cursor, fieldVal, members, lists,
                     nodes, scopes, decls>>
  BY DEF EndGenerate, readerVars, treeVars
<1>2. ParserInv' /\ TreeInv'
  BY <1>1 DEF Inv, ParserInv, TreeInv, Mode, Program, IncludesOf
<1>3. CursorInv'
  BY <1>1 DEF Inv, CursorInv, File, Def, Program
<1>4. MembersInv' /\ ListsInv' /\ DeclsInv'
  BY <1>1 DEF Inv, MembersInv, ListsInv, DeclsInv, Ordered
<1> QED BY <1>2, <1>3, <1>4 DEF Inv

(* The invariant: it needs the tree and the cursor to know that the ids    *)
(* are integers, and those to know where a field has its place.            *)
THEOREM InvIsInvariant == Spec => []Inv
<1>1. Inv /\ [Next]_vars => Inv'
  <2> SUFFICES ASSUME Inv, [Next]_vars PROVE Inv'
    OBVIOUS
  <2>1. CASE Parse
    BY <2>1, ParserNextKeepsInv DEF Parse
  <2>2. CASE StartGenerating \/ GenerateInclude \/ GenerateUnknown \/ UNCHANGED vars
    <3>1. UNCHANGED parserVars
      BY <2>2 DEF StartGenerating, GenerateInclude, GenerateUnknown, vars
    <3> QED BY <3>1, ParserUnchangedKeepsInv
  <2>3. CASE Generate
    BY <2>3, GenerateKeepsInv
  <2>4. CASE EndGenerate
    BY <2>4, EndGenerateKeepsInv
  <2> QED BY <2>1, <2>2, <2>3, <2>4 DEF Next
<1> QED BY <1>1, InitEstablishesInv, PTL DEF Spec

(* The globals of parse(), its stack and the tree of programs always refer *)
(* to programs and files that exist.                                       *)
THEOREM TypeCorrect == Spec => []TypeOK
<1>1. Inv => TypeOK
  BY DEF Inv, ParserInv, TreeInv, MembersInv, TypeOK
<1> QED BY <1>1, InvIsInvariant, PTL

(* In every struct, argument list and throws clause, also after the Go     *)
(* generator has changed it, the fields are in the strict order of their   *)
(* ids and have different names: t_struct::append() and the keys that the  *)
(* grammar gives leave no other outcome, for any file and option.          *)
THEOREM StructsAlwaysWellFormed == Spec => []StructsWellFormed
<1>1. Inv => StructsWellFormed
  BY DEF Inv, ListsInv, DeclsInv, StructsWellFormed
<1> QED BY <1>1, InvIsInvariant, PTL

-----------------------------------------------------------------------------
(* What is read, parsed and generated, against what the files declare.     *)

(* The definitions of the file that a program is parsed from.              *)
DefsOf(n) == input.files[nodes[n].path].defs

(* A list holds the first n fields of one that is declared.                *)
AsRead(in, list, fields, n, kind) ==
  /\ n <= Len(fields)
  /\ Len(list) = n /\ DOMAIN list = 1..n
  /\ \/ \E i \in 1..n : ~Regular(in, fields, i)
     \/ \A i \in 1..n : \E j \in 1..n :
          /\ list[j].name = fields[i].name
          /\ list[j].id = DeclaredKey(in, fields, i)
          /\ list[j].req = IF fields[i].req = "optional" /\ kind = "service"
                           THEN "default" ELSE fields[i].req

(* What the reader has of the definition it is in.                         *)
KeyInv ==
  LET read == cursor.field - 1
      next == AutomaticKey(input, Fields, read)
  IN  /\ LastAnchor(input, Fields, read) \in 0..read
      /\ next \in Int /\ next < 0
      /\ next >= -KeyRange /\ (\A j \in 1..read : Fields[j].attrs = <<>>) => fieldVal = next
ReaderInv ==
  /\ cursor.def <= Len(File.defs) + 1
  /\ cursor.stage = "headers" => cursor.def = 1
  /\ cursor.stage = "fields" =>
       /\ AsRead(input, members, Fields, cursor.field - 1, Def.kind)
       /\ KeyInv
       /\ \A l \in 1..(cursor.list - 1) :
            AsRead(input, lists[l], Def.lists[l], Len(Def.lists[l]), Def.kind)
  /\ cursor.stage = "defined" =>
       /\ cursor.def <= Len(File.defs)
       /\ Len(lists) = Len(Def.lists) /\ DOMAIN lists = 1..Len(Def.lists)
       /\ \A l \in DOMAIN lists :
            AsRead(input, lists[l], Def.lists[l], Len(Def.lists[l]), Def.kind)

(* A program has m definitions: the first m of its file.                   *)
Reflects(n, m, afterGo) ==
  /\ IsFiniteSet(DeclsOf(n)) /\ Cardinality(DeclsOf(n)) = m
  /\ \A k \in 1..m : \E d \in DeclsOf(n) : DeclaredAs(input, d, DefsOf(n)[k], afterGo)
Complete(n, afterGo) == Reflects(n, Len(DefsOf(n)), afterGo)

(* Names tell the definitions of a program apart, and keep others out; what *)
(* a definition has of lists are sequences.                                *)
Listed(d) ==
  /\ Len(d.lists) \in Nat /\ DOMAIN d.lists = 1..Len(d.lists)
  /\ \A l \in DOMAIN d.lists :
       Len(d.lists[l]) \in Nat /\ DOMAIN d.lists[l] = 1..Len(d.lists[l])
NamesInv ==
  /\ \A d \in decls : Listed(d)
  /\ \A d, e \in decls : d.node = e.node /\ d.kind = e.kind /\ d.name = e.name => d = e
  /\ \A n \in DOMAIN scopes : DOMAIN scopes[n] = {"types", "consts", "services"}
  /\ \A d \in decls : d.kind = "const" => <<d.name>> \in DOMAIN scopes[d.node].consts

(* The tree of programs, and the way down to the one that is parsed.       *)
NodesInv ==
  /\ Root \in DOMAIN nodes
  /\ \A n \in DOMAIN nodes :
       /\ n \in Seq(Nat)
       /\ nodes[n].includes \subseteq Nat \ {0}
       /\ n = Root \/ \E m \in DOMAIN nodes : \E i \in nodes[m].includes : n = Child(m, i)
Descent(calls) ==
  \A k \in 1..Len(calls) :
    /\ Len(calls[k].node) = k - 1
    /\ \A j \in 1..(k - 1) : calls[k].node[j] = calls[j].child

OnStack(n) == \E k \in 1..Len(stack) : stack[k].node = n
ToCome(n) ==
  \E k \in 1..Len(stack) : \E i \in nodes[stack[k].node].includes :
    i > stack[k].child /\ n = Child(stack[k].node, i)
InProgram == Mode = "PROGRAM" /\ cursor.stage # "recurse"

ParsingInv ==
  status = "parsing" =>
    /\ Descent(stack)
    /\ cursor.stage # "recurse" => Program = Caller.node
    /\ cursor.stage # "recurse" /\ Mode = "INCLUDES" => Caller.child = 0
    /\ cursor.stage = "headers" /\ Mode = "INCLUDES" => nodes[Program].includes = {}
    /\ InProgram => NoneComes(Caller) /\ Reflects(Program, cursor.def - 1, FALSE)
    /\ \A k \in 1..Len(stack) :
         k < Len(stack) \/ ~InProgram => DeclsOf(stack[k].node) = {}
    /\ \A n \in DOMAIN nodes : OnStack(n) \/ ToCome(n) \/ Complete(n, FALSE)
    /\ \A n \in DOMAIN nodes :
         ToCome(n) => nodes[n].includes = {} /\ DeclsOf(n) = {}

(* What the Go generator has changed is not generated again.               *)
Behind(n, k) ==
  /\ Len(n) >= k
  /\ \A j \in 1..(k - 1) : n[j] = generating[k].node[j]
  /\ IF k = Len(generating) THEN n[k] <= generating[k].child
     ELSE n[k] < generating[k].child
GoBefore(turn) == \E before \in 1..(turn - 1) : input.targets[before] = "go"
Passed(n) ==
  \/ generating # <<>> /\ n = Current.node /\ GoBefore(Current.turn)
  \/ \E k \in 1..Len(generating) : Behind(n, k)
GeneratingInv ==
  status = "generating" =>
    /\ stack = <<>>
    /\ generating \in Seq([node : DOMAIN nodes, child : Nat, turn : Nat \ {0}])
    /\ Descent(generating)
    /\ \A k \in 1..Len(generating) :
         /\ k < Len(generating) => generating[k].turn = 1
         /\ generating[k].turn > 1 => ~input.recurse \/ NoneComes(generating[k])
    /\ \A n \in DOMAIN nodes :
         Complete(n, FALSE) \/ (Complete(n, TRUE) /\ Passed(n))

SourceInv ==
  /\ ReaderInv /\ NamesInv /\ NodesInv /\ ParsingInv /\ GeneratingInv
  /\ status = "parsing" => generating = <<>>
  /\ TargetsSeeTheSource

-----------------------------------------------------------------------------
(* The keys of a list, field after field.                                  *)

(* A key that is an int32_t is left as it is.                              *)
LEMMA InInt32 ==
  ASSUME NEW v \in Int, -KeyRange <= v, v < KeyRange
  PROVE  ToInt32(v) = v
<1>1. KeyRange \in Nat \ {0}
  BY BoundsAssumption
<1>2. v + KeyRange \in Nat /\ v + KeyRange < 2 * KeyRange
  BY <1>1
<1>3. \A a \in Nat, b \in Nat : a < b => a % b = a
  OBVIOUS
<1>4. (v + KeyRange) % (2 * KeyRange) = v + KeyRange
  BY <1>1, <1>2, <1>3
<1> QED
  BY <1>1, <1>4 DEF ToInt32

(* The automatic key behind one more field.                                *)
LEMMA OneMoreKey ==
  ASSUME NEW in, NEW fields, NEW n \in Nat,
         \A j \in 1..(n + 1) : fields[j].id \in Int,
         LastAnchor(in, fields, n) \in 0..n
  PROVE  LET f == fields[n + 1]
             m == AutomaticKey(in, fields, n)
             next == AutomaticKey(in, fields, n + 1)
         IN  /\ LastAnchor(in, fields, n + 1) \in 0..(n + 1)
             /\ AutomaticIn(in, f) => next = m - 1
             /\ ~AutomaticIn(in, f) /\ f.id <= 0 => next = f.id - 1
             /\ ~AutomaticIn(in, f) /\ f.id > 0 => next = m
<1> DEFINE f == fields[n + 1]
           from == LastAnchor(in, fields, n)
           autos(a, b) == {j \in (a + 1)..b : AutomaticIn(in, fields[j])}
<1>1. f.id \in Int
  OBVIOUS
<1>2. CASE ~AutomaticIn(in, f) /\ f.id <= 0
  <2>1. n + 1 \in Anchors(in, fields, n + 1)
    BY <1>2 DEF Anchors
  <2>2. Anchors(in, fields, n + 1) \subseteq 1..(n + 1)
    BY DEF Anchors
  <2>3. \A j \in Anchors(in, fields, n + 1) :
          (\A k \in Anchors(in, fields, n + 1) : k <= j) => j = n + 1
    BY <2>1, <2>2
  <2>4. \A k \in Anchors(in, fields, n + 1) : k <= n + 1
    BY <2>2
  <2>5. LastAnchor(in, fields, n + 1) = n + 1
    BY <2>1, <2>3, <2>4 DEF LastAnchor
  <2>6. autos(n + 1, n + 1) = {}
    OBVIOUS
  <2>7. AutomaticKey(in, fields, n + 1) = f.id - 1 - Cardinality(autos(n + 1, n + 1))
    BY <2>5 DEF AutomaticKey
  <2>8. AutomaticKey(in, fields, n + 1) = f.id - 1
    BY <1>1, <2>6, <2>7, FS_EmptySet
  <2> QED
    BY <1>2, <2>5, <2>8
<1>3. CASE AutomaticIn(in, f) \/ f.id > 0
  <2>1. Anchors(in, fields, n + 1) = Anchors(in, fields, n)
    <3>1. \A j : j \in 1..(n + 1) <=> j \in 1..n \/ j = n + 1
      OBVIOUS
    <3>2. ~(f.id <= 0 /\ ~AutomaticIn(in, f))
      BY <1>1, <1>3
    <3> QED
      BY <3>1, <3>2 DEF Anchors
  <2>2. LastAnchor(in, fields, n + 1) = from
    <3> DEFINE latest(anchors) == IF anchors = {} THEN 0
                                  ELSE CHOOSE j \in anchors : \A k \in anchors : k <= j
    <3>1. /\ from = latest(Anchors(in, fields, n))
          /\ LastAnchor(in, fields, n + 1) = latest(Anchors(in, fields, n + 1))
      BY Zenon DEF LastAnchor
    <3> HIDE DEF latest
    <3> QED
      BY <2>1, <3>1, Zenon
  <2> DEFINE start == IF from = 0 THEN 0 ELSE fields[from].id
  <2>3. start \in Int
    OBVIOUS
  <2>4. /\ AutomaticKey(in, fields, n) = start - 1 - Cardinality(autos(from, n))
        /\ AutomaticKey(in, fields, n + 1) = start - 1 - Cardinality(autos(from, n + 1))
    BY <2>2 DEF AutomaticKey
  <2> HIDE DEF start
  <2>5. IsFiniteSet(autos(from, n)) /\ Cardinality(autos(from, n)) \in Nat
    <3>1. IsFiniteSet((from + 1)..n)
      BY FS_Interval
    <3>2. autos(from, n) \in SUBSET ((from + 1)..n)
      OBVIOUS
    <3> QED
      BY <3>1, <3>2, FS_Subset, FS_CardinalityType
  <2>6. CASE AutomaticIn(in, f)
    <3>1. autos(from, n + 1) = autos(from, n) \cup {n + 1}
      BY <2>6
    <3>2. n + 1 \notin autos(from, n)
      OBVIOUS
    <3> HIDE DEF autos, from
    <3>3. Cardinality(autos(from, n + 1)) = Cardinality(autos(from, n)) + 1
      BY <2>5, <3>1, <3>2, FS_AddElement
    <3> QED
      BY <2>2, <2>3, <2>4, <2>5, <2>6, <3>3 DEF from
  <2>7. CASE ~AutomaticIn(in, f)
    <3>1. autos(from, n + 1) = autos(from, n)
      BY <2>7
    <3> HIDE DEF autos
    <3> QED
      BY <1>1, <1>3, <2>2, <2>4, <2>7, <3>1
  <2> QED
    BY <2>6, <2>7
<1> QED
  BY <1>1, <1>2, <1>3

(* No field is read: -1 is the next automatic key.                         *)
LEMMA FirstKey ==
  ASSUME NEW in, NEW fields
  PROVE  LastAnchor(in, fields, 0) = 0 /\ AutomaticKey(in, fields, 0) = -1
<1>1. Anchors(in, fields, 0) = {}
  BY DEF Anchors
<1>2. LastAnchor(in, fields, 0) = 0
  BY <1>1 DEF LastAnchor
<1>3. {j \in (0 + 1)..0 : AutomaticIn(in, fields[j])} = {}
  OBVIOUS
<1>4. AutomaticKey(in, fields, 0) = 0 - 1 - Cardinality({})
  BY <1>2, <1>3 DEF AutomaticKey
<1> QED
  BY <1>2, <1>4, FS_EmptySet

(* Unless an id in the file is no int32_t, or xsd_attrs have set the       *)
(* counter back, the parser gives the field that it reads the key that is  *)
(* declared for it, and knows the next one.                                *)
LEMMA KeyAsDeclared ==
  ASSUME Inv, cursor.stage = "fields", cursor.field <= Len(Fields), KeyInv
  PROVE  LET f == Fields[cursor.field]
             next == AutomaticKey(input, Fields, cursor.field)
         IN  /\ Regular(input, Fields, cursor.field) =>
                  Key(f, fieldVal) = DeclaredKey(input, Fields, cursor.field)
             /\ next >= -KeyRange /\ (\A j \in 1..cursor.field : Fields[j].attrs = <<>>) =>
                  \A val \in FieldValBehind(f) : val = next
             /\ LastAnchor(input, Fields, cursor.field) \in 0..cursor.field
             /\ next \in Int /\ next < 0
<1> DEFINE i == cursor.field
           f == Fields[i]
           m == AutomaticKey(input, Fields, i - 1)
           next == AutomaticKey(input, Fields, i)
<1>1. i \in 1..Len(Fields) /\ Len(Fields) \in Nat
  BY FieldsAreThere DEF Inv, CursorInv
<1>2. f.id \in Int /\ \A j \in 1..i : Fields[j].id \in Int
  BY <1>1, FieldsAreThere
<1>3. /\ LastAnchor(input, Fields, i - 1) \in 0..(i - 1)
      /\ m \in Int /\ m < 0
      /\ m >= -KeyRange /\ (\A j \in 1..(i - 1) : Fields[j].attrs = <<>>) => fieldVal = m
  BY DEF KeyInv
<1>4. fieldVal \in Int
  BY DEF Inv, MembersInv
<1>5. i - 1 \in Nat /\ (i - 1) + 1 = i
  BY <1>1
<1>6. /\ LastAnchor(input, Fields, i) \in 0..i
      /\ AutomaticIn(input, f) => next = m - 1
      /\ ~AutomaticIn(input, f) /\ f.id <= 0 => next = f.id - 1
      /\ ~AutomaticIn(input, f) /\ f.id > 0 => next = m
  <2>1. LastAnchor(input, Fields, i - 1) \in 0..(i - 1) /\ m \in Int /\ m < 0
    BY <1>3
  <2> QED BY <1>2, <1>5, <2>1, OneMoreKey
<1>7. Automatic(f) <=> AutomaticIn(input, f)
  BY DEF Automatic, AutomaticIn
<1>8. Regular(input, Fields, i) =>
        /\ -KeyRange <= f.id /\ f.id < KeyRange
        /\ DeclaredKey(input, Fields, i) >= -KeyRange
        /\ AutomaticIn(input, f) => \A j \in 1..(i - 1) : Fields[j].attrs = <<>>
  BY <1>2, BoundsAssumption DEF Regular, InRange, CountsDown
<1>9. /\ AutomaticIn(input, f) => DeclaredKey(input, Fields, i) = m
      /\ ~AutomaticIn(input, f) => DeclaredKey(input, Fields, i) = f.id
  BY DEF DeclaredKey
<1>10. /\ Key(f, fieldVal) = IF AutomaticIn(input, f) THEN fieldVal ELSE ToInt32(f.id)
       /\ NextFieldVal(f, fieldVal) =
            IF AutomaticIn(input, f) THEN ToInt32(fieldVal - 1)
            ELSE IF f.id <= 0 THEN ToInt32(f.id - 1) ELSE fieldVal
  BY <1>7 DEF Key, NextFieldVal
<1> HIDE DEF i, f, m, next
<1>11. next \in Int /\ next < 0
  BY <1>2, <1>3, <1>6
<1>12. ASSUME Regular(input, Fields, i)
       PROVE  Key(f, fieldVal) = DeclaredKey(input, Fields, i)
  <2>1. CASE AutomaticIn(input, f)
    BY <1>3, <1>8, <1>9, <1>10, <1>12, <2>1
  <2>2. CASE ~AutomaticIn(input, f)
    BY <1>2, <1>8, <1>9, <1>10, <1>12, <2>2, InInt32
  <2> QED
    BY <2>1, <2>2
<1>13. ASSUME next >= -KeyRange, \A j \in 1..i : Fields[j].attrs = <<>>
       PROVE  NextFieldVal(f, fieldVal) = next
  <2>0. KeyRange \in Nat \ {0} /\ \A j \in 1..(i - 1) : Fields[j].attrs = <<>>
    BY <1>1, <1>13, BoundsAssumption
  <2>1. CASE AutomaticIn(input, f)
    <3>1. fieldVal = m /\ m - 1 = next
      BY <1>3, <1>6, <1>13, <2>0, <2>1
    <3>2. ToInt32(next) = next
      BY <1>11, <1>13, <2>0, InInt32
    <3> QED
      BY <1>10, <2>1, <3>1, <3>2
  <2>2. CASE ~AutomaticIn(input, f) /\ f.id <= 0
    <3>1. ToInt32(next) = next
      BY <1>11, <1>13, <2>0, InInt32
    <3> QED
      BY <1>6, <1>10, <2>2, <3>1
  <2>3. CASE ~AutomaticIn(input, f) /\ f.id > 0
    <3>1. next = m /\ fieldVal = m
      BY <1>3, <1>6, <1>13, <2>0, <2>3
    <3> QED
      BY <1>2, <1>10, <2>3, <3>1
  <2> QED
    BY <1>2, <2>1, <2>2, <2>3
<1>14. ASSUME \A j \in 1..i : Fields[j].attrs = <<>>, NEW val \in FieldValBehind(f)
       PROVE  val = NextFieldVal(f, fieldVal)
  <2>1. f.attrs = <<>>
    BY <1>1, <1>14 DEF f
  <2>2. Attributes(f) = {}
    BY <2>1 DEF Attributes
  <2> QED BY <1>14, <2>2 DEF FieldValBehind
<1> QED
  BY <1>6, <1>11, <1>12, <1>13, <1>14 DEF i, f, m, next

-----------------------------------------------------------------------------
(* The list that is read, and those before it.                             *)

(* All members stay, and the new one is among them.                        *)
LEMMA InsertKeepsAll ==
  ASSUME MembersInv, NEW elem, NEW i \in 1..Len(members) + 1
  PROVE  /\ Insert(elem, i)[i] = elem
         /\ \A j \in 1..Len(members) : \E k \in 1..Len(members) + 1 :
              Insert(elem, i)[k] = members[j]
<1>1. Len(members) \in Nat
  BY DEF MembersInv
<1>2. \A j \in 1..Len(members) + 1 :
        Insert(elem, i)[j] =
          IF j < i THEN members[j] ELSE IF j = i THEN elem ELSE members[j - 1]
  BY DEF Insert
<1>3. ASSUME NEW j \in 1..Len(members)
      PROVE  \E k \in 1..Len(members) + 1 : Insert(elem, i)[k] = members[j]
  <2>1. CASE j < i
    <3>1. j \in 1..Len(members) + 1 /\ Insert(elem, i)[j] = members[j]
      BY <1>1, <1>2, <2>1
    <3> QED
      BY <3>1
  <2>2. CASE j >= i
    <3>1. j + 1 \in 1..Len(members) + 1 /\ Insert(elem, i)[j + 1] = members[j]
      BY <1>1, <1>2, <2>2
    <3> QED
      BY <3>1
  <2> QED
    BY <1>1, <2>1, <2>2
<1> QED
  BY <1>2, <1>3

(* A field more is read, and kept under its declared key.                  *)
LEMMA FieldIsRead ==
  ASSUME Inv, ReaderInv, cursor.stage = "fields", cursor.field <= Len(Fields),
         NEW elem, elem = ParsedField(Fields[cursor.field]), ~NameTaken(elem),
         NEW i \in 1..Len(members) + 1, PlaceOf(elem, i)
  PROVE  AsRead(input, Insert(elem, i), Fields, cursor.field, Def.kind)
<1> DEFINE n == cursor.field - 1
           f == Fields[cursor.field]
           req(g) == IF g.req = "optional" /\ Def.kind = "service" THEN "default" ELSE g.req
           holds(m, g, k) == /\ m.name = g.name
                             /\ m.id = DeclaredKey(input, Fields, k)
                             /\ m.req = req(g)
           new == Insert(elem, i)
<1>1. /\ cursor.field \in 1..Len(Fields) /\ Len(Fields) \in Nat
      /\ n \in Nat /\ n + 1 = cursor.field
  BY FieldsAreThere DEF Inv, CursorInv
<1>2. /\ Len(members) = n
      /\ \/ \E k \in 1..n : ~Regular(input, Fields, k)
         \/ \A k \in 1..n : \E j \in 1..n : holds(members[j], Fields[k], k)
  BY DEF ReaderInv, AsRead
<1>3. elem.id = Key(f, fieldVal) /\ elem.name = f.name /\ elem.req = req(f)
  BY DEF ParsedField, Field, Requiredness
<1>4. MembersInv /\ Ordered(members) /\ elem.id \in Int
  BY <1>3, KeysAreIntegers DEF Inv, ListsInv
<1>5. Len(new) = cursor.field /\ DOMAIN new = 1..cursor.field
  BY <1>1, <1>2, <1>4, InsertOrdered
<1>6. new[i] = elem /\ \A j \in 1..n : \E k \in 1..cursor.field : new[k] = members[j]
  <2>1. /\ new[i] = elem
        /\ \A j \in 1..Len(members) : \E k \in 1..Len(members) + 1 : new[k] = members[j]
    BY <1>4, InsertKeepsAll
  <2>2. Len(members) + 1 = cursor.field
    BY <1>1, <1>2
  <2> HIDE DEF n, new
  <2> QED
    BY <1>2, <2>1, <2>2
<1>7. Regular(input, Fields, cursor.field) => elem.id = DeclaredKey(input, Fields, cursor.field)
  BY <1>3, KeyAsDeclared DEF ReaderInv
<1>8. \A k : k \in 1..cursor.field <=> k \in 1..n \/ k = cursor.field
  BY <1>1
<1>9. i \in 1..cursor.field
  BY <1>1, <1>2
<1> HIDE DEF n, new
<1>10. \/ \E k \in 1..cursor.field : ~Regular(input, Fields, k)
       \/ \A k \in 1..cursor.field : \E j \in 1..cursor.field : holds(new[j], Fields[k], k)
  <2> SUFFICES ASSUME \A k \in 1..cursor.field : Regular(input, Fields, k),
                      NEW k \in 1..cursor.field
               PROVE  \E j \in 1..cursor.field : holds(new[j], Fields[k], k)
    OBVIOUS
  <2>1. CASE k = cursor.field
    <3>1. holds(elem, Fields[k], k)
      BY <1>3, <1>7, <2>1
    <3> HIDE DEF holds
    <3> QED
      BY <1>6, <1>9, <3>1
  <2>2. CASE k \in 1..n
    <3>1. \A h \in 1..n : Regular(input, Fields, h)
      BY <1>8
    <3> HIDE DEF holds
    <3>2. PICK j \in 1..n : holds(members[j], Fields[k], k)
      BY <1>2, <2>2, <3>1
    <3>3. PICK h \in 1..cursor.field : new[h] = members[j]
      BY <1>6
    <3> QED
      BY <3>2, <3>3
  <2> QED
    BY <1>8, <2>1, <2>2
<1> QED
  BY <1>1, <1>5, <1>10 DEF AsRead, new

-----------------------------------------------------------------------------
(* Steps of the reader inside of a file.                                   *)

(* What is known of a program depends on its file and its definitions.     *)
LEMMA ReflectsUnchanged ==
  ASSUME UNCHANGED input, NEW n, DeclsOf(n)' = DeclsOf(n), nodes'[n].path = nodes[n].path,
         NEW m, NEW afterGo
  PROVE  /\ Reflects(n, m, afterGo)' <=> Reflects(n, m, afterGo)
         /\ Complete(n, afterGo)' <=> Complete(n, afterGo)
<1>1. DefsOf(n)' = DefsOf(n)
  BY DEF DefsOf
<1>2. ASSUME NEW l
      PROVE  Reflects(n, l, afterGo)' <=> Reflects(n, l, afterGo)
  BY <1>1 DEF Reflects
<1> QED
  BY <1>1, <1>2 DEF Complete

ReaderStep ==
  /\ UNCHANGED <<input, status, globals, stack, treeVars, generateVars>>
  /\ cursor.stage \in {"definition", "fields", "defined"}
  /\ cursor'.stage \in {"definition", "fields", "defined"}
  /\ Mode = "PROGRAM" => cursor'.def = cursor.def

(* A step of the reader leaves the programs: what it must keep is          *)
(* ReaderInv.                                                              *)
LEMMA ReaderStepKeepsSource ==
  ASSUME SourceInv, ReaderStep, ReaderInv'
  PROVE  SourceInv'
<1>1. /\ UNCHANGED <<input, status, globals, stack, nodes, scopes, decls, generating, output>>
      /\ cursor.stage \in {"definition", "fields", "defined"}
      /\ cursor'.stage \in {"definition", "fields", "defined"}
      /\ Mode = "PROGRAM" => cursor'.def = cursor.def
  BY DEF ReaderStep, treeVars, generateVars
<1>2. NamesInv' /\ NodesInv'
  <2>1. NamesInv'
    BY <1>1 DEF SourceInv, NamesInv
  <2>2. NodesInv'
    BY <1>1 DEF SourceInv, NodesInv
  <2> QED
    BY <2>1, <2>2
<1>3. \A n : DeclsOf(n)' = DeclsOf(n)
  BY <1>1 DEF DeclsOf
<1>4. \A n, m, afterGo : /\ Reflects(n, m, afterGo)' <=> Reflects(n, m, afterGo)
                         /\ Complete(n, afterGo)' <=> Complete(n, afterGo)
  BY <1>1, <1>3, ReflectsUnchanged
<1>5. ParsingInv'
  <2>1. /\ InProgram' <=> InProgram
        /\ UNCHANGED <<Caller, Program>>
        /\ NoneComes(Caller)' <=> NoneComes(Caller)
        /\ Descent(stack)' <=> Descent(stack)
        /\ \A n : OnStack(n)' <=> OnStack(n)
        /\ \A n : ToCome(n)' <=> ToCome(n)
    BY <1>1 DEF InProgram, Mode, Caller, Last1, Program, NoneComes, Descent, OnStack, ToCome
  <2> QED
    BY <1>1, <1>3, <1>4, <2>1 DEF SourceInv, ParsingInv, InProgram, Mode
<1>6. GeneratingInv'
  <2>1. /\ Descent(generating)' <=> Descent(generating)
        /\ \A n : Passed(n)' <=> Passed(n)
    BY <1>1 DEF Descent, Passed, Current, Last1, GoBefore, Behind
  <2> QED
    BY <1>1, <1>4, <2>1 DEF SourceInv, GeneratingInv, NoneComes
<1>7. TargetsSeeTheSource'
  BY <1>1 DEF SourceInv, TargetsSeeTheSource, AfterGo
<1> QED
  BY <1>1, <1>2, <1>5, <1>6, <1>7 DEF SourceInv

(* The compiler stops: what it had is left as it is.                       *)
LEMMA StopKeepsSource ==
  ASSUME SourceInv, NEW how \in {"failed", "crashed", "hung", "overflow"}, Stop(how),
         UNCHANGED generateVars
  PROVE  SourceInv'
<1>1. /\ UNCHANGED <<input, globals, stack, cursor, fieldVal, members, lists, nodes,
                     scopes, decls, generating, output>>
      /\ status' = how
  BY DEF Stop, readerVars, treeVars, generateVars
<1>2. NamesInv' /\ NodesInv'
  <2>1. NamesInv'
    BY <1>1 DEF SourceInv, NamesInv
  <2>2. NodesInv'
    BY <1>1 DEF SourceInv, NodesInv
  <2> QED
    BY <2>1, <2>2
<1>3. ReaderInv'
  <2>1. UNCHANGED <<File, Def, Fields>>
    BY <1>1 DEF File, Def, Fields, Program
  <2>2. KeyInv' <=> KeyInv
    BY <1>1, <2>1 DEF KeyInv
  <2> QED
    BY <1>1, <2>1, <2>2 DEF SourceInv, ReaderInv
<1>4. ParsingInv' /\ GeneratingInv'
  BY <1>1 DEF ParsingInv, GeneratingInv
<1>5. TargetsSeeTheSource'
  BY <1>1 DEF SourceInv, TargetsSeeTheSource, AfterGo
<1> QED
  BY <1>1, <1>2, <1>3, <1>4, <1>5 DEF SourceInv

(* A list is opened: nothing of it is read.                                *)
LEMMA OpenedList ==
  ASSUME NEW in, NEW fields, NEW kind, Len(fields) \in Nat
  PROVE  AsRead(in, <<>>, fields, 0, kind)
BY DEF AsRead

(* With a definition, or its first list, nothing of that list is read yet. *)
LEMMA StartDefinitionReads ==
  ASSUME Inv, SourceInv, StartDefinition, UNCHANGED generateVars
  PROVE  SourceInv'
<1>1. CASE Stop("failed")
  BY <1>1, StopKeepsSource
<1>2. CASE ~Stop("failed")
  <2>1. /\ cursor.stage = "definition" /\ cursor.def <= Len(File.defs)
        /\ UNCHANGED <<input, status, globals, stack, treeVars>>
        /\ lists' = <<>>
        /\ \/ Len(Def.lists) = 0 /\ cursor' = [cursor EXCEPT !.stage = "defined"]
           \/ Len(Def.lists) # 0 /\ OpenList(1)
    BY <1>2 DEF StartDefinition
  <2>2. /\ cursor \in [stage : Stages, def : Nat \ {0}, list : Nat \ {0}, field : Nat \ {0}]
    BY DEF Inv, CursorInv
  <2>3. UNCHANGED <<File, globals, nodes, input>>
    BY <2>1 DEF File, Program, treeVars
  <2>4. CASE Len(Def.lists) = 0 /\ cursor' = [cursor EXCEPT !.stage = "defined"]
    <3>1. cursor'.stage = "defined" /\ cursor'.def = cursor.def
      BY <2>2, <2>4
    <3>2. UNCHANGED Def
      BY <2>3, <3>1 DEF Def
    <3>3. Len(<<>>) = 0 /\ DOMAIN <<>> = {} /\ 1..0 = {}
      OBVIOUS
    <3>4. ReaderInv'
      BY <2>1, <2>3, <2>4, <3>1, <3>2, <3>3 DEF ReaderInv, SourceInv
    <3>5. ReaderStep
      BY <2>1, <3>1 DEF ReaderStep
    <3> QED
      BY <3>4, <3>5, ReaderStepKeepsSource
  <2>5. CASE Len(Def.lists) # 0 /\ OpenList(1)
    <3>1. /\ cursor' = At("fields", cursor.def, 1, 1)
          /\ fieldVal' = -1 /\ members' = <<>>
      BY <2>5 DEF OpenList
    <3>2. /\ cursor'.stage = "fields" /\ cursor'.def = cursor.def
          /\ cursor'.list = 1 /\ cursor'.field = 1
      BY <3>1 DEF At
    <3>3. UNCHANGED Def
      BY <2>3, <3>2 DEF Def
    <3>4. Len(Fields') \in Nat
      BY <3>2, StartDefinitionKeepsInv, FieldsAreThere DEF Inv
    <3>5. AsRead(input, members, Fields, cursor.field - 1, Def.kind)'
      <4>1. AsRead(input', <<>>, Fields', 0, Def'.kind)
        BY <3>4, OpenedList
      <4>2. members' = <<>> /\ cursor'.field - 1 = 0
        BY <3>1, <3>2
      <4> QED
        BY <4>1, <4>2
    <3>6. KeyInv'
      BY <3>1, <3>2, FirstKey DEF KeyInv
    <3>7. ReaderInv'
      BY <2>1, <2>3, <3>2, <3>5, <3>6 DEF ReaderInv, SourceInv
    <3>8. ReaderStep
      BY <2>1, <3>2 DEF ReaderStep
    <3> QED
      BY <3>7, <3>8, ReaderStepKeepsSource
  <2> QED
    BY <2>1, <2>4, <2>5
<1> QED
  BY <1>1, <1>2

(* t_struct::append() adds the field that is next, with the key it is      *)
(* declared with.                                                          *)
LEMMA ReadFieldReads ==
  ASSUME Inv, SourceInv, ReadField, UNCHANGED generateVars
  PROVE  SourceInv'
<1> DEFINE f == Fields[cursor.field]
           elem == ParsedField(f)
<1>1. CASE Stop("failed") \/ \E how \in Failures(elem.default) : Stop(how)
  BY <1>1, FailureIsKnown, StopKeepsSource
<1>2. CASE ~(Stop("failed") \/ \E how \in Failures(elem.default) : Stop(how))
  <2>1. /\ cursor.stage = "fields" /\ cursor.field <= Len(Fields)
        /\ ~NameTaken(elem)
        /\ \E i \in 1..Len(members) + 1 : PlaceOf(elem, i) /\ members' = Insert(elem, i)
        /\ fieldVal' \in FieldValBehind(f)
        /\ cursor' = [cursor EXCEPT !.field = @ + 1]
        /\ UNCHANGED <<input, status, globals, stack, lists, treeVars>>
    BY <1>2 DEF ReadField
  <2>2. cursor \in [stage : Stages, def : Nat \ {0}, list : Nat \ {0}, field : Nat \ {0}]
    BY DEF Inv, CursorInv
  <2>3. /\ cursor'.stage = "fields" /\ cursor'.def = cursor.def
        /\ cursor'.list = cursor.list /\ cursor'.field = cursor.field + 1
    BY <2>1, <2>2
  <2>4. UNCHANGED <<File, Def, Fields>>
    BY <2>1, <2>3 DEF File, Program, treeVars, Def, Fields
  <2>5. ReaderInv
    BY DEF SourceInv
  <2>6. PICK i \in 1..Len(members) + 1 : PlaceOf(elem, i) /\ members' = Insert(elem, i)
    BY <2>1
  <2>7. AsRead(input, members', Fields, cursor.field, Def.kind)
    BY <2>1, <2>5, <2>6, FieldIsRead
  <2>8. cursor'.field - 1 = cursor.field
    BY <2>2, <2>3
  <2>9. AsRead(input, members, Fields, cursor.field - 1, Def.kind)'
    BY <2>1, <2>4, <2>7, <2>8
  <2>10. KeyInv'
    <3>1. KeyInv
      BY <2>1, <2>5 DEF ReaderInv
    <3> DEFINE next == AutomaticKey(input, Fields, cursor.field)
    <3>2. /\ next >= -KeyRange /\ (\A j \in 1..cursor.field : Fields[j].attrs = <<>>) =>
               \A val \in FieldValBehind(f) : val = next
          /\ LastAnchor(input, Fields, cursor.field) \in 0..cursor.field
          /\ next \in Int /\ next < 0
      BY <2>1, <3>1, KeyAsDeclared
    <3>3. AutomaticKey(input', Fields', cursor'.field - 1) = next
      BY <2>1, <2>4, <2>8
    <3>4. LastAnchor(input', Fields', cursor'.field - 1) =
            LastAnchor(input, Fields, cursor.field)
      BY <2>1, <2>4, <2>8
    <3>5. (\A j \in 1..(cursor'.field - 1) : Fields'[j].attrs = <<>>) <=>
            (\A j \in 1..cursor.field : Fields[j].attrs = <<>>)
      BY <2>4, <2>8
    <3> HIDE DEF next, f
    <3> QED
      BY <2>1, <2>8, <3>2, <3>3, <3>4, <3>5 DEF KeyInv
  <2>11. ReaderInv'
    BY <2>1, <2>3, <2>4, <2>5, <2>9, <2>10 DEF ReaderInv
  <2>12. ReaderStep
    BY <2>1, <2>3 DEF ReaderStep
  <2> QED
    BY <2>11, <2>12, ReaderStepKeepsSource
<1> QED
  BY <1>1, <1>2

(* The definition that is read is in the file, and its lists are.          *)
LEMMA DefIsThere ==
  ASSUME Inv, ReaderInv
  PROVE  /\ Len(File.defs) \in Nat
         /\ cursor.def <= Len(File.defs) =>
              /\ cursor.def \in 1..Len(File.defs)
              /\ Len(Def.lists) \in Nat
              /\ \A l \in 1..Len(Def.lists) : Len(Def.lists[l]) \in Nat
<1> DEFINE files == input.files
           path == nodes[Program].path
<1>1. input \in Inputs /\ path \in DOMAIN files
  BY DEF Inv, ParserInv, TreeInv
<1>2. Len(files[path].defs) \in Nat
  BY <1>1, InputsAssumption
<1>3. cursor.def \in Nat \ {0}
  BY DEF Inv, CursorInv
<1>4. ASSUME cursor.def <= Len(files[path].defs)
      PROVE  /\ cursor.def \in 1..Len(files[path].defs)
             /\ Len(files[path].defs[cursor.def].lists) \in Nat
             /\ \A l \in 1..Len(files[path].defs[cursor.def].lists) :
                  Len(files[path].defs[cursor.def].lists[l]) \in Nat
  <2>1. cursor.def \in 1..Len(files[path].defs)
    BY <1>2, <1>3, <1>4
  <2> QED
    BY <1>1, <2>1, InputsAssumption
<1> QED
  BY <1>2, <1>4 DEF File, Def

(* A list that ends is read to its last field.                             *)
LEMMA EndFieldListReads ==
  ASSUME Inv, SourceInv, EndFieldList, UNCHANGED generateVars
  PROVE  SourceInv'
<1>1. CASE Stop("hung") \/ Stop("failed")
  BY <1>1, StopKeepsSource
<1>2. CASE ~(Stop("hung") \/ Stop("failed"))
  <2>1. /\ cursor.stage = "fields" /\ cursor.field > Len(Fields)
        /\ lists' = [l \in 1..cursor.list |-> IF l = cursor.list THEN members ELSE lists[l]]
        /\ IF cursor.list < Len(Def.lists) THEN OpenList(cursor.list + 1)
           ELSE /\ cursor' = [cursor EXCEPT !.stage = "defined"]
                /\ members' = <<>>
                /\ UNCHANGED fieldVal
        /\ UNCHANGED <<input, status, globals, stack, treeVars>>
    BY <1>2 DEF EndFieldList
  <2>2. cursor \in [stage : Stages, def : Nat \ {0}, list : Nat \ {0}, field : Nat \ {0}]
    BY DEF Inv, CursorInv
  <2>3. UNCHANGED <<File, globals, nodes, input>>
    BY <2>1 DEF File, Program, treeVars
  <2>4. ReaderInv
    BY DEF SourceInv
  <2>5. /\ cursor.def <= Len(File.defs) /\ cursor.list \in 1..Len(Def.lists)
        /\ DOMAIN lists = 1..(cursor.list - 1) /\ Len(Def.lists) \in Nat
    BY <2>1, <2>2, FieldsAreThere DEF Inv, CursorInv
  <2>6. AsRead(input, members, Def.lists[cursor.list], Len(Def.lists[cursor.list]), Def.kind)
    <3>1. Len(Fields) \in Nat
      BY <2>1, FieldsAreThere
    <3>2. AsRead(input, members, Fields, cursor.field - 1, Def.kind)
      BY <2>1, <2>4 DEF ReaderInv
    <3>3. cursor.field - 1 = Len(Fields)
      BY <2>1, <2>2, <3>1, <3>2 DEF AsRead
    <3> QED
      BY <3>2, <3>3 DEF Fields
  <2>7. \A l \in 1..cursor.list :
          AsRead(input, lists'[l], Def.lists[l], Len(Def.lists[l]), Def.kind)
    <3>1. \A l \in 1..(cursor.list - 1) :
            AsRead(input, lists[l], Def.lists[l], Len(Def.lists[l]), Def.kind)
      BY <2>1, <2>4 DEF ReaderInv
    <3>2. \A l \in 1..cursor.list : l = cursor.list \/ l \in 1..(cursor.list - 1)
      BY <2>2
    <3> QED
      BY <2>1, <2>6, <3>1, <3>2
  <2>8. CASE cursor.list < Len(Def.lists)
    <3>1. /\ cursor' = At("fields", cursor.def, cursor.list + 1, 1)
          /\ fieldVal' = -1 /\ members' = <<>>
      BY <2>1, <2>8 DEF OpenList
    <3>2. /\ cursor'.stage = "fields" /\ cursor'.def = cursor.def
          /\ cursor'.list = cursor.list + 1 /\ cursor'.field = 1
      BY <3>1 DEF At
    <3>3. UNCHANGED Def
      BY <2>3, <3>2 DEF Def
    <3>4. Len(Fields') \in Nat
      BY <3>2, EndFieldListKeepsInv, FieldsAreThere DEF Inv
    <3>5. AsRead(input, members, Fields, cursor.field - 1, Def.kind)'
      <4>1. AsRead(input', <<>>, Fields', 0, Def'.kind)
        BY <3>4, OpenedList
      <4>2. members' = <<>> /\ cursor'.field - 1 = 0
        BY <3>1, <3>2
      <4> QED
        BY <4>1, <4>2
    <3>6. KeyInv'
      BY <3>1, <3>2, FirstKey DEF KeyInv
    <3>7. \A l \in 1..(cursor'.list - 1) :
            AsRead(input', lists'[l], Def'.lists[l], Len(Def'.lists[l]), Def'.kind)
      <4>1. cursor'.list - 1 = cursor.list
        BY <2>2, <3>2
      <4> QED
        BY <2>3, <2>7, <3>3, <4>1
    <3>8. ReaderInv'
      BY <2>3, <2>4, <3>2, <3>5, <3>6, <3>7 DEF ReaderInv
    <3>9. ReaderStep
      BY <2>1, <3>2 DEF ReaderStep
    <3> QED
      BY <3>8, <3>9, ReaderStepKeepsSource
  <2>9. CASE ~(cursor.list < Len(Def.lists))
    <3>1. cursor'.stage = "defined" /\ cursor'.def = cursor.def
      BY <2>1, <2>2, <2>9
    <3>2. UNCHANGED Def
      BY <2>3, <3>1 DEF Def
    <3>3. cursor.list = Len(Def.lists)
      BY <2>5, <2>9
    <3>4. Len(lists') = Len(Def.lists) /\ DOMAIN lists' = 1..Len(Def.lists)
      <4>1. lists' \in Seq({lists'[l] : l \in 1..cursor.list})
        BY <2>1, <2>2
      <4>2. DOMAIN lists' = 1..cursor.list
        BY <2>1
      <4>3. Len(lists') = cursor.list
        BY <2>2, <4>1, <4>2
      <4> QED
        BY <3>3, <4>2, <4>3
    <3>5. ReaderInv'
      BY <2>3, <2>4, <2>5, <2>7, <3>1, <3>2, <3>3, <3>4 DEF ReaderInv
    <3>6. ReaderStep
      BY <2>1, <3>1 DEF ReaderStep
    <3> QED
      BY <3>5, <3>6, ReaderStepKeepsSource
  <2> QED
    BY <2>8, <2>9
<1> QED
  BY <1>1, <1>2

(* A definition that only the PROGRAM pass reads is skipped.               *)
LEMMA SkipDefinitionReads ==
  ASSUME Inv, SourceInv, SkipDefinition, UNCHANGED generateVars
  PROVE  SourceInv'
<1>1. /\ cursor.stage = "defined" /\ Mode = "INCLUDES"
      /\ cursor' = [cursor EXCEPT !.stage = "definition", !.def = @ + 1]
      /\ UNCHANGED <<input, status, globals, stack, treeVars>>
  BY DEF SkipDefinition, NextDefinition
<1>2. cursor \in [stage : Stages, def : Nat \ {0}, list : Nat \ {0}, field : Nat \ {0}]
  BY DEF Inv, CursorInv
<1>3. cursor'.stage = "definition" /\ cursor'.def = cursor.def + 1
  BY <1>1, <1>2
<1>4. UNCHANGED File
  BY <1>1 DEF File, Program, treeVars
<1>5. ReaderInv
  BY DEF SourceInv
<1>6. cursor.def <= Len(File.defs) /\ Len(File.defs) \in Nat
  BY <1>1, <1>5, DefIsThere DEF ReaderInv
<1>7. ReaderInv'
  BY <1>2, <1>3, <1>4, <1>6 DEF ReaderInv
<1>8. ReaderStep
  BY <1>1, <1>3 DEF ReaderStep
<1> QED
  BY <1>7, <1>8, ReaderStepKeepsSource

-----------------------------------------------------------------------------
(* The tree of programs.                                                   *)

LEMMA ChildIsBelow ==
  ASSUME NEW n \in Seq(Nat), NEW i \in Nat
  PROVE  /\ Child(n, i) \in Seq(Nat)
         /\ Len(Child(n, i)) = Len(n) + 1
         /\ Child(n, i)[Len(n) + 1] = i
         /\ \A j \in 1..Len(n) : Child(n, i)[j] = n[j]
BY DEF Child

(* Two places with the same child are one.                                 *)
LEMMA ChildTells ==
  ASSUME NEW n \in Seq(Nat), NEW m \in Seq(Nat), NEW i \in Nat, NEW j \in Nat,
         Child(n, i) = Child(m, j)
  PROVE  n = m /\ i = j
<1> DEFINE c == Child(n, i)
<1>1. /\ Len(c) = Len(n) + 1 /\ c[Len(n) + 1] = i
      /\ \A k \in 1..Len(n) : c[k] = n[k]
  BY ChildIsBelow
<1>2. /\ Len(c) = Len(m) + 1 /\ c[Len(m) + 1] = j
      /\ \A k \in 1..Len(m) : c[k] = m[k]
  <2>1. c = Child(m, j)
    OBVIOUS
  <2> QED
    BY <2>1, ChildIsBelow
<1> HIDE DEF c
<1>3. Len(n) \in Nat /\ Len(m) \in Nat
  OBVIOUS
<1>4. Len(n) = Len(m) /\ i = j
  BY <1>1, <1>2, <1>3
<1>5. \A k \in 1..Len(n) : n[k] = m[k]
  BY <1>1, <1>2, <1>4
<1> QED
  BY <1>4, <1>5, SeqEqual

(* Every call of parse() is for a program of the tree.                     *)
LEMMA FrameIsThere ==
  ASSUME Inv, SourceInv, NEW k \in 1..Len(stack)
  PROVE  /\ stack[k].node \in DOMAIN nodes /\ stack[k].node \in Seq(Nat)
         /\ stack[k].child \in Int
         /\ nodes[stack[k].node].includes \subseteq Nat
<1> DEFINE Frames == [node : DOMAIN nodes, parent : DOMAIN nodes \cup {NoNode},
                      child : Int]
<1>1. stack \in Seq(Frames)
  BY DEF Inv, ParserInv
<1>2. stack[k] \in Frames
  <2> HIDE DEF Frames
  <2> QED
    BY <1>1
<1> QED
  BY <1>2 DEF SourceInv, NodesInv

(* A program that is still to be parsed is not being parsed.               *)
LEMMA WhatComesIsNotOnStack ==
  ASSUME Inv, SourceInv, status = "parsing", NEW n, ToCome(n)
  PROVE  ~OnStack(n)
<1>1. Descent(stack)
  BY DEF SourceInv, ParsingInv
<1>2. PICK k \in 1..Len(stack) : \E i \in nodes[stack[k].node].includes :
        i > stack[k].child /\ n = Child(stack[k].node, i)
  BY DEF ToCome
<1>3. PICK i \in nodes[stack[k].node].includes :
        i > stack[k].child /\ n = Child(stack[k].node, i)
  BY <1>2
<1>4. stack[k].node \in Seq(Nat) /\ stack[k].child \in Int /\ i \in Nat
  BY <1>3, FrameIsThere
<1>5. SUFFICES ASSUME NEW j \in 1..Len(stack), stack[j].node = n
               PROVE  FALSE
  BY DEF OnStack
<1>6. Len(stack[k].node) = k - 1 /\ Len(stack[j].node) = j - 1
  BY <1>1 DEF Descent
<1>7. Len(n) = k /\ n[k] = i
  <2>1. LET s == stack[k].node
        IN  Len(Child(s, i)) = Len(s) + 1 /\ Child(s, i)[Len(s) + 1] = i
    BY <1>4, ChildIsBelow
  <2> QED
    BY <1>3, <1>6, <2>1
<1>8. Len(stack) \in Nat
  BY CallerIsThere
<1>9. j = k + 1 /\ k \in 1..(Len(stack) - 1)
  BY <1>5, <1>6, <1>7, <1>8
<1>10. n[k] = stack[k].child
  BY <1>1, <1>5, <1>8, <1>9 DEF Descent
<1> QED
  BY <1>3, <1>4, <1>7, <1>10

(* parse() is not inside of itself for one program.                        *)
LEMMA CallsAreApart ==
  ASSUME Inv, SourceInv, status = "parsing", NEW k \in 1..Len(stack), k # Len(stack)
  PROVE  stack[k].node # Caller.node
<1>1. Len(stack) \in 1..Len(stack) /\ Len(stack) \in Nat
  BY CallerIsThere
<1>2. Len(stack[k].node) = k - 1 /\ Len(stack[Len(stack)].node) = Len(stack) - 1
  BY <1>1 DEF SourceInv, ParsingInv, Descent
<1> QED
  BY <1>1, <1>2 DEF Caller, Last1
-----------------------------------------------------------------------------
(* The compiler starts with one file of which nothing is known.            *)
LEMMA InitEstablishesSource ==
  ASSUME Init
  PROVE  SourceInv
<1>1. /\ input \in Inputs
      /\ status = "parsing"
      /\ globals = Globals("INCLUDES", Directory(input.root), Root, NoNode, "")
      /\ stack = <<Frame(Root, NoNode, 0)>>
      /\ cursor = AtHeaders
      /\ nodes = [n \in {Root} |-> NewNode(input.root)]
      /\ scopes = [n \in {Root} |-> NewScope]
      /\ decls = {} /\ generating = <<>> /\ output = {}
  BY DEF Init, ParserInit
<1>2. /\ DOMAIN nodes = {Root} /\ nodes[Root].path = input.root /\ nodes[Root].includes = {}
      /\ DOMAIN scopes = {Root} /\ scopes[Root] = NewScope
  BY <1>1 DEF NewNode, Node
<1>3. Mode = "INCLUDES" /\ Program = Root
  BY <1>1 DEF Mode, Program, Globals
<1>4. Len(stack) = 1 /\ stack[1].node = Root /\ stack[1].child = 0 /\ Caller = stack[1]
  BY <1>1 DEF Frame, Caller, Last1
<1>5. ReaderInv
  <2>1. cursor.stage = "headers" /\ cursor.def = 1
    BY <1>1 DEF AtHeaders, At
  <2>2. Len(input.files[input.root].defs) \in Nat
    BY <1>1, InputsAssumption
  <2>3. Len(File.defs) \in Nat
    BY <1>2, <1>3, <2>2 DEF File
  <2> QED
    BY <2>1, <2>3 DEF ReaderInv
<1>6. NamesInv
  BY <1>1, <1>2 DEF NamesInv, NewScope
<1>7. NodesInv
  <2>1. Root \in Seq(Nat)
    BY DEF Root
  <2> QED
    BY <1>2, <2>1 DEF NodesInv
<1>8. ParsingInv
  <2>1. Descent(stack)
    BY <1>4 DEF Descent, Root
  <2>2. \A n \in DOMAIN nodes : OnStack(n)
    BY <1>2, <1>4 DEF OnStack
  <2>3. \A n : ~ToCome(n)
    BY <1>2, <1>4 DEF ToCome
  <2>4. \A n : DeclsOf(n) = {}
    BY <1>1 DEF DeclsOf
  <2> QED
    BY <1>2, <1>3, <1>4, <2>1, <2>2, <2>3, <2>4 DEF ParsingInv, InProgram
<1>9. GeneratingInv /\ TargetsSeeTheSource
  BY <1>1 DEF GeneratingInv, TargetsSeeTheSource
<1> QED
  BY <1>1, <1>5, <1>6, <1>7, <1>8, <1>9 DEF SourceInv

-----------------------------------------------------------------------------
(* Definitions.                                                            *)

(* A list of fields of a union is as long as it was.                       *)
LEMMA UnionMembersKeep ==
  ASSUME NEW n \in Nat, NEW fields, DOMAIN fields = 1..n
  PROVE  /\ Len(UnionMembers(fields)) = n /\ DOMAIN UnionMembers(fields) = 1..n
         /\ \A j \in 1..n :
              LET a == UnionMembers(fields)[j]
              IN  /\ a.name = fields[j].name /\ a.id = fields[j].id
                  /\ a.req = IF fields[j].req = "required" THEN "optional"
                             ELSE fields[j].req
<1> DEFINE s == UnionMembers(fields)
<1>1. /\ DOMAIN s = 1..n /\ s \in Seq({s[j] : j \in 1..n})
  BY DEF UnionMembers
<1>2. Len(s) = n
  BY <1>1
<1>3. \A j \in 1..n : s[j] = WithReq(fields[j], IF fields[j].req = "required"
                                                 THEN "optional" ELSE fields[j].req)
  BY DEF UnionMembers
<1> QED
  BY <1>1, <1>2, <1>3 DEF WithReq, Field

(* A list that is read is as it is declared.                               *)
ListAsDeclared(in, given, fields, kind) ==
  /\ Len(given) = Len(fields) /\ DOMAIN given = 1..Len(fields)
  /\ \/ \E i \in 1..Len(fields) : ~Regular(in, fields, i)
     \/ \A i \in 1..Len(fields) : \E j \in 1..Len(fields) :
          /\ given[j].name = fields[i].name
          /\ given[j].id = DeclaredKey(in, fields, i)
          /\ given[j].req = DeclaredReq(kind, fields[i].req)

(* A list that is read to its end, and made optional in a union, is as it  *)
(* is declared.                                                            *)
LEMMA ReadAsDeclared ==
  ASSUME NEW in, NEW kind, NEW fields, NEW list, Len(fields) \in Nat,
         AsRead(in, list, fields, Len(fields), kind),
         NEW given, given = IF kind = "union" THEN UnionMembers(list) ELSE list
  PROVE  ListAsDeclared(in, given, fields, kind)
<1> DEFINE n == Len(fields)
           req(i) == IF fields[i].req = "optional" /\ kind = "service"
                     THEN "default" ELSE fields[i].req
<1>1. /\ Len(list) = n /\ DOMAIN list = 1..n
      /\ \/ \E i \in 1..n : ~Regular(in, fields, i)
         \/ \A i \in 1..n : \E j \in 1..n :
              /\ list[j].name = fields[i].name
              /\ list[j].id = DeclaredKey(in, fields, i)
              /\ list[j].req = req(i)
  BY DEF AsRead
<1>2. CASE kind # "union"
  <2>1. \A i \in 1..n : req(i) = DeclaredReq(kind, fields[i].req)
    BY <1>2 DEF DeclaredReq
  <2> QED
    BY <1>1, <1>2, <2>1 DEF ListAsDeclared
<1>3. CASE kind = "union"
  <2>1. \A i \in 1..n :
          DeclaredReq(kind, fields[i].req)
            = IF req(i) = "required" THEN "optional" ELSE req(i)
    BY <1>3 DEF DeclaredReq
  <2>2. /\ Len(given) = n /\ DOMAIN given = 1..n
        /\ \A j \in 1..n :
             /\ given[j].name = list[j].name /\ given[j].id = list[j].id
             /\ given[j].req = IF list[j].req = "required" THEN "optional"
                               ELSE list[j].req
    <3>1. n \in Nat /\ DOMAIN list = 1..n /\ given = UnionMembers(list)
      BY <1>1, <1>3
    <3> HIDE DEF n
    <3> QED
      BY <3>1, UnionMembersKeep
  <2>3. ASSUME NEW i \in 1..n, NEW j \in 1..n,
               list[j].name = fields[i].name, list[j].id = DeclaredKey(in, fields, i),
               list[j].req = req(i)
        PROVE  /\ given[j].name = fields[i].name
               /\ given[j].id = DeclaredKey(in, fields, i)
               /\ given[j].req = DeclaredReq(kind, fields[i].req)
    BY <2>1, <2>2, <2>3
  <2> HIDE DEF req
  <2> QED
    BY <1>1, <2>2, <2>3 DEF ListAsDeclared
<1> QED
  BY <1>2, <1>3

(* What add_typedef(), add_struct() and the like are given is the          *)
(* definition of the file.                                                 *)
LEMMA DeclIsAsDeclared ==
  ASSUME Inv, SourceInv, cursor.stage = "defined", NEW value
  PROVE  /\ DeclaredAs(input, Decl(value), Def, FALSE)
         /\ Listed(Decl(value))
         /\ Decl(value).node = Program
         /\ Decl(value).kind = Def.kind /\ Decl(value).name = Def.name
<1> DEFINE d == Decl(value)
<1>1. /\ Len(lists) = Len(Def.lists) /\ DOMAIN lists = 1..Len(Def.lists)
      /\ \A l \in DOMAIN lists :
           AsRead(input, lists[l], Def.lists[l], Len(Def.lists[l]), Def.kind)
      /\ cursor.def <= Len(File.defs)
  BY DEF SourceInv, ReaderInv
<1>2. /\ Len(Def.lists) \in Nat
      /\ \A l \in 1..Len(Def.lists) : Len(Def.lists[l]) \in Nat
  BY <1>1, DefIsThere DEF SourceInv
<1>3. /\ d.node = Program /\ d.kind = Def.kind /\ d.name = Def.name
      /\ d.lists = IF Def.kind = "union"
                     THEN [l \in DOMAIN lists |-> UnionMembers(lists[l])] ELSE lists
  BY DEF Decl, Declaration
<1> HIDE DEF d
<1>4. Len(d.lists) = Len(Def.lists) /\ DOMAIN d.lists = 1..Len(Def.lists)
  <2>1. CASE Def.kind # "union"
    BY <1>1, <1>3, <2>1
  <2>2. CASE Def.kind = "union"
    <3> DEFINE s == d.lists
    <3>1. DOMAIN s = 1..Len(Def.lists) /\ s \in Seq({s[l] : l \in 1..Len(Def.lists)})
      BY <1>1, <1>2, <1>3, <2>2
    <3> QED
      BY <1>2, <3>1
  <2> QED
    BY <2>1, <2>2
<1>5. ASSUME NEW l \in 1..Len(d.lists)
      PROVE  LET fields == Def.lists[l]
             IN  /\ Len(d.lists[l]) = Len(fields)
                 /\ DOMAIN d.lists[l] = 1..Len(fields)
                 /\ \/ \E i \in 1..Len(fields) : ~Regular(input, fields, i)
                    \/ \A i \in 1..Len(fields) : \E j \in 1..Len(fields) :
                         /\ d.lists[l][j].name = fields[i].name
                         /\ d.lists[l][j].id = DeclaredKey(input, fields, i)
                         /\ d.lists[l][j].req = DeclaredReq(d.kind, fields[i].req)
  <2>1. AsRead(input, lists[l], Def.lists[l], Len(Def.lists[l]), Def.kind)
    BY <1>1, <1>4
  <2>2. d.lists[l] = IF Def.kind = "union" THEN UnionMembers(lists[l]) ELSE lists[l]
    BY <1>1, <1>3, <1>4
  <2>3. Len(Def.lists[l]) \in Nat
    BY <1>2, <1>4
  <2> DEFINE fields == Def.lists[l]
             list == lists[l]
             given == d.lists[l]
             kind == Def.kind
  <2>4. AsRead(input, list, fields, Len(fields), kind) /\ Len(fields) \in Nat
        /\ given = IF kind = "union" THEN UnionMembers(list) ELSE list
    BY <2>1, <2>2, <2>3
  <2> HIDE DEF fields, list, given, kind
  <2>5. ListAsDeclared(input, given, fields, kind)
    BY <2>4, ReadAsDeclared
  <2> QED
    BY <1>3, <2>5 DEF ListAsDeclared, fields, given, kind
<1>6. DeclaredAs(input, d, Def, FALSE)
  BY <1>3, <1>4, <1>5 DEF DeclaredAs
<1>7. Listed(d)
  BY <1>2, <1>4, <1>5 DEF Listed
<1> QED
  BY <1>3, <1>6, <1>7 DEF d

(* The scopes as a definition leaves them.                                 *)
ScopesGrow ==
  /\ DOMAIN scopes' = DOMAIN scopes
  /\ \A n \in DOMAIN scopes :
       /\ DOMAIN scopes'[n] = DOMAIN scopes[n]
       /\ DOMAIN scopes[n].consts \subseteq DOMAIN scopes'[n].consts

(* A definition that is added to its program is the next one of the file.  *)
LEMMA AddedReads ==
  ASSUME Inv, SourceInv, status = "parsing", cursor.stage = "defined", Mode = "PROGRAM",
         UNCHANGED generateVars, NEW d, Added(d), ScopesGrow,
         DeclaredAs(input, d, Def, FALSE), Listed(d),
         d.node = Program, d.kind = Def.kind, d.name = Def.name,
         \A e \in decls : ~(e.node = Program /\ e.kind = Def.kind /\ e.name = Def.name),
         d.kind = "const" => <<d.name>> \in DOMAIN scopes'[Program].consts
  PROVE  SourceInv'
<1>1. /\ UNCHANGED <<input, status, globals, stack, fieldVal, members, lists, nodes,
                     generating, output>>
      /\ decls' = decls \cup {d}
      /\ cursor' = [cursor EXCEPT !.stage = "definition", !.def = @ + 1]
  BY DEF Added, NextDefinition, generateVars
<1>2. cursor \in [stage : Stages, def : Nat \ {0}, list : Nat \ {0}, field : Nat \ {0}]
  BY DEF Inv, CursorInv
<1>3. cursor'.stage = "definition" /\ cursor'.def = cursor.def + 1
  BY <1>1, <1>2
<1>4. UNCHANGED <<File, Program, Mode, Caller>>
  BY <1>1 DEF File, Program, Mode, Caller, Last1
<1>5. cursor.def \in 1..Len(File.defs) /\ Len(File.defs) \in Nat
  BY DefIsThere DEF SourceInv, ReaderInv
<1>6. ReaderInv'
  BY <1>3, <1>4, <1>5 DEF ReaderInv
<1>7. NamesInv'
  <2>1. NamesInv /\ \A e \in decls : e.node \in DOMAIN scopes
    BY DEF Inv, TreeInv, SourceInv
  <2>2. \A e, g \in decls' : e.node = g.node /\ e.kind = g.kind /\ e.name = g.name => e = g
    BY <1>1, <2>1 DEF NamesInv
  <2>3. \A n \in DOMAIN scopes' : DOMAIN scopes'[n] = {"types", "consts", "services"}
    BY <2>1 DEF NamesInv, ScopesGrow
  <2>5. \A e \in decls' : Listed(e)
    BY <1>1, <2>1 DEF NamesInv
  <2>4. \A e \in decls' : e.kind = "const" => <<e.name>> \in DOMAIN scopes'[e.node].consts
    BY <1>1, <2>1 DEF NamesInv, ScopesGrow
  <2> QED
    BY <2>2, <2>3, <2>4, <2>5 DEF NamesInv
<1>8. NodesInv'
  BY <1>1 DEF SourceInv, NodesInv
<1>9. /\ DeclsOf(Program)' = DeclsOf(Program) \cup {d} /\ d \notin DeclsOf(Program)
      /\ \A n : n # Program => DeclsOf(n)' = DeclsOf(n)
  BY <1>1, <1>4 DEF DeclsOf
<1>10. ASSUME NEW n, n # Program
       PROVE  Complete(n, FALSE)' <=> Complete(n, FALSE)
  BY <1>1, <1>9, <1>10, ReflectsUnchanged
<1>11. ParsingInv /\ Program = Caller.node /\ Reflects(Program, cursor.def - 1, FALSE)
  BY DEF SourceInv, ParsingInv, InProgram
<1>12. Reflects(Program, cursor.def - 1, FALSE)'
  <2> DEFINE file == DefsOf(Program)
             m == cursor.def
             old == DeclsOf(Program)
             new == old \cup {d}
  <2>1. /\ m \in Nat \ {0}
        /\ IsFiniteSet(old) /\ Cardinality(old) = m - 1
        /\ \A k \in 1..(m - 1) : \E e \in old : DeclaredAs(input, e, file[k], FALSE)
    <3>1. m \in Nat \ {0}
      BY <1>5
    <3>2. Reflects(Program, m - 1, FALSE)
      BY <1>11
    <3> HIDE DEF m
    <3> QED
      BY <3>1, <3>2 DEF Reflects
  <2>2. Cardinality(old) \in Nat /\ IsFiniteSet(new) /\ Cardinality(new) = Cardinality(old) + 1
    BY <1>9, <2>1, FS_AddElement, FS_CardinalityType
  <2>3. file[m] = Def
    BY DEF DefsOf, File, Def
  <2>4. \A k \in 1..m : \E e \in new : DeclaredAs(input, e, file[k], FALSE)
    <3>1. \A k \in 1..m : k = m \/ k \in 1..(m - 1)
      BY <2>1
    <3> HIDE DEF file, m, old
    <3> QED
      BY <2>1, <2>3, <3>1
  <2>5. /\ cursor'.def - 1 = m /\ DeclsOf(Program)' = new /\ DefsOf(Program)' = file
        /\ UNCHANGED input
    BY <1>1, <1>3, <1>4, <1>9, <2>1 DEF DefsOf
  <2>6. IsFiniteSet(new) /\ Cardinality(new) = m
    BY <2>1, <2>2
  <2> HIDE DEF file, m, new, old
  <2>7. /\ IsFiniteSet(DeclsOf(Program)') /\ Cardinality(DeclsOf(Program)') = cursor'.def - 1
        /\ \A k \in 1..(cursor'.def - 1) : \E e \in DeclsOf(Program)' :
             DeclaredAs(input', e, DefsOf(Program)'[k], FALSE)
    BY <2>4, <2>5, <2>6
  <2> QED
    BY <2>7 DEF Reflects
<1>13. ParsingInv'
  <2>1. /\ \A n : OnStack(n)' <=> OnStack(n)
        /\ \A n : ToCome(n)' <=> ToCome(n)
        /\ Descent(stack)' /\ NoneComes(Caller)'
    BY <1>1, <1>11 DEF OnStack, ToCome, Descent, NoneComes, Caller, Last1, ParsingInv, InProgram
  <2>2. OnStack(Program)
    <3>1. Len(stack) \in 1..Len(stack)
      BY CallerIsThere
    <3> QED
      BY <1>11, <3>1 DEF OnStack, Caller, Last1
  <2>3. \A n \in DOMAIN nodes' : OnStack(n)' \/ ToCome(n)' \/ Complete(n, FALSE)'
    <3>1. \A n \in DOMAIN nodes : OnStack(n) \/ ToCome(n) \/ Complete(n, FALSE)
      BY <1>11 DEF ParsingInv
    <3> QED
      BY <1>1, <1>10, <2>1, <2>2, <3>1
  <2>4. \A n \in DOMAIN nodes' : ToCome(n)' => nodes'[n].includes = {} /\ DeclsOf(n)' = {}
    <3>1. \A n : ToCome(n) => n # Program
      BY <2>2, WhatComesIsNotOnStack
    <3>2. \A n \in DOMAIN nodes : ToCome(n) => nodes[n].includes = {} /\ DeclsOf(n) = {}
      BY <1>11 DEF ParsingInv
    <3> QED
      BY <1>1, <1>9, <2>1, <3>1, <3>2
  <2>5. (\A k \in 1..Len(stack) : k < Len(stack) => DeclsOf(stack[k].node) = {})'
    <3>1. ASSUME NEW k \in 1..Len(stack), k < Len(stack)
          PROVE  {e \in decls' : e.node = stack[k].node} = {}
      <4>1. k # Len(stack)
        BY <3>1, CallerIsThere
      <4>2. stack[k].node # Program
        BY <1>11, <4>1, CallsAreApart
      <4>3. DeclsOf(stack[k].node) = {}
        BY <1>11, <3>1 DEF ParsingInv
      <4> QED
        BY <1>1, <1>9, <4>2, <4>3 DEF DeclsOf
    <3> QED
      BY <1>1, <3>1 DEF DeclsOf
  <2>6. InProgram' /\ Mode' = "PROGRAM" /\ Program' = Caller'.node
    BY <1>3, <1>4, <1>11 DEF InProgram
  <2>7. /\ cursor'.stage # "recurse" /\ cursor'.stage # "headers" /\ Mode' # "INCLUDES"
        /\ Program' = Caller'.node /\ Descent(stack)'
        /\ NoneComes(Caller)' /\ Reflects(Program, cursor.def - 1, FALSE)'
        /\ (\A k \in 1..Len(stack) :
              k < Len(stack) \/ ~InProgram => DeclsOf(stack[k].node) = {})'
    BY <1>3, <1>12, <2>1, <2>5, <2>6
  <2> QED
    BY <2>3, <2>4, <2>7, ZenonT(30) DEF ParsingInv
<1>14. GeneratingInv'
  BY <1>1 DEF GeneratingInv
<1>15. TargetsSeeTheSource'
  BY <1>1 DEF SourceInv, TargetsSeeTheSource, AfterGo
<1> QED
  BY <1>1, <1>6, <1>7, <1>8, <1>13, <1>14, <1>15 DEF SourceInv

(* A name that is bound in a scope leaves those that were.                 *)
Bound(scope, table, names, entry) == [scope EXCEPT ![table] = Bind(@, names, entry)]

(* What is bound in one table of a scope leaves the other tables, and what *)
(* was bound.                                                              *)
LEMMA BindGrows ==
  ASSUME NEW scope, DOMAIN scope = {"types", "consts", "services"},
         NEW table \in {"types", "consts", "services"}, NEW names, NEW entry,
         NEW bound, bound = Bound(scope, table, names, entry)
  PROVE  /\ DOMAIN bound = DOMAIN scope
         /\ DOMAIN scope.consts \subseteq DOMAIN bound.consts
         /\ table = "consts" => names \subseteq DOMAIN bound.consts
<1>1. DOMAIN bound = DOMAIN scope
  BY DEF Bound
<1>2. bound["consts"] = IF table = "consts" THEN Bind(scope["consts"], names, entry)
                        ELSE scope["consts"]
  BY DEF Bound
<1>3. DOMAIN Bind(scope["consts"], names, entry) = DOMAIN scope["consts"] \cup names
  BY DEF Bind
<1> QED
  BY <1>1, <1>2, <1>3

(* So do the scopes of a program and of the one that includes it grow.     *)
LEMMA DeclareGrows ==
  ASSUME Inv, SourceInv, NEW table \in {"types", "consts", "services"},
         NEW names, NEW entry, NEW after, after = Declare(table, names, entry)
  PROVE  /\ DOMAIN after = DOMAIN scopes
         /\ \A n \in DOMAIN scopes :
              /\ DOMAIN after[n] = DOMAIN scopes[n]
              /\ DOMAIN scopes[n].consts \subseteq DOMAIN after[n].consts
         /\ table = "consts" => names \subseteq DOMAIN after[Program].consts
<1> DEFINE qualified == {<<globals.prefix>> \o n : n \in names}
           behind == [n \in qualified |-> entry[Tail(n)]]
           own == Bound(scopes[Program], table, names, entry)
           parent(n) == Bound(scopes[n], table, qualified, behind)
<1>1. /\ Program \in DOMAIN scopes
      /\ \A n \in DOMAIN scopes : DOMAIN scopes[n] = {"types", "consts", "services"}
  BY DEF Inv, ParserInv, TreeInv, SourceInv, NamesInv
<1>2. after = [n \in DOMAIN scopes |->
                 IF n = Program THEN own
                 ELSE IF n = globals.parent THEN parent(n) ELSE scopes[n]]
  BY DEF Declare, Scope, Bound
<1>3. /\ DOMAIN own = DOMAIN scopes[Program]
      /\ DOMAIN scopes[Program].consts \subseteq DOMAIN own.consts
      /\ table = "consts" => names \subseteq DOMAIN own.consts
  <2> DEFINE scope == scopes[Program]
             bound == own
  <2>1. /\ DOMAIN scope = {"types", "consts", "services"}
        /\ bound = Bound(scope, table, names, entry)
    BY <1>1
  <2> HIDE DEF scope, bound
  <2>2. /\ DOMAIN bound = DOMAIN scope
        /\ DOMAIN scope.consts \subseteq DOMAIN bound.consts
        /\ table = "consts" => names \subseteq DOMAIN bound.consts
    BY <2>1, BindGrows
  <2> QED
    BY <2>2 DEF scope, bound
<1>4. ASSUME NEW n \in DOMAIN scopes
      PROVE  /\ DOMAIN parent(n) = DOMAIN scopes[n]
             /\ DOMAIN scopes[n].consts \subseteq DOMAIN parent(n).consts
  <2> DEFINE scope == scopes[n]
             bound == parent(n)
  <2>1. /\ DOMAIN scope = {"types", "consts", "services"}
        /\ bound = Bound(scope, table, qualified, behind)
    BY <1>1
  <2> HIDE DEF scope, bound, qualified, behind
  <2>2. /\ DOMAIN bound = DOMAIN scope
        /\ DOMAIN scope.consts \subseteq DOMAIN bound.consts
    BY <2>1, BindGrows
  <2> QED
    BY <2>2 DEF scope, bound
<1> HIDE DEF own, parent
<1> QED
  BY <1>1, <1>2, <1>3, <1>4

(* What all kinds of definitions but constants have in common.             *)
LEMMA NamedIsAdded ==
  ASSUME Inv, SourceInv, status = "parsing", cursor.stage = "defined", Mode = "PROGRAM",
         UNCHANGED generateVars, Def.kind # "const", ~Taken(Def.name),
         Added(Decl(NoValue)), ScopesGrow
  PROVE  SourceInv'
<1> DEFINE d == Decl(NoValue)
<1>1. /\ DeclaredAs(input, d, Def, FALSE) /\ Listed(d)
      /\ d.node = Program /\ d.kind = Def.kind /\ d.name = Def.name
  BY DeclIsAsDeclared
<1>2. \A e \in decls : ~(e.node = Program /\ e.kind = Def.kind /\ e.name = Def.name)
  BY DEF Taken
<1>3. Added(d)
  OBVIOUS
<1> HIDE DEF d
<1> QED
  BY <1>1, <1>2, <1>3, AddedReads

(* A typedef, enum, struct or service is added to its program as it is     *)
(* declared.                                                               *)
LEMMA DefineTypeReads ==
  ASSUME Inv, SourceInv, DefineType \/ DefineService, UNCHANGED generateVars
  PROVE  SourceInv'
<1>1. CASE Stop("failed")
  BY <1>1, StopKeepsSource
<1>2. CASE ~Stop("failed")
  <2>1. /\ status = "parsing" /\ cursor.stage = "defined" /\ Mode = "PROGRAM"
        /\ Def.kind # "const" /\ ~Taken(Def.name)
        /\ Added(Decl(NoValue))
    BY <1>2 DEF DefineType, DefineService, Reading
  <2>2. PICK table \in {"types", "services"} :
          \E names, entry : scopes' = Declare(table, names, entry)
    BY <1>2 DEF DefineType, DefineService
  <2>3. ScopesGrow
    BY <2>2, DeclareGrows DEF ScopesGrow
  <2> QED
    BY <2>1, <2>3, NamedIsAdded
<1> QED
  BY <1>1, <1>2

(* So is an enum, whose enumerators are bound with it.                     *)
LEMMA DefineEnumReads ==
  ASSUME Inv, SourceInv, DefineEnum, UNCHANGED generateVars
  PROVE  SourceInv'
<1>1. CASE Stop("failed")
  BY <1>1, StopKeepsSource
<1>2. CASE ~Stop("failed")
  <2> DEFINE d == Decl(NoValue)
             names == {<<d.name, d.values[i].name>> : i \in 1..Len(d.values)}
             type == [n \in {<<d.name>>} |-> Type("defined", Program, n)]
             constant == [n \in names |->
                            [type |-> I32,
                             value |-> Number(d.values[CHOOSE i \in 1..Len(d.values) :
                                                 d.values[i].name = n[2]].num)]]
             own == Declare("consts", names, constant)
             all == Declare("types", {<<d.name>>}, type)
  <2>1. /\ status = "parsing" /\ cursor.stage = "defined" /\ Mode = "PROGRAM"
        /\ Def.kind # "const" /\ ~Taken(Def.name)
        /\ Added(d)
        /\ scopes' = [n \in DOMAIN scopes |-> [all[n] EXCEPT !.consts = own[n].consts]]
    BY <1>2 DEF DefineEnum, Reading
  <2>2. /\ \A n \in DOMAIN scopes : /\ DOMAIN all[n] = DOMAIN scopes[n]
                                    /\ DOMAIN scopes[n] = {"types", "consts", "services"}
        /\ \A n \in DOMAIN scopes :
             DOMAIN scopes[n].consts \subseteq DOMAIN own[n].consts
    <3>1. \A n \in DOMAIN scopes : DOMAIN all[n] = DOMAIN scopes[n]
      BY DeclareGrows
    <3>2. \A n \in DOMAIN scopes : DOMAIN scopes[n].consts \subseteq DOMAIN own[n].consts
      BY DeclareGrows
    <3> QED
      BY <3>1, <3>2 DEF SourceInv, NamesInv
  <2> HIDE DEF own, all, d
  <2>3. ScopesGrow
    BY <2>1, <2>2 DEF ScopesGrow
  <2> QED
    BY <2>1, <2>3, NamedIsAdded DEF d
<1> QED
  BY <1>1, <1>2

(* So is a constant, whose name was not bound.                             *)
LEMMA DefineConstReads ==
  ASSUME Inv, SourceInv, DefineConst, UNCHANGED generateVars
  PROVE  SourceInv'
<1> DEFINE type == FieldType(Def.type)
           value == ConstValue(Def.value, type)
           d == Decl(value)
           names == {<<Def.name>>}
           entry == [n \in names |-> [type |-> type, value |-> value]]
<1>1. CASE Stop("failed") \/ \E how \in Failures(value) : Stop(how)
  BY <1>1, FailureIsKnown, StopKeepsSource
<1>2. CASE ~(Stop("failed") \/ \E how \in Failures(value) : Stop(how))
  <2>1. /\ status = "parsing" /\ cursor.stage = "defined" /\ Mode = "PROGRAM"
        /\ Def.kind = "const"
        /\ ~ConstantTaken(names)
        /\ scopes' = Declare("consts", names, entry)
        /\ Added(d)
    BY <1>2 DEF DefineConst, Reading
  <2>2. ScopesGrow /\ <<Def.name>> \in DOMAIN scopes'[Program].consts
    <3> HIDE DEF entry
    <3>1. /\ DOMAIN scopes' = DOMAIN scopes
          /\ \A n \in DOMAIN scopes :
               /\ DOMAIN scopes'[n] = DOMAIN scopes[n]
               /\ DOMAIN scopes[n].consts \subseteq DOMAIN scopes'[n].consts
          /\ names \subseteq DOMAIN scopes'[Program].consts
      BY <2>1, DeclareGrows
    <3> QED
      BY <3>1 DEF ScopesGrow
  <2>3. /\ DeclaredAs(input, d, Def, FALSE) /\ Listed(d)
        /\ d.node = Program /\ d.kind = Def.kind /\ d.name = Def.name
    BY <2>1, DeclIsAsDeclared
  <2>4. \A e \in decls : ~(e.node = Program /\ e.kind = "const" /\ e.name = Def.name)
    BY <2>1 DEF SourceInv, NamesInv, ConstantTaken, Scope
  <2> HIDE DEF d
  <2> QED
    BY <2>1, <2>2, <2>3, <2>4, AddedReads
<1> QED
  BY <1>1, <1>2

-----------------------------------------------------------------------------
(* Headers.                                                                *)

(* A program without includes has nothing below it.                        *)
LEMMA NothingBelow ==
  ASSUME Inv, SourceInv, nodes[Program].includes = {}, NEW i \in Nat
  PROVE  Child(Program, i) \notin DOMAIN nodes
<1>1. Program \in DOMAIN nodes /\ Program \in Seq(Nat) /\ NodesInv
  BY DEF Inv, ParserInv, SourceInv, NodesInv
<1>2. SUFFICES ASSUME Child(Program, i) \in DOMAIN nodes
               PROVE  FALSE
  OBVIOUS
<1>3. Child(Program, i) # Root
  <2>1. Len(Child(Program, i)) = Len(Program) + 1
    BY <1>1, ChildIsBelow
  <2>2. Len(Root) = 0 /\ Len(Program) \in Nat
    BY <1>1 DEF Root
  <2> QED
    BY <2>1, <2>2
<1>4. PICK m \in DOMAIN nodes : \E j \in nodes[m].includes : Child(Program, i) = Child(m, j)
  BY <1>1, <1>2, <1>3 DEF NodesInv
<1>5. PICK j \in nodes[m].includes : Child(Program, i) = Child(m, j)
  BY <1>4
<1>6. m \in Seq(Nat) /\ j \in Nat
  BY <1>1, <1>5 DEF NodesInv
<1>7. m = Program
  BY <1>1, <1>5, <1>6, ChildTells
<1> QED
  BY <1>5, <1>7

(* What the headers of a file do to the tree.                              *)
Widened(found) ==
  LET new == {Child(Program, i) : i \in found}
  IN  /\ DOMAIN nodes' = DOMAIN nodes \cup new
      /\ \A n \in DOMAIN nodes :
           /\ n \notin new
           /\ nodes'[n].path = nodes[n].path
           /\ nodes'[n].includes = IF n = Program THEN found ELSE nodes[n].includes
      /\ \A n \in new : nodes'[n].includes = {}
      /\ scopes' = WithScopes(new)
TreeKept ==
  /\ DOMAIN nodes' = DOMAIN nodes
  /\ \A n \in DOMAIN nodes : /\ nodes'[n].path = nodes[n].path
                             /\ nodes'[n].includes = nodes[n].includes
  /\ UNCHANGED scopes

(* The PROGRAM pass leaves the tree; the INCLUDES pass adds the includes   *)
(* it finds.                                                               *)
LEMMA HeadersAreRead ==
  ASSUME Inv, SourceInv, ReadHeaders
  PROVE  \/ Mode = "PROGRAM" /\ TreeKept
         \/ Mode = "INCLUDES" /\ \E found \in SUBSET (Nat \ {0}) : Widened(found)
<1> DEFINE paths(i) == IncludeFile(input, globals.curdir, File.includes[i])
           found == {i \in 1..Len(File.includes) : paths(i) # {}}
           new == {Child(Program, i) : i \in found}
           path(n) == CHOOSE p \in paths(CHOOSE i \in found : n = Child(Program, i)) : TRUE
           added == [n \in new |-> NewNode(path(n))]
<1>1. Program \in DOMAIN nodes
  BY DEF Inv, ParserInv
<1>2. CASE /\ Mode = "INCLUDES"
           /\ nodes' = Bind([nodes EXCEPT ![Program] = Node(@.path, found, @.namespace)],
                            new, added)
           /\ scopes' = WithScopes(new)
  <2> DEFINE passed == [nodes EXCEPT ![Program] = Node(@.path, found, @.namespace)]
  <2>1. /\ DOMAIN passed = DOMAIN nodes
        /\ passed[Program] = Node(nodes[Program].path, found, nodes[Program].namespace)
        /\ \A n \in DOMAIN nodes : n # Program => passed[n] = nodes[n]
    BY <1>1
  <2>2. \A n \in new : added[n] = NewNode(path(n))
    OBVIOUS
  <2>3. found \in SUBSET (Nat \ {0})
    OBVIOUS
  <2>4. \A i \in found : Child(Program, i) \notin DOMAIN nodes
    <3>1. nodes[Program].includes = {}
      BY <1>2 DEF SourceInv, ParsingInv, ReadHeaders
    <3> QED
      BY <2>3, <3>1, NothingBelow
  <2>5. new = {Child(Program, i) : i \in found}
    OBVIOUS
  <2> HIDE DEF passed, added, found, path, new
  <2>6. /\ DOMAIN nodes' = DOMAIN nodes \cup new
        /\ \A n \in DOMAIN nodes' : nodes'[n] = IF n \in new THEN added[n] ELSE passed[n]
    BY <1>2, <2>1 DEF Bind, passed
  <2>7. \A n \in DOMAIN nodes : n \notin new
    BY <2>4, <2>5
  <2>8. \A n \in new : nodes'[n].includes = {}
    BY <2>2, <2>6, NewNodeIsEmpty
  <2>9. nodes'[Program].path = nodes[Program].path /\ nodes'[Program].includes = found
    BY <1>1, <2>1, <2>6, <2>7 DEF Node
  <2>10. \A n \in DOMAIN nodes : n # Program => nodes'[n] = nodes[n]
    BY <2>1, <2>6, <2>7
  <2>11. Widened(found)
    BY <1>2, <2>5, <2>6, <2>7, <2>8, <2>9, <2>10 DEF Widened
  <2> QED
    BY <1>2, <2>3, <2>11
<1>3. CASE /\ Mode = "PROGRAM"
           /\ nodes' = [nodes EXCEPT ![Program] =
                          Node(@.path, @.includes, File.namespace)]
           /\ UNCHANGED scopes
  <2>1. /\ DOMAIN nodes' = DOMAIN nodes
        /\ \A n \in DOMAIN nodes : n # Program => nodes'[n] = nodes[n]
        /\ nodes'[Program] = Node(nodes[Program].path, nodes[Program].includes,
                                  File.namespace)
    BY <1>1, <1>3
  <2>2. /\ nodes'[Program].path = nodes[Program].path
        /\ nodes'[Program].includes = nodes[Program].includes
    BY <2>1 DEF Node
  <2> QED
    BY <1>3, <2>1, <2>2 DEF TreeKept
<1> QED
  BY <1>2, <1>3 DEF ReadHeaders

(* The includes are to come, and nothing of them is parsed.                *)
LEMMA ReadHeadersReads ==
  ASSUME Inv, SourceInv, ReadHeaders, UNCHANGED generateVars
  PROVE  SourceInv'
<1>1. /\ UNCHANGED <<input, status, globals, stack, fieldVal, members, lists, decls,
                     generating, output>>
      /\ status = "parsing" /\ cursor.stage = "headers"
      /\ cursor' = [cursor EXCEPT !.stage = "definition"]
  BY DEF ReadHeaders, generateVars
<1>2. cursor'.stage = "definition" /\ cursor'.def = cursor.def
  BY <1>1 DEF Inv, CursorInv
<1>3. UNCHANGED <<Program, Mode, Caller>>
  BY <1>1 DEF Program, Mode, Caller, Last1
<1>4. \A n : DeclsOf(n)' = DeclsOf(n)
  BY <1>1 DEF DeclsOf
<1>5. /\ Program \in DOMAIN nodes /\ Program = Caller.node
      /\ \A n \in DOMAIN nodes : nodes'[n].path = nodes[n].path
  BY <1>1, HeadersAreRead DEF Inv, ParserInv, SourceInv, ParsingInv, Widened, TreeKept
<1>6. \A n \in DOMAIN nodes : \A m, afterGo :
        /\ Reflects(n, m, afterGo)' <=> Reflects(n, m, afterGo)
        /\ Complete(n, afterGo)' <=> Complete(n, afterGo)
  BY <1>1, <1>4, <1>5, ReflectsUnchanged
<1>7. ReaderInv'
  <2>1. File' = File
    BY <1>1, <1>3, <1>5 DEF File
  <2> QED
    BY <1>2, <2>1 DEF SourceInv, ReaderInv
<1>8. GeneratingInv' /\ TargetsSeeTheSource'
  BY <1>1 DEF GeneratingInv, SourceInv, TargetsSeeTheSource, AfterGo
<1>9. ParsingInv /\ NodesInv /\ NamesInv /\ (\A d \in decls : d.node \in DOMAIN nodes)
  BY DEF SourceInv, Inv, TreeInv
<1>10. Descent(stack)' /\ \A n : OnStack(n)' <=> OnStack(n)
  BY <1>1, <1>9 DEF ParsingInv, Descent, OnStack
<1>11. CASE Mode = "PROGRAM" /\ TreeKept
  <2>1. NamesInv' /\ NodesInv'
    <3>1. NamesInv'
      BY <1>1, <1>9, <1>11 DEF NamesInv, TreeKept
    <3>2. ASSUME NEW n \in DOMAIN nodes
          PROVE  /\ n \in Seq(Nat) /\ nodes'[n].includes \subseteq Nat \ {0}
                 /\ \/ n = Root
                    \/ \E m \in DOMAIN nodes : \E i \in nodes'[m].includes : n = Child(m, i)
      <4>1. nodes'[n].includes = nodes[n].includes
        BY <1>11 DEF TreeKept
      <4>2. CASE n # Root
        <5>1. PICK m \in DOMAIN nodes : \E i \in nodes[m].includes : n = Child(m, i)
          BY <1>9, <4>2 DEF NodesInv
        <5>2. nodes'[m].includes = nodes[m].includes
          BY <1>11 DEF TreeKept
        <5> QED
          BY <1>9, <4>1, <5>1, <5>2 DEF NodesInv
      <4> QED
        BY <1>9, <4>1, <4>2 DEF NodesInv
    <3>3. Root \in DOMAIN nodes
      BY <1>9 DEF NodesInv
    <3> QED
      BY <1>11, <3>1, <3>2, <3>3 DEF NodesInv, TreeKept
  <2>2. \A n : ToCome(n)' <=> ToCome(n)
    BY <1>1, <1>11, FrameIsThere DEF ToCome, TreeKept
  <2>3. NoneComes(Caller)' /\ InProgram' /\ InProgram
    BY <1>1, <1>2, <1>3, <1>5, <1>9, <1>11 DEF ParsingInv, NoneComes, InProgram, TreeKept
  <2>4. Reflects(Program, cursor.def - 1, FALSE)'
    BY <1>1, <1>2, <1>3, <1>5, <1>6, <1>9, <2>3 DEF ParsingInv
  <2>5. ParsingInv'
    BY <1>1, <1>2, <1>3, <1>4, <1>5, <1>6, <1>9, <1>10, <1>11, <2>2, <2>3, <2>4
       DEF ParsingInv, TreeKept
  <2> QED
    BY <1>1, <1>7, <1>8, <2>1, <2>5 DEF SourceInv
<1>12. ASSUME Mode = "INCLUDES", NEW found \in SUBSET (Nat \ {0}), Widened(found)
       PROVE  SourceInv'
  <2> DEFINE new == {Child(Program, i) : i \in found}
  <2>1. /\ DOMAIN nodes' = DOMAIN nodes \cup new
        /\ \A n \in DOMAIN nodes : n \notin new
        /\ \A n \in DOMAIN nodes : n # Program => nodes'[n].includes = nodes[n].includes
        /\ nodes'[Program].includes = found
        /\ \A n \in new : nodes'[n].includes = {}
        /\ scopes' = WithScopes(new)
        /\ \A n \in new : \E i \in found : n = Child(Program, i)
        /\ \A i \in found : Child(Program, i) \in new
    BY <1>5, <1>12 DEF Widened
  <2>2. nodes[Program].includes = {} /\ Caller.child = 0
    BY <1>1, <1>9, <1>12 DEF ParsingInv
  <2> HIDE DEF new
  <2>3. NamesInv'
    <3>1. /\ DOMAIN scopes = DOMAIN nodes
          /\ DOMAIN scopes' = DOMAIN scopes \cup new
          /\ \A n \in DOMAIN scopes' :
               scopes'[n] = IF n \in new THEN NewScope ELSE scopes[n]
      BY <2>1 DEF Inv, TreeInv, WithScopes, Bind
    <3>2. DOMAIN NewScope = {"types", "consts", "services"}
      BY DEF NewScope
    <3> QED
      BY <1>1, <1>9, <2>1, <3>1, <3>2 DEF NamesInv
  <2>4. NodesInv'
    <3>1. ASSUME NEW n \in new
          PROVE  /\ n \in Seq(Nat)
                 /\ \E m \in DOMAIN nodes' : \E i \in nodes'[m].includes : n = Child(m, i)
      <4>1. PICK i \in found : n = Child(Program, i)
        BY <2>1
      <4>2. n \in Seq(Nat)
        BY <1>5, <1>9, <4>1, ChildIsBelow DEF NodesInv
      <4> QED
        BY <1>5, <2>1, <4>1, <4>2
    <3>2. ASSUME NEW n \in DOMAIN nodes
          PROVE  /\ n \in Seq(Nat)
                 /\ \/ n = Root
                    \/ \E m \in DOMAIN nodes' : \E i \in nodes'[m].includes : n = Child(m, i)
      <4>1. CASE n # Root
        <5>1. PICK m \in DOMAIN nodes : \E i \in nodes[m].includes : n = Child(m, i)
          BY <1>9, <4>1 DEF NodesInv
        <5>2. m # Program
          BY <2>2, <5>1
        <5>3. nodes'[m].includes = nodes[m].includes /\ m \in DOMAIN nodes'
          BY <2>1, <5>2
        <5> QED
          BY <1>9, <5>1, <5>3 DEF NodesInv
      <4> QED
        BY <1>9, <4>1 DEF NodesInv
    <3>3. \A n \in DOMAIN nodes' : nodes'[n].includes \subseteq Nat \ {0}
      BY <1>9, <2>1 DEF NodesInv
    <3>4. Root \in DOMAIN nodes'
      BY <1>9, <2>1 DEF NodesInv
    <3> QED
      BY <2>1, <3>1, <3>2, <3>3, <3>4 DEF NodesInv
  <2>5. ~InProgram' /\ Mode' = "INCLUDES" /\ ~InProgram
    BY <1>3, <1>12 DEF InProgram
  <2>6. ASSUME NEW n
        PROVE  ToCome(n)' <=> (ToCome(n) \/ n \in new)
    <3>1. \A k \in 1..Len(stack) : k # Len(stack) =>
            /\ stack[k].node \in DOMAIN nodes /\ stack[k].node # Program
            /\ nodes'[stack[k].node].includes = nodes[stack[k].node].includes
      BY <1>1, <1>5, <2>1, FrameIsThere, CallsAreApart
    <3>2. /\ Len(stack) \in 1..Len(stack) /\ stack[Len(stack)].node = Program
          /\ stack[Len(stack)].child = 0
      BY <1>1, <1>5, <2>2, CallerIsThere DEF Caller, Last1
    <3>3. ASSUME ToCome(n)
          PROVE  ToCome(n)'
      <4>1. PICK k \in 1..Len(stack) : \E i \in nodes[stack[k].node].includes :
              i > stack[k].child /\ n = Child(stack[k].node, i)
        BY <3>3 DEF ToCome
      <4>2. k # Len(stack)
        BY <2>2, <3>2, <4>1
      <4> QED
        BY <1>1, <3>1, <4>1, <4>2 DEF ToCome
    <3>4. ASSUME n \in new
          PROVE  ToCome(n)'
      <4>1. PICK i \in found : n = Child(Program, i)
        BY <2>1, <3>4
      <4>2. i > 0
        OBVIOUS
      <4> QED
        BY <1>1, <2>1, <3>2, <4>1, <4>2 DEF ToCome
    <3>5. ASSUME ToCome(n)'
          PROVE  ToCome(n) \/ n \in new
      <4>1. PICK k \in 1..Len(stack) : \E i \in nodes'[stack[k].node].includes :
              i > stack[k].child /\ n = Child(stack[k].node, i)
        BY <1>1, <3>5 DEF ToCome
      <4>2. CASE k = Len(stack)
        <5>1. PICK i \in nodes'[stack[k].node].includes : n = Child(stack[k].node, i)
          BY <4>1
        <5>2. stack[k].node = Program
          BY <3>2, <4>2
        <5>3. i \in found /\ n = Child(Program, i)
          BY <2>1, <5>1, <5>2
        <5> HIDE DEF new
        <5> QED
          BY <2>1, <5>3
      <4>3. CASE k # Len(stack)
        BY <3>1, <4>1, <4>3 DEF ToCome
      <4> QED
        BY <4>2, <4>3
    <3> QED
      BY <3>3, <3>4, <3>5
  <2>7. \A n \in DOMAIN nodes' : OnStack(n)' \/ ToCome(n)' \/ Complete(n, FALSE)'
    BY <1>1, <1>6, <1>9, <1>10, <2>1, <2>6 DEF ParsingInv
  <2>8. \A n \in DOMAIN nodes' : ToCome(n)' => nodes'[n].includes = {} /\ DeclsOf(n)' = {}
    <3>1. \A n \in new : DeclsOf(n) = {}
      BY <1>9, <2>1 DEF DeclsOf
    <3>2. \A n : ToCome(n) => n # Program
      <4>1. OnStack(Program)
        <5>1. Len(stack) \in 1..Len(stack)
          BY <1>1, CallerIsThere
        <5> QED
          BY <1>5, <5>1 DEF OnStack, Caller, Last1
      <4> QED
        BY <1>1, <4>1, WhatComesIsNotOnStack
    <3> QED
      BY <1>1, <1>4, <1>9, <2>1, <2>6, <3>1, <3>2 DEF ParsingInv
  <2>9. ParsingInv'
    BY <1>1, <1>2, <1>3, <1>4, <1>5, <1>9, <1>10, <2>2, <2>5, <2>7, <2>8 DEF ParsingInv
  <2> QED
    BY <1>1, <1>7, <1>8, <2>3, <2>4, <2>9 DEF SourceInv
<1> QED
  BY <1>11, <1>12, HeadersAreRead

-----------------------------------------------------------------------------
(* parse() and the calls of it.                                            *)

Pushed(calls, caller, callee) == Append([calls EXCEPT ![Len(calls)] = caller], callee)
Popped(calls) == SubSeq(calls, 1, Len(calls) - 1)

(* A call that calls: the caller is replaced, the callee on top, the       *)
(* others stay.                                                            *)
LEMMA CallIsPushed ==
  ASSUME NEW S, NEW s \in Seq(S), Len(s) \in Nat \ {0}, NEW a \in S, NEW b \in S
  PROVE  /\ Pushed(s, a, b) \in Seq(S)
         /\ Len(Pushed(s, a, b)) = Len(s) + 1
         /\ \A k \in 1..(Len(s) - 1) : Pushed(s, a, b)[k] = s[k]
         /\ Pushed(s, a, b)[Len(s)] = a /\ Pushed(s, a, b)[Len(s) + 1] = b
<1> DEFINE r == [s EXCEPT ![Len(s)] = a]
           t == Pushed(s, a, b)
<1>1. Len(s) \in 1..Len(s)
  OBVIOUS
<1>2. /\ r \in Seq(S) /\ Len(r) = Len(s)
      /\ \A k \in 1..Len(s) : r[k] = IF k = Len(s) THEN a ELSE s[k]
  BY <1>1, ExceptSeq
<1> HIDE DEF r
<1>3. t = Append(r, b)
  BY DEF r, Pushed
<1> HIDE DEF t
<1> QED
  BY <1>1, <1>2, <1>3 DEF t

(* A call that returns leaves the others.                                  *)
LEMMA CallIsPopped ==
  ASSUME NEW S, NEW s \in Seq(S), Len(s) \in Nat \ {0}
  PROVE  /\ Popped(s) \in Seq(S)
         /\ Len(Popped(s)) = Len(s) - 1
         /\ \A k \in 1..(Len(s) - 1) : Popped(s)[k] = s[k]
<1> DEFINE t == Popped(s)
           n == Len(s)
<1>1. \A k \in 1..(Len(s) - 1) : s[k] \in S
  OBVIOUS
<1>2. /\ t \in Seq(S)
      /\ Len(t) = IF 1 <= Len(s) - 1 THEN Len(s) - 1 ELSE 0
      /\ \A k \in 1..(Len(s) - 1) : t[k] = s[k]
  BY <1>1, SubSeqProperties DEF Popped
<1>3. n \in Nat \ {0}
  OBVIOUS
<1> HIDE DEF n
<1>4. (IF 1 <= n - 1 THEN n - 1 ELSE 0) = n - 1
  BY <1>3
<1>5. Len(t) = n - 1
  BY <1>2, <1>4 DEF n
<1> QED
  BY <1>2, <1>5 DEF n

(* One call is below the other in the tree, also after these.              *)
LEMMA DescentOfPushed ==
  ASSUME NEW S, NEW s \in Seq(S), Len(s) \in Nat \ {0}, NEW a \in S, NEW b \in S,
         Descent(s), a.node = s[Len(s)].node, a.node \in Seq(Nat), a.child \in Nat,
         b.node = Child(a.node, a.child)
  PROVE  Descent(Pushed(s, a, b))
<1> DEFINE t == Pushed(s, a, b)
           n == Len(s)
<1>1. /\ Len(t) = n + 1 /\ t[n] = a /\ t[n + 1] = b
      /\ \A k \in 1..(n - 1) : t[k] = s[k]
  <2>1. /\ Len(Pushed(s, a, b)) = Len(s) + 1
        /\ Pushed(s, a, b)[Len(s)] = a /\ Pushed(s, a, b)[Len(s) + 1] = b
        /\ \A k \in 1..(Len(s) - 1) : Pushed(s, a, b)[k] = s[k]
    BY CallIsPushed
  <2> QED
    BY <2>1
<1>2. /\ \A k \in 1..n : /\ Len(s[k].node) = k - 1
                         /\ \A j \in 1..(k - 1) : s[k].node[j] = s[j].child
      /\ a.node = s[n].node /\ n \in Nat \ {0}
  BY DEF Descent
<1> HIDE DEF t, n
<1>3. /\ Len(b.node) = n
      /\ \A j \in 1..(n - 1) : b.node[j] = a.node[j]
      /\ b.node[n] = a.child
  <2>1. Len(a.node) = n - 1
    BY <1>2
  <2>2. /\ Len(Child(a.node, a.child)) = Len(a.node) + 1
        /\ Child(a.node, a.child)[Len(a.node) + 1] = a.child
        /\ \A j \in 1..Len(a.node) : Child(a.node, a.child)[j] = a.node[j]
    BY ChildIsBelow
  <2>3. Len(a.node) + 1 = n
    BY <1>2, <2>1
  <2> QED
    BY <2>1, <2>2, <2>3
<1>4. ASSUME NEW k \in 1..n
      PROVE  /\ t[k].node = s[k].node
             /\ Len(t[k].node) = k - 1
             /\ \A j \in 1..(k - 1) : t[k].node[j] = t[j].child
  <2>1. t[k].node = s[k].node
    <3>1. k = n \/ k \in 1..(n - 1)
      BY <1>2
    <3> QED
      BY <1>1, <1>2, <3>1
  <2>2. \A j \in 1..(k - 1) : j \in 1..(n - 1)
    BY <1>2
  <2> QED
    BY <1>1, <1>2, <2>1, <2>2
<1>5. ASSUME NEW j \in 1..n
      PROVE  b.node[j] = t[j].child
  <2>1. CASE j = n
    BY <1>1, <1>3, <2>1
  <2>2. CASE j \in 1..(n - 1)
    <3>1. n \in 1..n
      BY <1>2
    <3>2. s[n].node[j] = s[j].child
      BY <1>2, <2>2, <3>1
    <3> QED
      BY <1>1, <1>2, <1>3, <2>2, <3>2
  <2> QED
    BY <1>2, <2>1, <2>2
<1>6. ASSUME NEW k \in 1..(n + 1)
      PROVE  /\ Len(t[k].node) = k - 1
             /\ \A j \in 1..(k - 1) : t[k].node[j] = t[j].child
  <2>1. CASE k \in 1..n
    BY <1>4, <2>1
  <2>2. CASE k = n + 1
    <3>1. t[k] = b /\ k - 1 = n
      BY <1>1, <1>2, <2>2
    <3> QED
      BY <1>3, <1>5, <3>1
  <2>3. k \in 1..n \/ k = n + 1
    BY <1>2
  <2> QED
    BY <2>1, <2>2, <2>3
<1> QED
  BY <1>1, <1>6 DEF Descent, t

(* And when one returns.                                                   *)
LEMMA DescentOfPopped ==
  ASSUME NEW S, NEW s \in Seq(S), Len(s) \in Nat \ {0}, Descent(s)
  PROVE  Descent(Popped(s))
<1> DEFINE t == Popped(s)
           n == Len(s)
<1>1. Len(t) = n - 1 /\ \A k \in 1..(n - 1) : t[k] = s[k]
  BY CallIsPopped
<1>2. /\ \A k \in 1..n : /\ Len(s[k].node) = k - 1
                         /\ \A j \in 1..(k - 1) : s[k].node[j] = s[j].child
      /\ n \in Nat \ {0}
  BY DEF Descent
<1> HIDE DEF t, n
<1>3. ASSUME NEW k \in 1..(n - 1)
      PROVE  /\ Len(t[k].node) = k - 1
             /\ \A j \in 1..(k - 1) : t[k].node[j] = t[j].child
  <2>1. k \in 1..n /\ t[k] = s[k] /\ \A j \in 1..(k - 1) : j \in 1..(n - 1)
    BY <1>1, <1>2
  <2> QED
    BY <1>1, <1>2, <2>1
<1> QED
  BY <1>1, <1>3 DEF Descent, t

(* All of a file is read when the second pass is at its end.               *)
LEMMA AllIsRead ==
  ASSUME Inv, SourceInv, EndOfFile, Mode = "PROGRAM"
  PROVE  /\ NoneComes(Caller) /\ Program = Caller.node
         /\ Complete(Program, FALSE)
<1>1. ParsingInv /\ ReaderInv /\ InProgram
  BY DEF EndOfFile, SourceInv, InProgram
<1>2. Len(File.defs) \in Nat /\ cursor.def \in Nat
  BY <1>1, DefIsThere DEF Inv, CursorInv
<1>3. cursor.def <= Len(File.defs) + 1 /\ cursor.def > Len(File.defs)
  BY <1>1 DEF EndOfFile, ReaderInv
<1>4. cursor.def - 1 = Len(File.defs)
  BY <1>2, <1>3
<1>5. Len(DefsOf(Program)) = cursor.def - 1
  BY <1>4 DEF DefsOf, File
<1>6. /\ NoneComes(Caller) /\ Program = Caller.node
      /\ Reflects(Program, cursor.def - 1, FALSE)
  BY <1>1 DEF EndOfFile, ParsingInv, InProgram
<1>7. Reflects(Program, Len(DefsOf(Program)), FALSE)
  BY <1>5, <1>6
<1> QED
  BY <1>6, <1>7 DEF Complete

(* The pass ends: the program is complete, or was read for its includes    *)
(* only.                                                                   *)
LEMMA EndOfFileReads ==
  ASSUME Inv, SourceInv, EndOfFile, UNCHANGED generateVars
  PROVE  SourceInv'
<1>1. /\ UNCHANGED <<input, globals, fieldVal, members, lists, nodes, scopes, decls,
                     generating, output>>
      /\ status = "parsing" /\ cursor.stage = "definition"
      /\ cursor' = [cursor EXCEPT !.stage = "recurse"]
      /\ Mode = "INCLUDES" => UNCHANGED <<stack, status>>
      /\ Mode # "INCLUDES" =>
           /\ stack' = SubSeq(stack, 1, Len(stack) - 1)
           /\ status' = IF Len(stack) = 1 THEN "generating" ELSE status
  BY DEF EndOfFile, treeVars, generateVars
<1>2. cursor'.stage = "recurse" /\ cursor'.def = cursor.def
  BY <1>1 DEF Inv, CursorInv
<1>3. UNCHANGED <<Program, Mode, File>>
  BY <1>1 DEF Program, Mode, File
<1>4. \A n : DeclsOf(n)' = DeclsOf(n)
  BY <1>1 DEF DeclsOf
<1>5. \A n, m, afterGo : /\ Reflects(n, m, afterGo)' <=> Reflects(n, m, afterGo)
                         /\ Complete(n, afterGo)' <=> Complete(n, afterGo)
  BY <1>1, <1>4, ReflectsUnchanged
<1>6. ReaderInv'
  BY <1>2, <1>3 DEF SourceInv, ReaderInv
<1>7. NamesInv' /\ NodesInv' /\ TargetsSeeTheSource'
  BY <1>1 DEF SourceInv, NamesInv, NodesInv, TargetsSeeTheSource, AfterGo
<1>8. ParsingInv /\ generating = <<>> /\ Mode \in {"INCLUDES", "PROGRAM"}
  BY <1>1 DEF SourceInv, Inv, ParserInv
<1>9. ~InProgram'
  BY <1>2 DEF InProgram
<1>10. CASE Mode = "INCLUDES"
  <2>1. /\ Descent(stack)' /\ ~InProgram
        /\ \A n : OnStack(n)' <=> OnStack(n)
        /\ \A n : ToCome(n)' <=> ToCome(n)
    BY <1>1, <1>8, <1>10 DEF ParsingInv, Descent, OnStack, ToCome, InProgram
  <2>2. ParsingInv'
    BY <1>1, <1>2, <1>4, <1>5, <1>8, <1>9, <1>10, <2>1 DEF ParsingInv
  <2>3. GeneratingInv'
    BY <1>1, <1>10 DEF GeneratingInv
  <2> QED
    BY <1>1, <1>6, <1>7, <1>8, <2>2, <2>3 DEF SourceInv
<1>11. CASE Mode = "PROGRAM"
  <2> DEFINE Frames == [node : DOMAIN nodes, parent : DOMAIN nodes \cup {NoNode},
                        child : Int]
  <2>1. /\ stack \in Seq(Frames) /\ Len(stack) \in Nat \ {0}
        /\ stack' = Popped(stack)
    BY <1>1, <1>11, CallerIsThere DEF Inv, ParserInv, Popped
  <2> HIDE DEF Frames
  <2>2. /\ Len(stack') = Len(stack) - 1
        /\ \A k \in 1..(Len(stack) - 1) : stack'[k] = stack[k]
        /\ stack' \in Seq(Frames)
    BY <2>1, CallIsPopped
  <2>3. Descent(stack) /\ Caller = stack[Len(stack)]
    BY <1>1, <1>8 DEF ParsingInv, Caller, Last1
  <2>4. Descent(stack')
    BY <2>1, <2>3, DescentOfPopped
  <2>5. /\ NoneComes(Caller) /\ Program = Caller.node /\ Complete(Program, FALSE)
    BY <1>11, AllIsRead
  <2>6. \A k \in 1..Len(stack) : k = Len(stack) \/ k \in 1..Len(stack')
    BY <2>1, <2>2
  <2>7. \A n : OnStack(n) => OnStack(n)' \/ n = Program
    BY <2>1, <2>2, <2>3, <2>5, <2>6 DEF OnStack
  <2>8. ASSUME NEW n
        PROVE  ToCome(n)' <=> ToCome(n)
    <3>1. ASSUME ToCome(n)
          PROVE  ToCome(n)'
      <4>1. PICK k \in 1..Len(stack) : \E i \in nodes[stack[k].node].includes :
              i > stack[k].child /\ n = Child(stack[k].node, i)
        BY <3>1 DEF ToCome
      <4>2. k # Len(stack)
        <5> SUFFICES ASSUME k = Len(stack)
                     PROVE  FALSE
          OBVIOUS
        <5>1. PICK i \in nodes[Caller.node].includes : i > Caller.child
          BY <2>3, <4>1
        <5>2. i \in Nat /\ Caller.child \in Int
          BY <2>3, <5>1, FrameIsThere
        <5>3. i <= Caller.child
          BY <2>5, <5>1 DEF NoneComes
        <5> QED
          BY <5>1, <5>2, <5>3
      <4>3. k \in 1..Len(stack') /\ stack'[k] = stack[k]
        BY <2>1, <2>2, <2>6, <4>2
      <4> QED
        BY <1>1, <4>1, <4>3 DEF ToCome
    <3>2. ASSUME ToCome(n)'
          PROVE  ToCome(n)
      <4>1. PICK k \in 1..Len(stack') : \E i \in nodes[stack'[k].node].includes :
              i > stack'[k].child /\ n = Child(stack'[k].node, i)
        BY <1>1, <3>2 DEF ToCome
      <4>2. k \in 1..Len(stack) /\ stack'[k] = stack[k]
        BY <2>1, <2>2
      <4> QED
        BY <4>1, <4>2 DEF ToCome
    <3> QED
      BY <3>1, <3>2
  <2>9. \A n \in DOMAIN nodes : OnStack(n)' \/ ToCome(n)' \/ Complete(n, FALSE)'
    BY <1>5, <1>8, <1>1, <2>5, <2>7, <2>8 DEF ParsingInv
  <2>10. (\A k \in 1..Len(stack) : DeclsOf(stack[k].node) = {})'
    <3>1. ASSUME NEW k \in 1..Len(stack')
          PROVE  {e \in decls' : e.node = stack'[k].node} = {}
      <4>1. k \in 1..Len(stack) /\ k < Len(stack) /\ stack'[k] = stack[k]
        BY <2>1, <2>2
      <4>2. DeclsOf(stack[k].node) = {}
        BY <1>1, <1>8, <4>1 DEF ParsingInv
      <4> QED
        BY <1>1, <4>1, <4>2 DEF DeclsOf
    <3> QED
      BY <3>1 DEF DeclsOf
  <2>11. ParsingInv'
    <3>1. \A n \in DOMAIN nodes : ToCome(n) => nodes[n].includes = {} /\ DeclsOf(n) = {}
      BY <1>1, <1>8 DEF ParsingInv
    <3> QED
      BY <1>1, <1>2, <1>4, <1>9, <2>4, <2>8, <2>9, <2>10, <3>1 DEF ParsingInv
  <2>12. GeneratingInv'
    <3> SUFFICES ASSUME status' = "generating"
                 PROVE  GeneratingInv'
      BY DEF GeneratingInv
    <3>1. Len(stack) = 1
      BY <1>1, <1>11
    <3>2. stack' = <<>>
      BY <2>2, <3>1
    <3>3. \A n : ~OnStack(n)' /\ ~ToCome(n)'
      BY <3>2 DEF OnStack, ToCome
    <3>4. generating' = <<>>
      BY <1>1, <1>8
    <3>5. Descent(generating)'
      BY <3>4 DEF Descent
    <3>6. generating' \in Seq([node : DOMAIN nodes', child : Nat, turn : Nat \ {0}])
          /\ Len(generating') = 0
      BY <3>4
    <3>7. \A n \in DOMAIN nodes' : Complete(n, FALSE)'
      BY <1>1, <2>9, <3>3
    <3>8. 1..Len(generating') = {}
      BY <3>6
    <3>9. (/\ \A k \in 1..Len(generating) :
                /\ k < Len(generating) => generating[k].turn = 1
                /\ generating[k].turn > 1 => ~input.recurse \/ NoneComes(generating[k])
           /\ \A n \in DOMAIN nodes :
                Complete(n, FALSE) \/ (Complete(n, TRUE) /\ Passed(n)))'
      BY <3>7, <3>8
    <3> QED
      BY <3>2, <3>5, <3>6, <3>9 DEF GeneratingInv
  <2>13. generating' = <<>>
    BY <1>1, <1>8
  <2> QED
    BY <1>6, <1>7, <2>11, <2>12, <2>13 DEF SourceInv
<1> QED
  BY <1>8, <1>10, <1>11

(* When no include comes any more, the PROGRAM pass begins with the first  *)
(* definition.                                                             *)
LEMMA ProgramPassReads ==
  ASSUME Inv, SourceInv, ProgramPass, UNCHANGED generateVars
  PROVE  SourceInv'
<1>1. /\ UNCHANGED <<input, status, stack, fieldVal, members, lists, nodes, scopes,
                     decls, generating, output>>
      /\ status = "parsing" /\ cursor.stage = "recurse" /\ NoneComes(Caller)
      /\ globals' = Globals("PROGRAM", globals.curdir, Caller.node, Caller.parent,
                            ProgramName(Caller.node))
      /\ cursor' = AtHeaders
  BY DEF ProgramPass, treeVars, generateVars
<1>2. Mode' = "PROGRAM" /\ Program' = Caller.node /\ Caller' = Caller
  BY <1>1 DEF Mode, Program, Globals, Caller, Last1
<1>3. cursor'.stage = "headers" /\ cursor'.def = 1
  BY <1>1 DEF AtHeaders, At
<1>4. \A n : DeclsOf(n)' = DeclsOf(n)
  BY <1>1 DEF DeclsOf
<1>5. \A n, m, afterGo : /\ Reflects(n, m, afterGo)' <=> Reflects(n, m, afterGo)
                         /\ Complete(n, afterGo)' <=> Complete(n, afterGo)
  BY <1>1, <1>4, ReflectsUnchanged
<1>6. ReaderInv'
  <2>1. Inv'
    BY ProgramPassKeepsInv
  <2>2. input' \in Inputs /\ nodes'[Program'].path \in DOMAIN input'.files
    BY <2>1 DEF Inv, ParserInv, TreeInv
  <2>3. Len(input'.files[nodes'[Program'].path].defs) \in Nat
    BY <2>2, InputsAssumption
  <2>4. Len(File'.defs) \in Nat
    BY <2>3 DEF File
  <2> QED
    BY <1>3, <2>4 DEF ReaderInv
<1>7. NamesInv' /\ NodesInv' /\ TargetsSeeTheSource'
  BY <1>1 DEF SourceInv, NamesInv, NodesInv, TargetsSeeTheSource, AfterGo
<1>8. ParsingInv /\ ~InProgram
  BY <1>1 DEF SourceInv, InProgram
<1>9. DeclsOf(Caller.node) = {}
  <2>1. Len(stack) \in 1..Len(stack)
    BY <1>1, CallerIsThere
  <2> QED
    BY <1>1, <1>8, <2>1 DEF ParsingInv, Caller, Last1
<1>10. Reflects(Program, cursor.def - 1, FALSE)'
  <2>1. DeclsOf(Program)' = {} /\ cursor'.def - 1 = 0
    BY <1>1, <1>2, <1>3, <1>9 DEF DeclsOf
  <2>2. IsFiniteSet({}) /\ Cardinality({}) = 0
    BY FS_EmptySet
  <2> QED
    BY <2>1, <2>2 DEF Reflects
<1>11. ParsingInv'
  <2>1. /\ Descent(stack)' /\ NoneComes(Caller)' /\ InProgram'
        /\ \A n : OnStack(n)' <=> OnStack(n)
        /\ \A n : ToCome(n)' <=> ToCome(n)
    BY <1>1, <1>2, <1>3, <1>8 DEF ParsingInv, Descent, OnStack, ToCome, NoneComes, InProgram
  <2> QED
    BY <1>1, <1>2, <1>3, <1>4, <1>5, <1>8, <1>10, <2>1 DEF ParsingInv
<1>12. GeneratingInv'
  BY <1>1 DEF GeneratingInv
<1> QED
  BY <1>1, <1>6, <1>7, <1>11, <1>12 DEF SourceInv

(* The parse() of an include begins: one that was to come, and is on the   *)
(* stack now.                                                              *)
LEMMA ParseIncludeReads ==
  ASSUME Inv, SourceInv, ParseInclude, UNCHANGED generateVars
  PROVE  SourceInv'
<1> DEFINE Frames == [node : DOMAIN nodes, parent : DOMAIN nodes \cup {NoNode},
                      child : Int]
           n == Len(stack)
<1>1. CASE Stop("overflow")
  BY <1>1, StopKeepsSource
<1>2. CASE ~Stop("overflow")
  <2>1. PICK i \in nodes[Caller.node].includes :
          /\ Comes(Caller, i)
          /\ stack' = Pushed(stack, Frame(Caller.node, Caller.parent, i),
                             Frame(Child(Caller.node, i), Caller.node, 0))
          /\ globals' = Globals("INCLUDES", Directory(nodes[Child(Caller.node, i)].path),
                           Child(Caller.node, i), globals.parent, globals.prefix)
          /\ cursor' = AtHeaders
          /\ UNCHANGED <<input, status, fieldVal, members, lists, treeVars>>
    BY <1>2 DEF ParseInclude, Pushed, Caller, Last1
  <2> DEFINE node == Child(Caller.node, i)
             a == Frame(Caller.node, Caller.parent, i)
             b == Frame(node, Caller.node, 0)
  <2>2. /\ status = "parsing" /\ cursor.stage = "recurse"
        /\ UNCHANGED <<input, status, fieldVal, members, lists, nodes, scopes, decls,
                       generating, output>>
    BY <2>1 DEF ParseInclude, treeVars, generateVars
  <2>3. /\ n \in Nat \ {0} /\ Caller \in Frames /\ stack \in Seq(Frames)
        /\ n \in 1..n /\ Caller = stack[n]
    BY <2>2, CallerIsThere DEF Inv, ParserInv, Caller, Last1
  <2>4. /\ Caller.node \in DOMAIN nodes /\ Caller.node \in Seq(Nat) /\ Caller.child \in Int
        /\ nodes[Caller.node].includes \subseteq Nat
    BY <2>3, FrameIsThere
  <2>5. node \in DOMAIN nodes /\ i \in Nat
    BY <2>4 DEF Inv, TreeInv, IncludesOf
  <2>6. /\ a \in Frames /\ a.node = Caller.node /\ a.child = i
        /\ b \in Frames /\ b.node = node /\ b.child = 0
    BY <2>3, <2>4, <2>5 DEF Frame
  <2>7. stack' = Pushed(stack, a, b)
    BY <2>1
  <2> HIDE DEF Frames, a, b
  <2>8. /\ Len(stack') = n + 1 /\ stack' \in Seq(Frames)
        /\ \A k \in 1..(n - 1) : stack'[k] = stack[k]
        /\ stack'[n] = a /\ stack'[n + 1] = b
    <3> DEFINE t == Pushed(stack, a, b)
    <3>1. /\ Len(t) = n + 1 /\ t \in Seq(Frames)
          /\ \A k \in 1..(n - 1) : t[k] = stack[k]
          /\ t[n] = a /\ t[n + 1] = b
      BY <2>3, <2>6, CallIsPushed
    <3> QED
      BY <2>7, <3>1
  <2>9. Mode' = "INCLUDES" /\ Program' = node /\ Caller' = b
    BY <2>1, <2>8 DEF Mode, Program, Globals, Caller, Last1
  <2>10. cursor'.stage = "headers" /\ cursor'.def = 1
    BY <2>1 DEF AtHeaders, At
  <2>11. \A m : DeclsOf(m)' = DeclsOf(m)
    BY <2>2 DEF DeclsOf
  <2>12. \A p, m, afterGo : /\ Reflects(p, m, afterGo)' <=> Reflects(p, m, afterGo)
                            /\ Complete(p, afterGo)' <=> Complete(p, afterGo)
    BY <2>2, <2>11, ReflectsUnchanged
  <2>13. ReaderInv'
    <3>1. Inv'
      BY ParseIncludeKeepsInv
    <3>2. input' \in Inputs /\ nodes'[Program'].path \in DOMAIN input'.files
      BY <3>1 DEF Inv, ParserInv, TreeInv
    <3>3. Len(input'.files[nodes'[Program'].path].defs) \in Nat
      BY <3>2, InputsAssumption
    <3>4. Len(File'.defs) \in Nat
      BY <3>3 DEF File
    <3> QED
      BY <2>10, <3>4 DEF ReaderInv
  <2>14. NamesInv' /\ NodesInv' /\ TargetsSeeTheSource'
    BY <2>2 DEF SourceInv, NamesInv, NodesInv, TargetsSeeTheSource, AfterGo
  <2>15. ParsingInv /\ ~InProgram /\ Descent(stack) /\ generating = <<>>
    BY <2>2 DEF SourceInv, ParsingInv, InProgram
  <2>16. ToCome(node) /\ nodes[node].includes = {} /\ DeclsOf(node) = {}
    <3>1. i > stack[n].child
      BY <2>1, <2>3 DEF Comes
    <3>2. ToCome(node)
      BY <2>1, <2>3, <3>1 DEF ToCome
    <3> QED
      BY <2>2, <2>5, <2>15, <3>2 DEF ParsingInv
  <2>17. Descent(stack')
    BY <2>3, <2>4, <2>5, <2>6, <2>7, <2>15, DescentOfPushed
  <2>18. \A p : OnStack(p) => OnStack(p)'
    <3>1. \A k \in 1..n : k \in 1..(n + 1) /\ stack'[k].node = stack[k].node
      <4>1. \A k \in 1..n : k \in 1..(n + 1) /\ (k = n \/ k \in 1..(n - 1))
        BY <2>3
      <4> QED
        BY <2>3, <2>6, <2>8, <4>1
    <3> QED
      BY <2>8, <3>1 DEF OnStack
  <2>19. \A p : p = node => OnStack(p)'
    <3>1. n + 1 \in 1..Len(stack')
      BY <2>3, <2>8
    <3> QED
      BY <2>6, <2>8, <3>1 DEF OnStack
  <2>20. ASSUME NEW p, ToCome(p), p # node
         PROVE  ToCome(p)'
    <3>1. PICK k \in 1..n : \E j \in nodes[stack[k].node].includes :
            j > stack[k].child /\ p = Child(stack[k].node, j)
      BY <2>20 DEF ToCome
    <3>2. k \in 1..Len(stack')
      BY <2>3, <2>8
    <3>3. CASE k = n
      <4>1. PICK j \in nodes[Caller.node].includes :
              j > Caller.child /\ p = Child(Caller.node, j)
        BY <2>3, <3>1, <3>3
      <4>2. j # i /\ i <= j /\ j \in Nat
        BY <2>1, <2>4, <2>20, <4>1 DEF Comes
      <4>3. j > a.child
        BY <2>5, <2>6, <4>2
      <4> QED
        BY <2>2, <2>6, <2>8, <3>2, <3>3, <4>1, <4>3 DEF ToCome
    <3>4. CASE k \in 1..(n - 1)
      BY <2>2, <2>8, <3>1, <3>2, <3>4 DEF ToCome
    <3> QED
      BY <2>3, <3>3, <3>4
  <2>21. ASSUME NEW p, ToCome(p)'
         PROVE  ToCome(p)
    <3>1. PICK k \in 1..(n + 1) : \E j \in nodes[stack'[k].node].includes :
            j > stack'[k].child /\ p = Child(stack'[k].node, j)
      BY <2>2, <2>8, <2>21 DEF ToCome
    <3>2. PICK j \in nodes[stack'[k].node].includes :
            j > stack'[k].child /\ p = Child(stack'[k].node, j)
      BY <3>1
    <3>3. CASE k \in 1..(n - 1)
      <4>1. k \in 1..n /\ stack'[k] = stack[k]
        BY <2>3, <2>8, <3>3
      <4> QED
        BY <3>2, <4>1 DEF ToCome
    <3>4. CASE k = n
      <4>1. j \in nodes[Caller.node].includes /\ j > i /\ p = Child(Caller.node, j)
        BY <2>6, <2>8, <3>2, <3>4
      <4>2. i > Caller.child /\ j \in Nat
        BY <2>1, <2>4, <4>1 DEF Comes
      <4>3. j > Caller.child
        BY <2>4, <2>5, <4>1, <4>2
      <4> QED
        BY <2>3, <4>1, <4>3 DEF ToCome
    <3>5. CASE k = n + 1
      BY <2>6, <2>8, <2>16, <3>2, <3>5
    <3> QED
      BY <2>3, <3>3, <3>4, <3>5
  <2>22. (\A k \in 1..Len(stack) : DeclsOf(stack[k].node) = {})'
    <3>1. ASSUME NEW k \in 1..(n + 1)
          PROVE  {e \in decls' : e.node = stack'[k].node} = {}
      <4>1. \A m \in 1..n : DeclsOf(stack[m].node) = {}
        BY <2>2, <2>15 DEF ParsingInv
      <4>2. CASE k \in 1..(n - 1)
        <5>1. k \in 1..n /\ stack'[k] = stack[k]
          BY <2>3, <2>8, <4>2
        <5> QED
          BY <2>2, <4>1, <5>1 DEF DeclsOf
      <4>3. CASE k = n
        BY <2>2, <2>3, <2>6, <2>8, <4>1, <4>3 DEF DeclsOf
      <4>4. CASE k = n + 1
        BY <2>2, <2>6, <2>8, <2>16, <4>4 DEF DeclsOf
      <4> QED
        BY <2>3, <4>2, <4>3, <4>4
    <3> QED
      BY <2>8, <3>1 DEF DeclsOf
  <2>23. \A p \in DOMAIN nodes : OnStack(p)' \/ ToCome(p)' \/ Complete(p, FALSE)'
    <3>1. \A p \in DOMAIN nodes : OnStack(p) \/ ToCome(p) \/ Complete(p, FALSE)
      BY <2>2, <2>15 DEF ParsingInv
    <3> QED
      BY <2>12, <2>18, <2>19, <2>20, <3>1
  <2>24. (\A p \in DOMAIN nodes : ToCome(p) => nodes[p].includes = {} /\ DeclsOf(p) = {})'
    <3>1. \A p \in DOMAIN nodes : ToCome(p) => nodes[p].includes = {} /\ DeclsOf(p) = {}
      BY <2>2, <2>15 DEF ParsingInv
    <3> QED
      BY <2>2, <2>11, <2>21, <3>1
  <2>25. Program' = Caller'.node /\ Caller'.child = 0 /\ nodes'[Program'].includes = {}
    BY <2>2, <2>6, <2>9, <2>16
  <2>26. ~InProgram'
    BY <2>9 DEF InProgram
  <2>27. ParsingInv'
    BY <2>2, <2>10, <2>17, <2>22, <2>23, <2>24, <2>25, <2>26 DEF ParsingInv
  <2>28. GeneratingInv'
    BY <2>2 DEF GeneratingInv
  <2> QED
    BY <2>2, <2>13, <2>14, <2>15, <2>27, <2>28 DEF SourceInv
<1> QED
  BY <1>1, <1>2

(* No step of the parser breaks the invariant.                             *)
LEMMA ParserNextKeepsSource ==
  ASSUME Inv, SourceInv, ParserNext, UNCHANGED generateVars
  PROVE  SourceInv'
BY ReadHeadersReads, StartDefinitionReads, ReadFieldReads, EndFieldListReads,
   SkipDefinitionReads, DefineTypeReads, DefineEnumReads, DefineConstReads,
   EndOfFileReads, ParseIncludeReads, ProgramPassReads DEF ParserNext

-----------------------------------------------------------------------------
(* generate() and the calls of it.                                         *)

(* The call of generate() that runs is for a program of the tree.          *)
Calls == [node : DOMAIN nodes, child : Nat, turn : Nat \ {0}]

(* It is the last of the stack, at the depth of its node.                  *)
LEMMA CurrentIsThere ==
  ASSUME Inv, SourceInv, status = "generating", generating # <<>>
  PROVE  /\ generating \in Seq(Calls) /\ Len(generating) \in Nat \ {0}
         /\ Current = generating[Len(generating)] /\ Len(generating) \in 1..Len(generating)
         /\ Current \in Calls /\ Current.node \in Seq(Nat)
         /\ Len(Current.node) = Len(generating) - 1
         /\ \A k \in 1..(Len(generating) - 1) : Current.node[k] = generating[k].child
<1>1. generating \in Seq(Calls) /\ Descent(generating)
  BY DEF SourceInv, GeneratingInv, Calls
<1>2. Len(generating) \in Nat \ {0} /\ Len(generating) \in 1..Len(generating)
  BY <1>1
<1>3. Current = generating[Len(generating)] /\ Current \in Calls
  BY <1>1, <1>2 DEF Current, Last1
<1>4. Current.node \in Seq(Nat)
  BY <1>3 DEF Calls, SourceInv, NodesInv
<1>5. /\ Len(Current.node) = Len(generating) - 1
      /\ \A k \in 1..(Len(generating) - 1) : Current.node[k] = generating[k].child
  BY <1>1, <1>2, <1>3 DEF Descent
<1> QED
  BY <1>1, <1>2, <1>3, <1>4, <1>5

(* The program that is generated is not behind.                            *)
LEMMA CurrentIsNotBehind ==
  ASSUME Inv, SourceInv, status = "generating", generating # <<>>,
         NEW k \in 1..Len(generating)
  PROVE  ~Behind(Current.node, k)
<1> DEFINE n == Len(generating)
<1>1. /\ n \in Nat \ {0} /\ Len(Current.node) = n - 1
      /\ \A j \in 1..(n - 1) : Current.node[j] = generating[j].child
      /\ generating \in Seq(Calls)
  BY CurrentIsThere
<1>2. CASE k = n
  BY <1>1, <1>2 DEF Behind
<1>3. CASE k # n
  <2>1. k \in 1..(n - 1)
    BY <1>1, <1>3
  <2>2. generating[k] \in Calls
    BY <1>1
  <2>3. generating[k].child \in Nat
    BY <2>2 DEF Calls
  <2> QED
    BY <1>1, <1>3, <2>1, <2>3 DEF Behind
<1> QED
  BY <1>2, <1>3

(* A step of generate() that leaves the tree as it is, and every program   *)
(* passed that was.                                                        *)
LEMMA TreeIsLeft ==
  ASSUME SourceInv, status = "generating", status' \in {"generating", "exited"},
         UNCHANGED <<input, globals, stack, readerVars, treeVars, output>>,
         generating' \in Seq(Calls), Descent(generating'),
         \A k \in 1..Len(generating') :
           /\ k < Len(generating') => generating'[k].turn = 1
           /\ generating'[k].turn > 1 => ~input.recurse \/ NoneComes(generating'[k]),
         \A n \in DOMAIN nodes : Passed(n) => Passed(n)'
  PROVE  SourceInv'
<1>1. UNCHANGED <<input, globals, stack, cursor, fieldVal, members, lists, nodes,
                  scopes, decls, output>>
  BY DEF readerVars, treeVars
<1>2. NamesInv' /\ NodesInv' /\ TargetsSeeTheSource'
  <2>1. NamesInv'
    BY <1>1 DEF SourceInv, NamesInv
  <2>2. NodesInv'
    BY <1>1 DEF SourceInv, NodesInv
  <2>3. TargetsSeeTheSource'
    BY <1>1 DEF SourceInv, TargetsSeeTheSource, AfterGo
  <2> QED
    BY <2>1, <2>2, <2>3
<1>3. ReaderInv'
  <2>1. UNCHANGED <<File, Def, Fields>>
    BY <1>1 DEF File, Def, Fields, Program
  <2>2. KeyInv' <=> KeyInv
    BY <1>1, <2>1 DEF KeyInv
  <2> QED
    BY <1>1, <2>1, <2>2 DEF SourceInv, ReaderInv
<1>4. ParsingInv'
  BY DEF ParsingInv
<1>5. \A n, afterGo : Complete(n, afterGo)' <=> Complete(n, afterGo)
  BY <1>1, ReflectsUnchanged DEF DeclsOf
<1>6. GeneratingInv'
  <2>1. (\A k \in 1..Len(generating) :
           /\ k < Len(generating) => generating[k].turn = 1
           /\ generating[k].turn > 1 => ~input.recurse \/ NoneComes(generating[k]))'
    BY <1>1 DEF NoneComes
  <2>2. \A n \in DOMAIN nodes :
          Complete(n, FALSE)' \/ (Complete(n, TRUE)' /\ Passed(n)')
    BY <1>5 DEF SourceInv, GeneratingInv
  <2>3. stack' = <<>>
    BY <1>1 DEF SourceInv, GeneratingInv
  <2>4. generating' \in Seq([node : DOMAIN nodes', child : Nat, turn : Nat \ {0}])
    BY <1>1 DEF Calls
  <2> QED
    BY <1>1, <2>1, <2>2, <2>3, <2>4 DEF GeneratingInv
<1> QED
  BY <1>2, <1>3, <1>4, <1>6 DEF SourceInv

(* generate() begins with the root; nothing is passed.                     *)
LEMMA StartGeneratingKeepsSource ==
  ASSUME Inv, SourceInv, StartGenerating
  PROVE  SourceInv'
<1>1. /\ status = "generating" /\ generating = <<>>
      /\ generating' = <<Call(Root)>>
      /\ UNCHANGED <<input, status, globals, stack, readerVars, treeVars, output>>
  BY DEF StartGenerating, parserVars
<1> DEFINE c == Call(Root)
<1>2. /\ c \in Calls /\ c.node = Root /\ c.turn = 1
  BY DEF Calls, Call, SourceInv, NodesInv
<1> HIDE DEF c
<1>3. /\ generating' \in Seq(Calls) /\ Len(generating') = 1 /\ generating'[1] = c
  BY <1>1, <1>2 DEF c
<1>4. Descent(generating')
  BY <1>2, <1>3 DEF Descent, Root
<1>5. \A n : ~Passed(n)
  BY <1>1 DEF Passed
<1> QED
  BY <1>1, <1>2, <1>3, <1>4, <1>5, TreeIsLeft

(* With -r an include has its turn; what is behind the caller stays        *)
(* behind.                                                                 *)
LEMMA GenerateIncludeKeepsSource ==
  ASSUME Inv, SourceInv, GenerateInclude
  PROVE  SourceInv'
<1> DEFINE n == Len(generating)
<1>1. /\ status = "generating" /\ generating # <<>> /\ input.recurse
      /\ UNCHANGED <<input, status, globals, stack, readerVars, treeVars, output, nodes>>
  BY DEF GenerateInclude, parserVars, treeVars
<1>2. PICK i \in nodes[Current.node].includes :
        /\ Comes(Current, i)
        /\ generating' = Append([generating EXCEPT ![Len(generating)].child = i],
                                Call(Child(Current.node, i)))
  BY DEF GenerateInclude
<1> DEFINE a == [Current EXCEPT !.child = i]
           node == Child(Current.node, i)
           b == Call(node)
<1>3. /\ n \in Nat \ {0} /\ n \in 1..n /\ Current = generating[n]
      /\ generating \in Seq(Calls) /\ Current \in Calls
      /\ Current.node \in DOMAIN nodes /\ Current.node \in Seq(Nat)
      /\ Current.child \in Nat /\ Current.turn \in Nat \ {0}
  BY <1>1, CurrentIsThere DEF Calls
<1>4. i \in Nat /\ node \in DOMAIN nodes /\ i > Current.child
  BY <1>2, <1>3 DEF Inv, TreeInv, IncludesOf, Comes
<1>5. generating' = Pushed(generating, a, b)
  BY <1>2, <1>3 DEF Pushed
<1>6. /\ a \in Calls /\ a.node = Current.node /\ a.child = i /\ a.turn = Current.turn
      /\ b \in Calls /\ b.node = node /\ b.turn = 1
  BY <1>3, <1>4 DEF Call, Calls
<1> HIDE DEF a, b
<1>7. /\ Len(generating') = n + 1 /\ generating' \in Seq(Calls)
      /\ \A k \in 1..(n - 1) : generating'[k] = generating[k]
      /\ generating'[n] = a /\ generating'[n + 1] = b
  <2> DEFINE t == Pushed(generating, a, b)
  <2>1. /\ Len(t) = n + 1 /\ t \in Seq(Calls)
        /\ \A k \in 1..(n - 1) : t[k] = generating[k]
        /\ t[n] = a /\ t[n + 1] = b
    BY <1>3, <1>6, CallIsPushed
  <2> QED
    BY <1>5, <2>1
<1>8. Current.turn = 1
  <2>1. ~NoneComes(Current)
    BY <1>2, <1>3, <1>4 DEF NoneComes
  <2>2. Current.turn > 1 => NoneComes(Current)
    BY <1>1, <1>3 DEF SourceInv, GeneratingInv
  <2> QED
    BY <1>3, <2>1, <2>2
<1>9. Descent(generating')
  <2>1. Descent(generating) /\ a.node = generating[n].node
    BY <1>1, <1>3, <1>6 DEF SourceInv, GeneratingInv
  <2> QED
    BY <1>3, <1>4, <1>5, <1>6, <2>1, DescentOfPushed
<1>10. \A k \in 1..Len(generating') : generating'[k].turn = 1
  <2>1. ASSUME NEW k \in 1..(n - 1)
        PROVE  generating[k].turn = 1
    <3>1. k \in 1..n /\ k < n
      BY <1>3
    <3> QED
      BY <1>1, <3>1 DEF SourceInv, GeneratingInv
  <2>2. \A k \in 1..(n + 1) : k \in 1..(n - 1) \/ k = n \/ k = n + 1
    BY <1>3
  <2> QED
    BY <1>6, <1>7, <1>8, <2>1, <2>2
<1>11. ASSUME NEW m \in DOMAIN nodes, Passed(m)
       PROVE  Passed(m)'
  <2>1. ~GoBefore(Current.turn)
    BY <1>8 DEF GoBefore
  <2>2. PICK k \in 1..n : Behind(m, k)
    BY <1>11, <2>1 DEF Passed
  <2>3. m \in Seq(Nat) /\ k # n + 1 /\ k \in 1..(n + 1)
    BY <1>3 DEF SourceInv, NodesInv
  <2>4. /\ Len(m) >= k
        /\ \A j \in 1..(k - 1) : m[j] = generating'[k].node[j]
        /\ m[k] < generating'[k].child
    <3>1. CASE k = n
      <4>1. Len(m) >= n /\ m[n] <= Current.child
            /\ \A j \in 1..(n - 1) : m[j] = Current.node[j]
        BY <1>3, <2>2, <3>1 DEF Behind
      <4>2. m[n] \in Nat
        BY <1>3, <2>3, <4>1
      <4> QED
        BY <1>3, <1>4, <1>6, <1>7, <3>1, <4>1, <4>2
    <3>2. CASE k # n
      <4>1. k \in 1..(n - 1)
        BY <1>3, <3>2
      <4> QED
        BY <1>7, <2>2, <3>2, <4>1 DEF Behind
    <3> QED
      BY <3>1, <3>2
  <2>5. Behind(m, k)'
    BY <1>7, <2>3, <2>4 DEF Behind
  <2> QED
    BY <1>7, <2>3, <2>5 DEF Passed
<1>12. \A k \in 1..Len(generating') :
         /\ k < Len(generating') => generating'[k].turn = 1
         /\ generating'[k].turn > 1 => ~input.recurse \/ NoneComes(generating'[k])
  BY <1>10
<1> QED
  BY <1>1, <1>7, <1>9, <1>11, <1>12, TreeIsLeft

Replaced(calls, caller) == [calls EXCEPT ![Len(calls)] = caller]

(* A call that is replaced leaves those below it.                          *)
LEMMA CallIsReplaced ==
  ASSUME NEW S, NEW s \in Seq(S), Len(s) \in Nat \ {0}, NEW a \in S
  PROVE  /\ Replaced(s, a) \in Seq(S) /\ Len(Replaced(s, a)) = Len(s)
         /\ \A k \in 1..(Len(s) - 1) : Replaced(s, a)[k] = s[k]
         /\ Replaced(s, a)[Len(s)] = a
<1>1. Len(s) \in 1..Len(s)
  OBVIOUS
<1> QED
  BY <1>1, ExceptSeq DEF Replaced

(* The next generator has its turn.                                        *)
LEMMA TurnPasses ==
  ASSUME Inv, SourceInv, NEW target, Turn(target), NEW turn \in Nat, turn > Current.turn,
         generating' = [generating EXCEPT ![Len(generating)].turn = turn],
         UNCHANGED <<input, nodes>>
  PROVE  /\ generating' \in Seq(Calls) /\ Descent(generating')
         /\ \A k \in 1..Len(generating') :
              /\ k < Len(generating') => generating'[k].turn = 1
              /\ generating'[k].turn > 1 => ~input.recurse \/ NoneComes(generating'[k])
         /\ \A n \in DOMAIN nodes : Passed(n) => Passed(n)'
         /\ generating' # <<>> /\ Current'.node = Current.node /\ Current'.turn = turn
<1> DEFINE n == Len(generating)
           a == [Current EXCEPT !.turn = turn]
<1>1. status = "generating" /\ generating # <<>> /\ (input.recurse => NoneComes(Current))
  BY DEF Turn
<1>2. /\ n \in Nat \ {0} /\ n \in 1..n /\ Current = generating[n]
      /\ generating \in Seq(Calls) /\ Current \in Calls
      /\ Current.turn \in Nat \ {0} /\ Current.child \in Nat
  BY <1>1, CurrentIsThere DEF Calls
<1>3. /\ a \in Calls /\ a.node = Current.node /\ a.child = Current.child /\ a.turn = turn
  <2>1. turn \in Nat \ {0}
    BY <1>2
  <2>2. PICK c \in Calls : c = Current
    BY <1>2
  <2>3. /\ c.node \in DOMAIN nodes /\ c.child \in Nat
        /\ a = [node |-> c.node, child |-> c.child, turn |-> turn]
    BY <2>2 DEF Calls
  <2> HIDE DEF a
  <2> QED
    BY <2>1, <2>2, <2>3 DEF Calls
<1>4. generating' = Replaced(generating, a)
  BY <1>2 DEF Replaced
<1> HIDE DEF a
<1>5. /\ generating' \in Seq(Calls) /\ Len(generating') = n
      /\ \A k \in 1..n : generating'[k] = IF k = n THEN a ELSE generating[k]
  <2>1. /\ Replaced(generating, a) \in Seq(Calls) /\ Len(Replaced(generating, a)) = n
        /\ \A k \in 1..(n - 1) : Replaced(generating, a)[k] = generating[k]
        /\ Replaced(generating, a)[n] = a
    <3>1. generating \in Seq(Calls) /\ Len(generating) \in Nat \ {0} /\ a \in Calls
      BY <1>2, <1>3
    <3> QED
      BY <3>1, CallIsReplaced
  <2>2. \A k \in 1..n : k = n \/ k \in 1..(n - 1)
    BY <1>2
  <2> QED
    BY <1>4, <2>1, <2>2
<1>6. /\ generating' # <<>> /\ Current' = a
  <2>1. generating' # <<>>
    BY <1>2, <1>5
  <2> QED
    BY <1>2, <1>5, <2>1 DEF Current, Last1
<1>7. /\ \A k \in 1..n : /\ generating'[k].node = generating[k].node
                         /\ generating'[k].child = generating[k].child
  BY <1>2, <1>3, <1>5
<1>8. Descent(generating')
  <2>1. Descent(generating) /\ \A k \in 1..n : \A j \in 1..(k - 1) : j \in 1..n
    BY <1>1, <1>2 DEF SourceInv, GeneratingInv
  <2> QED
    BY <1>5, <1>7, <2>1 DEF Descent
<1>9. ASSUME NEW k \in 1..Len(generating')
      PROVE  /\ k < Len(generating') => generating'[k].turn = 1
             /\ generating'[k].turn > 1 => ~input.recurse \/ NoneComes(generating'[k])
  <2>1. k \in 1..n
    BY <1>5
  <2>2. CASE k = n
    <3>1. NoneComes(Current) => NoneComes(a)
      BY <1>3 DEF NoneComes
    <3> QED
      BY <1>1, <1>2, <1>5, <2>1, <2>2, <3>1
  <2>3. CASE k # n
    <3>1. generating'[k] = generating[k] /\ Len(generating') = Len(generating)
      BY <1>5, <2>1, <2>3
    <3> QED
      BY <1>1, <2>1, <3>1 DEF SourceInv, GeneratingInv
  <2> QED
    BY <2>2, <2>3
<1>10. ASSUME NEW m \in DOMAIN nodes, Passed(m)
       PROVE  Passed(m)'
  <2>1. CASE m = Current.node /\ GoBefore(Current.turn)
    <3>1. \A before \in 1..(Current.turn - 1) : before \in 1..(turn - 1)
      BY <1>2
    <3>2. \E before \in 1..(turn - 1) : input.targets[before] = "go"
      BY <2>1, <3>1 DEF GoBefore
    <3>3. GoBefore(Current.turn)'
      BY <1>3, <1>6, <3>2 DEF GoBefore
    <3> QED
      BY <1>3, <1>6, <2>1, <3>3 DEF Passed
  <2>2. CASE \E k \in 1..n : Behind(m, k)
    <3>1. PICK k \in 1..n : Behind(m, k)
      BY <2>2
    <3>2. Behind(m, k)'
      BY <1>5, <1>7, <3>1 DEF Behind
    <3> QED
      BY <1>5, <3>1, <3>2 DEF Passed
  <2> QED
    BY <1>10, <2>1, <2>2 DEF Passed
<1> QED
  BY <1>3, <1>5, <1>6, <1>8, <1>9, <1>10

(* A target that has its turn has it once: the turn grows.                 *)
LEMMA TargetsPass ==
  ASSUME Inv, SourceInv, NEW target, Turn(target), NextTarget \/ NoMoreTargets
  PROVE  \E turn \in Nat :
           /\ turn > Current.turn /\ (NextTarget => turn = Current.turn + 1)
           /\ generating' = [generating EXCEPT ![Len(generating)].turn = turn]
<1>1. /\ status = "generating" /\ generating # <<>>
      /\ Current.turn <= Len(input.targets)
  BY DEF Turn
<1>2. /\ Current = generating[Len(generating)] /\ Current.turn \in Nat
  BY <1>1, CurrentIsThere DEF Calls
<1>3. Len(input.targets) \in Nat
  BY InputsAssumption DEF Inv, ParserInv
<1>4. CASE NextTarget
  <2>1. generating' = [generating EXCEPT ![Len(generating)].turn = Current.turn + 1]
    BY <1>2, <1>4 DEF NextTarget
  <2>2. Current.turn + 1 \in Nat /\ Current.turn + 1 > Current.turn
    BY <1>2
  <2> QED
    BY <2>1, <2>2
<1>5. CASE NoMoreTargets /\ ~NextTarget
  <2>1. generating' = [generating EXCEPT ![Len(generating)].turn = Len(input.targets) + 1]
    BY <1>5 DEF NoMoreTargets
  <2>2. Len(input.targets) + 1 \in Nat /\ Len(input.targets) + 1 > Current.turn
    BY <1>1, <1>2, <1>3
  <2> QED
    BY <1>5, <2>1, <2>2
<1> QED
  BY <1>4, <1>5

(* A generator that is not there, or whose code cannot be written.         *)
LEMMA NothingIsGenerated ==
  ASSUME Inv, SourceInv, NEW target, Turn(target), NextTarget \/ NoMoreTargets,
         UNCHANGED <<parserVars, output>>
  PROVE  SourceInv'
<1>1. PICK turn \in Nat :
        /\ turn > Current.turn
        /\ generating' = [generating EXCEPT ![Len(generating)].turn = turn]
  BY TargetsPass
<1>2. /\ UNCHANGED <<input, status, globals, stack, readerVars, treeVars, output, nodes>>
      /\ status = "generating"
  BY DEF parserVars, treeVars, Turn
<1>3. UNCHANGED <<input, nodes>>
  BY <1>2
<1>4. /\ generating' \in Seq(Calls) /\ Descent(generating')
      /\ \A k \in 1..Len(generating') :
           /\ k < Len(generating') => generating'[k].turn = 1
           /\ generating'[k].turn > 1 => ~input.recurse \/ NoneComes(generating'[k])
      /\ \A n \in DOMAIN nodes : Passed(n) => Passed(n)'
  BY <1>1, <1>3, TurnPasses
<1> QED
  BY <1>2, <1>4, TreeIsLeft

(* generate() returns: what it passed is behind its caller.                *)
LEMMA EndGenerateKeepsSource ==
  ASSUME Inv, SourceInv, EndGenerate
  PROVE  SourceInv'
<1> DEFINE n == Len(generating)
<1>1. /\ status = "generating" /\ generating # <<>>
      /\ generating' = Popped(generating)
      /\ status' = IF n = 1 THEN "exited" ELSE status
      /\ UNCHANGED <<input, globals, stack, readerVars, treeVars, output, nodes>>
  BY DEF EndGenerate, Popped, treeVars
<1>2. /\ n \in Nat \ {0} /\ n \in 1..n /\ Current = generating[n]
      /\ generating \in Seq(Calls) /\ Len(Current.node) = n - 1
      /\ \A k \in 1..(n - 1) : Current.node[k] = generating[k].child
  BY <1>1, CurrentIsThere
<1>3. /\ generating' \in Seq(Calls) /\ Len(generating') = n - 1
      /\ \A k \in 1..(n - 1) : generating'[k] = generating[k]
  BY <1>1, <1>2, CallIsPopped
<1>4. Descent(generating) /\ Descent(generating')
  BY <1>1, <1>2, DescentOfPopped DEF SourceInv, GeneratingInv
<1>5. \A k \in 1..Len(generating') :
        /\ k < Len(generating') => generating'[k].turn = 1
        /\ generating'[k].turn > 1 => ~input.recurse \/ NoneComes(generating'[k])
  <2>1. \A k \in 1..(n - 1) : k \in 1..n /\ k < n
    BY <1>2
  <2>2. \A k \in 1..(n - 1) : generating[k].turn = 1
    BY <1>1, <2>1 DEF SourceInv, GeneratingInv
  <2> QED
    BY <1>3, <2>2
<1>6. CASE n = 1
  <2>1. \A k \in 1..1 : k = 1
    OBVIOUS
  <2>2. /\ status' = "exited"
        /\ UNCHANGED <<input, globals, stack, cursor, fieldVal, members, lists, nodes,
                       scopes, decls, output>>
    BY <1>1, <1>6 DEF readerVars, treeVars
  <2>3. NamesInv' /\ NodesInv'
    BY <2>2 DEF SourceInv, NamesInv, NodesInv
  <2>4. ReaderInv'
    <3>1. UNCHANGED <<File, Def, Fields>>
      BY <2>2 DEF File, Def, Fields, Program
    <3>2. KeyInv' <=> KeyInv
      BY <2>2, <3>1 DEF KeyInv
    <3> QED
      BY <2>2, <3>1, <3>2 DEF SourceInv, ReaderInv
  <2>5. TargetsSeeTheSource'
    BY <2>2 DEF SourceInv, TargetsSeeTheSource, AfterGo
  <2> QED
    BY <2>2, <2>3, <2>4, <2>5 DEF SourceInv, ParsingInv, GeneratingInv
<1>7. CASE n # 1
  <2>0. PICK p \in Nat : p = n - 1
    BY <1>2
  <2>1. /\ p \in 1..Len(generating') /\ p \in Nat \ {0} /\ n = p + 1
        /\ generating'[p] = generating[p] /\ Len(generating') = p
    BY <1>2, <1>3, <1>7, <2>0
  <2>2. /\ \A j \in 1..(p - 1) : generating[p].node[j] = generating[j].child
        /\ \A j \in 1..p : Current.node[j] = generating[j].child
        /\ generating[p].child \in Nat
    <3>1. p \in 1..n
      BY <2>1
    <3>2. generating[p] \in Calls
      BY <1>2, <3>1
    <3>3. \A j \in 1..(p - 1) : generating[p].node[j] = generating[j].child
      BY <1>4, <3>1 DEF Descent
    <3>4. \A j \in 1..p : Current.node[j] = generating[j].child
      BY <1>2, <2>0
    <3> QED
      BY <3>2, <3>3, <3>4 DEF Calls
  <2>3. ASSUME NEW m \in DOMAIN nodes, Passed(m)
        PROVE  Passed(m)'
    <3>1. m \in Seq(Nat)
      BY DEF SourceInv, NodesInv
    <3>2. CASE \E k \in 1..n : k < n /\ Behind(m, k)
      <4>1. PICK k \in 1..n : k < n /\ Behind(m, k)
        BY <3>2
      <4>2. k \in 1..p /\ generating'[k] = generating[k]
        BY <1>2, <1>3, <2>1, <4>1
      <4>3. /\ Len(m) >= k
            /\ \A j \in 1..(k - 1) : m[j] = generating'[k].node[j]
            /\ m[k] < generating'[k].child
        BY <4>1, <4>2 DEF Behind
      <4>4. /\ m[k] \in Nat /\ generating'[k].child \in Nat
        <5>1. k \in 1..Len(m) /\ k \in 1..Len(generating')
          BY <2>1, <3>1, <4>2, <4>3
        <5>2. generating'[k] \in Calls
          BY <1>3, <5>1
        <5> QED
          BY <3>1, <5>1, <5>2 DEF Calls
      <4>5. Behind(m, k)'
        BY <4>3, <4>4 DEF Behind
      <4> QED
        BY <2>1, <4>2, <4>5 DEF Passed
    <3>3. CASE m = Current.node \/ Behind(m, n)
      <4>1. /\ Len(m) >= p /\ \A j \in 1..p : m[j] = generating[j].child
        <5>1. CASE m = Current.node
          BY <1>2, <2>1, <2>2, <5>1
        <5>2. CASE Behind(m, n)
          <6>1. Len(m) >= n /\ \A j \in 1..(n - 1) : m[j] = generating[n].node[j]
            BY <5>2 DEF Behind
          <6> QED
            BY <1>2, <2>1, <2>2, <3>1, <6>1
        <5> QED
          BY <3>3, <5>1, <5>2
      <4>2. /\ m[p] <= generating'[p].child
            /\ \A j \in 1..(p - 1) : m[j] = generating'[p].node[j]
        <5>1. p \in 1..p /\ \A j \in 1..(p - 1) : j \in 1..p
          BY <2>1
        <5>2. m[p] = generating[p].child
          BY <4>1, <5>1
        <5>3. m[p] <= generating'[p].child
          BY <2>1, <2>2, <5>2
        <5>4. \A j \in 1..(p - 1) : m[j] = generating[p].node[j]
          BY <2>2, <4>1, <5>1
        <5> QED
          BY <2>1, <5>3, <5>4
      <4>3. Behind(m, p)'
        BY <2>1, <4>1, <4>2 DEF Behind
      <4> QED
        BY <2>1, <4>3 DEF Passed
    <3>4. \A k \in 1..n : k < n \/ k = n
      BY <1>2
    <3> QED
      BY <2>3, <3>2, <3>3, <3>4 DEF Passed
  <2>4. status' \in {"generating", "exited"} /\ UNCHANGED <<input, nodes>>
    BY <1>1
  <2> QED
    BY <1>1, <1>3, <1>4, <1>5, <2>3, <2>4, TreeIsLeft
<1> QED
  BY <1>6, <1>7

-----------------------------------------------------------------------------
(* What a generator is given, and what the Go generator leaves.            *)

LEMMA DeclaredAlsoAfter ==
  ASSUME NEW in, NEW d, NEW def, NEW before, DeclaredAs(in, d, def, before),
         NEW afterGo, before => afterGo
  PROVE  DeclaredAs(in, d, def, afterGo)
BY DEF DeclaredAs

(* What makes the exceptions of a service optional changes nothing else of *)
(* it.                                                                     *)
LEMMA OptionalThrowsKeeps ==
  ASSUME NEW d, Listed(d)
  PROVE  LET o == OptionalThrows(d)
         IN  /\ o.kind = d.kind /\ o.name = d.name /\ o.node = d.node
             /\ Listed(o)
             /\ \A in, def, before : DeclaredAs(in, d, def, before) =>
                                       DeclaredAs(in, o, def, TRUE)
<1> DEFINE o == OptionalThrows(d)
           optional(l) == [i \in DOMAIN d.lists[l] |-> WithReq(d.lists[l][i], "optional")]
<1>1. CASE d.kind # "service"
  <2>1. o = d
    BY <1>1 DEF OptionalThrows
  <2> HIDE DEF o
  <2>2. ASSUME NEW in, NEW def, NEW before, DeclaredAs(in, d, def, before)
        PROVE  DeclaredAs(in, d, def, TRUE)
    BY <2>2, DeclaredAlsoAfter
  <2>3. /\ o.kind = d.kind /\ o.name = d.name /\ o.node = d.node /\ Listed(o)
        /\ \A in, def, before : DeclaredAs(in, d, def, before) =>
                                  DeclaredAs(in, o, def, TRUE)
    BY <2>1, <2>2
  <2> QED
    BY <2>3 DEF o
<1>2. CASE d.kind = "service"
  <2>1. /\ o.kind = d.kind /\ o.name = d.name /\ o.node = d.node
        /\ o.lists = [l \in DOMAIN d.lists |-> IF l = 2 THEN optional(l) ELSE d.lists[l]]
    BY <1>2 DEF OptionalThrows, Declaration
  <2>2. /\ Len(d.lists) \in Nat /\ DOMAIN d.lists = 1..Len(d.lists)
        /\ \A l \in DOMAIN d.lists :
             Len(d.lists[l]) \in Nat /\ DOMAIN d.lists[l] = 1..Len(d.lists[l])
    BY DEF Listed
  <2> HIDE DEF o
  <2>3. DOMAIN o.lists = 1..Len(d.lists) /\ Len(o.lists) = Len(d.lists)
    <3> DEFINE s == o.lists
    <3>1. DOMAIN s = 1..Len(d.lists) /\ s \in Seq({s[l] : l \in 1..Len(d.lists)})
      BY <2>1, <2>2
    <3> QED
      BY <2>2, <3>1
  <2>4. ASSUME NEW l \in DOMAIN d.lists
        PROVE  /\ DOMAIN o.lists[l] = 1..Len(d.lists[l])
               /\ Len(o.lists[l]) = Len(d.lists[l])
               /\ \A i \in DOMAIN d.lists[l] :
                    /\ o.lists[l][i].name = d.lists[l][i].name
                    /\ o.lists[l][i].id = d.lists[l][i].id
                    /\ l # 2 => o.lists[l][i].req = d.lists[l][i].req
    <3>1. CASE l # 2
      BY <2>1, <2>2, <3>1
    <3>2. CASE l = 2
      <4> DEFINE s == o.lists[l]
      <4>1. s = [i \in 1..Len(d.lists[l]) |-> WithReq(d.lists[l][i], "optional")]
        BY <2>1, <2>2, <3>2
      <4>2. /\ DOMAIN s = 1..Len(d.lists[l])
            /\ s \in Seq({s[i] : i \in 1..Len(d.lists[l])})
        BY <2>2, <4>1
      <4>3. Len(s) = Len(d.lists[l])
        BY <2>2, <4>2
      <4>4. \A i \in DOMAIN d.lists[l] : s[i] = WithReq(d.lists[l][i], "optional")
        BY <2>2, <4>1
      <4> HIDE DEF s
      <4>5. ASSUME NEW i \in DOMAIN d.lists[l]
            PROVE  s[i].name = d.lists[l][i].name /\ s[i].id = d.lists[l][i].id
        <5>1. s[i] = WithReq(d.lists[l][i], "optional")
          BY <4>4
        <5> QED
          BY <5>1 DEF WithReq, Field
      <4>6. /\ DOMAIN s = 1..Len(d.lists[l]) /\ Len(s) = Len(d.lists[l])
            /\ \A i \in DOMAIN d.lists[l] :
                 /\ s[i].name = d.lists[l][i].name
                 /\ s[i].id = d.lists[l][i].id
                 /\ l # 2 => s[i].req = d.lists[l][i].req
        BY <3>2, <4>2, <4>3, <4>5
      <4> QED
        BY <4>6 DEF s
    <3> QED
      BY <3>1, <3>2
  <2>5. Listed(o)
    BY <2>2, <2>3, <2>4 DEF Listed
  <2>6. ASSUME NEW in, NEW def, NEW before, DeclaredAs(in, d, def, before)
        PROVE  DeclaredAs(in, o, def, TRUE)
    <3>1. /\ d.kind = def.kind /\ d.name = def.name
          /\ Len(d.lists) = Len(def.lists)
      BY <2>6 DEF DeclaredAs
    <3>2. ASSUME NEW l \in 1..Len(o.lists)
          PROVE  LET fields == def.lists[l]
                     same(a, i) ==
                       /\ a.name = fields[i].name
                       /\ a.id = DeclaredKey(in, fields, i)
                       /\ \/ a.req = DeclaredReq(o.kind, fields[i].req)
                          \/ o.kind = "service" /\ l = 2 /\ TRUE
                 IN  /\ Len(o.lists[l]) = Len(fields)
                     /\ \/ \E i \in 1..Len(fields) : ~Regular(in, fields, i)
                        \/ \A i \in 1..Len(fields) :
                             \E j \in 1..Len(fields) : same(o.lists[l][j], i)
      <4> DEFINE fields == def.lists[l]
                 was(a, i) ==
                   /\ a.name = fields[i].name
                   /\ a.id = DeclaredKey(in, fields, i)
                   /\ \/ a.req = DeclaredReq(d.kind, fields[i].req)
                      \/ d.kind = "service" /\ l = 2 /\ before
                 same(a, i) ==
                   /\ a.name = fields[i].name
                   /\ a.id = DeclaredKey(in, fields, i)
                   /\ \/ a.req = DeclaredReq(o.kind, fields[i].req)
                      \/ o.kind = "service" /\ l = 2
      <4>1. l \in 1..Len(d.lists) /\ l \in DOMAIN d.lists
        BY <2>2, <2>3
      <4>2. /\ Len(d.lists[l]) = Len(fields)
            /\ \/ \E i \in 1..Len(fields) : ~Regular(in, fields, i)
               \/ \A i \in 1..Len(fields) : \E j \in 1..Len(fields) : was(d.lists[l][j], i)
        BY <2>6, <4>1 DEF DeclaredAs
      <4>3. /\ Len(o.lists[l]) = Len(fields)
            /\ \A j \in 1..Len(fields) : j \in DOMAIN d.lists[l]
        BY <2>2, <2>4, <4>1, <4>2
      <4>4. \A i, j \in 1..Len(fields) : was(d.lists[l][j], i) => same(o.lists[l][j], i)
        BY <1>2, <2>1, <2>4, <4>1, <4>3
      <4> HIDE DEF fields, was, same
      <4>5. /\ Len(o.lists[l]) = Len(fields)
            /\ \/ \E i \in 1..Len(fields) : ~Regular(in, fields, i)
               \/ \A i \in 1..Len(fields) : \E j \in 1..Len(fields) : same(o.lists[l][j], i)
        BY <4>2, <4>3, <4>4
      <4> QED
        BY <4>5 DEF fields, same
    <3> QED
      BY <2>1, <2>3, <3>1, <3>2 DEF DeclaredAs
  <2>7. /\ o.kind = d.kind /\ o.name = d.name /\ o.node = d.node /\ Listed(o)
        /\ \A in, def, before : DeclaredAs(in, d, def, before) =>
                                  DeclaredAs(in, o, def, TRUE)
    BY <2>1, <2>5, <2>6
  <2> QED
    BY <2>7 DEF o
<1> QED
  BY <1>1, <1>2

(* There are as many definitions behind the Go generator as before it.     *)
LEMMA OptionalThrowsCounts ==
  ASSUME SourceInv, NEW node, IsFiniteSet(DeclsOf(node))
  PROVE  /\ IsFiniteSet({OptionalThrows(d) : d \in DeclsOf(node)})
         /\ Cardinality({OptionalThrows(d) : d \in DeclsOf(node)}) = Cardinality(DeclsOf(node))
<1> DEFINE S == DeclsOf(node)
           T == {OptionalThrows(d) : d \in S}
           f == [d \in S |-> OptionalThrows(d)]
<1>1. \A d \in S : f[d] = OptionalThrows(d)
  OBVIOUS
<1>2. \A d \in S : /\ OptionalThrows(d).kind = d.kind
                   /\ OptionalThrows(d).name = d.name
                   /\ d.node = node
  BY OptionalThrowsKeeps DEF SourceInv, NamesInv, DeclsOf
<1>3. \A d, e \in S : f[d] = f[e] => d = e
  <2>1. \A d, e \in S : d.kind = e.kind /\ d.name = e.name /\ d.node = e.node => d = e
    BY DEF SourceInv, NamesInv, DeclsOf
  <2> HIDE DEF f
  <2> QED
    BY <1>1, <1>2, <2>1
<1>4. f \in [S -> T] /\ \A t \in T : \E d \in S : f[d] = t
  OBVIOUS
<1> HIDE DEF S, T, f
<1>5. f \in Bijection(S, T)
  BY <1>3, <1>4, Fun_IsBij
<1>6. ExistsBijection(S, T)
  BY <1>5 DEF ExistsBijection
<1>7. IsFiniteSet(S)
  BY DEF S
<1> QED
  BY <1>6, <1>7, FS_Bijection DEF S, T

(* What one generator is given: what TargetsSeeTheSource says of it.       *)
SeenAsDeclared(o) ==
  LET defs == input.files[o.path].defs
  IN  /\ Cardinality(o.decls) = Len(defs)
      /\ \A k \in 1..Len(defs) : \E d \in o.decls :
           DeclaredAs(input, d, defs[k], AfterGo(o))

(* The program that has its turn is complete, and unless the Go generator  *)
(* had its turn with it as it was parsed.                                  *)
LEMMA CurrentIsComplete ==
  ASSUME Inv, SourceInv, status = "generating", generating # <<>>
  PROVE  /\ Current.node \in DOMAIN nodes
         /\ \/ Complete(Current.node, FALSE)
            \/ Complete(Current.node, TRUE) /\ GoBefore(Current.turn)
<1>1. Current.node \in DOMAIN nodes
  BY CurrentIsThere DEF Calls
<1>2. Passed(Current.node) => GoBefore(Current.turn)
  BY CurrentIsNotBehind DEF Passed
<1> QED
  BY <1>1, <1>2 DEF SourceInv, GeneratingInv

(* So that is what the generator sees.                                     *)
LEMMA SeenIsDeclared ==
  ASSUME Inv, SourceInv, NEW target, Turn(target)
  PROVE  SeenAsDeclared(Seen(Current.node, target))
<1> DEFINE n == Current.node
           o == Seen(n, target)
           turn == Current.turn
<1>1. /\ status = "generating" /\ generating # <<>>
      /\ turn <= Len(input.targets) /\ input.targets[turn] = target
  BY DEF Turn
<1>2. turn \in Nat \ {0}
  BY <1>1, CurrentIsThere DEF Calls
<1>3. Len(input.targets) \in Nat
  BY InputsAssumption DEF Inv, ParserInv
<1>4. /\ o.path = nodes[n].path /\ o.target = target /\ o.decls = DeclsOf(n)
      /\ DefsOf(n) = input.files[o.path].defs
  BY DEF Seen, DefsOf
<1> HIDE DEF o
<1>5. GoBefore(turn) => AfterGo(o)
  <2>1. /\ turn \in 1..Len(input.targets)
        /\ \A before \in 1..(turn - 1) : before \in 1..turn
    BY <1>1, <1>2, <1>3
  <2> QED
    BY <1>1, <1>4, <2>1 DEF GoBefore, AfterGo
<1>6. PICK before \in BOOLEAN : Complete(n, before) /\ (before => AfterGo(o))
  BY <1>1, <1>5, CurrentIsComplete
<1>7. /\ Cardinality(DeclsOf(n)) = Len(DefsOf(n))
      /\ \A k \in 1..Len(DefsOf(n)) : \E d \in DeclsOf(n) :
           DeclaredAs(input, d, DefsOf(n)[k], before)
  BY <1>6 DEF Complete, Reflects
<1>8. \A k \in 1..Len(DefsOf(n)) : \E d \in DeclsOf(n) :
        DeclaredAs(input, d, DefsOf(n)[k], AfterGo(o))
  <2>1. ASSUME NEW d, NEW def, DeclaredAs(input, d, def, before)
        PROVE  DeclaredAs(input, d, def, AfterGo(o))
    BY <1>6, <2>1, DeclaredAlsoAfter
  <2> QED
    BY <1>7, <2>1
<1>9. SeenAsDeclared(o)
  BY <1>4, <1>7, <1>8 DEF SeenAsDeclared
<1> QED
  BY <1>9 DEF o

(* What is left of a program behind a generator: as much as before it.     *)
LEMMA LeftIsComplete ==
  ASSUME SourceInv, NEW target, NEW node, decls' = LeftBy(target, node),
         UNCHANGED <<input, nodes>>
  PROVE  /\ \A n : target # "go" \/ n # node => DeclsOf(n)' = DeclsOf(n)
         /\ \A n, afterGo : (target # "go" \/ n # node) /\ Complete(n, afterGo) =>
                              Complete(n, afterGo)'
         /\ \A afterGo : Complete(node, afterGo) => Complete(node, TRUE)'
<1>1. ASSUME NEW n, target # "go" \/ n # node
      PROVE  DeclsOf(n)' = DeclsOf(n)
  <2>1. CASE target # "go"
    BY <2>1 DEF LeftBy, DeclsOf
  <2>2. CASE target = "go" /\ n # node
    <3>1. \A d \in DeclsOf(node) : OptionalThrows(d).node = node
      BY OptionalThrowsKeeps DEF SourceInv, NamesInv, DeclsOf
    <3>2. decls' = (decls \ DeclsOf(node)) \cup {OptionalThrows(d) : d \in DeclsOf(node)}
      BY <2>2 DEF LeftBy
    <3> QED
      BY <2>2, <3>1, <3>2 DEF DeclsOf
  <2> QED
    BY <1>1, <2>1, <2>2
<1>2. \A n, afterGo : (target # "go" \/ n # node) /\ Complete(n, afterGo) =>
                        Complete(n, afterGo)'
  BY <1>1, ReflectsUnchanged
<1>3. ASSUME NEW afterGo, Complete(node, afterGo)
      PROVE  Complete(node, TRUE)'
  <2>1. CASE target # "go"
    <3>1. Complete(node, TRUE)
      <4>1. ASSUME NEW d, NEW def, DeclaredAs(input, d, def, afterGo)
            PROVE  DeclaredAs(input, d, def, TRUE)
        BY <4>1, DeclaredAlsoAfter
      <4> QED
        BY <1>3, <4>1 DEF Complete, Reflects
    <3> QED
      BY <1>2, <2>1, <3>1
  <2>2. CASE target = "go"
    <3> DEFINE T == {OptionalThrows(d) : d \in DeclsOf(node)}
               defs == DefsOf(node)
    <3>1. DeclsOf(node)' = T
      <4>1. \A d \in DeclsOf(node) : OptionalThrows(d).node = node
        BY OptionalThrowsKeeps DEF SourceInv, NamesInv, DeclsOf
      <4>2. decls' = (decls \ DeclsOf(node)) \cup T
        BY <2>2 DEF LeftBy
      <4> QED
        BY <4>1, <4>2 DEF DeclsOf
    <3>2. /\ IsFiniteSet(DeclsOf(node)) /\ Cardinality(DeclsOf(node)) = Len(defs)
          /\ \A k \in 1..Len(defs) : \E d \in DeclsOf(node) :
               DeclaredAs(input, d, defs[k], afterGo)
      BY <1>3 DEF Complete, Reflects
    <3>3. IsFiniteSet(T) /\ Cardinality(T) = Len(defs)
      BY <3>2, OptionalThrowsCounts
    <3>4. ASSUME NEW k \in 1..Len(defs)
          PROVE  \E o \in T : DeclaredAs(input, o, defs[k], TRUE)
      <4>1. PICK d \in DeclsOf(node) : DeclaredAs(input, d, defs[k], afterGo)
        BY <3>2
      <4>2. Listed(d)
        BY DEF SourceInv, NamesInv, DeclsOf
      <4>3. DeclaredAs(input, OptionalThrows(d), defs[k], TRUE)
        BY <4>1, <4>2, OptionalThrowsKeeps
      <4> QED
        BY <4>3
    <3>5. DefsOf(node)' = defs
      BY DEF DefsOf
    <3> HIDE DEF T, defs
    <3> QED
      BY <3>1, <3>3, <3>4, <3>5 DEF Complete, Reflects
  <2> QED
    BY <2>1, <2>2
<1> QED
  BY <1>1, <1>2, <1>3

(* And the names are the same.                                             *)
LEMMA LeftHasNames ==
  ASSUME SourceInv, NEW target, NEW node, decls' = LeftBy(target, node),
         UNCHANGED scopes
  PROVE  NamesInv'
<1>1. CASE target # "go"
  <2>1. decls' = decls
    BY <1>1 DEF LeftBy
  <2> QED
    BY <2>1 DEF SourceInv, NamesInv
<1>2. CASE target = "go"
  <2>1. ASSUME NEW o \in decls'
        PROVE  \E d \in decls : /\ o.kind = d.kind /\ o.name = d.name /\ o.node = d.node
                                /\ Listed(o)
                                /\ o = IF d.node = node THEN OptionalThrows(d) ELSE d
    <3>1. CASE o \in decls \ DeclsOf(node)
      BY <3>1 DEF DeclsOf, SourceInv, NamesInv
    <3>2. CASE \E d \in DeclsOf(node) : o = OptionalThrows(d)
      <4>1. PICK d \in DeclsOf(node) : o = OptionalThrows(d)
        BY <3>2
      <4>2. d \in decls /\ d.node = node /\ Listed(d)
        BY DEF DeclsOf, SourceInv, NamesInv
      <4> QED
        BY <4>1, <4>2, OptionalThrowsKeeps
    <3> QED
      BY <1>2, <3>1, <3>2 DEF LeftBy
  <2>2. \A o \in decls' : Listed(o)
    BY <2>1
  <2>3. ASSUME NEW o \in decls', NEW p \in decls',
               o.node = p.node, o.kind = p.kind, o.name = p.name
        PROVE  o = p
    <3>1. PICK d \in decls : /\ o.kind = d.kind /\ o.name = d.name /\ o.node = d.node
                             /\ o = IF d.node = node THEN OptionalThrows(d) ELSE d
      BY <2>1
    <3>2. PICK e \in decls : /\ p.kind = e.kind /\ p.name = e.name /\ p.node = e.node
                             /\ p = IF e.node = node THEN OptionalThrows(e) ELSE e
      BY <2>1
    <3>3. d = e
      BY <2>3, <3>1, <3>2 DEF SourceInv, NamesInv
    <3> QED
      BY <3>1, <3>2, <3>3
  <2>4. \A o \in decls' : o.kind = "const" => <<o.name>> \in DOMAIN scopes[o.node].consts
    BY <2>1 DEF SourceInv, NamesInv
  <2> QED
    BY <2>2, <2>3, <2>4 DEF SourceInv, NamesInv
<1> QED
  BY <1>1, <1>2

(* A generator that gets its way: it sees what is declared, and leaves it. *)
LEMMA GeneratedKeepsSource ==
  ASSUME Inv, SourceInv, NEW target, Turn(target), NextTarget,
         output' = output \cup {Seen(Current.node, target)},
         decls' = LeftBy(target, Current.node),
         UNCHANGED <<input, status, globals, stack, readerVars, nodes, scopes>>
  PROVE  SourceInv'
<1>1. PICK node : node = Current.node
  OBVIOUS
<1>2. /\ status = "generating" /\ generating # <<>>
      /\ input.targets[Current.turn] = target
      /\ UNCHANGED <<input, status, globals, stack, cursor, fieldVal, members, lists, nodes,
                     scopes>>
      /\ decls' = LeftBy(target, node)
  BY <1>1 DEF Turn, readerVars
<1>3. Current.turn \in Nat \ {0}
  BY <1>2, CurrentIsThere DEF Calls
<1>4. PICK turn \in Nat :
        /\ turn = Current.turn + 1
        /\ generating' = [generating EXCEPT ![Len(generating)].turn = turn]
  BY TargetsPass
<1>5. /\ generating' \in Seq(Calls) /\ Descent(generating')
      /\ \A k \in 1..Len(generating') :
           /\ k < Len(generating') => generating'[k].turn = 1
           /\ generating'[k].turn > 1 => ~input.recurse \/ NoneComes(generating'[k])
      /\ \A n \in DOMAIN nodes : Passed(n) => Passed(n)'
      /\ generating' # <<>> /\ Current'.node = node /\ Current'.turn = turn
  <2>1. turn > Current.turn /\ UNCHANGED <<input, nodes>>
    BY <1>2, <1>3, <1>4
  <2> QED
    BY <1>1, <1>4, <2>1, TurnPasses
<1>6. /\ \A n, afterGo : (target # "go" \/ n # node) /\ Complete(n, afterGo) =>
                           Complete(n, afterGo)'
      /\ \A afterGo : Complete(node, afterGo) => Complete(node, TRUE)'
  BY <1>2, LeftIsComplete
<1>7. target = "go" => Passed(node)'
  <2>1. ASSUME target = "go"
        PROVE  GoBefore(turn)
    <3>1. Current.turn \in 1..(turn - 1)
      BY <1>3, <1>4
    <3> QED
      BY <1>2, <2>1, <3>1 DEF GoBefore
  <2>2. GoBefore(turn) => GoBefore(Current.turn)'
    BY <1>2, <1>5 DEF GoBefore
  <2> QED
    BY <1>5, <2>1, <2>2 DEF Passed
<1>8. \A n \in DOMAIN nodes : Complete(n, FALSE)' \/ (Complete(n, TRUE)' /\ Passed(n)')
  <2>1. ASSUME NEW n \in DOMAIN nodes, target # "go" \/ n # node
        PROVE  Complete(n, FALSE)' \/ (Complete(n, TRUE)' /\ Passed(n)')
    BY <1>2, <1>5, <1>6, <2>1 DEF SourceInv, GeneratingInv
  <2>2. ASSUME target = "go", node \in DOMAIN nodes
        PROVE  Complete(node, TRUE)' /\ Passed(node)'
    BY <1>2, <1>6, <1>7, <2>2 DEF SourceInv, GeneratingInv
  <2> QED
    BY <2>1, <2>2
<1>9. GeneratingInv'
  <2>1. (\A k \in 1..Len(generating) :
           /\ k < Len(generating) => generating[k].turn = 1
           /\ generating[k].turn > 1 => ~input.recurse \/ NoneComes(generating[k]))'
    BY <1>2, <1>5 DEF NoneComes
  <2>2. stack' = <<>>
    BY <1>2 DEF SourceInv, GeneratingInv
  <2>3. generating' \in Seq([node : DOMAIN nodes', child : Nat, turn : Nat \ {0}])
    BY <1>2, <1>5 DEF Calls
  <2> QED
    BY <1>2, <1>5, <1>8, <2>1, <2>2, <2>3 DEF GeneratingInv
<1>10. NamesInv' /\ NodesInv' /\ ParsingInv'
  <2>1. NamesInv'
    BY <1>2, LeftHasNames
  <2>2. NodesInv'
    BY <1>2 DEF SourceInv, NodesInv
  <2>3. ParsingInv'
    BY <1>2 DEF ParsingInv
  <2> QED
    BY <2>1, <2>2, <2>3
<1>11. ReaderInv'
  <2>1. UNCHANGED <<File, Def, Fields>>
    BY <1>2 DEF File, Def, Fields, Program
  <2>2. KeyInv' <=> KeyInv
    BY <1>2, <2>1 DEF KeyInv
  <2> QED
    BY <1>2, <2>1, <2>2 DEF SourceInv, ReaderInv
<1>12. TargetsSeeTheSource'
  <2>1. \A o \in output : SeenAsDeclared(o)
    BY DEF SourceInv, TargetsSeeTheSource, SeenAsDeclared
  <2>2. \A o \in output' : SeenAsDeclared(o)
    BY <2>1, SeenIsDeclared
  <2>3. \A o : SeenAsDeclared(o)' <=> SeenAsDeclared(o)
    BY <1>2 DEF SeenAsDeclared, AfterGo
  <2>4. \A o \in output' : SeenAsDeclared(o)'
    BY <2>2, <2>3
  <2> QED
    BY <2>4 DEF TargetsSeeTheSource, SeenAsDeclared
<1> QED
  BY <1>2, <1>9, <1>10, <1>11, <1>12 DEF SourceInv

(* So does every outcome of a generator: its code, a failure or the end of *)
(* the compiler.                                                           *)
LEMMA GenerateKeepsSource ==
  ASSUME Inv, SourceInv, Generate
  PROVE  SourceInv'
<1>1. CASE \E how \in {"failed", "crashed", "hung", "overflow"} :
             Stop(how) /\ UNCHANGED generateVars
  BY <1>1, StopKeepsSource
<1>2. CASE \E target \in KnownTargets :
             Turn(target) /\ NoMoreTargets /\ UNCHANGED <<parserVars, output>>
  BY <1>2, NothingIsGenerated
<1>3. CASE \E target \in KnownTargets :
             /\ Turn(target) /\ NextTarget
             /\ output' = output \cup {Seen(Current.node, target)}
             /\ decls' = LeftBy(target, Current.node)
             /\ UNCHANGED <<input, status, globals, stack, readerVars, nodes, scopes>>
  BY <1>3, GeneratedKeepsSource
<1> QED
  BY <1>1, <1>2, <1>3 DEF Generate

(* Nothing happens.                                                        *)
LEMMA UnchangedKeepsSource ==
  ASSUME SourceInv, UNCHANGED vars
  PROVE  SourceInv'
<1>1. UNCHANGED <<input, status, globals, stack, cursor, fieldVal, members, lists, nodes,
                  scopes, decls, generating, output>>
  BY DEF vars, parserVars, readerVars, treeVars, generateVars
<1>2. NamesInv' /\ NodesInv' /\ TargetsSeeTheSource'
  <2>1. NamesInv'
    BY <1>1 DEF SourceInv, NamesInv
  <2>2. NodesInv'
    BY <1>1 DEF SourceInv, NodesInv
  <2>3. TargetsSeeTheSource'
    BY <1>1 DEF SourceInv, TargetsSeeTheSource, AfterGo
  <2> QED
    BY <2>1, <2>2, <2>3
<1>3. ReaderInv'
  <2>1. UNCHANGED <<File, Def, Fields>>
    BY <1>1 DEF File, Def, Fields, Program
  <2>2. KeyInv' <=> KeyInv
    BY <1>1, <2>1 DEF KeyInv
  <2> QED
    BY <1>1, <2>1, <2>2 DEF SourceInv, ReaderInv
<1>4. \A n, m, afterGo : /\ Reflects(n, m, afterGo)' <=> Reflects(n, m, afterGo)
                         /\ Complete(n, afterGo)' <=> Complete(n, afterGo)
  BY <1>1, ReflectsUnchanged DEF DeclsOf
<1>5. ParsingInv'
  <2>1. /\ InProgram' <=> InProgram
        /\ UNCHANGED <<Caller, Program, Mode>>
        /\ NoneComes(Caller)' <=> NoneComes(Caller)
        /\ Descent(stack)' <=> Descent(stack)
        /\ \A n : OnStack(n)' <=> OnStack(n)
        /\ \A n : ToCome(n)' <=> ToCome(n)
        /\ \A n : DeclsOf(n)' = DeclsOf(n)
    BY <1>1 DEF InProgram, Mode, Caller, Last1, Program, NoneComes, Descent, OnStack,
                ToCome, DeclsOf
  <2> QED
    BY <1>1, <1>4, <2>1 DEF SourceInv, ParsingInv
<1>6. GeneratingInv'
  <2>1. /\ Descent(generating)' <=> Descent(generating)
        /\ \A n : Passed(n)' <=> Passed(n)
        /\ \A k : NoneComes(generating[k])' <=> NoneComes(generating[k])
    BY <1>1 DEF Descent, Passed, Current, Last1, GoBefore, Behind, NoneComes
  <2> QED
    BY <1>1, <1>4, <2>1 DEF SourceInv, GeneratingInv
<1> QED
  BY <1>1, <1>2, <1>3, <1>5, <1>6 DEF SourceInv

(* The invariant of the sources: what is read so far of the definition     *)
(* that is being read, of the program, and of the programs above and       *)
(* beside it is what its file declares; no program is parsed twice or      *)
(* generated again behind the Go generator.                                *)
THEOREM SourceInvIsInvariant == Spec => []SourceInv
<1>1. Init => SourceInv
  BY InitEstablishesSource
<1>2. Inv /\ SourceInv /\ [Next]_vars => SourceInv'
  <2> SUFFICES ASSUME Inv, SourceInv, [Next]_vars
               PROVE  SourceInv'
    OBVIOUS
  <2>1. CASE Parse
    BY <2>1, ParserNextKeepsSource DEF Parse
  <2>2. CASE StartGenerating
    BY <2>2, StartGeneratingKeepsSource
  <2>3. CASE GenerateInclude
    BY <2>3, GenerateIncludeKeepsSource
  <2>4. CASE GenerateUnknown
    <3>1. PICK target : Turn(target)
      BY <2>4 DEF GenerateUnknown
    <3>2. NextTarget /\ UNCHANGED <<parserVars, output>>
      BY <2>4 DEF GenerateUnknown
    <3> QED
      BY <3>1, <3>2, NothingIsGenerated
  <2>5. CASE Generate
    BY <2>5, GenerateKeepsSource
  <2>6. CASE EndGenerate
    BY <2>6, EndGenerateKeepsSource
  <2>7. CASE UNCHANGED vars
    BY <2>7, UnchangedKeepsSource
  <2> QED
    BY <2>1, <2>2, <2>3, <2>4, <2>5, <2>6, <2>7 DEF Next
<1> QED
  BY <1>1, <1>2, InvIsInvariant, PTL DEF Spec

(* Every generator is given every definition of the file it generates code *)
(* for, once, with the declared fields, ids and requiredness, however the  *)
(* files include one another and whatever was parsed and generated before: *)
(* for any files, options and number of targets.                           *)
THEOREM SourceIsSeen == Spec => []TargetsSeeTheSource
<1>1. SourceInv => TargetsSeeTheSource
  BY DEF SourceInv
<1> QED
  BY <1>1, SourceInvIsInvariant, PTL

-----------------------------------------------------------------------------
(* What names mean.                                                        *)

IsType(d) == d.kind \notin {"const", "service"}
DefinedType(d) == Type("defined", d.node, <<d.name>>)

(* The types of a scope are those that are visible in its program.         *)
ScopesInv ==
  \A n \in DOMAIN nodes :
    /\ \A name \in DOMAIN scopes[n].types :
         \E d \in decls : /\ IsType(d) /\ Visible(d, n, name)
                          /\ scopes[n].types[name] = DefinedType(d)
    /\ \A d \in decls : IsType(d) =>
         /\ d.node = n => <<d.name>> \in DOMAIN scopes[n].types
         /\ d.node \in IncludesOf(n) =>
              <<ProgramName(d.node), d.name>> \in DOMAIN scopes[n].types

(* A call of parse() is for an include of the one below it.                *)
FramesInv ==
  /\ \A k \in 1..Len(stack) :
       IF k = 1 THEN stack[k].node = Root /\ stack[k].parent = NoNode
       ELSE /\ stack[k].parent = stack[k - 1].node
            /\ stack[k].node \in IncludesOf(stack[k - 1].node)
  /\ InProgram =>
       /\ globals.parent = Caller.parent
       /\ globals.prefix = ProgramName(Program)
  /\ Parsed => ~InProgram

(* The type that a name is taken for in program n.                         *)
RightType(type, n, name) ==
  \/ name = <<"i32">> /\ type = I32
  \/ name # <<"i32">> /\ type = Type("forward", n, name)
  \/ /\ name # <<"i32">>
     /\ \E d \in decls : IsType(d) /\ Visible(d, n, name) /\ type = DefinedType(d)
TypedAs(list, fields, n) ==
  \A i \in DOMAIN list : \E j \in 1..Len(fields) :
    list[i].name = fields[j].name /\ RightType(list[i].type, n, fields[j].type)
DefTyped(d, def) ==
  /\ def.type # <<>> => RightType(d.type, d.node, def.type)
  /\ \A l \in DOMAIN d.lists : TypedAs(d.lists[l], def.lists[l], d.node)

(* What is read of a definition, and the definitions that are there.       *)
TypesInv ==
  /\ InProgram /\ cursor.stage = "fields" =>
       /\ TypedAs(members, Fields, Program)
       /\ \A l \in 1..(cursor.list - 1) : TypedAs(lists[l], Def.lists[l], Program)
  /\ InProgram /\ cursor.stage = "defined" =>
       \A l \in DOMAIN lists : TypedAs(lists[l], Def.lists[l], Program)
Matches(d, def) == d.kind = def.kind /\ d.name = def.name
DefsInv ==
  \A d \in decls :
    /\ \E k \in 1..Len(DefsOf(d.node)) : Matches(d, DefsOf(d.node)[k])
    /\ \A k \in 1..Len(DefsOf(d.node)) :
         /\ Matches(d, DefsOf(d.node)[k])
         /\ InProgram /\ d.node = Program => k < cursor.def
         => DefTyped(d, DefsOf(d.node)[k])

MeaningInv == ScopesInv /\ FramesInv /\ TypesInv /\ DefsInv
-----------------------------------------------------------------------------
(* A step may add definitions and includes.                                *)
Grown ==
  /\ \A d \in decls : IsType(d) =>
       \E e \in decls' : IsType(e) /\ e.node = d.node /\ e.name = d.name
  /\ \A n \in DOMAIN nodes : /\ n \in DOMAIN nodes'
                             /\ nodes'[n].path = nodes[n].path
                             /\ nodes[n].includes \subseteq nodes'[n].includes

(* A name that was taken for a type is still right when the tree has grown. *)
LEMMA TypeStaysRight ==
  ASSUME Inv, Grown, NEW n \in DOMAIN nodes, NEW type, NEW name, RightType(type, n, name)
  PROVE  RightType(type, n, name)'
<1>1. CASE name = <<"i32">> \/ type = Type("forward", n, name)
  BY <1>1 DEF RightType
<1>2. ASSUME NEW d \in decls, name # <<"i32">>, IsType(d), Visible(d, n, name),
             type = DefinedType(d)
      PROVE  RightType(type, n, name)'
  <2>1. PICK e \in decls' : IsType(e) /\ e.node = d.node /\ e.name = d.name
    BY <1>2 DEF Grown
  <2>2. d.node \in DOMAIN nodes
    BY DEF Inv, TreeInv
  <2>3. DefinedType(e) = DefinedType(d)
    BY <2>1 DEF DefinedType
  <2>4. ProgramName(d.node)' = ProgramName(d.node)
    BY <2>2 DEF Grown, ProgramName
  <2>5. IncludesOf(n) \subseteq IncludesOf(n)'
    BY DEF Grown, IncludesOf
  <2>6. Visible(e, n, name)'
    BY <1>2, <2>1, <2>4, <2>5 DEF Visible
  <2> QED
    BY <1>2, <2>1, <2>3, <2>6 DEF RightType
<1> QED
  BY <1>1, <1>2 DEF RightType

(* A list that is typed stays so.                                          *)
LEMMA ListStaysTyped ==
  ASSUME Inv, Grown, NEW n \in DOMAIN nodes, NEW list, NEW fields, TypedAs(list, fields, n)
  PROVE  TypedAs(list, fields, n)'
<1>1. \A type, name : RightType(type, n, name) => RightType(type, n, name)'
  BY TypeStaysRight
<1> QED
  BY <1>1 DEF TypedAs

(* And so does a definition.                                               *)
LEMMA DefStaysTyped ==
  ASSUME Inv, Grown, NEW d, d.node \in DOMAIN nodes, NEW def, DefTyped(d, def)
  PROVE  DefTyped(d, def)'
<1>1. PICK n \in DOMAIN nodes : n = d.node
  OBVIOUS
<1>2. \A type, name : RightType(type, n, name) => RightType(type, n, name)'
  BY TypeStaysRight
<1>3. \A list, fields : TypedAs(list, fields, n) => TypedAs(list, fields, n)'
  BY ListStaysTyped
<1> QED
  BY <1>1, <1>2, <1>3 DEF DefTyped

(* A step that leaves the tree alone.                                      *)
LEMMA TreeStays ==
  ASSUME UNCHANGED <<input, nodes, scopes, decls>>
  PROVE  /\ ScopesInv => ScopesInv'
         /\ \A n : DefsOf(n)' = DefsOf(n)
         /\ \A list, fields, n : TypedAs(list, fields, n) <=> TypedAs(list, fields, n)'
         /\ \A d, def : DefTyped(d, def) <=> DefTyped(d, def)'
<1>1. \A d, n, name : Visible(d, n, name)' <=> Visible(d, n, name)
  BY DEF Visible, IncludesOf, ProgramName
<1>2. \A n : IncludesOf(n)' = IncludesOf(n) /\ ProgramName(n)' = ProgramName(n)
  BY DEF IncludesOf, ProgramName
<1>3. ScopesInv => ScopesInv'
  BY <1>1, <1>2 DEF ScopesInv
<1>4. \A type, n, name : RightType(type, n, name)' <=> RightType(type, n, name)
  BY <1>1 DEF RightType
<1>5. \A list, fields, n : TypedAs(list, fields, n) <=> TypedAs(list, fields, n)'
  BY <1>4 DEF TypedAs
<1>6. \A d, def : DefTyped(d, def) <=> DefTyped(d, def)'
  BY <1>4, <1>5 DEF DefTyped
<1> QED
  BY <1>3, <1>5, <1>6 DEF DefsOf

(* The definitions stay typed while one is read, and when all are.         *)
LEMMA DefsStay ==
  ASSUME DefsInv, UNCHANGED <<input, nodes, scopes, decls>>,
         InProgram => \/ InProgram' /\ Program' = Program /\ cursor'.def = cursor.def
                      \/ \A k \in 1..Len(DefsOf(Program)) : k < cursor.def
  PROVE  DefsInv'
<1>1. \A n : DefsOf(n)' = DefsOf(n)
  BY TreeStays
<1>2. \A d, def : DefTyped(d, def) => DefTyped(d, def)'
  BY TreeStays
<1>3. ASSUME NEW d \in decls, NEW k \in 1..Len(DefsOf(d.node)),
             Matches(d, DefsOf(d.node)[k]),
             InProgram' /\ d.node = Program' => k < cursor'.def
      PROVE  DefTyped(d, DefsOf(d.node)[k])'
  <2>1. InProgram /\ d.node = Program => k < cursor.def
    BY <1>3
  <2> QED
    BY <1>1, <1>2, <1>3, <2>1 DEF DefsInv
<1> QED
  BY <1>1, <1>3 DEF DefsInv

(* A step that leaves the parser where it is.                              *)
LEMMA StandstillKeepsMeaning ==
  ASSUME MeaningInv, UNCHANGED <<input, globals, stack, readerVars, treeVars>>,
         Parsed' => Parsed
  PROVE  MeaningInv'
<1>1. UNCHANGED <<input, globals, stack, cursor, members, lists, nodes, scopes, decls>>
  BY DEF readerVars, treeVars
<1>2. UNCHANGED <<InProgram, Program, Def, Fields, Caller>>
  BY <1>1 DEF InProgram, Mode, Program, Def, File, Fields, Caller, Last1
<1>3. ScopesInv'
  BY <1>1, TreeStays DEF MeaningInv
<1>4. FramesInv'
  BY <1>1, <1>2 DEF MeaningInv, FramesInv, IncludesOf, ProgramName
<1>5. TypesInv'
  BY <1>1, <1>2, TreeStays DEF MeaningInv, TypesInv
<1>6. DefsInv'
  BY <1>1, <1>2, DefsStay DEF MeaningInv
<1> QED
  BY <1>3, <1>4, <1>5, <1>6 DEF MeaningInv

(* The compiler stops.                                                     *)
LEMMA StopKeepsMeaning ==
  ASSUME MeaningInv, NEW how \in {"failed", "crashed", "hung", "overflow"}, Stop(how)
  PROVE  MeaningInv'
BY StandstillKeepsMeaning DEF Stop, Parsed

(* A step of the reader inside of a file.                                  *)
LEMMA ReaderStepKeepsMeaning ==
  ASSUME MeaningInv, status = "parsing", ReaderStep, TypesInv'
  PROVE  MeaningInv'
<1>1. /\ UNCHANGED <<input, status, globals, stack, nodes, scopes, decls>>
      /\ cursor.stage # "recurse" /\ cursor'.stage # "recurse"
      /\ Mode = "PROGRAM" => cursor'.def = cursor.def
  BY DEF ReaderStep, treeVars
<1>2. /\ InProgram' <=> InProgram
      /\ UNCHANGED <<Program, Caller>>
      /\ InProgram => cursor'.def = cursor.def
  BY <1>1 DEF InProgram, Mode, Program, Caller, Last1
<1>3. ScopesInv'
  BY <1>1, TreeStays DEF MeaningInv
<1>4. FramesInv'
  BY <1>1, <1>2 DEF MeaningInv, FramesInv, Parsed, IncludesOf, ProgramName
<1>5. DefsInv'
  BY <1>1, <1>2, DefsStay DEF MeaningInv
<1> QED
  BY <1>3, <1>4, <1>5 DEF MeaningInv

(* The type that the parser takes a name for in the second pass.           *)
LEMMA FieldTypeIsRight ==
  ASSUME Inv, ScopesInv, Mode = "PROGRAM", NEW name
  PROVE  RightType(FieldType(name), Program, name)
<1>1. Program \in DOMAIN nodes
  BY DEF Inv, ParserInv
<1>2. CASE name = <<"i32">>
  BY <1>2 DEF FieldType, RightType
<1>3. CASE name # <<"i32">> /\ name \notin DOMAIN Scope.types
  <2>1. FieldType(name) = Type("forward", Program, name)
    BY <1>3 DEF FieldType
  <2> QED
    BY <1>3, <2>1 DEF RightType
<1>4. CASE name # <<"i32">> /\ name \in DOMAIN Scope.types
  <2>1. FieldType(name) = Scope.types[name]
    BY <1>4 DEF FieldType
  <2>2. \E d \in decls : /\ IsType(d) /\ Visible(d, Program, name)
                         /\ Scope.types[name] = DefinedType(d)
    BY <1>1, <1>4 DEF ScopesInv, Scope
  <2> QED
    BY <1>4, <2>1, <2>2 DEF RightType
<1> QED
  BY <1>2, <1>3, <1>4

(* Nothing of a list that is opened is read.                               *)
LEMMA StartDefinitionKeepsMeaning ==
  ASSUME Inv, MeaningInv, StartDefinition, UNCHANGED generateVars
  PROVE  MeaningInv'
<1>1. CASE Stop("failed")
  BY <1>1, StopKeepsMeaning
<1>2. CASE ~Stop("failed")
  <2>1. /\ status = "parsing" /\ cursor.stage = "definition"
        /\ UNCHANGED <<input, status, globals, stack, treeVars>>
        /\ lists' = <<>>
        /\ \/ cursor' = [cursor EXCEPT !.stage = "defined"]
           \/ OpenList(1)
    BY <1>2 DEF StartDefinition
  <2>2. cursor \in [stage : Stages, def : Nat \ {0}, list : Nat \ {0}, field : Nat \ {0}]
    BY DEF Inv, CursorInv
  <2>3. CASE cursor' = [cursor EXCEPT !.stage = "defined"]
    <3>1. cursor'.stage = "defined" /\ cursor'.def = cursor.def
      BY <2>2, <2>3
    <3>2. DOMAIN lists' = {}
      BY <2>1
    <3>3. TypesInv'
      BY <3>1, <3>2 DEF TypesInv
    <3>4. ReaderStep
      BY <2>1, <3>1 DEF ReaderStep
    <3> QED
      BY <2>1, <3>3, <3>4, ReaderStepKeepsMeaning
  <2>4. CASE OpenList(1)
    <3>1. /\ cursor'.stage = "fields" /\ cursor'.def = cursor.def /\ cursor'.list = 1
          /\ members' = <<>>
      BY <2>4 DEF OpenList, At
    <3>2. DOMAIN members' = {} /\ 1..(cursor'.list - 1) = {}
      BY <3>1
    <3>3. TypedAs(members, Fields, Program)'
      BY <3>2 DEF TypedAs
    <3>4. TypesInv'
      BY <3>1, <3>2, <3>3 DEF TypesInv
    <3>5. ReaderStep
      BY <2>1, <3>1 DEF ReaderStep
    <3> QED
      BY <2>1, <3>4, <3>5, ReaderStepKeepsMeaning
  <2> QED
    BY <2>1, <2>3, <2>4
<1> QED
  BY <1>1, <1>2

(* An element that is put in its place joins those that are there.         *)
LEMMA InsertAddsOne ==
  ASSUME MembersInv, NEW elem, NEW i \in 1..Len(members) + 1,
         NEW j \in DOMAIN Insert(elem, i)
  PROVE  Insert(elem, i)[j] = elem \/ \E k \in DOMAIN members : Insert(elem, i)[j] = members[k]
<1>1. Len(members) \in Nat /\ DOMAIN members = 1..Len(members)
  BY DEF MembersInv
<1>2. j \in 1..Len(members) + 1
  BY DEF Insert
<1>3. Insert(elem, i)[j] = IF j < i THEN members[j]
                           ELSE IF j = i THEN elem ELSE members[j - 1]
  BY <1>2 DEF Insert
<1>4. j < i => j \in 1..Len(members)
  BY <1>1, <1>2
<1>5. j > i => j - 1 \in 1..Len(members)
  BY <1>1, <1>2
<1> QED
  BY <1>1, <1>2, <1>3, <1>4, <1>5

(* A field that is added has the type that its name was taken for.         *)
LEMMA ReadFieldKeepsMeaning ==
  ASSUME Inv, MeaningInv, ReadField, UNCHANGED generateVars
  PROVE  MeaningInv'
<1> DEFINE f == Fields[cursor.field]
           elem == ParsedField(f)
<1>1. CASE Stop("failed") \/ \E how \in Failures(elem.default) : Stop(how)
  BY <1>1, FailureIsKnown, StopKeepsMeaning
<1>2. CASE ~(Stop("failed") \/ \E how \in Failures(elem.default) : Stop(how))
  <2>1. /\ status = "parsing" /\ cursor.stage = "fields" /\ cursor.field <= Len(Fields)
        /\ \E i \in 1..Len(members) + 1 : PlaceOf(elem, i) /\ members' = Insert(elem, i)
        /\ cursor' = [cursor EXCEPT !.field = @ + 1]
        /\ UNCHANGED <<input, status, globals, stack, lists, treeVars>>
    BY <1>2 DEF ReadField
  <2>2. cursor \in [stage : Stages, def : Nat \ {0}, list : Nat \ {0}, field : Nat \ {0}]
    BY DEF Inv, CursorInv
  <2>3. /\ cursor'.stage = "fields" /\ cursor'.def = cursor.def
        /\ cursor'.list = cursor.list
    BY <2>1, <2>2
  <2>4. UNCHANGED <<Def, Fields, Program, Mode>>
    BY <2>1, <2>3 DEF File, Program, Mode, treeVars, Def, Fields
  <2>5. PICK i \in 1..Len(members) + 1 : members' = Insert(elem, i)
    BY <2>1
  <2>6. ASSUME InProgram
        PROVE  TypedAs(members', Fields, Program)
    <3>1. elem.name = f.name /\ elem.type = FieldType(f.type)
      BY DEF ParsedField, Field
    <3>2. RightType(elem.type, Program, f.type)
      BY <2>6, <3>1, FieldTypeIsRight DEF InProgram, MeaningInv
    <3>3. cursor.field \in 1..Len(Fields)
      BY <2>1, <2>2, FieldsAreThere
    <3>4. TypedAs(members, Fields, Program)
      BY <2>1, <2>6 DEF MeaningInv, TypesInv
    <3>5. MembersInv
      BY DEF Inv
    <3> HIDE DEF elem
    <3>6. ASSUME NEW j \in DOMAIN members'
          PROVE  members'[j] = elem \/ \E k \in DOMAIN members : members'[j] = members[k]
      BY <2>5, <3>5, InsertAddsOne
    <3> QED
      BY <3>1, <3>2, <3>3, <3>4, <3>6 DEF TypedAs
  <2>7. UNCHANGED <<input, nodes, scopes, decls>>
    BY <2>1 DEF treeVars
  <2>8. TypesInv'
    <3>1. InProgram' => InProgram
      BY <2>1, <2>4 DEF InProgram
    <3>2. \A list, fields, n : TypedAs(list, fields, n) => TypedAs(list, fields, n)'
      BY <2>7, TreeStays
    <3>3. InProgram => \A l \in 1..(cursor.list - 1) : TypedAs(lists[l], Def.lists[l], Program)
      BY <2>1 DEF MeaningInv, TypesInv
    <3>4. UNCHANGED lists
      BY <2>1
    <3>5. InProgram' => TypedAs(members, Fields, Program)'
      BY <2>4, <2>6, <3>1, <3>2
    <3>6. InProgram' => (\A l \in 1..(cursor.list - 1) : TypedAs(lists[l], Def.lists[l], Program))'
      BY <2>3, <2>4, <3>1, <3>2, <3>3, <3>4
    <3> QED
      BY <2>3, <3>5, <3>6 DEF TypesInv
  <2>9. ReaderStep
    BY <2>1, <2>3 DEF ReaderStep
  <2> QED
    BY <2>1, <2>8, <2>9, ReaderStepKeepsMeaning
<1> QED
  BY <1>1, <1>2

(* A list that ends is kept with the types of its fields.                  *)
LEMMA EndFieldListKeepsMeaning ==
  ASSUME Inv, MeaningInv, EndFieldList, UNCHANGED generateVars
  PROVE  MeaningInv'
<1>1. CASE Stop("hung") \/ Stop("failed")
  BY <1>1, StopKeepsMeaning
<1>2. CASE ~(Stop("hung") \/ Stop("failed"))
  <2>1. /\ status = "parsing" /\ cursor.stage = "fields"
        /\ lists' = [l \in 1..cursor.list |-> IF l = cursor.list THEN members ELSE lists[l]]
        /\ \/ OpenList(cursor.list + 1)
           \/ cursor' = [cursor EXCEPT !.stage = "defined"]
        /\ UNCHANGED <<input, status, globals, stack, treeVars>>
    BY <1>2 DEF EndFieldList
  <2>2. cursor \in [stage : Stages, def : Nat \ {0}, list : Nat \ {0}, field : Nat \ {0}]
    BY DEF Inv, CursorInv
  <2>3. UNCHANGED <<input, nodes, scopes, decls>>
    BY <2>1 DEF treeVars
  <2>4. /\ cursor'.def = cursor.def
        /\ \/ /\ cursor'.stage = "fields" /\ cursor'.list = cursor.list + 1
              /\ members' = <<>>
           \/ cursor'.stage = "defined"
    BY <2>1, <2>2 DEF OpenList, At
  <2>5. UNCHANGED <<Def, Program, Mode>>
    BY <2>1, <2>3, <2>4 DEF File, Program, Mode, Def
  <2>6. ASSUME InProgram, NEW l \in 1..cursor.list
        PROVE  TypedAs(lists'[l], Def.lists[l], Program)
    <3>1. TypedAs(members, Fields, Program)
      BY <2>1, <2>6 DEF MeaningInv, TypesInv
    <3>2. l # cursor.list => l \in 1..(cursor.list - 1)
      BY <2>2
    <3>3. \A m \in 1..(cursor.list - 1) : TypedAs(lists[m], Def.lists[m], Program)
      BY <2>1, <2>6 DEF MeaningInv, TypesInv
    <3>4. lists'[l] = IF l = cursor.list THEN members ELSE lists[l]
      BY <2>1
    <3> QED
      BY <3>1, <3>2, <3>3, <3>4 DEF Fields
  <2>7. TypesInv'
    <3>1. InProgram' => InProgram
      BY <2>1, <2>5 DEF InProgram
    <3>2. \A list, fields, n : TypedAs(list, fields, n) => TypedAs(list, fields, n)'
      BY <2>3, TreeStays
    <3>3. InProgram' => (\A l \in 1..cursor.list : TypedAs(lists[l], Def.lists[l], Program)')
      BY <2>5, <2>6, <3>1, <3>2
    <3>4. DOMAIN lists' = 1..cursor.list
      BY <2>1
    <3>5. CASE cursor'.stage = "fields"
      <4>1. 1..(cursor'.list - 1) = 1..cursor.list
        BY <2>2, <2>4, <3>5
      <4>2. TypedAs(members, Fields, Program)'
        <5>1. DOMAIN members' = {}
          BY <2>4, <3>5
        <5> QED
          BY <5>1 DEF TypedAs
      <4> QED
        BY <3>3, <3>5, <4>1, <4>2 DEF TypesInv
    <3>6. CASE cursor'.stage = "defined"
      BY <3>3, <3>4, <3>6 DEF TypesInv
    <3> QED
      BY <2>4, <3>5, <3>6
  <2>8. ReaderStep
    BY <2>1, <2>4 DEF ReaderStep
  <2> QED
    BY <2>1, <2>7, <2>8, ReaderStepKeepsMeaning
<1> QED
  BY <1>1, <1>2

(* The first pass keeps nothing.                                           *)
LEMMA SkipDefinitionKeepsMeaning ==
  ASSUME Inv, MeaningInv, SkipDefinition, UNCHANGED generateVars
  PROVE  MeaningInv'
<1>1. /\ status = "parsing" /\ cursor.stage = "defined" /\ Mode = "INCLUDES"
      /\ cursor' = [cursor EXCEPT !.stage = "definition", !.def = @ + 1]
      /\ UNCHANGED <<input, status, globals, stack, treeVars>>
  BY DEF SkipDefinition, NextDefinition
<1>2. cursor'.stage = "definition"
  BY <1>1 DEF Inv, CursorInv
<1>3. TypesInv'
  BY <1>2 DEF TypesInv
<1>4. ReaderStep
  BY <1>1, <1>2 DEF ReaderStep
<1> QED
  BY <1>1, <1>3, <1>4, ReaderStepKeepsMeaning

(* The definitions stay typed in a tree that grows.                        *)
LEMMA DefsStayTyped ==
  ASSUME Inv, DefsInv, Grown, UNCHANGED <<input, decls>>,
         InProgram => InProgram' /\ Program' = Program /\ cursor'.def = cursor.def
  PROVE  DefsInv'
<1>1. \A d \in decls : d.node \in DOMAIN nodes
  BY DEF Inv, TreeInv
<1>2. \A n \in DOMAIN nodes : DefsOf(n)' = DefsOf(n)
  BY DEF DefsOf, Grown
<1>3. ASSUME NEW d \in decls, NEW k \in 1..Len(DefsOf(d.node)),
             Matches(d, DefsOf(d.node)[k]),
             InProgram' /\ d.node = Program' => k < cursor'.def
      PROVE  DefTyped(d, DefsOf(d.node)[k])'
  <2>1. PICK def : def = DefsOf(d.node)[k]
    OBVIOUS
  <2>2. DefTyped(d, def)
    BY <1>3, <2>1 DEF DefsInv
  <2>3. DefTyped(d, def)'
    BY <1>1, <2>2, DefStaysTyped
  <2>4. DefsOf(d.node)'[k] = def
    BY <1>1, <1>2, <2>1
  <2> QED
    BY <2>3, <2>4
<1>4. \A d \in decls : \E k \in 1..Len(DefsOf(d.node)) : Matches(d, DefsOf(d.node)[k])
  BY DEF DefsInv
<1>5. \A d \in decls : DefsOf(d.node)' = DefsOf(d.node)
  BY <1>1, <1>2
<1>6. ASSUME NEW d \in decls
      PROVE  /\ \E k \in 1..Len(DefsOf(d.node)') : Matches(d, DefsOf(d.node)'[k])
             /\ \A k \in 1..Len(DefsOf(d.node)') :
                  /\ Matches(d, DefsOf(d.node)'[k])
                  /\ InProgram' /\ d.node = Program' => k < cursor'.def
                  => DefTyped(d, DefsOf(d.node)[k])'
  BY <1>3, <1>4, <1>5
<1> QED
  BY <1>6 DEF DefsInv

(* Of a new include nothing is visible yet: its scope is empty, as is its  *)
(* program.                                                                *)
LEMMA ReadHeadersKeepsMeaning ==
  ASSUME Inv, SourceInv, MeaningInv, ReadHeaders, UNCHANGED generateVars
  PROVE  MeaningInv'
<1>1. /\ UNCHANGED <<input, status, globals, stack, members, lists, decls>>
      /\ status = "parsing" /\ cursor.stage = "headers"
      /\ cursor' = [cursor EXCEPT !.stage = "definition"]
  BY DEF ReadHeaders
<1>2. cursor'.stage = "definition" /\ cursor'.def = cursor.def
  BY <1>1 DEF Inv, CursorInv
<1>3. /\ UNCHANGED <<Program, Mode, Caller>>
      /\ InProgram' <=> InProgram
  BY <1>1, <1>2 DEF Program, Mode, Caller, Last1, InProgram
<1>4. Program \in DOMAIN nodes /\ \A d \in decls : d.node \in DOMAIN nodes
  BY DEF Inv, ParserInv, TreeInv
<1>5. Mode = "INCLUDES" => nodes[Program].includes = {}
  BY <1>1 DEF SourceInv, ParsingInv
<1>6. Grown
  <2>1. \A n \in DOMAIN nodes : /\ n \in DOMAIN nodes' /\ nodes'[n].path = nodes[n].path
                                /\ nodes[n].includes \subseteq nodes'[n].includes
    BY <1>4, <1>5, HeadersAreRead DEF TreeKept, Widened
  <2> QED
    BY <1>1, <2>1 DEF Grown
<1>7. /\ \A n \in DOMAIN nodes : ProgramName(n)' = ProgramName(n)
      /\ \A n \in DOMAIN nodes : IncludesOf(n) \subseteq IncludesOf(n)'
  BY <1>6 DEF Grown, ProgramName, IncludesOf
<1>8. \A d \in decls : \A n \in DOMAIN nodes : \A name :
        Visible(d, n, name) => Visible(d, n, name)'
  BY <1>4, <1>7 DEF Visible
<1>9. ScopesInv'
  <2>1. CASE TreeKept
    <3>1. \A n \in DOMAIN nodes : IncludesOf(n)' = IncludesOf(n)
      BY <2>1 DEF TreeKept, IncludesOf
    <3>2. DOMAIN nodes' = DOMAIN nodes /\ UNCHANGED scopes
      BY <2>1 DEF TreeKept
    <3> QED
      BY <1>1, <1>4, <1>7, <1>8, <3>1, <3>2 DEF MeaningInv, ScopesInv
  <2>2. ASSUME NEW found, Widened(found)
        PROVE  ScopesInv'
    <3>1. PICK new : new = {Child(Program, i) : i \in found}
      OBVIOUS
    <3>2. /\ DOMAIN nodes' = DOMAIN nodes \cup new
          /\ \A n \in DOMAIN nodes :
               /\ n \notin new
               /\ nodes'[n].includes = IF n = Program THEN found ELSE nodes[n].includes
          /\ \A n \in new : nodes'[n].includes = {}
          /\ scopes' = WithScopes(new)
      BY <2>2, <3>1 DEF Widened
    <3>3. /\ \A n \in DOMAIN nodes : scopes'[n] = scopes[n]
          /\ \A n \in new : scopes'[n] = NewScope
      BY <3>2 DEF WithScopes, Bind, Inv, TreeInv
    <3>4. IncludesOf(Program)' = new /\ \A n \in new : IncludesOf(n)' = {}
      BY <1>3, <1>4, <3>1, <3>2 DEF IncludesOf
    <3>5. \A n \in DOMAIN nodes : n # Program => IncludesOf(n)' = IncludesOf(n)
      BY <3>2 DEF IncludesOf
    <3>6. ASSUME NEW n \in new
          PROVE  /\ DOMAIN scopes'[n].types = {}
                 /\ \A d \in decls : d.node # n /\ d.node \notin IncludesOf(n)'
      BY <1>4, <3>2, <3>3, <3>4 DEF NewScope, EmptyMap
    <3>7. ASSUME NEW n \in DOMAIN nodes
          PROVE  /\ \A name \in DOMAIN scopes'[n].types :
                      \E d \in decls' : /\ IsType(d) /\ Visible(d, n, name)'
                                        /\ scopes'[n].types[name] = DefinedType(d)
                 /\ \A d \in decls' : IsType(d) =>
                      /\ d.node = n => <<d.name>> \in DOMAIN scopes'[n].types
                      /\ d.node \in IncludesOf(n)' =>
                           <<ProgramName(d.node)', d.name>> \in DOMAIN scopes'[n].types
      <4>1. \A name \in DOMAIN scopes[n].types :
              \E d \in decls : /\ IsType(d) /\ Visible(d, n, name)
                               /\ scopes[n].types[name] = DefinedType(d)
        BY DEF MeaningInv, ScopesInv
      <4>2. \A d \in decls : IsType(d) =>
              /\ d.node = n => <<d.name>> \in DOMAIN scopes[n].types
              /\ d.node \in IncludesOf(n) =>
                   <<ProgramName(d.node), d.name>> \in DOMAIN scopes[n].types
        BY DEF MeaningInv, ScopesInv
      <4>3. scopes'[n] = scopes[n]
        BY <3>3
      <4>4. \A d \in decls : d.node \in IncludesOf(n)' => d.node \in IncludesOf(n)
        <5>1. CASE n = Program
          <6>1. IncludesOf(n)' = new
            BY <1>3, <3>4, <5>1
          <6> QED
            BY <1>4, <3>2, <6>1
        <5> QED
          BY <3>5, <5>1
      <4> QED
        BY <1>1, <1>4, <1>7, <1>8, <4>1, <4>2, <4>3, <4>4
    <3> QED
      BY <1>1, <3>2, <3>6, <3>7 DEF ScopesInv
  <2> QED
    BY <2>1, <2>2, HeadersAreRead
<1>10. FramesInv'
  <2>1. \A k \in 1..Len(stack) : stack[k].node \in DOMAIN nodes
    BY FrameIsThere
  <2>2. ASSUME NEW k \in 1..Len(stack), k # 1
        PROVE  stack[k].node \in IncludesOf(stack[k - 1].node)'
    <3>1. k - 1 \in 1..Len(stack)
      BY <1>1, <2>2, CallerIsThere
    <3>2. PICK m : m = stack[k - 1].node
      OBVIOUS
    <3>3. m \in DOMAIN nodes /\ stack[k].node \in IncludesOf(m)
      BY <2>1, <2>2, <3>1, <3>2 DEF MeaningInv, FramesInv
    <3>4. stack[k].node \in IncludesOf(m)' /\ m = stack'[k - 1].node
      BY <1>1, <1>7, <3>2, <3>3
    <3> QED
      BY <3>4
  <2>3. InProgram => /\ globals.parent = Caller.parent
                     /\ globals.prefix = ProgramName(Program)'
    <3>1. PICK n \in DOMAIN nodes : n = Program
      BY <1>4
    <3>2. ProgramName(n)' = ProgramName(n) /\ n = Program'
      BY <1>3, <1>7, <3>1
    <3>3. InProgram => globals.parent = Caller.parent /\ globals.prefix = ProgramName(n)
      BY <3>1 DEF MeaningInv, FramesInv
    <3> QED
      BY <3>2, <3>3
  <2>4. ~Parsed'
    BY <1>1 DEF Parsed
  <2>5. \A k \in 1..Len(stack) :
          IF k = 1 THEN stack[k].node = Root /\ stack[k].parent = NoNode
          ELSE stack[k].parent = stack[k - 1].node
    BY DEF MeaningInv, FramesInv
  <2>6. globals'.prefix = globals.prefix /\ globals'.parent = globals.parent
    BY <1>1
  <2>7. InProgram' => ProgramName(Program)' = globals'.prefix /\ globals'.parent = Caller'.parent
    BY <1>3, <2>3, <2>6
  <2> QED
    BY <1>1, <2>2, <2>4, <2>5, <2>7 DEF FramesInv
<1>11. TypesInv'
  BY <1>2 DEF TypesInv
<1>12. DefsInv'
  BY <1>1, <1>2, <1>3, <1>6, DefsStayTyped DEF MeaningInv
<1> QED
  BY <1>9, <1>10, <1>11, <1>12 DEF MeaningInv

-----------------------------------------------------------------------------
(* Definitions.                                                            *)

(* The scope of the parent is that of the program that includes this one.  *)
LEMMA ParentIncludes ==
  ASSUME Inv, SourceInv, MeaningInv, status = "parsing", InProgram
  PROVE  /\ globals.prefix = ProgramName(Program)
         /\ Program \notin IncludesOf(Program)
         /\ \A n \in DOMAIN nodes : n = globals.parent <=> Program \in IncludesOf(n)
<1> DEFINE depth == Len(stack)
<1>1. depth \in Nat \ {0} /\ depth \in 1..depth /\ Caller = stack[depth]
  BY CallerIsThere DEF Caller, Last1
<1>2. Program = Caller.node /\ globals.parent = Caller.parent
  BY DEF SourceInv, ParsingInv, InProgram, MeaningInv, FramesInv
<1>3. /\ Program \in Seq(Nat)
      /\ \A n \in DOMAIN nodes : n \in Seq(Nat) /\ nodes[n].includes \subseteq Nat \ {0}
  BY DEF Inv, ParserInv, SourceInv, NodesInv
<1>4. Program \notin IncludesOf(Program)
  <2>1. SUFFICES ASSUME NEW i \in nodes[Program].includes, Program = Child(Program, i)
                 PROVE  FALSE
    BY DEF IncludesOf
  <2>2. i \in Nat /\ Len(Program) \in Nat
    BY <1>3 DEF Inv, ParserInv
  <2>3. Len(Child(Program, i)) = Len(Program) + 1
    BY <1>3, <2>2, ChildIsBelow
  <2> QED
    BY <2>1, <2>2, <2>3
<1>5. CASE depth = 1
  <2>1. Program = Root /\ globals.parent = NoNode
    BY <1>1, <1>2, <1>5 DEF MeaningInv, FramesInv
  <2>2. ASSUME NEW n \in DOMAIN nodes, NEW i \in nodes[n].includes
        PROVE  /\ Child(n, i) # Root
               /\ Child(n, i) # NoNode
    <3>1. n \in Seq(Nat) /\ i \in Nat \ {0} /\ Len(n) \in Nat
      BY <1>3
    <3>2. Len(Child(n, i)) = Len(n) + 1 /\ Child(n, i)[Len(n) + 1] = i
      BY <3>1, ChildIsBelow
    <3>3. Len(Root) = 0 /\ Len(NoNode) = 1 /\ NoNode[1] = 0
      BY DEF Root, NoNode
    <3>4. CASE Child(n, i) = Root
      BY <3>1, <3>2, <3>3, <3>4
    <3>5. CASE Child(n, i) = NoNode
      <4>1. Len(n) + 1 = 1
        BY <3>2, <3>3, <3>5
      <4> QED
        BY <3>1, <3>2, <3>3, <3>5, <4>1
    <3> QED
      BY <3>4, <3>5
  <2>3. NoNode \notin DOMAIN nodes
    <3>1. NoNode # Root
      BY DEF NoNode, Root
    <3> QED
      BY <2>2, <3>1 DEF SourceInv, NodesInv
  <2>4. \A n \in DOMAIN nodes : Root \notin IncludesOf(n)
    BY <2>2 DEF IncludesOf
  <2> QED
    BY <1>4, <2>1, <2>3, <2>4 DEF MeaningInv, FramesInv
<1>6. CASE depth # 1
  <2>1. depth - 1 \in 1..depth
    BY <1>1, <1>6
  <2>2. PICK above : above = stack[depth - 1].node
    OBVIOUS
  <2>3. above \in DOMAIN nodes
    BY <2>1, <2>2, FrameIsThere
  <2>4. globals.parent = above /\ Program \in IncludesOf(above)
    BY <1>1, <1>2, <1>6, <2>2 DEF MeaningInv, FramesInv
  <2>5. PICK j \in nodes[above].includes : Program = Child(above, j)
    BY <2>4 DEF IncludesOf
  <2>6. ASSUME NEW n \in DOMAIN nodes, Program \in IncludesOf(n)
        PROVE  n = above
    <3>1. PICK i \in nodes[n].includes : Program = Child(n, i)
      BY <2>6 DEF IncludesOf
    <3>2. /\ n \in Seq(Nat) /\ above \in Seq(Nat) /\ i \in Nat /\ j \in Nat
          /\ Child(n, i) = Child(above, j)
      BY <1>3, <2>3, <2>5, <3>1
    <3> QED
      BY <3>2, ChildTells
  <2> QED
    BY <1>4, <2>4, <2>6 DEF MeaningInv, FramesInv
<1> QED
  BY <1>5, <1>6

(* What Declare binds in one scope.                                        *)
NewNames(n, name) ==
  IF n = Program THEN {<<name>>}
  ELSE IF n = globals.parent THEN {<<globals.prefix, name>>} ELSE {}
SameTypes(after) ==
  /\ DOMAIN after = DOMAIN scopes
  /\ \A n \in DOMAIN scopes : after[n].types = scopes[n].types
OneMoreType(after, name) ==
  /\ DOMAIN after = DOMAIN scopes
  /\ \A n \in DOMAIN scopes :
       /\ DOMAIN after[n].types = DOMAIN scopes[n].types \cup NewNames(n, name)
       /\ \A x \in DOMAIN after[n].types :
            after[n].types[x] = IF x \in NewNames(n, name)
                                  THEN Type("defined", Program, <<name>>)
                                  ELSE scopes[n].types[x]

(* A constant or a service binds no type.                                  *)
LEMMA TypesAreLeft ==
  ASSUME Inv, SourceInv, NEW table \in {"consts", "services"}, NEW names, NEW entry,
         NEW after, after = Declare(table, names, entry)
  PROVE  SameTypes(after)
<1>1. \A n \in DOMAIN scopes : DOMAIN scopes[n] = {"types", "consts", "services"}
  BY DEF SourceInv, NamesInv
<1>2. Program \in DOMAIN scopes
  BY DEF Inv, ParserInv, TreeInv
<1> DEFINE qualified == {<<globals.prefix>> \o n : n \in names}
           behind == [n \in qualified |-> entry[Tail(n)]]
           bound(n, ns, e) == [scopes[n] EXCEPT ![table] = Bind(@, ns, e)]
<1>3. ASSUME NEW n \in DOMAIN scopes, NEW ns, NEW e
      PROVE  bound(n, ns, e).types = scopes[n].types
  <2>1. table # "types" /\ "types" \in DOMAIN scopes[n]
    BY <1>1
  <2> QED
    BY <2>1
<1>4. after = [n \in DOMAIN scopes |->
                 IF n = Program THEN bound(Program, names, entry)
                 ELSE IF n = globals.parent THEN bound(n, qualified, behind) ELSE scopes[n]]
  BY DEF Declare, Scope
<1> HIDE DEF qualified, behind, bound
<1> QED
  BY <1>2, <1>3, <1>4 DEF SameTypes

(* A type is bound in its program, and in the one that includes it.        *)
LEMMA TypeIsBound ==
  ASSUME Inv, SourceInv, NEW name, NEW after,
         after = Declare("types", {<<name>>},
                         [n \in {<<name>>} |-> Type("defined", Program, n)])
  PROVE  OneMoreType(after, name)
<1>1. /\ Program \in DOMAIN scopes
      /\ \A n \in DOMAIN scopes : DOMAIN scopes[n] = {"types", "consts", "services"}
  BY DEF Inv, ParserInv, TreeInv, SourceInv, NamesInv
<1> DEFINE names == {<<name>>}
           type == Type("defined", Program, <<name>>)
           entry == [n \in names |-> Type("defined", Program, n)]
           qualified == {<<globals.prefix>> \o n : n \in names}
           behind == [n \in qualified |-> entry[Tail(n)]]
           bound(n, ns, e) == [scopes[n] EXCEPT !["types"] = Bind(@, ns, e)]
<1>2. qualified = {<<globals.prefix, name>>} /\ Tail(<<globals.prefix, name>>) = <<name>>
  OBVIOUS
<1>3. entry[<<name>>] = type /\ \A n \in qualified : behind[n] = type
  BY <1>2
<1>4. ASSUME NEW n \in DOMAIN scopes, NEW ns, NEW e, \A x \in ns : e[x] = type
      PROVE  /\ DOMAIN bound(n, ns, e).types = DOMAIN scopes[n].types \cup ns
             /\ \A x \in DOMAIN bound(n, ns, e).types :
                  bound(n, ns, e).types[x] = IF x \in ns THEN type ELSE scopes[n].types[x]
  <2>1. bound(n, ns, e).types = Bind(scopes[n].types, ns, e)
    BY <1>1
  <2> HIDE DEF bound, type
  <2> QED
    BY <1>4, <2>1 DEF Bind
<1>5. after = [n \in DOMAIN scopes |->
                 IF n = Program THEN bound(Program, names, entry)
                 ELSE IF n = globals.parent THEN bound(n, qualified, behind) ELSE scopes[n]]
  BY DEF Declare, Scope
<1>6. \A x \in names : entry[x] = type
  OBVIOUS
<1> HIDE DEF behind, bound, entry, type
<1>7. ASSUME NEW n \in DOMAIN scopes
      PROVE  /\ DOMAIN after[n].types = DOMAIN scopes[n].types \cup NewNames(n, name)
             /\ \A x \in DOMAIN after[n].types :
                  after[n].types[x] = IF x \in NewNames(n, name) THEN type
                                      ELSE scopes[n].types[x]
  <2>1. CASE n = Program
    <3>1. after[n] = bound(n, names, entry) /\ NewNames(n, name) = names
      BY <1>5, <2>1 DEF NewNames
    <3> HIDE DEF qualified, names
    <3>2. /\ DOMAIN bound(n, names, entry).types = DOMAIN scopes[n].types \cup names
          /\ \A x \in DOMAIN bound(n, names, entry).types :
               bound(n, names, entry).types[x] = IF x \in names THEN type ELSE scopes[n].types[x]
      BY <1>4, <1>6
    <3> QED
      BY <3>1, <3>2
  <2>2. CASE n # Program /\ n = globals.parent
    <3>1. after[n] = bound(n, qualified, behind) /\ NewNames(n, name) = qualified
      BY <1>2, <1>5, <2>2 DEF NewNames
    <3> HIDE DEF qualified, names
    <3>2. /\ DOMAIN bound(n, qualified, behind).types = DOMAIN scopes[n].types \cup qualified
          /\ \A x \in DOMAIN bound(n, qualified, behind).types :
               bound(n, qualified, behind).types[x] = IF x \in qualified THEN type ELSE scopes[n].types[x]
      BY <1>3, <1>4
    <3> QED
      BY <3>1, <3>2
  <2>3. CASE n # Program /\ n # globals.parent
    <3>1. after[n] = scopes[n] /\ NewNames(n, name) = {}
      BY <1>5, <2>3 DEF NewNames
    <3> QED
      BY <3>1
  <2> QED
    BY <2>1, <2>2, <2>3
<1>8. DOMAIN after = DOMAIN scopes
  BY <1>5
<1> QED
  BY <1>7, <1>8 DEF OneMoreType, type

(* A definition has the types that were taken for the names in it.         *)
LEMMA DeclIsTyped ==
  ASSUME Inv, MeaningInv, cursor.stage = "defined", Mode = "PROGRAM",
         NEW value, NEW d, d = Decl(value)
  PROVE  /\ DefTyped(d, Def)
         /\ d.node = Program /\ d.kind = Def.kind /\ d.name = Def.name
<1>1. /\ d.node = Program /\ d.kind = Def.kind /\ d.name = Def.name
      /\ Def.type # <<>> => d.type = FieldType(Def.type)
      /\ d.lists = IF Def.kind = "union" THEN [l \in DOMAIN lists |-> UnionMembers(lists[l])]
                   ELSE lists
  BY DEF Decl, Declaration
<1>2. Def.type # <<>> => RightType(d.type, Program, Def.type)
  BY <1>1, FieldTypeIsRight DEF MeaningInv
<1>3. \A l \in DOMAIN lists : TypedAs(lists[l], Def.lists[l], Program)
  BY DEF MeaningInv, TypesInv, InProgram
<1>4. ASSUME NEW l \in DOMAIN lists
      PROVE  TypedAs(UnionMembers(lists[l]), Def.lists[l], Program)
  <2>1. /\ DOMAIN UnionMembers(lists[l]) = DOMAIN lists[l]
        /\ \A i \in DOMAIN lists[l] :
             /\ UnionMembers(lists[l])[i].name = lists[l][i].name
             /\ UnionMembers(lists[l])[i].type = lists[l][i].type
    BY DEF UnionMembers, WithReq, Field
  <2> QED
    BY <1>3, <2>1 DEF TypedAs
<1>5. ASSUME NEW l \in DOMAIN d.lists
      PROVE  TypedAs(d.lists[l], Def.lists[l], d.node)
  <2>1. CASE Def.kind = "union"
    <3>1. l \in DOMAIN lists /\ d.lists[l] = UnionMembers(lists[l])
      BY <1>1, <1>5, <2>1
    <3> QED
      BY <1>1, <1>4, <3>1
  <2>2. CASE Def.kind # "union"
    BY <1>1, <1>3, <1>5, <2>2
  <2> QED
    BY <2>1, <2>2
<1> QED
  BY <1>1, <1>2, <1>5 DEF DefTyped

(* The scopes after a definition has been added.                           *)
LEMMA AddedKeepsScopes ==
  ASSUME Inv, SourceInv, MeaningInv, status = "parsing", InProgram,
         NEW d, d.node = Program, decls' = decls \cup {d}, UNCHANGED nodes,
         IF IsType(d) THEN OneMoreType(scopes', d.name) ELSE SameTypes(scopes')
  PROVE  ScopesInv'
<1>1. /\ \A n \in DOMAIN nodes : n = globals.parent <=> Program \in IncludesOf(n)
      /\ globals.prefix = ProgramName(Program) /\ Program \notin IncludesOf(Program)
  BY ParentIncludes
<1>2. DOMAIN scopes = DOMAIN nodes
  BY DEF Inv, TreeInv
<1>3. /\ \A e, n, name : Visible(e, n, name)' <=> Visible(e, n, name)
      /\ \A n : IncludesOf(n)' = IncludesOf(n) /\ ProgramName(n)' = ProgramName(n)
  BY DEF Visible, IncludesOf, ProgramName
<1>4. ASSUME NEW n \in DOMAIN nodes
      PROVE  /\ \A name \in DOMAIN scopes[n].types :
                  \E e \in decls : /\ IsType(e) /\ Visible(e, n, name)
                                   /\ scopes[n].types[name] = DefinedType(e)
             /\ \A e \in decls : IsType(e) =>
                  /\ e.node = n => <<e.name>> \in DOMAIN scopes[n].types
                  /\ e.node \in IncludesOf(n) =>
                       <<ProgramName(e.node), e.name>> \in DOMAIN scopes[n].types
  BY DEF MeaningInv, ScopesInv
<1>5. CASE ~IsType(d)
  <2>1. DOMAIN scopes' = DOMAIN scopes /\ \A n \in DOMAIN scopes : scopes'[n].types = scopes[n].types
    BY <1>5 DEF SameTypes
  <2>2. \A e \in decls' : IsType(e) => e \in decls
    BY <1>5
  <2> QED
    BY <1>2, <1>3, <1>4, <2>1, <2>2 DEF ScopesInv
<1>6. CASE IsType(d)
  <2>1. ASSUME NEW n \in DOMAIN nodes
        PROVE  /\ DOMAIN scopes'[n].types = DOMAIN scopes[n].types \cup NewNames(n, d.name)
               /\ \A x \in DOMAIN scopes'[n].types :
                    scopes'[n].types[x] = IF x \in NewNames(n, d.name)
                                            THEN Type("defined", Program, <<d.name>>)
                                            ELSE scopes[n].types[x]
    BY <1>2, <1>6 DEF OneMoreType
  <2>2. ASSUME NEW n \in DOMAIN nodes, NEW x \in NewNames(n, d.name)
        PROVE  Visible(d, n, x)
    BY <1>1 DEF NewNames, Visible
  <2>3. Type("defined", Program, <<d.name>>) = DefinedType(d)
    BY DEF DefinedType
  <2>4. ASSUME NEW n \in DOMAIN nodes, NEW x \in DOMAIN scopes'[n].types
        PROVE  \E e \in decls' : /\ IsType(e) /\ Visible(e, n, x)
                                 /\ scopes'[n].types[x] = DefinedType(e)
    <3>1. CASE x \in NewNames(n, d.name)
      BY <1>6, <2>1, <2>2, <2>3, <3>1
    <3>2. CASE x \notin NewNames(n, d.name)
      <4>1. x \in DOMAIN scopes[n].types /\ scopes'[n].types[x] = scopes[n].types[x]
        BY <2>1, <2>4, <3>2
      <4> QED
        BY <1>4, <4>1
    <3> QED
      BY <3>1, <3>2
  <2>5. ASSUME NEW n \in DOMAIN nodes, NEW e \in decls', IsType(e)
        PROVE  /\ e.node = n => <<e.name>> \in DOMAIN scopes'[n].types
               /\ e.node \in IncludesOf(n) =>
                    <<ProgramName(e.node), e.name>> \in DOMAIN scopes'[n].types
    <3>1. CASE e \in decls
      BY <1>4, <2>1, <2>5, <3>1
    <3>2. CASE e = d
      BY <1>1, <2>1, <3>2 DEF NewNames
    <3> QED
      BY <3>1, <3>2
  <2> QED
    BY <1>3, <2>4, <2>5 DEF ScopesInv
<1> QED
  BY <1>5, <1>6

(* A definition that is added: no other has its kind and its name.         *)
LEMMA AddedKeepsMeaning ==
  ASSUME Inv, SourceInv, MeaningInv, status = "parsing", cursor.stage = "defined",
         Mode = "PROGRAM", NEW value, NEW d, d = Decl(value), Added(d),
         \A e \in decls : ~(e.node = Program /\ e.kind = Def.kind /\ e.name = Def.name),
         IF IsType(d) THEN OneMoreType(scopes', d.name) ELSE SameTypes(scopes')
  PROVE  MeaningInv'
<1>1. /\ UNCHANGED <<input, status, globals, stack, nodes>>
      /\ decls' = decls \cup {d}
      /\ cursor' = [cursor EXCEPT !.stage = "definition", !.def = @ + 1]
  BY DEF Added, NextDefinition
<1>2. /\ cursor'.stage = "definition" /\ cursor'.def = cursor.def + 1
      /\ cursor.def \in Nat \ {0}
  BY <1>1 DEF Inv, CursorInv
<1>3. /\ UNCHANGED <<Program, Mode, Caller>> /\ InProgram /\ InProgram'
  BY <1>1, <1>2 DEF Program, Mode, Caller, Last1, InProgram
<1>4. /\ DefTyped(d, Def) /\ d.node = Program /\ d.kind = Def.kind /\ d.name = Def.name
  BY DeclIsTyped
<1>5. Grown
  BY <1>1 DEF Grown
<1>6. ScopesInv'
  BY <1>1, <1>3, <1>4, AddedKeepsScopes
<1>7. FramesInv'
  BY <1>1, <1>3 DEF MeaningInv, FramesInv, Parsed, IncludesOf, ProgramName
<1>8. TypesInv'
  BY <1>2 DEF TypesInv
<1>9. DefsInv'
  <2>1. \A n : DefsOf(n)' = DefsOf(n)
    BY <1>1 DEF DefsOf
  <2>2. /\ DefsOf(Program) = File.defs /\ DefsOf(Program)[cursor.def] = Def
        /\ cursor.def \in 1..Len(File.defs) /\ Len(File.defs) \in Nat
    BY DefIsThere DEF DefsOf, File, Def, SourceInv, ReaderInv
  <2>3. \A e \in decls : e.node \in DOMAIN nodes
    BY DEF Inv, TreeInv
  <2>4. Program \in DOMAIN nodes
    BY DEF Inv, ParserInv
  <2>5. ASSUME NEW e \in decls
        PROVE  /\ \E k \in 1..Len(DefsOf(e.node)) : Matches(e, DefsOf(e.node)[k])
               /\ \A k \in 1..Len(DefsOf(e.node)) :
                    /\ Matches(e, DefsOf(e.node)[k])
                    /\ e.node = Program => k < cursor.def + 1
                    => DefTyped(e, DefsOf(e.node)[k])
    <3>1. ASSUME NEW k \in 1..Len(DefsOf(e.node)), Matches(e, DefsOf(e.node)[k]),
                 e.node = Program => k < cursor.def + 1
          PROVE  DefTyped(e, DefsOf(e.node)[k])
      <4>1. ~(e.node = Program /\ k = cursor.def)
        BY <2>2, <3>1 DEF Matches
      <4>2. e.node = Program => k < cursor.def
        BY <1>2, <2>2, <3>1, <4>1
      <4> QED
        BY <3>1, <4>2 DEF MeaningInv, DefsInv
    <3> QED
      BY <3>1 DEF MeaningInv, DefsInv
  <2>6. /\ \E k \in 1..Len(DefsOf(d.node)) : Matches(d, DefsOf(d.node)[k])
        /\ \A k \in 1..Len(DefsOf(d.node)) :
             Matches(d, DefsOf(d.node)[k]) /\ k < cursor.def + 1
             => DefTyped(d, DefsOf(d.node)[k])
    <3>1. Matches(d, DefsOf(Program)[cursor.def])
      BY <1>4, <2>2 DEF Matches
    <3>2. ASSUME NEW k \in 1..Len(DefsOf(Program)), Matches(d, DefsOf(Program)[k]),
                 k < cursor.def + 1, k # cursor.def
          PROVE  FALSE
      <4>1. k \in 1..(cursor.def - 1)
        BY <1>2, <2>2, <3>2
      <4>2. Reflects(Program, cursor.def - 1, FALSE)
        BY <1>3 DEF SourceInv, ParsingInv
      <4>3. PICK e \in DeclsOf(Program) : DeclaredAs(input, e, DefsOf(Program)[k], FALSE)
        BY <4>1, <4>2 DEF Reflects
      <4>4. e \in decls /\ e.node = Program /\ e.kind = Def.kind /\ e.name = Def.name
        BY <1>4, <3>2, <4>3 DEF DeclaredAs, DeclsOf, Matches
      <4> QED
        BY <4>4
    <3> QED
      BY <1>4, <2>2, <3>1, <3>2
  <2>7. ASSUME NEW e \in decls'
        PROVE  /\ \E k \in 1..Len(DefsOf(e.node)) : Matches(e, DefsOf(e.node)[k])
               /\ \A k \in 1..Len(DefsOf(e.node)) :
                    /\ Matches(e, DefsOf(e.node)[k])
                    /\ e.node = Program => k < cursor.def + 1
                    => DefTyped(e, DefsOf(e.node)[k])'
    <3>1. e.node \in DOMAIN nodes
      BY <1>1, <1>4, <2>3, <2>4
    <3>2. \A def : DefTyped(e, def) => DefTyped(e, def)'
      BY <1>5, <3>1, DefStaysTyped
    <3>3. /\ \E k \in 1..Len(DefsOf(e.node)) : Matches(e, DefsOf(e.node)[k])
          /\ \A k \in 1..Len(DefsOf(e.node)) :
               /\ Matches(e, DefsOf(e.node)[k])
               /\ e.node = Program => k < cursor.def + 1
               => DefTyped(e, DefsOf(e.node)[k])
      BY <1>1, <1>4, <2>5, <2>6
    <3>4. \A k : DefsOf(e.node)'[k] = DefsOf(e.node)[k]
      BY <2>1
    <3> QED
      BY <3>2, <3>3, <3>4
  <2> QED
    BY <1>2, <1>3, <2>1, <2>7 DEF DefsInv
<1> QED
  BY <1>6, <1>7, <1>8, <1>9 DEF MeaningInv

(* A typedef, struct, union or exception is bound as a type.               *)
LEMMA DefineTypeKeepsMeaning ==
  ASSUME Inv, SourceInv, MeaningInv, DefineType
  PROVE  MeaningInv'
<1> DEFINE d == Decl(NoValue)
<1>1. CASE Stop("failed")
  BY <1>1, StopKeepsMeaning
<1>2. CASE ~Stop("failed")
  <2>1. /\ status = "parsing" /\ cursor.stage = "defined" /\ Mode = "PROGRAM"
        /\ Def.kind \in {"typedef", "struct", "union", "exception"} /\ ~Taken(Def.name)
        /\ scopes' = Declare("types", {<<d.name>>},
                             [n \in {<<d.name>>} |-> Type("defined", Program, n)])
        /\ Added(d)
    BY <1>2 DEF DefineType, Reading
  <2>2. d.kind = Def.kind
    BY DEF Decl, Declaration
  <2> HIDE DEF d
  <2>3. OneMoreType(scopes', d.name) /\ IsType(d)
    BY <2>1, <2>2, TypeIsBound DEF IsType
  <2>4. \A e \in decls : ~(e.node = Program /\ e.kind = Def.kind /\ e.name = Def.name)
    BY <2>1 DEF Taken
  <2>5. d = Decl(NoValue)
    BY DEF d
  <2> QED
    BY <2>1, <2>3, <2>4, <2>5, AddedKeepsMeaning
<1> QED
  BY <1>1, <1>2

(* A service is none.                                                      *)
LEMMA DefineServiceKeepsMeaning ==
  ASSUME Inv, SourceInv, MeaningInv, DefineService
  PROVE  MeaningInv'
<1> DEFINE d == Decl(NoValue)
<1>1. CASE Stop("failed")
  BY <1>1, StopKeepsMeaning
<1>2. CASE ~Stop("failed")
  <2>1. /\ status = "parsing" /\ cursor.stage = "defined" /\ Mode = "PROGRAM"
        /\ Def.kind = "service" /\ ~Taken(Def.name)
        /\ \E names, entry : scopes' = Declare("services", names, entry)
        /\ Added(d)
    BY <1>2 DEF DefineService, Reading
  <2>2. d.kind = Def.kind
    BY DEF Decl, Declaration
  <2> HIDE DEF d
  <2>3. SameTypes(scopes') /\ ~IsType(d)
    BY <2>1, <2>2, TypesAreLeft DEF IsType
  <2>4. \A e \in decls : ~(e.node = Program /\ e.kind = Def.kind /\ e.name = Def.name)
    BY <2>1 DEF Taken
  <2>5. d = Decl(NoValue)
    BY DEF d
  <2> QED
    BY <2>1, <2>3, <2>4, <2>5, AddedKeepsMeaning
<1> QED
  BY <1>1, <1>2

(* Neither is a constant.                                                  *)
LEMMA DefineConstKeepsMeaning ==
  ASSUME Inv, SourceInv, MeaningInv, DefineConst
  PROVE  MeaningInv'
<1> DEFINE value == ConstValue(Def.value, FieldType(Def.type))
           d == Decl(value)
<1>1. CASE Stop("failed") \/ \E how \in Failures(value) : Stop(how)
  BY <1>1, FailureIsKnown, StopKeepsMeaning
<1>2. CASE ~(Stop("failed") \/ \E how \in Failures(value) : Stop(how))
  <2>1. /\ status = "parsing" /\ cursor.stage = "defined" /\ Mode = "PROGRAM"
        /\ Def.kind = "const" /\ ~ConstantTaken({<<Def.name>>})
        /\ \E names, entry : scopes' = Declare("consts", names, entry)
        /\ Added(d)
    BY <1>2 DEF DefineConst, Reading
  <2>2. d.kind = Def.kind
    BY DEF Decl, Declaration
  <2>5. d = Decl(value)
    OBVIOUS
  <2> HIDE DEF d, value
  <2>3. SameTypes(scopes') /\ ~IsType(d)
    BY <2>1, <2>2, TypesAreLeft DEF IsType
  <2>4. \A e \in decls : ~(e.node = Program /\ e.kind = Def.kind /\ e.name = Def.name)
    BY <2>1 DEF SourceInv, NamesInv, ConstantTaken, Scope
  <2> QED
    BY <2>1, <2>3, <2>4, <2>5, AddedKeepsMeaning
<1> QED
  BY <1>1, <1>2

(* An enum is a type, whatever its enumerators are.                        *)
LEMMA DefineEnumKeepsMeaning ==
  ASSUME Inv, SourceInv, MeaningInv, DefineEnum
  PROVE  MeaningInv'
<1> DEFINE d == Decl(NoValue)
           all == Declare("types", {<<d.name>>},
                          [n \in {<<d.name>>} |-> Type("defined", Program, n)])
<1>1. CASE Stop("failed")
  BY <1>1, StopKeepsMeaning
<1>2. CASE ~Stop("failed")
  <2>1. PICK own :
          /\ status = "parsing" /\ cursor.stage = "defined" /\ Mode = "PROGRAM"
          /\ Def.kind = "enum" /\ ~Taken(Def.name)
          /\ scopes' = [n \in DOMAIN scopes |-> [all[n] EXCEPT !.consts = own[n].consts]]
          /\ Added(d)
    BY <1>2 DEF DefineEnum, Reading
  <2>2. d.kind = Def.kind
    BY DEF Decl, Declaration
  <2>3. OneMoreType(all, d.name)
    <3>1. PICK after : after = all
      OBVIOUS
    <3>2. OneMoreType(after, d.name)
      <4> HIDE DEF d
      <4> QED
        BY <3>1, TypeIsBound
    <3> QED
      BY <3>1, <3>2
  <2>5. d = Decl(NoValue)
    OBVIOUS
  <2> HIDE DEF all
  <2>6. \A n \in DOMAIN scopes : scopes'[n].types = all[n].types
    <3>1. \A n \in DOMAIN scopes : "types" \in DOMAIN all[n]
      BY DeclareGrows DEF all, SourceInv, NamesInv
    <3> QED
      BY <2>1, <3>1
  <2>7. DOMAIN scopes' = DOMAIN scopes
    BY <2>1
  <2> HIDE DEF d
  <2>8. OneMoreType(scopes', d.name) /\ IsType(d)
    BY <2>1, <2>2, <2>3, <2>6, <2>7 DEF IsType, OneMoreType
  <2>9. \A e \in decls : ~(e.node = Program /\ e.kind = Def.kind /\ e.name = Def.name)
    BY <2>1 DEF Taken
  <2> QED
    BY <2>1, <2>5, <2>8, <2>9, AddedKeepsMeaning
<1> QED
  BY <1>1, <1>2

-----------------------------------------------------------------------------
(* parse(), the beginning and generate().                                  *)

(* With the last definition of a file all of them are typed.               *)
LEMMA EndOfFileKeepsMeaning ==
  ASSUME Inv, SourceInv, MeaningInv, EndOfFile
  PROVE  MeaningInv'
<1>1. /\ status = "parsing" /\ cursor.stage = "definition" /\ cursor.def > Len(File.defs)
      /\ cursor' = [cursor EXCEPT !.stage = "recurse"]
      /\ stack' = stack \/ stack' = Popped(stack)
      /\ UNCHANGED <<input, globals, nodes, scopes, decls>>
  BY DEF EndOfFile, Popped, treeVars
<1>2. cursor'.stage = "recurse" /\ cursor.def \in Nat \ {0}
  BY <1>1 DEF Inv, CursorInv
<1>3. ~InProgram'
  BY <1>2 DEF InProgram
<1>4. ScopesInv'
  BY <1>1, TreeStays DEF MeaningInv
<1>5. FramesInv'
  <2>1. Len(stack) \in Nat \ {0}
    BY <1>1, CallerIsThere
  <2>2. \A n : IncludesOf(n)' = IncludesOf(n)
    BY <1>1 DEF IncludesOf
  <2>3. /\ \A k \in 1..Len(stack') : k \in 1..Len(stack) /\ stack'[k] = stack[k]
        /\ \A k \in 1..Len(stack') : k # 1 => k - 1 \in 1..Len(stack')
    <3>1. CASE stack' = stack
      BY <2>1, <3>1
    <3>2. CASE stack' = Popped(stack)
      <4>1. PICK S : stack \in Seq(S)
        BY DEF Inv, ParserInv
      <4>2. /\ Len(stack') = Len(stack) - 1
            /\ \A k \in 1..(Len(stack) - 1) : stack'[k] = stack[k]
        <5>1. /\ Len(Popped(stack)) = Len(stack) - 1
              /\ \A k \in 1..(Len(stack) - 1) : Popped(stack)[k] = stack[k]
          BY <2>1, <4>1, CallIsPopped
        <5> QED
          BY <3>2, <5>1
      <4> QED
        BY <2>1, <4>2
    <3> QED
      BY <1>1, <3>1, <3>2
  <2>4. ASSUME NEW k \in 1..Len(stack')
        PROVE  IF k = 1 THEN stack'[k].node = Root /\ stack'[k].parent = NoNode
               ELSE /\ stack'[k].parent = stack'[k - 1].node
                    /\ stack'[k].node \in IncludesOf(stack[k - 1].node)'
    <3>1. CASE k = 1
      BY <2>3, <3>1 DEF MeaningInv, FramesInv
    <3>2. CASE k # 1
      <4>1. PICK above : above = stack[k - 1].node
        OBVIOUS
      <4>2. /\ stack'[k].parent = above /\ stack'[k].node \in IncludesOf(above)
            /\ stack'[k - 1].node = above
        BY <2>3, <3>2, <4>1 DEF MeaningInv, FramesInv
      <4>3. stack'[k].node \in IncludesOf(above)'
        BY <2>2, <4>2
      <4> QED
        BY <3>2, <4>2, <4>3
    <3> QED
      BY <3>1, <3>2
  <2> QED
    BY <1>3, <2>4 DEF FramesInv
<1>6. TypesInv'
  BY <1>2 DEF TypesInv
<1>7. DefsInv'
  <2>1. DefsOf(Program) = File.defs /\ Len(File.defs) \in Nat
    BY DefIsThere DEF DefsOf, File, SourceInv
  <2>2. \A k \in 1..Len(DefsOf(Program)) : k < cursor.def
    BY <1>1, <1>2, <2>1
  <2> QED
    BY <1>1, <2>2, DefsStay DEF MeaningInv
<1> QED
  BY <1>4, <1>5, <1>6, <1>7 DEF MeaningInv

(* The second pass knows the parent and the prefix of its program.         *)
LEMMA ProgramPassKeepsMeaning ==
  ASSUME Inv, MeaningInv, ProgramPass
  PROVE  MeaningInv'
<1>1. /\ status = "parsing" /\ cursor.stage = "recurse"
      /\ globals' = Globals("PROGRAM", globals.curdir, Caller.node, Caller.parent,
                            ProgramName(Caller.node))
      /\ cursor' = AtHeaders
      /\ UNCHANGED <<input, status, stack, nodes, scopes, decls>>
  BY DEF ProgramPass, treeVars
<1>2. /\ cursor'.stage = "headers" /\ ~InProgram /\ ~Parsed'
  BY <1>1 DEF AtHeaders, At, InProgram, Parsed
<1>3. /\ Program' = Caller.node /\ globals'.parent = Caller.parent
      /\ globals'.prefix = ProgramName(Caller.node) /\ Caller' = Caller
  BY <1>1 DEF Globals, Program, Caller, Last1
<1>4. ScopesInv'
  BY <1>1, TreeStays DEF MeaningInv
<1>5. FramesInv'
  <2>1. ProgramName(Program)' = ProgramName(Caller.node)
    BY <1>1, <1>3 DEF ProgramName
  <2>2. \A k \in 1..Len(stack) : IncludesOf(stack[k - 1].node)' = IncludesOf(stack[k - 1].node)
    BY <1>1 DEF IncludesOf
  <2> QED
    BY <1>1, <1>2, <1>3, <2>1, <2>2 DEF MeaningInv, FramesInv
<1>6. TypesInv'
  BY <1>2 DEF TypesInv
<1>7. DefsInv'
  BY <1>1, <1>2, DefsStay DEF MeaningInv
<1> QED
  BY <1>4, <1>5, <1>6, <1>7 DEF MeaningInv

(* The include is one of the caller's.                                     *)
LEMMA ParseIncludeKeepsMeaning ==
  ASSUME Inv, SourceInv, MeaningInv, ParseInclude
  PROVE  MeaningInv'
<1> DEFINE Frames == [node : DOMAIN nodes, parent : DOMAIN nodes \cup {NoNode},
                      child : Int]
           n == Len(stack)
<1>1. CASE Stop("overflow")
  BY <1>1, StopKeepsMeaning
<1>2. CASE ~Stop("overflow")
  <2>1. PICK i \in nodes[Caller.node].includes :
          /\ stack' = Pushed(stack, Frame(Caller.node, Caller.parent, i),
                             Frame(Child(Caller.node, i), Caller.node, 0))
          /\ globals' = Globals("INCLUDES", Directory(nodes[Child(Caller.node, i)].path),
                           Child(Caller.node, i), globals.parent, globals.prefix)
          /\ cursor' = AtHeaders
          /\ UNCHANGED <<input, status, treeVars>>
    BY <1>2 DEF ParseInclude, Pushed, Caller, Last1
  <2> DEFINE node == Child(Caller.node, i)
             a == Frame(Caller.node, Caller.parent, i)
             b == Frame(node, Caller.node, 0)
  <2>2. /\ status = "parsing" /\ cursor.stage = "recurse"
        /\ UNCHANGED <<input, status, nodes, scopes, decls>>
    BY <2>1 DEF ParseInclude, treeVars
  <2>3. /\ n \in Nat \ {0} /\ Caller \in Frames /\ stack \in Seq(Frames)
        /\ n \in 1..n /\ Caller = stack[n]
    BY <2>2, CallerIsThere DEF Inv, ParserInv, Caller, Last1
  <2>4. Caller.node \in DOMAIN nodes /\ nodes[Caller.node].includes \subseteq Nat
    BY <2>3, FrameIsThere
  <2>5. node \in DOMAIN nodes /\ node \in IncludesOf(Caller.node) /\ i \in Nat
    BY <2>4 DEF Inv, TreeInv, IncludesOf
  <2>6. /\ a \in Frames /\ a.node = Caller.node /\ a.parent = Caller.parent
        /\ b \in Frames /\ b.node = node /\ b.parent = Caller.node
    BY <2>3, <2>4, <2>5 DEF Frame
  <2>7. stack' = Pushed(stack, a, b)
    BY <2>1
  <2> HIDE DEF Frames, a, b
  <2>8. /\ Len(stack') = n + 1
        /\ \A k \in 1..(n - 1) : stack'[k] = stack[k]
        /\ stack'[n] = a /\ stack'[n + 1] = b
    <3> DEFINE t == Pushed(stack, a, b)
    <3>1. /\ Len(t) = n + 1
          /\ \A k \in 1..(n - 1) : t[k] = stack[k]
          /\ t[n] = a /\ t[n + 1] = b
      BY <2>3, <2>6, CallIsPushed
    <3> QED
      BY <2>7, <3>1
  <2>9. ~InProgram /\ ~InProgram' /\ cursor'.stage = "headers"
    BY <2>1, <2>2 DEF InProgram, Mode, Globals, AtHeaders, At
  <2>10. \A m : IncludesOf(m)' = IncludesOf(m)
    BY <2>2 DEF IncludesOf
  <2>11. FramesInv'
    <3>1. \A k \in 1..n : stack'[k].node = stack[k].node /\ stack'[k].parent = stack[k].parent
      <4>1. \A k \in 1..n : k = n \/ k \in 1..(n - 1)
        BY <2>3
      <4> HIDE DEF n
      <4> QED
        BY <2>3, <2>6, <2>8, <4>1
    <3>2. ASSUME NEW k \in 1..Len(stack')
          PROVE  IF k = 1 THEN stack'[k].node = Root /\ stack'[k].parent = NoNode
                 ELSE /\ stack'[k].parent = stack'[k - 1].node
                      /\ stack'[k].node \in IncludesOf(stack[k - 1].node)'
      <4>1. CASE k = 1
        <5>1. 1 \in 1..n
          BY <2>3
        <5>2. stack[1].node = Root /\ stack[1].parent = NoNode
          BY <5>1 DEF MeaningInv, FramesInv
        <5> QED
          BY <3>1, <4>1, <5>1, <5>2
      <4>2. CASE k # 1 /\ k # n + 1
        <5>1. k \in 1..n /\ k - 1 \in 1..n
          BY <2>3, <2>8, <4>2
        <5>2. PICK above : above = stack[k - 1].node
          OBVIOUS
        <5>3. stack[k].parent = above /\ stack[k].node \in IncludesOf(above)
          BY <4>2, <5>1, <5>2 DEF MeaningInv, FramesInv
        <5>4. /\ stack'[k].parent = above /\ stack'[k - 1].node = above
              /\ stack'[k].node \in IncludesOf(above)'
          BY <2>10, <3>1, <5>1, <5>2, <5>3
        <5> QED
          BY <4>2, <5>4
      <4>3. CASE k = n + 1
        <5>1. PICK above : above = Caller.node
          OBVIOUS
        <5>2. k # 1 /\ k - 1 = n
          BY <2>3, <4>3
        <5>3. /\ stack'[k].parent = above /\ stack'[k - 1].node = above
              /\ stack'[k].node \in IncludesOf(above)'
          BY <2>5, <2>6, <2>8, <2>10, <4>3, <5>1, <5>2
        <5> QED
          BY <5>2, <5>3
      <4> QED
        BY <4>1, <4>2, <4>3
    <3> QED
      BY <2>9, <3>2 DEF FramesInv
  <2>12. ScopesInv' /\ DefsInv'
    BY <2>2, <2>9, TreeStays, DefsStay DEF MeaningInv
  <2>13. TypesInv'
    BY <2>9 DEF TypesInv
  <2> QED
    BY <2>11, <2>12, <2>13 DEF MeaningInv
<1> QED
  BY <1>1, <1>2

(* The compiler starts without names.                                      *)
LEMMA InitEstablishesMeaning ==
  ASSUME Init
  PROVE  MeaningInv
<1>1. /\ status = "parsing"
      /\ globals = Globals("INCLUDES", Directory(input.root), Root, NoNode, "")
      /\ stack = <<Frame(Root, NoNode, 0)>>
      /\ nodes = [n \in {Root} |-> NewNode(input.root)]
      /\ scopes = [n \in {Root} |-> NewScope]
      /\ decls = {}
  BY DEF Init, ParserInit
<1>2. ~InProgram /\ ~Parsed
  BY <1>1 DEF InProgram, Mode, Globals, Parsed
<1>3. ScopesInv
  BY <1>1 DEF ScopesInv, NewScope, EmptyMap
<1>4. FramesInv
  <2>1. Len(stack) = 1 /\ stack[1].node = Root /\ stack[1].parent = NoNode
    BY <1>1 DEF Frame
  <2>2. \A k \in 1..Len(stack) : k = 1
    BY <2>1
  <2> QED
    BY <1>2, <2>1, <2>2 DEF FramesInv
<1>5. TypesInv /\ DefsInv
  BY <1>1, <1>2 DEF TypesInv, DefsInv
<1> QED
  BY <1>3, <1>4, <1>5 DEF MeaningInv

(* What the Go generator does to a service changes no type.                *)
LEMMA OptionalThrowsTyped ==
  ASSUME NEW d, NEW o, o = OptionalThrows(d)
  PROVE  /\ o.kind = d.kind /\ o.name = d.name /\ o.node = d.node
         /\ \A def : DefTyped(d, def) => DefTyped(o, def)
<1>1. CASE d.kind # "service"
  BY <1>1 DEF OptionalThrows
<1>2. CASE d.kind = "service"
  <2> DEFINE optional(l) == [i \in DOMAIN d.lists[l] |-> WithReq(d.lists[l][i], "optional")]
  <2>1. /\ o.kind = d.kind /\ o.name = d.name /\ o.node = d.node /\ o.type = d.type
        /\ o.lists = [l \in DOMAIN d.lists |-> IF l = 2 THEN optional(l) ELSE d.lists[l]]
    BY <1>2 DEF OptionalThrows, Declaration
  <2>2. ASSUME NEW l, NEW fields, NEW n, TypedAs(d.lists[l], fields, n)
        PROVE  TypedAs(optional(l), fields, n)
    <3>1. /\ DOMAIN optional(l) = DOMAIN d.lists[l]
          /\ \A i \in DOMAIN d.lists[l] : /\ optional(l)[i].name = d.lists[l][i].name
                                          /\ optional(l)[i].type = d.lists[l][i].type
      BY DEF WithReq, Field
    <3> QED
      BY <2>2, <3>1 DEF TypedAs
  <2> HIDE DEF optional
  <2>3. ASSUME NEW def, DefTyped(d, def)
        PROVE  DefTyped(o, def)
    BY <2>1, <2>2, <2>3 DEF DefTyped
  <2> QED
    BY <2>1, <2>3
<1> QED
  BY <1>1, <1>2

(* A generator leaves the names and the types.                             *)
LEMMA GeneratedKeepsMeaning ==
  ASSUME Inv, MeaningInv, status = "generating", NEW target, NEW node,
         decls' = LeftBy(target, node),
         UNCHANGED <<input, status, globals, stack, readerVars, nodes, scopes>>
  PROVE  MeaningInv'
<1>1. UNCHANGED <<input, status, globals, stack, cursor, members, lists, nodes, scopes>>
  BY DEF readerVars
<1>2. UNCHANGED <<InProgram, Program, Caller>> /\ ~InProgram
  BY <1>1 DEF InProgram, Mode, Program, Caller, Last1, MeaningInv, FramesInv, Parsed
<1>3. ASSUME NEW e \in decls'
      PROVE  \E d \in decls : /\ e.kind = d.kind /\ e.name = d.name /\ e.node = d.node
                              /\ \A def : DefTyped(d, def) => DefTyped(e, def)
  <2>1. e \in decls \/ \E d \in decls : e = OptionalThrows(d)
    BY DEF LeftBy, DeclsOf
  <2> QED
    BY <2>1, OptionalThrowsTyped
<1>4. ASSUME NEW d \in decls
      PROVE  \E e \in decls' : e.kind = d.kind /\ e.name = d.name /\ e.node = d.node
  <2>1. d \in decls' \/ OptionalThrows(d) \in decls'
    BY DEF LeftBy, DeclsOf
  <2> QED
    BY <2>1, OptionalThrowsTyped
<1>5. Grown
  BY <1>1, <1>4 DEF Grown, IsType
<1>6. ScopesInv'
  <2>1. /\ \A d, n, name : Visible(d, n, name)' <=> Visible(d, n, name)
        /\ \A n : IncludesOf(n)' = IncludesOf(n) /\ ProgramName(n)' = ProgramName(n)
    BY <1>1 DEF Visible, IncludesOf, ProgramName
  <2>2. ASSUME NEW n \in DOMAIN nodes, NEW name \in DOMAIN scopes[n].types
        PROVE  \E e \in decls' : /\ IsType(e) /\ Visible(e, n, name)
                                 /\ scopes[n].types[name] = DefinedType(e)
    <3>1. PICK d \in decls : /\ IsType(d) /\ Visible(d, n, name)
                             /\ scopes[n].types[name] = DefinedType(d)
      BY DEF MeaningInv, ScopesInv
    <3>2. PICK e \in decls' : e.kind = d.kind /\ e.name = d.name /\ e.node = d.node
      BY <1>4
    <3> QED
      BY <3>1, <3>2 DEF IsType, Visible, DefinedType
  <2>3. ASSUME NEW n \in DOMAIN nodes, NEW e \in decls', IsType(e)
        PROVE  /\ e.node = n => <<e.name>> \in DOMAIN scopes[n].types
               /\ e.node \in IncludesOf(n) =>
                    <<ProgramName(e.node), e.name>> \in DOMAIN scopes[n].types
    <3>1. PICK d \in decls : e.kind = d.kind /\ e.name = d.name /\ e.node = d.node
      BY <1>3
    <3> QED
      BY <2>3, <3>1 DEF IsType, MeaningInv, ScopesInv
  <2> QED
    BY <1>1, <2>1, <2>2, <2>3 DEF ScopesInv
<1>7. FramesInv'
  BY <1>1, <1>2 DEF MeaningInv, FramesInv, Parsed, IncludesOf, ProgramName
<1>8. TypesInv'
  BY <1>2 DEF TypesInv
<1>9. DefsInv'
  <2>1. \A n : DefsOf(n)' = DefsOf(n)
    BY <1>1 DEF DefsOf
  <2>2. ASSUME NEW e \in decls'
        PROVE  /\ \E k \in 1..Len(DefsOf(e.node)) : Matches(e, DefsOf(e.node)[k])
               /\ \A k \in 1..Len(DefsOf(e.node)) :
                    Matches(e, DefsOf(e.node)[k]) => DefTyped(e, DefsOf(e.node)[k])'
    <3>1. PICK d \in decls : /\ e.kind = d.kind /\ e.name = d.name /\ e.node = d.node
                             /\ \A def : DefTyped(d, def) => DefTyped(e, def)
      BY <1>3
    <3>2. /\ \E k \in 1..Len(DefsOf(d.node)) : Matches(d, DefsOf(d.node)[k])
          /\ \A k \in 1..Len(DefsOf(d.node)) :
               Matches(d, DefsOf(d.node)[k]) => DefTyped(d, DefsOf(d.node)[k])
      BY <1>2 DEF MeaningInv, DefsInv
    <3>3. \A def : DefTyped(e, def) => DefTyped(e, def)'
      <4>1. e.node \in DOMAIN nodes
        BY <3>1 DEF Inv, TreeInv
      <4> QED
        BY <1>5, <4>1, DefStaysTyped
    <3>4. \A def : Matches(e, def) <=> Matches(d, def)
      BY <3>1 DEF Matches
    <3>5. \A k : DefsOf(e.node)'[k] = DefsOf(d.node)[k]
      BY <2>1, <3>1
    <3> QED
      BY <3>1, <3>2, <3>3, <3>4, <3>5
  <2> QED
    BY <1>2, <2>1, <2>2 DEF DefsInv
<1> QED
  BY <1>6, <1>7, <1>8, <1>9 DEF MeaningInv

(* Every step keeps what the names mean.                                   *)
LEMMA NextKeepsMeaning ==
  ASSUME Inv, SourceInv, MeaningInv, [Next]_vars
  PROVE  MeaningInv'
<1>1. CASE Parse
  <2>1. ParserNext /\ UNCHANGED generateVars
    BY <1>1 DEF Parse
  <2> QED
    BY <2>1, ReadHeadersKeepsMeaning, StartDefinitionKeepsMeaning, ReadFieldKeepsMeaning,
       EndFieldListKeepsMeaning, SkipDefinitionKeepsMeaning, DefineTypeKeepsMeaning,
       DefineEnumKeepsMeaning, DefineConstKeepsMeaning, DefineServiceKeepsMeaning,
       EndOfFileKeepsMeaning, ParseIncludeKeepsMeaning, ProgramPassKeepsMeaning
       DEF ParserNext
<1>2. CASE StartGenerating \/ GenerateInclude \/ GenerateUnknown \/ EndGenerate \/ UNCHANGED vars
  <2>1. /\ UNCHANGED <<input, globals, stack, readerVars, treeVars>>
        /\ status = "generating" \/ UNCHANGED status
    BY <1>2 DEF StartGenerating, GenerateInclude, GenerateUnknown, Turn, EndGenerate,
                parserVars, vars
  <2> QED
    BY <2>1, StandstillKeepsMeaning DEF Parsed
<1>3. CASE Generate
  <2>1. CASE \E how \in {"failed", "crashed", "hung", "overflow"} : Stop(how)
    BY <2>1, StopKeepsMeaning
  <2>2. CASE UNCHANGED parserVars
    BY <2>2, StandstillKeepsMeaning DEF Parsed, parserVars
  <2>3. CASE \E target \in KnownTargets :
               /\ Turn(target) /\ decls' = LeftBy(target, Current.node)
               /\ UNCHANGED <<input, status, globals, stack, readerVars, nodes, scopes>>
    BY <2>3, GeneratedKeepsMeaning DEF Turn
  <2> QED
    BY <1>3, <2>1, <2>2, <2>3 DEF Generate
<1> QED
  BY <1>1, <1>2, <1>3 DEF Next

(* The invariant of names: a scope has the types that are visible in its   *)
(* program, and every type that was taken for a name is one of these or    *)
(* stands for the name.                                                    *)
THEOREM MeaningInvIsInvariant == Spec => []MeaningInv
<1>1. Init => MeaningInv
  BY InitEstablishesMeaning
<1>2. Inv /\ SourceInv /\ MeaningInv /\ [Next]_vars => MeaningInv'
  BY NextKeepsMeaning
<1> QED
  BY <1>1, <1>2, InvIsInvariant, SourceInvIsInvariant, PTL DEF Spec

(* A right type leads to what its name means.                              *)
LEMMA FoundIsMeant ==
  ASSUME ScopesInv, NEW n \in DOMAIN nodes, NEW type, NEW name, RightType(type, n, name)
  PROVE  Found(type) \in Meaning(n, name)
<1> DEFINE types == {d \in decls : IsType(d) /\ Visible(d, n, name)}
<1>1. /\ name = <<"i32">> => Meaning(n, name) = {I32}
      /\ name # <<"i32">> =>
           Meaning(n, name) = IF types = {} THEN {NoType} ELSE {DefinedType(d) : d \in types}
  BY DEF Meaning, IsType, DefinedType
<1>2. CASE name = <<"i32">>
  BY <1>1, <1>2 DEF RightType, Found, I32, Type
<1>3. CASE name # <<"i32">> /\ type = Type("forward", n, name)
  <2>1. type.kind = "forward" /\ type.node = n /\ type.name = name
    BY <1>3 DEF Type
  <2>2. Found(type) = IF name \in DOMAIN scopes[n].types THEN scopes[n].types[name] ELSE NoType
    BY <2>1 DEF Found, TypedefTarget, IsTypedef
  <2>3. CASE name \in DOMAIN scopes[n].types
    <3>1. PICK d \in types : scopes[n].types[name] = DefinedType(d)
      BY <2>3 DEF ScopesInv
    <3> QED
      BY <1>1, <1>3, <2>2, <2>3, <3>1
  <2>4. CASE name \notin DOMAIN scopes[n].types
    <3>1. ASSUME NEW d \in decls, IsType(d), Visible(d, n, name)
          PROVE  FALSE
      BY <2>4, <3>1 DEF ScopesInv, Visible
    <3>2. types = {}
      BY <3>1
    <3> QED
      BY <1>1, <1>3, <2>2, <2>4, <3>2
  <2> QED
    BY <2>3, <2>4
<1>4. ASSUME NEW d \in types, name # <<"i32">>, type = DefinedType(d)
      PROVE  Found(type) \in Meaning(n, name)
  <2>1. type.kind = "defined"
    BY <1>4 DEF DefinedType, Type
  <2> QED
    BY <1>1, <1>4, <2>1 DEF Found
<1> QED
  BY <1>2, <1>3, <1>4 DEF RightType

(* When everything is parsed, every name of a type stands for what is      *)
(* visible under it in its file, or for nothing: for any files, however    *)
(* they include one another.                                               *)
THEOREM ReferencesAlwaysMeant == Spec => []ReferencesMeanTheirDefinition
<1>1. Inv /\ MeaningInv => ReferencesMeanTheirDefinition
  <2> SUFFICES ASSUME Inv, MeaningInv, Parsed, NEW d \in decls,
                      NEW source, source = SourceOf(d)
               PROVE  /\ source.type # <<>> => Found(d.type) \in Meaning(d.node, source.type)
                      /\ \A l \in DOMAIN d.lists : \A i \in DOMAIN d.lists[l] :
                           \E j \in 1..Len(source.lists[l]) :
                             /\ source.lists[l][j].name = d.lists[l][i].name
                             /\ Found(d.lists[l][i].type)
                                  \in Meaning(d.node, source.lists[l][j].type)
    BY DEF ReferencesMeanTheirDefinition
  <2>1. PICK n \in DOMAIN nodes : n = d.node
    BY DEF Inv, TreeInv
  <2>2. DefTyped(d, source)
    <3> DEFINE same == {k \in 1..Len(DefsOf(n)) : Matches(d, DefsOf(n)[k])}
    <3>1. /\ same # {}
          /\ \A k \in same : DefTyped(d, DefsOf(n)[k])
      BY <2>1 DEF MeaningInv, DefsInv, FramesInv
    <3>2. source = DefsOf(n)[CHOOSE k \in 1..Len(DefsOf(n)) :
                               /\ DefsOf(n)[k].kind = d.kind
                               /\ DefsOf(n)[k].name = d.name]
      BY <2>1 DEF SourceOf, DefsOf
    <3>3. \E k \in same : source = DefsOf(n)[k]
      <4>1. \E k \in 1..Len(DefsOf(n)) : DefsOf(n)[k].kind = d.kind /\ DefsOf(n)[k].name = d.name
        BY <3>1 DEF Matches
      <4> QED
        BY <3>2, <4>1 DEF Matches
    <3> QED
      BY <3>1, <3>3
  <2>3. \A type, name : RightType(type, n, name) => Found(type) \in Meaning(n, name)
    BY FoundIsMeant DEF MeaningInv
  <2> QED
    BY <2>1, <2>2, <2>3 DEF DefTyped, TypedAs
<1> QED
  BY <1>1, InvIsInvariant, MeaningInvIsInvariant, PTL

-----------------------------------------------------------------------------
(* What constants mean.                                                    *)

(* The number that a name stands for in program n: that of an enumerator,  *)
(* or of a constant.                                                       *)
EnumeratorNamed(number, n, name) ==
  /\ Len(name) > 1
  /\ \E e \in decls :
       /\ e.kind = "enum" /\ Visible(e, n, SubSeq(name, 1, Len(name) - 1))
       /\ \E i \in DOMAIN e.values :
            e.values[i].name = Last1(name) /\ number = Number(e.values[i].num)
ConstantNamed(d, n, name) == d.kind = "const" /\ Visible(d, n, name)
Bindable(value, n, name) ==
  \/ EnumeratorNamed(value, n, name)
  \/ \E d \in decls : ConstantNamed(d, n, name) /\ value = d.value

(* The value of a constant, as it was written and as it is kept.           *)
OfEnum(value, type) ==
  \E e \in decls : e.kind = "enum" /\ type = DefinedType(e) /\ value.enum = type
NumberKept(d, value) ==
  \/ d.value = value
  \/ /\ OfEnum(d.value, d.type) /\ d.value.kind = "id"
     /\ \E e \in decls : \E i \in DOMAIN e.values :
          /\ e.kind = "enum" /\ d.type = DefinedType(e)
          /\ e.values[i].name = Last1(d.value.name) /\ value = Number(e.values[i].num)
NameKept(d, name) ==
  \/ d.value = Identifier(name, NoType)
  \/ /\ OfEnum(d.value, d.type) /\ d.value = Identifier(name, d.type)
     /\ Len(name) > 1
     /\ \E e \in decls : \E i \in DOMAIN e.values :
          /\ e.kind = "enum" /\ d.type = DefinedType(e) /\ e.values[i].name = Last1(name)
  \/ /\ d.value.kind = "int"
     /\ \/ EnumeratorNamed(d.value, d.node, name)
        \/ \E c \in decls : ConstantNamed(c, d.node, name) /\ d.value = GetInteger(c.value)
ValueKept(d, value) ==
  IF value.kind = "int" THEN NumberKept(d, value) ELSE NameKept(d, value.name)

(* Types and services are told apart by their names, enumerators too.      *)
ApartInv ==
  /\ \A d, e \in decls :
       d.kind # "const" /\ e.kind # "const" /\ d.node = e.node /\ d.name = e.name => d = e
  /\ \A e \in decls : e.kind = "enum" =>
       /\ Len(e.values) \in Nat /\ DOMAIN e.values = 1..Len(e.values)
       /\ \A i, j \in DOMAIN e.values : e.values[i].name = e.values[j].name => i = j

(* The constants of a scope are those that are visible in its program.     *)
ConstsInv ==
  \A n \in DOMAIN nodes : \A name \in DOMAIN scopes[n].consts :
    \E value \in {scopes[n].consts[name].value} : Bindable(value, n, name)

(* A constant has the value that was written, once its definition is read. *)
Read(d, k) ==
  /\ Matches(d, DefsOf(d.node)[k])
  /\ InProgram /\ d.node = Program => k < cursor.def
ValueRight(d) ==
  /\ d.value.kind \in {"int", "id"}
  /\ d.value.kind = "id" => d.value.enum = NoType \/ OfEnum(d.value, d.type)
  /\ \A k \in 1..Len(DefsOf(d.node)) : Read(d, k) => ValueKept(d, DefsOf(d.node)[k].value)
ValuesInv == \A d \in decls : d.kind = "const" => ValueRight(d)

ConstantInv == ApartInv /\ ConstsInv /\ ValuesInv

-----------------------------------------------------------------------------
(* The definition behind a type is the one that it was made of.            *)
LEMMA DeclOfDefined ==
  ASSUME ApartInv, NEW e \in decls, e.kind # "const"
  PROVE  DeclOf(DefinedType(e)) = e
<1> DEFINE type == DefinedType(e)
           is(d) == d.kind # "const" /\ d.node = type.node /\ <<d.name>> = type.name
<1>1. type.node = e.node /\ type.name = <<e.name>>
  BY DEF DefinedType, Type
<1>2. is(e)
  BY <1>1
<1>3. \A d \in decls : is(d) => d = e
  <2>1. \A d \in decls : is(d) => d.name = e.name
    BY <1>1
  <2> QED
    BY <1>1, <2>1 DEF ApartInv
<1>4. DeclOf(type) = CHOOSE d \in decls : is(d)
  BY DEF DeclOf
<1> HIDE DEF is
<1> QED
  BY <1>2, <1>3, <1>4

(* A step that keeps enums and constants keeps what they are worth.        *)
Keeps == \A e \in decls : e.kind \in {"enum", "const"} => e \in decls'

(* A value that names an enumerator of an enum has its number.             *)
LEMMA EnumNumber ==
  ASSUME ApartInv, NEW e \in decls, e.kind = "enum", NEW i \in DOMAIN e.values,
         NEW value, value.kind = "id", value.enum = DefinedType(e),
         e.values[i].name = Last1(value.name)
  PROVE  GetInteger(value) = Number(e.values[i].num)
<1>1. DeclOf(value.enum) = e
  BY DeclOfDefined
<1>2. value.enum # NoType
  BY DEF NoType, DefinedType, Type
<1> DEFINE name == Last1(value.name)
           same == {j \in 1..Len(e.values) : e.values[j].name = name}
<1>3. /\ i \in 1..Len(e.values) /\ Len(e.values) \in Nat
      /\ \A j \in 1..Len(e.values) : e.values[j].name = e.values[i].name => j = i
  BY DEF ApartInv
<1>4. same = {i}
  BY <1>3
<1>5. (CHOOSE j \in same : \A k \in same : j <= k) = i
  <2> HIDE DEF same
  <2>1. i <= i
    BY <1>3
  <2> QED
    BY <1>4, <2>1
<1>6. ByName(value.enum, name) = e.values[i]
  BY <1>1, <1>5 DEF ByName
<1> HIDE DEF name
<1>7. GetInteger(value) = Number(ByName(value.enum, Last1(value.name)).num)
  BY <1>2 DEF GetInteger
<1> QED
  BY <1>6, <1>7 DEF name

(* And so has it when the tree has grown.                                  *)
LEMMA IntegerStays ==
  ASSUME ApartInv, ApartInv', Keeps, NEW value, NEW type,
         value.kind = "id" => value.enum = NoType \/ OfEnum(value, type)
  PROVE  GetInteger(value)' = GetInteger(value)
<1>1. CASE value.kind # "id" \/ value.enum = NoType
  BY <1>1 DEF GetInteger
<1>2. ASSUME NEW e \in decls, value.kind = "id", e.kind = "enum", value.enum = DefinedType(e)
      PROVE  GetInteger(value)' = GetInteger(value)
  <2>1. e \in decls' /\ e.kind # "const"
    BY <1>2 DEF Keeps
  <2>2. PICK t : t = DefinedType(e)
    OBVIOUS
  <2>3. DeclOf(t) = e /\ t.node = e.node /\ t.name = <<e.name>> /\ value.enum = t
    BY <1>2, <2>1, <2>2, DeclOfDefined DEF DefinedType, Type
  <2>4. DeclOf(t)' = e
    <3> DEFINE is(d) == d.kind # "const" /\ d.node = t.node /\ <<d.name>> = t.name
    <3>1. is(e)
      BY <2>1, <2>3
    <3>2. \A d \in decls' : is(d) => d = e
      <4>1. \A d \in decls' : is(d) => d.name = e.name
        BY <2>3
      <4> QED
        BY <2>1, <2>3, <4>1 DEF ApartInv
    <3>3. DeclOf(t)' = CHOOSE d \in decls' : is(d)
      BY DEF DeclOf
    <3> HIDE DEF is
    <3> QED
      BY <2>1, <3>1, <3>2, <3>3
  <2>5. DeclOf(t) = e /\ DeclOf(t)' = e /\ value.enum = t
    BY <2>3, <2>4
  <2>6. ByName(t, Last1(value.name))' = ByName(t, Last1(value.name))
    BY <2>5 DEF ByName
  <2> QED
    BY <2>5, <2>6 DEF GetInteger
<1> QED
  BY <1>1, <1>2 DEF OfEnum

(* What is visible stays so in a tree that grows.                          *)
LEMMA VisibleStays ==
  ASSUME Inv, Grown, NEW d \in decls, NEW n \in DOMAIN nodes, NEW name, Visible(d, n, name)
  PROVE  Visible(d, n, name)'
<1>1. d.node \in DOMAIN nodes
  BY DEF Inv, TreeInv
<1>2. ProgramName(d.node)' = ProgramName(d.node) /\ IncludesOf(n) \subseteq IncludesOf(n)'
  BY <1>1 DEF Grown, ProgramName, IncludesOf
<1> QED
  BY <1>1, <1>2 DEF Visible

(* And so does what is bound under a name.                                 *)
LEMMA BindableStays ==
  ASSUME Inv, Grown, Keeps, NEW n \in DOMAIN nodes, NEW name, NEW value
  PROVE  /\ EnumeratorNamed(value, n, name) => EnumeratorNamed(value, n, name)'
         /\ Bindable(value, n, name) => Bindable(value, n, name)'
<1>1. ASSUME EnumeratorNamed(value, n, name)
      PROVE  EnumeratorNamed(value, n, name)'
  <2>1. PICK short : short = SubSeq(name, 1, Len(name) - 1)
    OBVIOUS
  <2>2. PICK e \in decls :
          /\ e.kind = "enum" /\ Visible(e, n, short)
          /\ \E i \in DOMAIN e.values :
               e.values[i].name = Last1(name) /\ value = Number(e.values[i].num)
    BY <1>1, <2>1 DEF EnumeratorNamed
  <2>3. e \in decls' /\ Visible(e, n, short)'
    BY <2>2, VisibleStays DEF Keeps
  <2> QED
    BY <1>1, <2>1, <2>2, <2>3 DEF EnumeratorNamed
<1>2. ASSUME NEW d \in decls, ConstantNamed(d, n, name)
      PROVE  d \in decls' /\ ConstantNamed(d, n, name)'
  BY <1>2, VisibleStays DEF Keeps, ConstantNamed
<1> QED
  BY <1>1, <1>2 DEF Bindable

(* A value stays what it was written as.                                   *)
LEMMA ValueStaysKept ==
  ASSUME Inv, Grown, Keeps, ApartInv, ApartInv', ValuesInv,
         NEW d, d.node \in DOMAIN nodes, NEW value, ValueKept(d, value)
  PROVE  ValueKept(d, value)'
<1>1. d.node \in DOMAIN nodes
  OBVIOUS
<1>2. \A v, t : OfEnum(v, t) => OfEnum(v, t)'
  BY DEF OfEnum, Keeps
<1>3. NumberKept(d, value) => NumberKept(d, value)'
  BY <1>2 DEF NumberKept, Keeps
<1>4. ASSUME NEW name, NameKept(d, name)
      PROVE  NameKept(d, name)'
  <2>1. CASE d.value = Identifier(name, NoType)
    BY <2>1 DEF NameKept
  <2>2. CASE /\ OfEnum(d.value, d.type) /\ d.value = Identifier(name, d.type)
             /\ Len(name) > 1
             /\ \E e \in decls : \E i \in DOMAIN e.values :
                  /\ e.kind = "enum" /\ d.type = DefinedType(e)
                  /\ e.values[i].name = Last1(name)
    BY <1>2, <2>2 DEF NameKept, Keeps
  <2>3. CASE d.value.kind = "int" /\ EnumeratorNamed(d.value, d.node, name)
    <3>1. PICK n \in DOMAIN nodes : n = d.node
      BY <1>1
    <3>2. EnumeratorNamed(d.value, n, name)'
      BY <2>3, <3>1, BindableStays
    <3> QED
      BY <2>3, <3>1, <3>2 DEF NameKept
  <2>4. ASSUME NEW c \in decls, d.value.kind = "int", ConstantNamed(c, d.node, name),
               d.value = GetInteger(c.value)
        PROVE  NameKept(d, name)'
    <3>1. PICK n \in DOMAIN nodes : n = d.node
      BY <1>1
    <3>2. c.kind = "const" /\ Visible(c, n, name)
      BY <2>4, <3>1 DEF ConstantNamed
    <3>3. c \in decls' /\ Visible(c, n, name)'
      BY <3>2, VisibleStays DEF Keeps
    <3>4. GetInteger(c.value)' = GetInteger(c.value)
      BY <3>2, IntegerStays DEF ValuesInv, ValueRight
    <3> QED
      BY <2>4, <3>1, <3>2, <3>3, <3>4 DEF NameKept, ConstantNamed
  <2> QED
    BY <1>4, <2>1, <2>2, <2>3, <2>4 DEF NameKept
<1> QED
  BY <1>3, <1>4 DEF ValueKept

-----------------------------------------------------------------------------
(* The smallest number of a set.                                           *)
LEMMA Smallest ==
  ASSUME NEW T, T \subseteq Nat, T # {}
  PROVE  (CHOOSE m \in T : \A k \in T : m <= k) \in T
<1> DEFINE less == OpToRel(<, Nat)
<1>1. \A m, k \in Nat : <<k, m>> \in less <=> k < m
  BY DEF OpToRel
<1>2. IsWellFoundedOn(less, Nat)
  BY NatLessThanWellFounded
<1> HIDE DEF less
<1>3. PICK m \in T : \A k \in T : <<k, m>> \notin less
  BY <1>2, WFMin
<1>4. ASSUME NEW k \in T
      PROVE  m <= k
  <2>1. k \in Nat /\ m \in Nat
    OBVIOUS
  <2>2. ~(k < m)
    BY <1>1, <1>3, <2>1, Zenon
  <2> QED
    BY <2>1, <2>2
<1> QED
  BY <1>4

(* The names of the first n enumerators.                                   *)
Qualified(enum, values, n) == {<<enum, values[i].name>> : i \in 1..n}
(* As many names as enumerators: no two are the same.                      *)
LEMMA AsManyNames ==
  ASSUME NEW n \in Nat, NEW values, NEW enum,
         ~(Cardinality(Qualified(enum, values, n)) < n)
  PROVE  \A i, j \in 1..n : values[i].name = values[j].name => i = j
<1> DEFINE names == {<<enum, values[i].name>> : i \in 1..n}
           f == [i \in 1..n |-> <<enum, values[i].name>>]
<1>1. f \in Surjection(1..n, names)
  BY DEF Surjection
<1>2. IsFiniteSet(1..n) /\ Cardinality(1..n) = n
  <2>1. IsFiniteSet(1..n) /\ Cardinality(1..n) = IF 1 > n THEN 0 ELSE n - 1 + 1
    BY FS_Interval
  <2> QED
    BY <2>1
<1>3. IsFiniteSet(names) /\ Cardinality(names) <= n /\ Cardinality(names) \in Nat
  <2> HIDE DEF f, names
  <2> QED
    BY <1>1, <1>2, FS_Surjection, FS_CardinalityType
<1>4. Cardinality(names) = n
  BY <1>3 DEF Qualified
<1>5. f \in Injection(1..n, names)
  <2> HIDE DEF f, names
  <2> QED
    BY <1>1, <1>2, <1>4, FS_Surjection
<1>6. \A i, j \in 1..n : f[i] = f[j] => i = j
  BY <1>5 DEF Injection, IsInjective
<1> QED
  BY <1>6

(* A step that is as far in the file, or past its end, reads no constant.  *)
LEMMA NoneIsRead ==
  ASSUME Inv, \A n \in DOMAIN nodes : DefsOf(n)' = DefsOf(n),
         InProgram => \/ InProgram' /\ Program' = Program /\ cursor'.def = cursor.def
                      \/ \A k \in 1..Len(DefsOf(Program)) : k < cursor.def,
         NEW d \in decls, NEW k \in 1..Len(DefsOf(d.node)), Read(d, k)'
  PROVE  Read(d, k)
<1>1. PICK n \in DOMAIN nodes : n = d.node
  BY DEF Inv, TreeInv
<1>2. DefsOf(n)' = DefsOf(n)
  BY <1>1
<1>3. Matches(d, DefsOf(n)[k]) /\ (InProgram' /\ n = Program' => k < cursor'.def)
  BY <1>1, <1>2 DEF Read
<1>4. k \in 1..Len(DefsOf(n))
  BY <1>1
<1> QED
  BY <1>1, <1>3, <1>4 DEF Read

(* A constant keeps its value in a tree that grows.                        *)
LEMMA ValueStaysRight ==
  ASSUME Inv, ConstantInv, Grown, Keeps, ApartInv', UNCHANGED input,
         NEW d \in decls, d.kind = "const",
         \A k \in 1..Len(DefsOf(d.node)) : Read(d, k)' => Read(d, k)
  PROVE  ValueRight(d)'
<1>1. PICK n \in DOMAIN nodes : n = d.node
  BY DEF Inv, TreeInv
<1>2. PICK defs : defs = DefsOf(n) /\ defs = DefsOf(n)'
  BY DEF DefsOf, Grown
<1>3. ValueRight(d) /\ ApartInv /\ ValuesInv
  BY DEF ConstantInv, ValuesInv
<1>4. \A value : ValueKept(d, value) => ValueKept(d, value)'
  BY <1>1, <1>3, ValueStaysKept
<1>5. \A v, t : OfEnum(v, t) => OfEnum(v, t)'
  BY DEF OfEnum, Keeps
<1>6. \A k \in 1..Len(defs) : Read(d, k)' => ValueKept(d, defs[k].value)'
  BY <1>1, <1>2, <1>3, <1>4 DEF ValueRight
<1> QED
  BY <1>1, <1>2, <1>3, <1>5, <1>6 DEF ValueRight

(* A step keeps the tables of constants, or empties one.                   *)
ConstsAreLeft(after) ==
  \A n \in DOMAIN nodes' :
    \/ n \in DOMAIN nodes /\ after[n].consts = scopes[n].consts
    \/ DOMAIN after[n].consts = {}
(* A step that binds and reads no constant.                                *)
LEMMA ConstantsStay ==
  ASSUME Inv, ConstantInv, Grown, Keeps, ApartInv', UNCHANGED input,
         \A d \in decls' : d.kind = "const" => d \in decls,
         ConstsAreLeft(scopes'),
         \A d \in decls : d.kind = "const" =>
           \A k \in 1..Len(DefsOf(d.node)) : Read(d, k)' => Read(d, k)
  PROVE  ConstantInv'
<1>1. ValuesInv'
  BY ValueStaysRight DEF ValuesInv
<1>2. ASSUME NEW n \in DOMAIN nodes', NEW name \in DOMAIN scopes'[n].consts
      PROVE  \E value \in {scopes'[n].consts[name].value} : Bindable(value, n, name)'
  <2>1. n \in DOMAIN nodes /\ scopes'[n].consts = scopes[n].consts
    BY <1>2 DEF ConstsAreLeft
  <2>2. PICK value : value = scopes[n].consts[name].value
    OBVIOUS
  <2>3. Bindable(value, n, name)
    BY <1>2, <2>1, <2>2 DEF ConstantInv, ConstsInv
  <2>4. Bindable(value, n, name)'
    BY <2>1, <2>3, BindableStays
  <2>5. scopes'[n].consts[name].value = value
    BY <2>1, <2>2
  <2> QED
    BY <2>4, <2>5
<1>3. ConstsInv'
  BY <1>2 DEF ConstsInv
<1> QED
  BY <1>1, <1>3 DEF ConstantInv

(* A step that leaves the tree alone.                                      *)
LEMMA TreeAloneKeepsConstants ==
  ASSUME Inv, ConstantInv, UNCHANGED <<input, nodes, scopes, decls>>,
         InProgram => \/ InProgram' /\ Program' = Program /\ cursor'.def = cursor.def
                      \/ \A k \in 1..Len(DefsOf(Program)) : k < cursor.def
  PROVE  ConstantInv'
<1>1. Grown /\ Keeps
  BY DEF Grown, Keeps
<1>2. ApartInv'
  BY DEF ConstantInv, ApartInv
<1>3. ConstsAreLeft(scopes')
  BY DEF ConstsAreLeft
<1>4. \A n \in DOMAIN nodes : DefsOf(n)' = DefsOf(n)
  BY DEF DefsOf
<1>5. \A d \in decls : \A k \in 1..Len(DefsOf(d.node)) : Read(d, k)' => Read(d, k)
  BY <1>4, NoneIsRead
<1> QED
  BY <1>1, <1>2, <1>3, <1>5, ConstantsStay

-----------------------------------------------------------------------------
(* Reading.                                                                *)

(* The compiler stops.                                                     *)
LEMMA StopKeepsConstants ==
  ASSUME Inv, ConstantInv, \E how : Stop(how)
  PROVE  ConstantInv'
<1>1. UNCHANGED <<input, globals, cursor, nodes, scopes, decls>>
  BY DEF Stop, readerVars, treeVars
<1>2. UNCHANGED <<InProgram, Program>>
  BY <1>1 DEF InProgram, Mode, Program
<1> QED
  BY <1>1, <1>2, TreeAloneKeepsConstants

(* A step of the parser that adds no definition and no include.            *)
LEMMA ReadingKeepsConstants ==
  ASSUME Inv, SourceInv, ConstantInv,
         \/ StartDefinition \/ ReadField \/ EndFieldList \/ SkipDefinition
         \/ EndOfFile \/ ProgramPass \/ ParseInclude
  PROVE  ConstantInv'
<1>1. cursor \in [stage : Stages, def : Nat \ {0}, list : Nat \ {0}, field : Nat \ {0}]
  BY DEF Inv, CursorInv
<1>2. CASE \E how : Stop(how)
  BY <1>2, StopKeepsConstants
<1>3. CASE (StartDefinition \/ ReadField \/ EndFieldList) /\ ~\E how : Stop(how)
  <2>1. /\ UNCHANGED <<input, globals, treeVars>>
        /\ cursor.stage # "recurse"
        /\ \/ UNCHANGED cursor
           \/ cursor' = [cursor EXCEPT !.stage = "defined"]
           \/ cursor' = [cursor EXCEPT !.field = @ + 1]
           \/ \E list : cursor' = At("fields", cursor.def, list, 1)
    BY <1>3 DEF StartDefinition, ReadField, EndFieldList, OpenList
  <2>2. cursor'.def = cursor.def /\ cursor'.stage # "recurse"
    BY <1>1, <2>1 DEF At
  <2>3. InProgram => InProgram' /\ UNCHANGED Program
    BY <2>1, <2>2 DEF InProgram, Mode, Program
  <2> QED
    BY <2>1, <2>2, <2>3, TreeAloneKeepsConstants DEF treeVars
<1>4. CASE SkipDefinition \/ ProgramPass \/ ParseInclude
  <2>1. CASE SkipDefinition \/ ProgramPass
    <3>1. UNCHANGED <<input, treeVars>> /\ ~InProgram
      BY <2>1 DEF SkipDefinition, ProgramPass, InProgram
    <3> QED
      BY <3>1, TreeAloneKeepsConstants DEF treeVars
  <2>2. CASE ParseInclude /\ ~\E how : Stop(how)
    <3>1. UNCHANGED <<input, treeVars>> /\ ~InProgram
      BY <2>2 DEF ParseInclude, InProgram
    <3> QED
      BY <3>1, TreeAloneKeepsConstants DEF treeVars
  <2> QED
    BY <1>2, <1>4, <2>1, <2>2
<1>5. CASE EndOfFile
  <2>1. /\ cursor.def > Len(File.defs) /\ status = "parsing" /\ cursor.stage = "definition"
        /\ UNCHANGED <<input, treeVars>>
    BY <1>5 DEF EndOfFile
  <2>2. DefsOf(Program) = File.defs /\ Len(File.defs) \in Nat /\ cursor.def \in Nat
    BY <1>1, DefIsThere DEF DefsOf, File, SourceInv
  <2>3. \A k \in 1..Len(DefsOf(Program)) : k < cursor.def
    BY <2>1, <2>2
  <2> QED
    BY <2>1, <2>3, TreeAloneKeepsConstants DEF treeVars
<1> QED
  BY <1>2, <1>3, <1>4, <1>5

(* The scope of a new include is empty.                                    *)
LEMMA ReadHeadersKeepsConstants ==
  ASSUME Inv, SourceInv, ConstantInv, ReadHeaders, UNCHANGED generateVars
  PROVE  ConstantInv'
<1>1. /\ UNCHANGED <<input, status, globals, decls>>
      /\ status = "parsing" /\ cursor.stage = "headers"
      /\ cursor' = [cursor EXCEPT !.stage = "definition"]
  BY DEF ReadHeaders
<1>2. cursor'.stage = "definition" /\ cursor'.def = cursor.def
  BY <1>1 DEF Inv, CursorInv
<1>3. UNCHANGED Program /\ (InProgram => InProgram')
  BY <1>1, <1>2 DEF Program, Mode, InProgram
<1>4. Program \in DOMAIN nodes /\ DOMAIN scopes = DOMAIN nodes
  BY DEF Inv, ParserInv, TreeInv
<1>5. Mode = "INCLUDES" => nodes[Program].includes = {}
  BY <1>1 DEF SourceInv, ParsingInv
<1>6. \A n \in DOMAIN nodes : /\ n \in DOMAIN nodes' /\ nodes'[n].path = nodes[n].path
                              /\ nodes[n].includes \subseteq nodes'[n].includes
  BY <1>4, <1>5, HeadersAreRead DEF TreeKept, Widened
<1>7. Grown /\ Keeps
  BY <1>1, <1>6 DEF Grown, Keeps
<1>8. ApartInv'
  BY <1>1 DEF ConstantInv, ApartInv
<1>9. ConstsAreLeft(scopes')
  <2>1. CASE TreeKept
    BY <2>1 DEF TreeKept, ConstsAreLeft
  <2>2. ASSUME NEW found, Widened(found)
        PROVE  ConstsAreLeft(scopes')
    <3>1. PICK new : new = {Child(Program, i) : i \in found}
      OBVIOUS
    <3>2. /\ DOMAIN nodes' = DOMAIN nodes \cup new
          /\ \A n \in DOMAIN nodes : n \notin new
          /\ scopes' = WithScopes(new)
      BY <2>2, <3>1 DEF Widened
    <3>3. /\ \A n \in DOMAIN nodes : scopes'[n] = scopes[n]
          /\ \A n \in new : scopes'[n] = NewScope
      BY <1>4, <3>2 DEF WithScopes, Bind
    <3>4. DOMAIN NewScope.consts = {}
      BY DEF NewScope, EmptyMap
    <3> QED
      BY <3>2, <3>3, <3>4 DEF ConstsAreLeft
  <2> QED
    BY <2>1, <2>2, HeadersAreRead
<1>10. \A n \in DOMAIN nodes : DefsOf(n)' = DefsOf(n)
  BY <1>1, <1>6 DEF DefsOf
<1>11. \A d \in decls : \A k \in 1..Len(DefsOf(d.node)) : Read(d, k)' => Read(d, k)
  BY <1>2, <1>3, <1>10, NoneIsRead
<1> QED
  BY <1>1, <1>7, <1>8, <1>9, <1>11, ConstantsStay

(* The compiler starts without constants.                                  *)
LEMMA InitEstablishesConstants ==
  ASSUME Init
  PROVE  ConstantInv
<1>1. /\ nodes = [n \in {Root} |-> NewNode(input.root)]
      /\ scopes = [n \in {Root} |-> NewScope]
      /\ decls = {}
  BY DEF Init, ParserInit
<1>2. DOMAIN NewScope.consts = {}
  BY DEF NewScope, EmptyMap
<1> QED
  BY <1>1, <1>2 DEF ConstantInv, ApartInv, ConstsInv, ValuesInv

(* A generator leaves enums and constants as they are.                     *)
LEMMA GeneratedKeepsConstants ==
  ASSUME Inv, MeaningInv, ConstantInv, status = "generating", NEW target, NEW node,
         decls' = LeftBy(target, node),
         UNCHANGED <<input, status, globals, stack, readerVars, nodes, scopes>>
  PROVE  ConstantInv'
<1>1. UNCHANGED <<input, globals, cursor, nodes, scopes>>
  BY DEF readerVars
<1>2. ~InProgram
  BY DEF MeaningInv, FramesInv, Parsed
<1>3. ASSUME NEW e \in decls'
      PROVE  \E d \in decls : /\ e.kind = d.kind /\ e.name = d.name /\ e.node = d.node
                              /\ d.kind # "service" => e = d
                              /\ e = IF target = "go" /\ d.node = node
                                       THEN OptionalThrows(d) ELSE d
  <2>1. \E d \in decls : e = IF target = "go" /\ d.node = node THEN OptionalThrows(d) ELSE d
    BY DEF LeftBy, DeclsOf
  <2>2. \A d \in decls : d.kind # "service" => OptionalThrows(d) = d
    BY DEF OptionalThrows
  <2> QED
    BY <2>1, <2>2, OptionalThrowsTyped
<1>4. ASSUME NEW d \in decls
      PROVE  \E e \in decls' : /\ e.kind = d.kind /\ e.name = d.name /\ e.node = d.node
                               /\ d.kind # "service" => e = d
  <2>1. d \in decls' \/ OptionalThrows(d) \in decls'
    BY DEF LeftBy, DeclsOf
  <2>2. d.kind # "service" => OptionalThrows(d) = d
    BY DEF OptionalThrows
  <2> QED
    BY <2>1, <2>2, OptionalThrowsTyped
<1>5. Grown
  BY <1>1, <1>4 DEF Grown, IsType
<1>6. Keeps /\ \A d \in decls' : d.kind \in {"const", "enum"} => d \in decls
  BY <1>3, <1>4 DEF Keeps
<1>7. ApartInv'
  <2>1. ASSUME NEW d \in decls', NEW e \in decls', d.kind # "const", e.kind # "const",
               d.node = e.node, d.name = e.name
        PROVE  d = e
    <3>1. PICK a \in decls : /\ d.kind = a.kind /\ d.name = a.name /\ d.node = a.node
                             /\ d = IF target = "go" /\ a.node = node
                                      THEN OptionalThrows(a) ELSE a
      BY <1>3
    <3>2. PICK b \in decls : /\ e.kind = b.kind /\ e.name = b.name /\ e.node = b.node
                             /\ e = IF target = "go" /\ b.node = node
                                      THEN OptionalThrows(b) ELSE b
      BY <1>3
    <3>3. a = b
      <4>1. a.kind # "const" /\ b.kind # "const" /\ a.node = b.node /\ a.name = b.name
        <5>1. d.kind = a.kind /\ d.name = a.name /\ d.node = a.node
          BY <3>1
        <5>2. e.kind = b.kind /\ e.name = b.name /\ e.node = b.node
          BY <3>2
        <5> QED
          BY <2>1, <5>1, <5>2
      <4>2. ApartInv
        BY DEF ConstantInv
      <4> QED
        BY <4>1, <4>2 DEF ApartInv
    <3> QED
      BY <3>1, <3>2, <3>3
  <2> QED
    BY <1>6, <2>1 DEF ConstantInv, ApartInv
<1>8. ConstsAreLeft(scopes')
  BY <1>1 DEF ConstsAreLeft
<1>9. \A n \in DOMAIN nodes : DefsOf(n)' = DefsOf(n)
  BY <1>1 DEF DefsOf
<1>10. \A d \in decls : \A k \in 1..Len(DefsOf(d.node)) : Read(d, k)' => Read(d, k)
  BY <1>2, <1>9, NoneIsRead
<1> QED
  BY <1>1, <1>5, <1>6, <1>7, <1>8, <1>10, ConstantsStay

-----------------------------------------------------------------------------
(* Binding.                                                                *)

(* A name behind a prefix.                                                 *)
LEMMA BehindPrefix ==
  ASSUME NEW p, NEW a
  PROVE  <<p>> \o <<a>> = <<p, a>>
<1> DEFINE S == {p, a}
           s == <<p>> \o <<a>>
           t == <<p, a>>
<1>1. /\ s \in Seq(S) /\ Len(s) = 2 /\ s[1] = p /\ s[2] = a
      /\ t \in Seq(S) /\ Len(t) = 2 /\ t[1] = p /\ t[2] = a
  OBVIOUS
<1> HIDE DEF S, s, t
<1>2. \A i \in 1..2 : s[i] = t[i]
  BY <1>1
<1>3. s = t
  BY <1>1, <1>2, SeqEqual
<1> QED
  BY <1>3 DEF s, t

(* A name of two parts behind a prefix.                                    *)
LEMMA TwoBehindPrefix ==
  ASSUME NEW p, NEW a, NEW b
  PROVE  <<p>> \o <<a, b>> = <<p, a, b>>
<1> DEFINE S == {p, a, b}
           s == <<p>> \o <<a, b>>
           t == <<p, a, b>>
<1>1. /\ s \in Seq(S) /\ Len(s) = 3 /\ s[1] = p /\ s[2] = a /\ s[3] = b
      /\ t \in Seq(S) /\ Len(t) = 3 /\ t[1] = p /\ t[2] = a /\ t[3] = b
  OBVIOUS
<1> HIDE DEF S, s, t
<1>2. \A i \in 1..3 : s[i] = t[i]
  BY <1>1
<1>3. s = t
  BY <1>1, <1>2, SeqEqual
<1> QED
  BY <1>3 DEF s, t

(* A name without its last part.                                           *)
LEMMA AllButLast ==
  ASSUME NEW p, NEW a, NEW b
  PROVE  /\ SubSeq(<<a, b>>, 1, 1) = <<a>>
         /\ SubSeq(<<p, a, b>>, 1, 2) = <<p, a>>
<1> DEFINE S == {p, a, b}
           x == <<a, b>>
           y == <<p, a, b>>
           s == SubSeq(x, 1, 1)
           t == SubSeq(y, 1, 2)
           u == <<a>>
           v == <<p, a>>
<1>1. /\ x \in Seq(S) /\ Len(x) = 2 /\ x[1] = a /\ a \in S
      /\ y \in Seq(S) /\ Len(y) = 3 /\ y[1] = p /\ y[2] = a /\ p \in S
      /\ u \in Seq(S) /\ Len(u) = 1 /\ u[1] = a
      /\ v \in Seq(S) /\ Len(v) = 2 /\ v[1] = p /\ v[2] = a
  OBVIOUS
<1> HIDE DEF S, x, y, u, v
<1>2. s \in Seq(S) /\ Len(s) = 1 /\ s[1] = a
  BY <1>1, SubSeqProperties
<1>3. t \in Seq(S) /\ Len(t) = 2 /\ t[1] = p /\ t[2] = a
  <2>1. \A i \in 1..2 : y[i] \in S
    BY <1>1
  <2>2. t \in Seq(S) /\ Len(t) = 2 /\ \A i \in 1..2 : t[i] = y[1 + i - 1]
    BY <2>1, SubSeqProperties
  <2> QED
    BY <1>1, <2>2
<1> HIDE DEF s, t
<1>4. s = u
  <2>1. \A i \in 1..1 : s[i] = u[i]
    BY <1>1, <1>2
  <2> QED
    BY <1>1, <1>2, <2>1, SeqEqual
<1>5. t = v
  <2>1. \A i \in 1..2 : t[i] = v[i]
    BY <1>1, <1>3
  <2> QED
    BY <1>1, <1>3, <2>1, SeqEqual
<1> QED
  BY <1>4, <1>5 DEF s, t, u, v, x, y

(* What Declare binds for a constant.                                      *)
BoundAs(n, x, name) ==
  \/ n = Program /\ x = name
  \/ n = globals.parent /\ x = <<globals.prefix>> \o name
(* All that Declare leaves in the tables of constants.                     *)
ConstsBound(after, names, entry) ==
  \A n \in DOMAIN scopes : \A x \in DOMAIN after[n].consts :
    \/ x \in DOMAIN scopes[n].consts /\ after[n].consts[x] = scopes[n].consts[x]
    \/ \E name \in names : BoundAs(n, x, name) /\ after[n].consts[x] = entry[name]

(* A constant is bound in its program and in the one that includes it.     *)
LEMMA ConstantsAreBound ==
  ASSUME Inv, SourceInv, NEW names, NEW entry,
         \A name \in names : Tail(<<globals.prefix>> \o name) = name,
         NEW after, after = Declare("consts", names, entry)
  PROVE  ConstsBound(after, names, entry)
<1>1. /\ Program \in DOMAIN scopes
      /\ \A n \in DOMAIN scopes : DOMAIN scopes[n] = {"types", "consts", "services"}
  BY DEF Inv, ParserInv, TreeInv, SourceInv, NamesInv
<1> DEFINE qualified == {<<globals.prefix>> \o n : n \in names}
           behind == [n \in qualified |-> entry[Tail(n)]]
           bound(n, ns, e) == [scopes[n] EXCEPT !["consts"] = Bind(@, ns, e)]
<1>2. ASSUME NEW x \in qualified
      PROVE  \E name \in names : x = <<globals.prefix>> \o name /\ behind[x] = entry[name]
  <2>1. PICK name \in names : x = <<globals.prefix>> \o name
    OBVIOUS
  <2>2. behind[x] = entry[Tail(x)] /\ Tail(x) = name
    BY <2>1
  <2> QED
    BY <2>1, <2>2
<1>3. ASSUME NEW n \in DOMAIN scopes, NEW ns, NEW e, NEW x \in DOMAIN bound(n, ns, e).consts
      PROVE  \/ x \in ns /\ bound(n, ns, e).consts[x] = e[x]
             \/ /\ x \in DOMAIN scopes[n].consts
                /\ bound(n, ns, e).consts[x] = scopes[n].consts[x]
  <2>1. bound(n, ns, e).consts = Bind(scopes[n].consts, ns, e)
    BY <1>1
  <2> HIDE DEF bound
  <2> QED
    BY <1>3, <2>1 DEF Bind
<1>4. after = [n \in DOMAIN scopes |->
                 IF n = Program THEN bound(Program, names, entry)
                 ELSE IF n = globals.parent THEN bound(n, qualified, behind) ELSE scopes[n]]
  BY DEF Declare, Scope
<1> HIDE DEF qualified, behind, bound
<1>5. ASSUME NEW n \in DOMAIN scopes, NEW x \in DOMAIN after[n].consts
      PROVE  \/ x \in DOMAIN scopes[n].consts /\ after[n].consts[x] = scopes[n].consts[x]
             \/ \E name \in names : BoundAs(n, x, name) /\ after[n].consts[x] = entry[name]
  <2>1. CASE n = Program
    <3>1. after[n] = bound(n, names, entry)
      BY <1>4, <2>1
    <3> QED
      BY <1>3, <1>5, <2>1, <3>1 DEF BoundAs
  <2>2. CASE n # Program /\ n = globals.parent
    <3>1. after[n] = bound(n, qualified, behind)
      BY <1>4, <2>2
    <3>2. \/ x \in qualified /\ after[n].consts[x] = behind[x]
          \/ /\ x \in DOMAIN scopes[n].consts
             /\ after[n].consts[x] = scopes[n].consts[x]
      BY <1>3, <1>5, <3>1
    <3> QED
      BY <1>2, <2>2, <3>2 DEF BoundAs
  <2>3. CASE n # Program /\ n # globals.parent
    BY <1>4, <1>5, <2>3
  <2> QED
    BY <2>1, <2>2, <2>3
<1> QED
  BY <1>5 DEF ConstsBound

(* A type or a service leaves the constants of all scopes.                 *)
LEMMA TablesLeaveConsts ==
  ASSUME Inv, SourceInv, NEW table \in {"types", "services"}, NEW names, NEW entry,
         NEW after, after = Declare(table, names, entry)
  PROVE  DOMAIN after = DOMAIN scopes /\ \A n \in DOMAIN scopes : after[n].consts = scopes[n].consts
<1>1. \A n \in DOMAIN scopes : DOMAIN scopes[n] = {"types", "consts", "services"}
  BY DEF SourceInv, NamesInv
<1> DEFINE qualified == {<<globals.prefix>> \o n : n \in names}
           behind == [n \in qualified |-> entry[Tail(n)]]
           bound(n, ns, e) == [scopes[n] EXCEPT ![table] = Bind(@, ns, e)]
<1>2. ASSUME NEW n \in DOMAIN scopes, NEW ns, NEW e
      PROVE  bound(n, ns, e).consts = scopes[n].consts
  <2>1. table # "consts" /\ "consts" \in DOMAIN scopes[n]
    BY <1>1
  <2> QED
    BY <2>1
<1>3. after = [n \in DOMAIN scopes |->
                 IF n = Program THEN bound(Program, names, entry)
                 ELSE IF n = globals.parent THEN bound(n, qualified, behind) ELSE scopes[n]]
  BY DEF Declare, Scope
<1>4. Program \in DOMAIN scopes
  BY DEF Inv, ParserInv, TreeInv
<1> HIDE DEF qualified, behind, bound
<1> QED
  BY <1>2, <1>3, <1>4

(* What is bound for a definition is visible.                              *)
LEMMA BoundIsVisible ==
  ASSUME Inv, SourceInv, MeaningInv, status = "parsing", InProgram,
         NEW d, d.node = Program, NEW n \in DOMAIN nodes, NEW x
  PROVE  /\ BoundAs(n, x, <<d.name>>) => Visible(d, n, x)
         /\ \A name : BoundAs(n, x, <<d.name, name>>) =>
              /\ Len(x) > 1 /\ Last1(x) = name
              /\ Visible(d, n, SubSeq(x, 1, Len(x) - 1))
<1>1. /\ globals.prefix = ProgramName(Program)
      /\ n = globals.parent <=> Program \in IncludesOf(n)
  BY ParentIncludes
<1>2. ASSUME BoundAs(n, x, <<d.name>>)
      PROVE  Visible(d, n, x)
  <2>1. <<globals.prefix>> \o <<d.name>> = <<globals.prefix, d.name>>
    BY BehindPrefix
  <2> QED
    BY <1>1, <1>2, <2>1 DEF BoundAs, Visible
<1>3. ASSUME NEW name, BoundAs(n, x, <<d.name, name>>)
      PROVE  /\ Len(x) > 1 /\ Last1(x) = name
             /\ Visible(d, n, SubSeq(x, 1, Len(x) - 1))
  <2>1. CASE n = Program /\ x = <<d.name, name>>
    <3>1. Len(x) = 2 /\ x[1] = d.name /\ x[2] = name
      BY <2>1
    <3>2. SubSeq(x, 1, 1) = <<d.name>>
      BY <2>1, AllButLast
    <3> QED
      BY <2>1, <3>1, <3>2 DEF Last1, Visible
  <2>2. CASE n = globals.parent /\ x = <<globals.prefix>> \o <<d.name, name>>
    <3>1. x = <<globals.prefix, d.name, name>>
      <4>1. PICK p, a : p = globals.prefix /\ a = d.name
        OBVIOUS
      <4>2. <<p>> \o <<a, name>> = <<p, a, name>>
        BY TwoBehindPrefix
      <4> QED
        BY <2>2, <4>1, <4>2
    <3>2. Len(x) = 3 /\ x[3] = name
      BY <3>1
    <3>3. SubSeq(x, 1, 2) = <<globals.prefix, d.name>>
      BY <3>1, AllButLast
    <3> QED
      BY <1>1, <2>2, <3>2, <3>3 DEF Last1, Visible
  <2> QED
    BY <1>3, <2>1, <2>2 DEF BoundAs
<1> QED
  BY <1>2, <1>3

(* A definition whose name is new has no namesake before it in the file.   *)
LEMMA FirstOfItsName ==
  ASSUME Inv, SourceInv, status = "parsing", cursor.stage = "defined", Mode = "PROGRAM",
         \A e \in decls : ~(e.node = Program /\ e.kind = Def.kind /\ e.name = Def.name),
         NEW k \in 1..Len(DefsOf(Program)), k < cursor.def + 1,
         DefsOf(Program)[k].kind = Def.kind, DefsOf(Program)[k].name = Def.name
  PROVE  k = cursor.def
<1>1. cursor.def \in Nat \ {0} /\ Len(DefsOf(Program)) \in Nat
  BY DefIsThere DEF Inv, CursorInv, DefsOf, File, SourceInv
<1> SUFFICES ASSUME k # cursor.def PROVE FALSE
  OBVIOUS
<1>2. k \in 1..(cursor.def - 1)
  BY <1>1
<1>3. Reflects(Program, cursor.def - 1, FALSE)
  BY DEF SourceInv, ParsingInv, InProgram
<1>4. PICK e \in DeclsOf(Program) : DeclaredAs(input, e, DefsOf(Program)[k], FALSE)
  BY <1>2, <1>3 DEF Reflects
<1>5. e \in decls /\ e.node = Program /\ e.kind = Def.kind /\ e.name = Def.name
  BY <1>4 DEF DeclaredAs, DeclsOf
<1> QED
  BY <1>5

(* What a binding that is new means.                                       *)
MeansIt(d, value, n, x) ==
  \/ /\ d.kind = "enum" /\ Len(x) > 1 /\ Visible(d, n, SubSeq(x, 1, Len(x) - 1))
     /\ \E i \in DOMAIN d.values :
          d.values[i].name = Last1(x) /\ value = Number(d.values[i].num)
  \/ ConstantNamed(d, n, x) /\ value = d.value
(* All that is bound is old or means the definition that is added.         *)
ConstsMeanIt(after, d) ==
  \A n \in DOMAIN nodes : \A x \in DOMAIN after[n].consts :
    \/ x \in DOMAIN scopes[n].consts /\ after[n].consts[x] = scopes[n].consts[x]
    \/ \E value \in {after[n].consts[x].value} : MeansIt(d, value, n, x)

(* A definition that is added, with what is bound for it.                  *)
LEMMA AddedKeepsConstants ==
  ASSUME Inv, SourceInv, MeaningInv, ConstantInv, status = "parsing",
         cursor.stage = "defined", Mode = "PROGRAM",
         NEW d, d.node = Program, d.kind = Def.kind, d.name = Def.name, Added(d),
         \A e \in decls : ~(e.node = Program /\ e.kind = Def.kind /\ e.name = Def.name),
         d.kind # "const" =>
           \A e \in decls : e.kind # "const" => ~(e.node = Program /\ e.name = Def.name),
         d.kind = "enum" =>
           /\ Len(d.values) \in Nat /\ DOMAIN d.values = 1..Len(d.values)
           /\ \A i, j \in DOMAIN d.values : d.values[i].name = d.values[j].name => i = j,
         d.kind = "const" =>
           /\ d.value.kind \in {"int", "id"}
           /\ d.value.kind = "id" => d.value.enum = NoType \/ OfEnum(d.value, d.type)
           /\ ValueKept(d, Def.value),
         ConstsMeanIt(scopes', d)
  PROVE  ConstantInv'
<1>1. /\ UNCHANGED <<input, status, globals, nodes>>
      /\ decls' = decls \cup {d}
      /\ cursor' = [cursor EXCEPT !.stage = "definition", !.def = @ + 1]
  BY DEF Added, NextDefinition
<1>2. /\ cursor'.stage = "definition" /\ cursor'.def = cursor.def + 1
      /\ cursor.def \in Nat \ {0}
  BY <1>1 DEF Inv, CursorInv
<1>3. UNCHANGED Program /\ InProgram /\ InProgram'
  BY <1>1, <1>2 DEF Program, Mode, InProgram
<1>4. Grown /\ Keeps
  BY <1>1 DEF Grown, Keeps
<1>5. ApartInv'
  <2>1. ApartInv
    BY DEF ConstantInv
  <2> QED
    BY <1>1, <2>1 DEF ApartInv
<1>6. DefsOf(Program)[cursor.def] = Def /\ Len(DefsOf(Program)) \in Nat
  BY DefIsThere DEF DefsOf, File, Def, SourceInv
<1>7. \A n : DefsOf(n)' = DefsOf(n)
  BY <1>1 DEF DefsOf
<1>8. ASSUME NEW e \in decls, NEW k \in 1..Len(DefsOf(e.node)), Read(e, k)'
      PROVE  Read(e, k)
  <2>1. PICK n \in DOMAIN nodes : n = e.node
    BY DEF Inv, TreeInv
  <2>2. /\ k \in 1..Len(DefsOf(n)) /\ Matches(e, DefsOf(n)[k])
        /\ n = Program => k < cursor.def + 1
    BY <1>2, <1>3, <1>7, <1>8, <2>1 DEF Read
  <2>3. ~(n = Program /\ k = cursor.def)
    BY <1>6, <2>1, <2>2 DEF Matches
  <2>4. n = Program => k < cursor.def
    BY <1>2, <1>6, <2>2, <2>3
  <2> QED
    BY <2>1, <2>2, <2>4 DEF Read
<1>9. \A e \in decls : e.kind = "const" => ValueRight(e)'
  BY <1>1, <1>4, <1>5, <1>8, ValueStaysRight
<1>10. ASSUME d.kind = "const"
       PROVE  ValueRight(d)'
  <2>1. PICK n \in DOMAIN nodes : n = Program
    BY DEF Inv, ParserInv
  <2>2. PICK defs : defs = DefsOf(n) /\ defs = DefsOf(n)'
    BY <1>7
  <2>3. PICK def : def = Def
    OBVIOUS
  <2>4. PICK value : value = def.value
    OBVIOUS
  <2>5. ValueKept(d, value)'
    BY <1>4, <1>5, <1>10, <2>1, <2>3, <2>4, ValueStaysKept DEF ConstantInv
  <2>6. ASSUME NEW k \in 1..Len(defs), Read(d, k)'
        PROVE  ValueKept(d, defs[k].value)'
    <3>1. Matches(d, defs[k]) /\ k < cursor.def + 1
      BY <1>2, <1>3, <2>1, <2>2, <2>6 DEF Read
    <3>2. k = cursor.def
      BY <2>1, <2>2, <3>1, FirstOfItsName DEF Matches
    <3>3. defs[k].value = value
      BY <1>6, <2>1, <2>2, <2>3, <2>4, <3>2
    <3> QED
      BY <2>5, <3>3
  <2>7. OfEnum(d.value, d.type) => OfEnum(d.value, d.type)'
    BY <1>1 DEF OfEnum
  <2> QED
    BY <1>10, <2>1, <2>2, <2>6, <2>7 DEF ValueRight
<1>11. ValuesInv'
  BY <1>1, <1>9, <1>10 DEF ValuesInv
<1>12. \A e, n, x : Visible(e, n, x)' <=> Visible(e, n, x)
  BY <1>1 DEF Visible, IncludesOf, ProgramName
<1>13. ASSUME NEW value, NEW n, NEW x, MeansIt(d, value, n, x)
       PROVE  Bindable(value, n, x)'
  <2>1. CASE d.kind = "enum" /\ Len(x) > 1
    <3>1. PICK short : short = SubSeq(x, 1, Len(x) - 1)
      OBVIOUS
    <3>2. Visible(d, n, short) => Visible(d, n, short)'
      BY <1>12
    <3>3. CASE ConstantNamed(d, n, x)
      BY <2>1, <3>3 DEF ConstantNamed
    <3>4. CASE ~ConstantNamed(d, n, x)
      BY <1>1, <1>13, <2>1, <3>1, <3>2, <3>4 DEF MeansIt, Bindable, EnumeratorNamed
    <3> QED
      BY <3>3, <3>4
  <2>2. CASE ConstantNamed(d, n, x) /\ value = d.value
    BY <1>1, <1>12, <2>2 DEF Bindable, ConstantNamed
  <2> QED
    BY <1>13, <2>1, <2>2 DEF MeansIt
<1>14. ASSUME NEW n \in DOMAIN nodes', NEW x \in DOMAIN scopes'[n].consts
       PROVE  \E value \in {scopes'[n].consts[x].value} : Bindable(value, n, x)'
  <2>1. n \in DOMAIN nodes
    BY <1>1
  <2>2. PICK value : value = scopes'[n].consts[x].value
    OBVIOUS
  <2>3. CASE x \in DOMAIN scopes[n].consts /\ scopes'[n].consts[x] = scopes[n].consts[x]
    <3>1. Bindable(value, n, x)
      BY <2>1, <2>2, <2>3 DEF ConstantInv, ConstsInv
    <3>2. Bindable(value, n, x)'
      BY <1>4, <2>1, <3>1, BindableStays
    <3> QED
      BY <2>2, <3>2
  <2>4. CASE MeansIt(d, value, n, x)
    BY <1>13, <2>2, <2>4
  <2> QED
    BY <1>14, <2>1, <2>2, <2>3, <2>4 DEF ConstsMeanIt
<1>15. ConstsInv'
  BY <1>14 DEF ConstsInv
<1> QED
  BY <1>5, <1>11, <1>15 DEF ConstantInv

-----------------------------------------------------------------------------
(* The value of a constant.                                                *)

(* What the parser can not read or use is a failure.                       *)
LEMMA FailuresFail ==
  Failures(BadValue) # {} /\ Failures(Garbage) # {} /\ Failures(Endless) # {}
<1>1. BadValue.kind = "bad" /\ Garbage.kind = "garbage" /\ Endless.kind = "endless"
  BY DEF BadValue, Garbage, Endless, NoValue, Number
<1> QED
  BY <1>1 DEF Failures

(* The enum behind a type.                                                 *)
LEMMA EnumOfType ==
  ASSUME ApartInv, NEW type, NEW n, NEW name, RightType(type, n, name), IsA(type, "enum")
  PROVE  \E e \in decls : e.kind = "enum" /\ type = DefinedType(e) /\ DeclOf(type) = e
<1>1. type.kind = "defined" /\ DeclOf(type).kind = "enum"
  BY DEF IsA
<1>2. type # I32 /\ \A x : type # Type("forward", n, x)
  BY <1>1 DEF I32, Type
<1>3. PICK e \in decls : IsType(e) /\ type = DefinedType(e)
  BY <1>2 DEF RightType
<1>4. DeclOf(DefinedType(e)) = e
  BY <1>3, DeclOfDefined DEF IsType
<1> QED
  BY <1>1, <1>3, <1>4

(* A value that was resolved without a failure is valid.                   *)
LEMMA ResolvedIsValid ==
  ASSUME Mode = "PROGRAM", NEW written, written.kind \in {"int", "id"}, NEW type,
         NEW value, value = ConstValue(written, type), Failures(value) = {}
  PROVE  /\ value = IF written.kind = "id" THEN ResolveIdentifier(written, type)
                    ELSE ResolveInteger(written, type)
         /\ Validated(value, type)
<1>1. PICK resolved : resolved = IF written.kind = "id" THEN ResolveIdentifier(written, type)
                                 ELSE ResolveInteger(written, type)
  OBVIOUS
<1>2. value = IF Failures(resolved) # {} \/ Validated(resolved, type)
                THEN resolved ELSE BadValue
  BY <1>1 DEF ConstValue
<1> QED
  BY <1>1, <1>2, FailuresFail

(* A number stays what it is, or becomes the enumerator that has it.       *)
LEMMA NumberIsKept ==
  ASSUME ApartInv, NEW d, NEW n, NEW name, RightType(d.type, n, name),
         NEW written, written = Number(written.num),
         d.value = ResolveInteger(written, d.type), Failures(d.value) = {}
  PROVE  /\ d.value.kind \in {"int", "id"}
         /\ d.value.kind = "id" => OfEnum(d.value, d.type)
         /\ NumberKept(d, written)
<1>1. written.kind = "int"
  BY DEF Number
<1>2. CASE ~IsA(d.type, "enum")
  BY <1>1, <1>2 DEF ResolveInteger, NumberKept
<1>3. CASE IsA(d.type, "enum")
  <2>1. PICK e \in decls : e.kind = "enum" /\ d.type = DefinedType(e) /\ DeclOf(d.type) = e
    BY <1>3, EnumOfType
  <2> DEFINE same == {i \in 1..Len(e.values) : e.values[i].num = written.num}
             first == CHOOSE i \in same : \A j \in same : i <= j
  <2>2. d.value = IF same = {} THEN BadValue
                  ELSE Identifier(<<e.name, e.values[first].name>>, d.type)
    BY <1>3, <2>1 DEF ResolveInteger
  <2>3. same # {}
    BY <2>2, FailuresFail
  <2>4. same \subseteq Nat
    OBVIOUS
  <2>5. first \in same
    <3> HIDE DEF same
    <3> QED
      BY <2>3, <2>4, Smallest
  <2>6. PICK i \in 1..Len(e.values) : i = first /\ e.values[i].num = written.num
    BY <2>5
  <2> HIDE DEF first, same
  <2>7. PICK label : label = e.values[i].name
    OBVIOUS
  <2>8. d.value = Identifier(<<e.name, label>>, d.type)
    BY <2>2, <2>3, <2>6, <2>7
  <2>9. Last1(<<e.name, label>>) = label
    BY DEF Last1
  <2>10. d.value.kind = "id" /\ d.value.enum = d.type /\ Last1(d.value.name) = label
    BY <2>8, <2>9 DEF Identifier
  <2>11. i \in DOMAIN e.values
    BY <2>1 DEF ApartInv
  <2>12. OfEnum(d.value, d.type)
    BY <2>1, <2>10 DEF OfEnum
  <2>13. written = Number(e.values[i].num)
    BY <2>6
  <2> QED
    BY <2>1, <2>7, <2>10, <2>11, <2>12, <2>13 DEF NumberKept
<1> QED
  BY <1>2, <1>3

(* A name becomes an enumerator of the type, or the value of the constant  *)
(* or enumerator that it stands for, or stays a name.                      *)
LEMMA NameIsKept ==
  ASSUME Inv, ConstantInv, NEW d, d.node = Program, NEW name, RightType(d.type, Program, name),
         NEW written, written = Identifier(written.name, NoType),
         d.value = ResolveIdentifier(written, d.type), Failures(d.value) = {},
         Validated(d.value, d.type)
  PROVE  /\ d.value.kind \in {"int", "id"}
         /\ d.value.kind = "id" => d.value.enum = NoType \/ OfEnum(d.value, d.type)
         /\ NameKept(d, written.name)
<1> DEFINE given == written.name
<1>1. \A enum : /\ Identifier(given, enum).kind = "id" /\ Identifier(given, enum).enum = enum
                /\ Identifier(given, enum).name = given
  BY DEF Identifier
<1>2. CASE IsA(d.type, "enum")
  <2>1. PICK e \in decls : e.kind = "enum" /\ d.type = DefinedType(e) /\ DeclOf(d.type) = e
    BY <1>2, EnumOfType DEF ConstantInv
  <2>2. d.value = Identifier(given, d.type)
    BY <1>2 DEF ResolveIdentifier
  <2>3. OfEnum(d.value, d.type)
    BY <1>1, <2>1, <2>2 DEF OfEnum
  <2>4. d.type # I32
    BY <2>1 DEF DefinedType, I32, Type
  <2>5. Len(given) > 1 /\ HasValue(d.type, Last1(given))
    BY <1>1, <1>2, <2>2, <2>4 DEF Validated
  <2>6. PICK i \in 1..Len(e.values) : e.values[i].name = Last1(given)
    BY <2>1, <2>5 DEF HasValue
  <2>7. i \in DOMAIN e.values
    BY <2>1 DEF ConstantInv, ApartInv
  <2> QED
    BY <1>1, <2>1, <2>2, <2>3, <2>5, <2>6, <2>7 DEF NameKept
<1>3. CASE ~IsA(d.type, "enum")
  <2>1. given \in DOMAIN Scope.consts
    BY <1>3, FailuresFail DEF ResolveIdentifier
  <2>2. PICK constant : constant = Scope.consts[given]
    OBVIOUS
  <2>3. PICK true : true = TrueType(constant.type)
    OBVIOUS
  <2>4. d.value = CASE true = I32 -> GetInteger(constant.value)
                    [] true = NoType -> BadValue
                    [] IsTypedef(true) -> Endless
                    [] OTHER -> written
    BY <1>3, <2>1, <2>2, <2>3 DEF ResolveIdentifier
  <2>5. CASE true = I32
    <3>1. true # NoType /\ ~IsTypedef(true)
      BY <2>5 DEF I32, NoType, IsTypedef, IsA, Type
    <3>2. d.value = GetInteger(constant.value)
      BY <2>4, <2>5, <3>1
    <3>3. d.value.kind = "int"
      <4>1. \/ constant.value.kind = "int" /\ d.value = constant.value
            \/ d.value = Number(d.value.num)
            \/ d.value = Garbage
        BY <3>2 DEF GetInteger, Number
      <4> QED
        BY <4>1, FailuresFail DEF Number
    <3>4. PICK value : value = constant.value
      OBVIOUS
    <3>5. Bindable(value, Program, given)
      <4>1. Program \in DOMAIN nodes
        BY DEF Inv, ParserInv
      <4> QED
        BY <2>1, <2>2, <3>4, <4>1 DEF ConstantInv, ConstsInv, Scope
    <3>6. CASE EnumeratorNamed(value, Program, given)
      <4>1. value.kind = "int"
        BY <3>6 DEF EnumeratorNamed, Number
      <4>2. d.value = value
        BY <3>2, <3>4, <4>1 DEF GetInteger
      <4> QED
        BY <3>3, <3>6, <4>2 DEF NameKept
    <3>7. CASE \E c \in decls : ConstantNamed(c, Program, given) /\ value = c.value
      BY <3>2, <3>3, <3>4, <3>7 DEF NameKept
    <3> QED
      BY <3>5, <3>6, <3>7 DEF Bindable
  <2>6. CASE true = NoType \/ IsTypedef(true)
    <3>1. true # I32
      BY <2>6 DEF I32, NoType, IsTypedef, IsA, Type
    <3>2. d.value = BadValue \/ d.value = Endless
      BY <2>4, <2>6, <3>1
    <3> QED
      BY <3>2, FailuresFail
  <2>7. CASE true # I32 /\ true # NoType /\ ~IsTypedef(true)
    <3>1. d.value = Identifier(given, NoType)
      BY <2>4, <2>7
    <3> QED
      BY <1>1, <3>1 DEF NameKept
  <2> QED
    BY <2>5, <2>6, <2>7
<1> QED
  BY <1>2, <1>3

-----------------------------------------------------------------------------
(* Definitions.                                                            *)

(* The definition in the file, and what becomes of it.                     *)
LEMMA DefAsWritten ==
  ASSUME Inv, SourceInv, status = "parsing", cursor.stage = "defined", Mode = "PROGRAM"
  PROVE  /\ Len(Def.values) \in Nat
         /\ Def.kind = "const" =>
              /\ Def.type # <<>>
              /\ \/ Def.value = Number(Def.value.num)
                 \/ Def.value = Identifier(Def.value.name, NoType)
<1>1. input \in Inputs /\ nodes[Program].path \in DOMAIN input.files
  BY DEF Inv, ParserInv, TreeInv
<1>2. cursor.def \in 1..Len(File.defs)
  BY DefIsThere DEF SourceInv, ReaderInv
<1> QED
  BY <1>1, <1>2, ConstantsAssumption DEF File, Def

(* What is made of the definition has its names, its type and its values.  *)
LEMMA DeclAsWritten ==
  ASSUME Inv, SourceInv, status = "parsing", cursor.stage = "defined", Mode = "PROGRAM",
         NEW value, NEW d, d = Decl(value)
  PROVE  /\ d.node = Program /\ d.kind = Def.kind /\ d.name = Def.name /\ d.value = value
         /\ Def.type # <<>> => d.type = FieldType(Def.type)
         /\ Len(d.values) \in Nat /\ DOMAIN d.values = 1..Len(d.values)
<1>1. /\ d.node = Program /\ d.kind = Def.kind /\ d.name = Def.name /\ d.value = value
      /\ Def.type # <<>> => d.type = FieldType(Def.type)
      /\ d.values = EnumValues
  BY DEF Decl, Declaration
<1>2. Len(Def.values) \in Nat
  BY DefAsWritten
<1>3. DOMAIN EnumValues = 1..Len(Def.values) /\ Len(EnumValues) = Len(Def.values)
  <2>1. DOMAIN EnumValues = 1..Len(Def.values)
    BY DEF EnumValues
  <2>2. EnumValues = [i \in 1..Len(Def.values) |-> EnumValues[i]]
    BY DEF EnumValues
  <2>3. PICK n, f : n \in Nat /\ n = Len(Def.values) /\ f = EnumValues
    BY <1>2
  <2>4. DOMAIN f = 1..n /\ f = [i \in 1..n |-> f[i]]
    BY <2>1, <2>2, <2>3
  <2>5. Len(f) = n
    BY <2>3, <2>4
  <2> QED
    BY <2>1, <2>3, <2>5
<1> QED
  BY <1>1, <1>2, <1>3

(* A type or a service is no constant.                                     *)
LEMMA DefineTypeKeepsConstants ==
  ASSUME Inv, SourceInv, MeaningInv, ConstantInv, DefineType \/ DefineService
  PROVE  ConstantInv'
<1>1. CASE Stop("failed")
  BY <1>1, StopKeepsConstants
<1>2. CASE ~Stop("failed")
  <2>1. /\ status = "parsing" /\ cursor.stage = "defined" /\ Mode = "PROGRAM"
        /\ Def.kind \notin {"enum", "const"} /\ ~Taken(Def.name)
        /\ Added(Decl(NoValue))
    BY <1>2 DEF DefineType, DefineService, Reading
  <2>2. PICK table \in {"types", "services"} :
          \E names, entry : scopes' = Declare(table, names, entry)
    BY <1>2 DEF DefineType, DefineService
  <2>3. \A n \in DOMAIN scopes : scopes'[n].consts = scopes[n].consts
    BY <2>2, TablesLeaveConsts
  <2>4. PICK d : d = Decl(NoValue)
    OBVIOUS
  <2>5. d.node = Program /\ d.kind = Def.kind /\ d.name = Def.name
    BY <2>1, <2>4, DeclAsWritten
  <2>6. ConstsMeanIt(scopes', d)
    BY <2>3 DEF ConstsMeanIt, Inv, TreeInv
  <2>7. \A e \in decls : e.kind # "const" => ~(e.node = Program /\ e.name = Def.name)
    BY <2>1 DEF Taken
  <2>8. \A e \in decls : ~(e.node = Program /\ e.kind = Def.kind /\ e.name = Def.name)
    BY <2>1, <2>7
  <2> QED
    BY <2>1, <2>4, <2>5, <2>6, <2>7, <2>8, AddedKeepsConstants
<1> QED
  BY <1>1, <1>2

(* An enum has as many names as enumerators.                               *)
LEMMA DefineEnumKeepsConstants ==
  ASSUME Inv, SourceInv, MeaningInv, ConstantInv, DefineEnum
  PROVE  ConstantInv'
<1>1. CASE Stop("failed")
  BY <1>1, StopKeepsConstants
<1>2. CASE ~Stop("failed")
  <2> DEFINE d == Decl(NoValue)
             names == {<<d.name, d.values[i].name>> : i \in 1..Len(d.values)}
             numbered(n) == CHOOSE i \in 1..Len(d.values) : d.values[i].name = n[2]
             constant == [n \in names |-> [type |-> I32,
                                           value |-> Number(d.values[numbered(n)].num)]]
             own == Declare("consts", names, constant)
             all == Declare("types", {<<d.name>>},
                            [n \in {<<d.name>>} |-> Type("defined", Program, n)])
  <2>2. /\ status = "parsing" /\ cursor.stage = "defined" /\ Mode = "PROGRAM"
        /\ Def.kind = "enum" /\ ~Taken(Def.name)
        /\ ~(Cardinality(names) < Len(d.values))
        /\ Added(d)
        /\ scopes' = [n \in DOMAIN scopes |-> [all[n] EXCEPT !.consts = own[n].consts]]
    BY <1>2 DEF DefineEnum, Reading
  <2>1. d = Decl(NoValue)
    OBVIOUS
  <2> HIDE DEF d
  <2>3. /\ d.node = Program /\ d.kind = Def.kind /\ d.name = Def.name
        /\ Len(d.values) \in Nat /\ DOMAIN d.values = 1..Len(d.values)
    BY <2>1, <2>2, DeclAsWritten
  <2>4. \A i, j \in 1..Len(d.values) : d.values[i].name = d.values[j].name => i = j
    <3>1. PICK n, values, enum : n \in Nat /\ n = Len(d.values) /\ values = d.values /\ enum = d.name
      BY <2>3
    <3>2. ~(Cardinality(Qualified(enum, values, n)) < n)
      BY <2>2, <3>1 DEF Qualified
    <3>3. \A i, j \in 1..n : values[i].name = values[j].name => i = j
      BY <3>1, <3>2, AsManyNames
    <3> QED
      BY <3>1, <3>3
  <2>5. \A n \in DOMAIN scopes : "consts" \in DOMAIN all[n]
    <3>1. PICK after : after = all
      OBVIOUS
    <3>2. \A n \in DOMAIN scopes : DOMAIN after[n] = DOMAIN scopes[n]
      BY <3>1, DeclareGrows
    <3> HIDE DEF all
    <3> QED
      BY <3>1, <3>2 DEF SourceInv, NamesInv
  <2>6. ConstsBound(own, names, constant)
    <3>1. \A name \in names : Tail(<<globals.prefix>> \o name) = name
      <4>1. ASSUME NEW i \in 1..Len(d.values)
            PROVE  Tail(<<globals.prefix>> \o <<d.name, d.values[i].name>>)
                     = <<d.name, d.values[i].name>>
        <5>1. PICK p, a, b : p = globals.prefix /\ a = d.name /\ b = d.values[i].name
          OBVIOUS
        <5>2. <<p>> \o <<a, b>> = <<p, a, b>>
          BY TwoBehindPrefix
        <5>3. Tail(<<p, a, b>>) = <<a, b>>
          OBVIOUS
        <5> QED
          BY <5>1, <5>2, <5>3
      <4> QED
        BY <4>1
    <3>2. PICK after, entry : after = own /\ entry = constant
      OBVIOUS
    <3> HIDE DEF names
    <3>3. ConstsBound(after, names, entry)
      BY <3>1, <3>2, ConstantsAreBound
    <3> QED
      BY <3>2, <3>3
  <2>7. ASSUME NEW name \in names
        PROVE  /\ constant[name].value = Number(d.values[numbered(name)].num)
               /\ numbered(name) \in 1..Len(d.values)
               /\ name = <<d.name, d.values[numbered(name)].name>>
    <3>1. PICK i \in 1..Len(d.values) : name = <<d.name, d.values[i].name>>
      OBVIOUS
    <3>2. name[2] = d.values[i].name
      BY <3>1
    <3>3. numbered(name) \in 1..Len(d.values) /\ d.values[numbered(name)].name = name[2]
      BY <3>2
    <3> HIDE DEF numbered
    <3>4. constant[name].value = Number(d.values[numbered(name)].num)
      OBVIOUS
    <3> QED
      BY <3>1, <3>2, <3>3, <3>4
  <2> HIDE DEF names, numbered, constant, own, all
  <2>8. \A n \in DOMAIN scopes : scopes'[n].consts = own[n].consts
    BY <2>2, <2>5
  <2>9. ASSUME NEW n \in DOMAIN nodes, NEW x, NEW name \in names, BoundAs(n, x, name),
               NEW value, value = constant[name].value
        PROVE  MeansIt(d, value, n, x)
    <3>1. PICK i \in 1..Len(d.values) : /\ value = Number(d.values[i].num)
                                        /\ name = <<d.name, d.values[i].name>>
      BY <2>7, <2>9
    <3>2. /\ Len(x) > 1 /\ Last1(x) = d.values[i].name
          /\ Visible(d, n, SubSeq(x, 1, Len(x) - 1))
      BY <2>2, <2>3, <2>9, <3>1, BoundIsVisible DEF InProgram
    <3> QED
      BY <2>2, <2>3, <3>1, <3>2 DEF MeansIt
  <2>10. ConstsMeanIt(scopes', d)
    <3>1. ASSUME NEW n \in DOMAIN nodes, NEW x \in DOMAIN scopes'[n].consts
          PROVE  \/ x \in DOMAIN scopes[n].consts /\ scopes'[n].consts[x] = scopes[n].consts[x]
                 \/ \E value \in {scopes'[n].consts[x].value} : MeansIt(d, value, n, x)
      <4>1. n \in DOMAIN scopes /\ scopes'[n].consts = own[n].consts
        BY <2>8 DEF Inv, TreeInv
      <4>2. CASE x \in DOMAIN scopes[n].consts /\ own[n].consts[x] = scopes[n].consts[x]
        BY <4>1, <4>2
      <4>3. ASSUME NEW name \in names, BoundAs(n, x, name), own[n].consts[x] = constant[name]
            PROVE  \E value \in {scopes'[n].consts[x].value} : MeansIt(d, value, n, x)
        <5>1. PICK value : value = constant[name].value
          OBVIOUS
        <5>2. MeansIt(d, value, n, x)
          BY <2>9, <4>3, <5>1
        <5> QED
          BY <4>1, <4>3, <5>1, <5>2
      <4> QED
        BY <2>6, <3>1, <4>1, <4>2, <4>3 DEF ConstsBound
    <3> QED
      BY <3>1 DEF ConstsMeanIt
  <2>11. \A e \in decls : e.kind # "const" => ~(e.node = Program /\ e.name = Def.name)
    BY <2>2 DEF Taken
  <2>12. \A e \in decls : ~(e.node = Program /\ e.kind = Def.kind /\ e.name = Def.name)
    BY <2>2, <2>11
  <2> QED
    BY <2>2, <2>3, <2>4, <2>10, <2>11, <2>12, AddedKeepsConstants
<1> QED
  BY <1>1, <1>2

(* A constant is bound to the value that it keeps.                         *)
LEMMA DefineConstKeepsConstants ==
  ASSUME Inv, SourceInv, MeaningInv, ConstantInv, DefineConst
  PROVE  ConstantInv'
<1>1. PICK type, value : type = FieldType(Def.type) /\ value = ConstValue(Def.value, type)
  OBVIOUS
<1>2. CASE \E how : Stop(how)
  BY <1>2, StopKeepsConstants
<1>3. CASE ~\E how : Stop(how)
  <2> DEFINE names == {<<Def.name>>}
             entry == [n \in names |-> [type |-> type, value |-> value]]
  <2>1. /\ status = "parsing" /\ cursor.stage = "defined" /\ Mode = "PROGRAM"
        /\ Def.kind = "const" /\ Failures(value) = {} /\ ~ConstantTaken(names)
        /\ scopes' = Declare("consts", names, entry)
        /\ Added(Decl(value))
    BY <1>1, <1>3 DEF DefineConst, Reading
  <2>2. PICK d : d = Decl(value)
    OBVIOUS
  <2>3. /\ d.node = Program /\ d.kind = Def.kind /\ d.name = Def.name /\ d.value = value
        /\ d.type = type
    BY <1>1, <2>1, <2>2, DeclAsWritten, DefAsWritten
  <2>4. RightType(type, Program, Def.type)
    BY <1>1, <2>1, FieldTypeIsRight DEF MeaningInv
  <2>5. PICK written : written = Def.value
    OBVIOUS
  <2>6. \/ written.kind = "int" /\ written = Number(written.num)
        \/ written.kind = "id" /\ written = Identifier(written.name, NoType)
    BY <2>1, <2>5, DefAsWritten DEF Number, Identifier
  <2>7. /\ value = IF written.kind = "id" THEN ResolveIdentifier(written, type)
                   ELSE ResolveInteger(written, type)
        /\ Validated(value, type)
    BY <1>1, <2>1, <2>5, <2>6, ResolvedIsValid
  <2>8. /\ d.value.kind \in {"int", "id"}
        /\ d.value.kind = "id" => d.value.enum = NoType \/ OfEnum(d.value, d.type)
        /\ ValueKept(d, written)
    <3>1. CASE written.kind = "int"
      BY <2>1, <2>3, <2>4, <2>6, <2>7, <3>1, NumberIsKept DEF ConstantInv, ValueKept
    <3>2. CASE written.kind = "id"
      BY <2>1, <2>3, <2>4, <2>6, <2>7, <3>2, NameIsKept DEF ValueKept
    <3> QED
      BY <2>6, <3>1, <3>2
  <2>9. ConstsBound(scopes', names, entry)
    <3>1. \A name \in names : Tail(<<globals.prefix>> \o name) = name
      <4>1. PICK p, a : p = globals.prefix /\ a = Def.name
        OBVIOUS
      <4>2. <<p>> \o <<a>> = <<p, a>> /\ Tail(<<p, a>>) = <<a>>
        BY BehindPrefix
      <4> QED
        BY <4>1, <4>2
    <3> HIDE DEF names, entry
    <3> QED
      BY <2>1, <3>1, ConstantsAreBound
  <2>10. ConstsMeanIt(scopes', d)
    <3>1. ASSUME NEW n \in DOMAIN nodes, NEW x, BoundAs(n, x, <<Def.name>>)
          PROVE  MeansIt(d, value, n, x)
      <4>1. Visible(d, n, x)
        BY <2>1, <2>3, <3>1, BoundIsVisible DEF InProgram
      <4> QED
        BY <2>1, <2>3, <4>1 DEF MeansIt, ConstantNamed
    <3>2. entry[<<Def.name>>].value = value
      OBVIOUS
    <3>3. DOMAIN scopes = DOMAIN nodes
      BY DEF Inv, TreeInv
    <3>4. ASSUME NEW n \in DOMAIN nodes, NEW x \in DOMAIN scopes'[n].consts
          PROVE  \/ x \in DOMAIN scopes[n].consts /\ scopes'[n].consts[x] = scopes[n].consts[x]
                 \/ \E v \in {scopes'[n].consts[x].value} : MeansIt(d, v, n, x)
      <4> HIDE DEF entry
      <4>1. \/ x \in DOMAIN scopes[n].consts /\ scopes'[n].consts[x] = scopes[n].consts[x]
            \/ BoundAs(n, x, <<Def.name>>) /\ scopes'[n].consts[x] = entry[<<Def.name>>]
        BY <2>9, <3>3, <3>4 DEF ConstsBound
      <4> QED
        BY <3>1, <3>2, <4>1
    <3> QED
      BY <3>4 DEF ConstsMeanIt
  <2>11. \A e \in decls : ~(e.node = Program /\ e.kind = Def.kind /\ e.name = Def.name)
    BY <2>1 DEF SourceInv, NamesInv, ConstantTaken, Scope
  <2> HIDE DEF names, entry
  <2> QED
    BY <2>1, <2>2, <2>3, <2>5, <2>8, <2>10, <2>11, AddedKeepsConstants
<1> QED
  BY <1>2, <1>3

-----------------------------------------------------------------------------
(* Every step keeps what the constants are worth.                          *)
LEMMA NextKeepsConstants ==
  ASSUME Inv, SourceInv, MeaningInv, ConstantInv, [Next]_vars
  PROVE  ConstantInv'
<1>1. CASE Parse
  <2>1. ParserNext /\ UNCHANGED generateVars
    BY <1>1 DEF Parse
  <2> QED
    BY <2>1, ReadHeadersKeepsConstants, ReadingKeepsConstants, DefineTypeKeepsConstants,
       DefineEnumKeepsConstants, DefineConstKeepsConstants DEF ParserNext
<1>2. ASSUME UNCHANGED <<input, globals, readerVars, treeVars>>
      PROVE  ConstantInv'
  <2>1. UNCHANGED <<InProgram, Program, cursor>>
    BY <1>2 DEF InProgram, Mode, Program, readerVars
  <2> QED
    BY <1>2, <2>1, TreeAloneKeepsConstants DEF treeVars
<1>3. CASE StartGenerating \/ GenerateInclude \/ GenerateUnknown \/ EndGenerate \/ UNCHANGED vars
  BY <1>2, <1>3 DEF StartGenerating, GenerateInclude, GenerateUnknown, EndGenerate,
                    parserVars, vars
<1>4. CASE Generate
  <2>1. CASE \E how : Stop(how)
    BY <2>1, StopKeepsConstants
  <2>2. CASE UNCHANGED parserVars
    BY <1>2, <2>2 DEF parserVars
  <2>3. CASE \E target \in KnownTargets :
               /\ Turn(target) /\ decls' = LeftBy(target, Current.node)
               /\ UNCHANGED <<input, status, globals, stack, readerVars, nodes, scopes>>
    BY <2>3, GeneratedKeepsConstants DEF Turn
  <2> QED
    BY <1>4, <2>1, <2>2, <2>3 DEF Generate
<1> QED
  BY <1>1, <1>3, <1>4 DEF Next

(* The invariant of constants: what is bound in a scope is a constant or   *)
(* an enumerator that is visible in its program, and the value that is     *)
(* kept for a constant is the one that was written, or what it stands for. *)
THEOREM ConstantInvIsInvariant == Spec => []ConstantInv
<1>1. Init => ConstantInv
  BY InitEstablishesConstants
<1>2. Inv /\ SourceInv /\ MeaningInv /\ ConstantInv /\ [Next]_vars => ConstantInv'
  BY NextKeepsConstants
<1> QED
  BY <1>1, <1>2, InvIsInvariant, SourceInvIsInvariant, MeaningInvIsInvariant, PTL DEF Spec

(* The enum of a name that is not the one of the type.                     *)
LEMMA OtherEnumIsNamed ==
  ASSUME ApartInv, NEW d \in decls, NEW e \in decls, e.kind = "enum", d.type = DefinedType(e),
         NEW name, Len(name) > 1, NEW i \in DOMAIN e.values, e.values[i].name = Last1(name)
  PROVE  \/ Number(e.values[i].num) \in Numbers(d.node, name)
         \/ NamesOtherEnum(d, name)
<1>1. PICK n, short : n = d.node /\ short = SubSeq(name, 1, Len(name) - 1)
  OBVIOUS
<1>2. DeclOf(d.type) = e
  BY DeclOfDefined
<1>3. IsA(d.type, "enum") /\ d.type # I32 /\ d.type # NoType
  BY <1>2 DEF IsA, DefinedType, I32, NoType, Type
<1>4. CASE d.type \notin Meaning(n, short)
  BY <1>1, <1>3, <1>4 DEF NamesOtherEnum
<1>5. CASE d.type \in Meaning(n, short)
  <2>1. PICK t \in decls : /\ t.kind \notin {"const", "service"} /\ Visible(t, n, short)
                           /\ d.type = Type("defined", t.node, <<t.name>>)
    BY <1>3, <1>5 DEF Meaning
  <2>2. t = e
    <3>1. t.node = e.node /\ t.name = e.name
      BY <2>1 DEF DefinedType, Type
    <3> QED
      BY <2>1, <3>1 DEF ApartInv
  <2>3. Number(e.values[i].num) \in
          UNION {{Number(a.values[j].num) :
                    j \in {k \in DOMAIN a.values : a.values[k].name = Last1(name)}} :
                 a \in {b \in decls : /\ b.kind = "enum" /\ Len(name) > 1
                                      /\ Visible(b, n, short)}}
    BY <2>1, <2>2
  <2> QED
    BY <1>1, <2>3 DEF Numbers
<1> QED
  BY <1>4, <1>5

(* What was kept of a value is worth what the value means.                 *)
LEMMA KeptIsMeant ==
  ASSUME ConstantInv, NEW d \in decls, NEW value, ValueKept(d, value),
         value.kind = "int" \/ value.kind = "id"
  PROVE  \/ Unset(d.value)
         \/ value.kind = "int" /\ GetInteger(d.value) = value
         \/ /\ value.kind = "id"
            /\ \/ GetInteger(d.value) \in Numbers(d.node, value.name)
               \/ NamesOtherEnum(d, value.name)
<1>1. \A e \in decls : \A i \in DOMAIN e.values :
        /\ e.kind = "enum" /\ d.type = DefinedType(e) /\ d.value.kind = "id"
        /\ OfEnum(d.value, d.type) /\ e.values[i].name = Last1(d.value.name)
        => GetInteger(d.value) = Number(e.values[i].num)
  BY EnumNumber DEF ConstantInv, OfEnum
<1>2. CASE value.kind = "int"
  <2>1. NumberKept(d, value)
    BY <1>2 DEF ValueKept
  <2>2. d.value = value => GetInteger(d.value) = value
    BY <1>2 DEF GetInteger
  <2> QED
    BY <1>1, <1>2, <2>1, <2>2 DEF NumberKept
<1>3. CASE value.kind = "id"
  <2>1. PICK name : name = value.name
    OBVIOUS
  <2>2. NameKept(d, name)
    BY <1>3, <2>1 DEF ValueKept
  <2>3. CASE d.value = Identifier(name, NoType)
    <3>1. d.value.kind = "id" /\ d.value.enum = NoType
      BY <2>3 DEF Identifier
    <3> QED
      BY <3>1 DEF Unset, GetInteger
  <2>4. ASSUME NEW e \in decls, NEW i \in DOMAIN e.values,
               OfEnum(d.value, d.type), d.value = Identifier(name, d.type), Len(name) > 1,
               e.kind = "enum", d.type = DefinedType(e), e.values[i].name = Last1(name)
        PROVE  \/ GetInteger(d.value) \in Numbers(d.node, name)
               \/ NamesOtherEnum(d, name)
    <3>1. d.value.kind = "id" /\ d.value.name = name
      BY <2>4 DEF Identifier
    <3>2. GetInteger(d.value) = Number(e.values[i].num)
      BY <1>1, <2>4, <3>1
    <3> QED
      BY <2>4, <3>2, OtherEnumIsNamed DEF ConstantInv
  <2>5. CASE d.value.kind = "int" /\ EnumeratorNamed(d.value, d.node, name)
    <3>1. GetInteger(d.value) = d.value
      BY <2>5 DEF GetInteger
    <3>2. PICK n, short : n = d.node /\ short = SubSeq(name, 1, Len(name) - 1)
      OBVIOUS
    <3>3. PICK e \in decls : /\ Len(name) > 1 /\ e.kind = "enum" /\ Visible(e, n, short)
                             /\ \E i \in DOMAIN e.values :
                                  /\ e.values[i].name = Last1(name)
                                  /\ d.value = Number(e.values[i].num)
      BY <2>5, <3>2 DEF EnumeratorNamed
    <3>4. d.value \in
            UNION {{Number(a.values[j].num) :
                      j \in {k \in DOMAIN a.values : a.values[k].name = Last1(name)}} :
                   a \in {b \in decls : /\ b.kind = "enum" /\ Len(name) > 1
                                        /\ Visible(b, n, short)}}
      BY <3>3
    <3> QED
      BY <1>3, <2>1, <3>1, <3>2, <3>4 DEF Numbers
  <2>6. ASSUME NEW c \in decls, d.value.kind = "int", ConstantNamed(c, d.node, name),
               d.value = GetInteger(c.value)
        PROVE  GetInteger(d.value) \in Numbers(d.node, name)
    <3>1. GetInteger(d.value) = GetInteger(c.value)
      BY <2>6 DEF GetInteger
    <3>2. c.kind = "const" /\ Visible(c, d.node, name)
      BY <2>6 DEF ConstantNamed
    <3> QED
      BY <3>1, <3>2 DEF Numbers
  <2> QED
    BY <1>3, <2>1, <2>2, <2>3, <2>4, <2>5, <2>6 DEF NameKept
<1> QED
  BY <1>2, <1>3

(* When everything is parsed, a constant has the number that was written   *)
(* for it, or the one that the name in its place stands for in its file.   *)
THEOREM ConstantsAlwaysMeant == Spec => []ConstantsMeanTheirDefinition
<1>1. Inv /\ MeaningInv /\ ConstantInv => ConstantsMeanTheirDefinition
  <2> SUFFICES ASSUME Inv, MeaningInv, ConstantInv, Parsed,
                      NEW d \in decls, d.kind = "const", NEW value, value = SourceOf(d).value
               PROVE  \/ Unset(d.value)
                      \/ value.kind = "int" /\ GetInteger(d.value) = value
                      \/ /\ value.kind = "id"
                         /\ \/ GetInteger(d.value) \in Numbers(d.node, value.name)
                            \/ NamesOtherEnum(d, value.name)
    BY DEF ConstantsMeanTheirDefinition
  <2>1. PICK n \in DOMAIN nodes : n = d.node
    BY DEF Inv, TreeInv
  <2>2. SourceOf(d) = DefsOf(n)[CHOOSE k \in 1..Len(DefsOf(n)) :
                                  /\ DefsOf(n)[k].kind = d.kind
                                  /\ DefsOf(n)[k].name = d.name]
    BY <2>1 DEF SourceOf, DefsOf
  <2>3. \E k \in 1..Len(DefsOf(n)) : DefsOf(n)[k].kind = d.kind /\ DefsOf(n)[k].name = d.name
    BY <2>1 DEF MeaningInv, DefsInv, Matches
  <2>4. PICK k \in 1..Len(DefsOf(n)) : /\ Matches(d, DefsOf(n)[k])
                                       /\ SourceOf(d) = DefsOf(n)[k]
    BY <2>2, <2>3 DEF Matches
  <2>5. ValueKept(d, value)
    <3>1. Read(d, k)
      BY <2>1, <2>4 DEF MeaningInv, FramesInv, Read
    <3> QED
      BY <2>1, <2>4, <3>1 DEF ConstantInv, ValuesInv, ValueRight
  <2>6. value.kind = "int" \/ value.kind = "id"
    <3>1. input \in Inputs /\ nodes[n].path \in DOMAIN input.files
      BY DEF Inv, ParserInv, TreeInv
    <3>2. DefsOf(n)[k].kind = "const" /\ value = DefsOf(n)[k].value
      BY <2>4 DEF Matches
    <3>3. value = Number(value.num) \/ value = Identifier(value.name, NoType)
      BY <3>1, <3>2, ConstantsAssumption DEF DefsOf
    <3> QED
      BY <3>3 DEF Number, Identifier
  <2> QED
    BY <2>5, <2>6, KeptIsMeant
<1> QED
  BY <1>1, InvIsInvariant, MeaningInvIsInvariant, ConstantInvIsInvariant, PTL
==============================================================================
