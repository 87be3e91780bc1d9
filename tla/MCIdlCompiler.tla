---------------------------- MODULE MCIdlCompiler ----------------------------
(* Files for the compiler: families of inputs, one for each kind of        *)
(* interplay.                                                              *)
EXTENDS IdlCompiler, TLC

None == NoValue
Fld(id, name, type) == SourceField(TRUE, id, name, type, "default", None, <<>>)
Auto(name, type) == SourceField(FALSE, 0, name, type, "default", None, <<>>)
Attrs(f, fields) == [f EXCEPT !.attrs = <<fields>>]
Opt(f) == [f EXCEPT !.req = "optional"]
Req(f) == [f EXCEPT !.req = "required"]
Dflt(f, value) == [f EXCEPT !.default = value]
I32Name == <<"i32">>
Ref(name) == Identifier(name, NoType)

Definition(kind, name) ==
  [kind |-> kind, name |-> name, type |-> <<>>, value |-> NoValue,
   values |-> <<>>, lists |-> <<>>, extends |-> <<>>]
Struct(kind, name, fields) == [Definition(kind, name) EXCEPT !.lists = <<fields>>]
TypeDef(name, type) == [Definition("typedef", name) EXCEPT !.type = type]
Const(name, type, value) ==
  [Definition("const", name) EXCEPT !.type = type, !.value = value]
Enumerator(name) == [name |-> name, given |-> FALSE, num |-> 0]
Numbered(name, num) == [name |-> name, given |-> TRUE, num |-> num]
Enum(name, values) == [Definition("enum", name) EXCEPT !.values = values]
Service(name, extends, args, throws) ==
  [Definition("service", name) EXCEPT !.extends = extends, !.lists = <<args, throws>>]
SourceFile(includes, namespace, defs) ==
  [includes |-> includes, namespace |-> namespace, defs |-> defs]
In(files, searchPath, neg, recurse, targets) ==
  [files |-> files, root |-> <<"main">>, searchPath |-> searchPath,
   allowNegKeys |-> neg, strict |-> FALSE, recurse |-> recurse, targets |-> targets]
Strictly(in) == [in EXCEPT !.strict = TRUE]

Main == <<"main">>
XA == <<"x", "a">>
YA == <<"y", "a">>
XB == <<"x", "b">>
Cpp == <<"cpp">>

(* Lists of fields: given, automatic, nonpositive and too large ids.       *)
ListFields(n) ==
  {Fld(2, n, I32Name), Fld(1, n, I32Name), Auto(n, I32Name), Fld(-1, n, I32Name),
   Fld(-3, n, I32Name), Fld(2 * KeyRange + 1, n, I32Name), Fld(KeyRange, n, I32Name),
   Fld(-KeyRange, n, I32Name), Fld(1 - KeyRange, n, I32Name), Fld(-KeyRange - 1, n, I32Name)}
ListInputs ==
  {In(Main :> SourceFile(<<>>, "", <<Struct("struct", "S", <<f, g, h>>),
                                Service("V", <<>>, <<Opt(f), Auto("z", I32Name)>>, <<>>)>>),
      <<>>, neg, FALSE, Cpp) :
     f \in ListFields("f"), g \in ListFields("g"),
     h \in {Fld(1, "h", I32Name), Auto("h", I32Name), Fld(3, "f", I32Name)},
     neg \in BOOLEAN}

(* A list of attributes in the middle of a list: none, an empty one,       *)
(* automatic and given ids, and an id or a name that is taken.             *)
AttributeLists ==
  {<<>>, <<Auto("x", I32Name), Auto("y", I32Name)>>,
   <<Fld(-2, "x", I32Name), Auto("y", I32Name)>>,
   <<Fld(1, "x", I32Name)>>, <<Auto("x", I32Name), Fld(-1, "y", I32Name)>>,
   <<Auto("x", I32Name), Auto("x", I32Name)>>}
AttributeInputs ==
  UNION {{in, Strictly(in)} : in \in
    {In(Main :> SourceFile(<<>>, "", <<Struct("struct", "S", <<e, f, g>>)>>),
        <<>>, neg, FALSE, Cpp) :
       e \in {Fld(1, "e", I32Name), Auto("e", I32Name), Fld(-2, "e", I32Name)},
       f \in UNION {{f, Attrs(f, attrs)} : f \in {Fld(2, "f", I32Name), Auto("f", I32Name)},
                                          attrs \in AttributeLists},
       g \in {Auto("g", I32Name), Fld(3, "g", I32Name), Attrs(Auto("g", I32Name), <<>>)},
       neg \in BOOLEAN}}

(* Pairs of definitions in one file.                                       *)
Defs(a, b) ==
  {Struct("struct", a, <<Req(Fld(1, "f", <<b>>))>>),
   Struct("union", a, <<Req(Fld(1, "f", I32Name)), Dflt(Fld(2, "g", I32Name), Number(1))>>),
   Struct("union", a, <<Dflt(Fld(1, "f", I32Name), Number(1)), Dflt(Fld(2, "g", I32Name), Number(1))>>),
   Struct("exception", a, <<Auto("f", <<a>>)>>),
   TypeDef(a, <<b>>), TypeDef(a, I32Name),
   Enum(a, <<Numbered("v", 3), Enumerator("w")>>),
   Enum(a, <<Enumerator("w"), Enumerator("w")>>),
   Enum(a, <<Enumerator("w"), Numbered("v", 0)>>),
   Const(a, I32Name, Number(3)), Const(a, <<b>>, Number(3)), Const(a, <<b>>, Number(7)),
   Const(a, I32Name, Ref(<<b>>)), Const(a, I32Name, Ref(<<b, "w">>)),
   Const(a, <<b>>, Ref(<<b, "w">>)), Const(a, <<b>>, Ref(<<b>>)),
   Struct("struct", a, <<Dflt(Fld(1, "f", <<b>>), Ref(<<b, "v">>))>>),
   Service(a, <<b>>, <<>>, <<>>),
   Service(a, <<>>, <<Fld(1, "f", I32Name)>>, <<Opt(Fld(1, "e", <<b>>))>>)}
PairInputs ==
  {In(Main :> SourceFile(<<>>, "", <<d, e>>), <<>>, FALSE, FALSE, targets) :
     d \in Defs("A", "B"), e \in Defs("B", "A") \cup Defs("A", "B"),
     targets \in {Cpp, <<"go", "cobol", "cpp">>}}

(* Three constants: the third may need a value that was never set.         *)
ConstInputs ==
  {In(Main :> SourceFile(<<>>, "", <<Enum("E", <<Enumerator("v"), Enumerator("w")>>),
                                Enum("F", <<Enumerator("w")>>), TypeDef("T", type),
                                Const("c", <<"E">>, value), Const("d", <<"T">>, Ref(<<"c">>)),
                                last>>),
      <<>>, FALSE, FALSE, <<"cpp", "java">>) :
     type \in {I32Name, <<"T">>, <<"U">>}, value \in {Ref(<<"E", "w">>), Ref(<<"F", "w">>), Number(1)},
     last \in {Const("e", I32Name, Ref(<<"d">>)), Const("e", <<"T">>, Number(1)),
               Struct("struct", "e", <<Dflt(Fld(1, "f", I32Name), Ref(<<"d">>))>>),
               Struct("struct", "e", <<Dflt(Fld(1, "f", <<"T">>), Ref(<<"c">>))>>)}}

(* Trees of includes.                                                      *)
Users ==
  {<<Struct("struct", "S", <<Fld(1, "f", <<"a", "T">>), Fld(2, "g", <<"S">>)>>)>>,
   <<Const("k", I32Name, Ref(<<"a", "c">>)), Const("T", I32Name, Number(9))>>,
   <<Const("k", <<"a", "E">>, Ref(<<"a", "E", "w">>))>>,
   <<Service("S", <<"a", "T">>, <<>>, <<Fld(1, "e", <<"a", "T">>)>>)>>,
   <<Struct("struct", "T", <<>>), Struct("struct", "S", <<Fld(1, "f", <<"T">>)>>)>>}
As ==
  {<<Struct("exception", "T", <<Auto("f", <<"T">>), Auto("g", I32Name)>>)>>,
   <<Enum("E", <<Enumerator("v"), Enumerator("w")>>), Const("c", I32Name, Ref(<<"E", "w">>))>>,
   <<Service("T", <<>>, <<>>, <<>>)>>}
Bs ==
  {<<Struct("struct", "W", <<Fld(1, "f", <<"a", "T">>)>>), TypeDef("U", <<"W">>)>>,
   <<Struct("struct", "T", <<>>), TypeDef("U", <<"T">>)>>,
   <<Const("c", I32Name, Ref(<<"a", "c">>)), Enum("G", <<Enumerator("w")>>)>>}
TreeInputs ==
  {In((Main :> SourceFile(mainIncludes, "m", user)) @@ (XA :> SourceFile(aIncludes, namespace, a))
      @@ (YA :> SourceFile(<<>>, "", <<Struct("exception", "T", <<>>)>>))
      @@ (XB :> SourceFile(bIncludes, namespace, b)),
      <<<<"y">>>>, FALSE, recurse, <<"java", "go">>) :
     mainIncludes \in {<<XA>>, <<XB, XA>>, <<XA, XB>>, <<XA, YA>>, <<<<"a">>>>, <<<<"z">>>>},
     bIncludes \in {<<<<"a">>>>, <<<<"b">>>>}, aIncludes \in {<<>>, <<<<"b">>>>}, namespace \in {"m", "x"},
     user \in Users, a \in As, b \in Bs, recurse \in BOOLEAN}

MCInputs == ListInputs \cup AttributeInputs \cup PairInputs \cup ConstInputs \cup TreeInputs
==============================================================================
