------------------------- MODULE MCGeneratedStructs -------------------------
(* The probe types of a run.                                               *)
EXTENDS GeneratedStructs

MCProbeTypes ==
  {Base("bool"), Base("i32"), Base("i64"), Base("string"), Base("binary"),
   Base("enum"), Base("struct"), Typedef(Base("bool")), Typedef(Base("enum")),
   Typedef(Base("binary")), Typedef(Base("struct")), ListOf(Base("binary")),
   ListOf(Base("enum")), SetOf(Typedef(Base("enum"))), Typedef(ListOf(Base("i64"))),
   Typedef(MapOf(Base("i32"), Base("bool")))}
=============================================================================
