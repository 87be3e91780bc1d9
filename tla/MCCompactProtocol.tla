-------------------------- MODULE MCCompactProtocol --------------------------
(***************************************************************************)
(* The families of messages that TLC checks CompactProtocol on: integers   *)
(* have Width bits, 30 of which TLC can compute with.                      *)
(***************************************************************************)
EXTENDS CompactProtocol

Largest == 2^(Width - 1) - 1
Smallest == -(2^(Width - 1))

OneCall == {<<CALL, 1, 3>>}
FewValues == [BYTE |-> {-128}, STRING |-> {2}, I32 |-> {64}]

(* Ids: differences up to 15, of 16 and above, ids whose varint has one,   *)
(* two and three bytes, negative ones; nested structs, and booleans.       *)
IdFamily ==
    [headers |-> OneCall, ids |-> {-65, -1, 1, 15, 16, 17, 32767},
     types |-> {"BOOL", "BYTE", "STRUCT"}, values |-> FewValues, sizes |-> {0},
     fields |-> 3, depth |-> 3, multiplexed |-> FALSE]

(* Values: the edges of the varint's bytes and of the integer, and sizes   *)
(* up to 14, which are in the header of a list, and above.                 *)
ValueFamily ==
    [headers |-> OneCall, ids |-> {1}, types |-> TTypes,
     values |-> [BYTE |-> {-128, -1, 127}, STRING |-> {0, 1, 128},
                 I32 |-> {-65, -64, -1, 0, 63, 64, Largest, Smallest}],
     sizes |-> {0, 2, 14, 15}, fields |-> 1, depth |-> 2,
     multiplexed |-> FALSE]

(* Lists and structs in lists and structs, and maps, with a field behind   *)
(* them.                                                                   *)
NestedFamily ==
    [headers |-> OneCall, ids |-> {1, 2}, types |-> {"BOOL", "LIST", "STRUCT"},
     values |-> FewValues, sizes |-> {0, 2}, fields |-> 3, depth |-> 4,
     multiplexed |-> FALSE]
MapFamily == [NestedFamily EXCEPT !.types = {"BOOL", "MAP"}, !.fields = 1]

(* Headers: each type of message, and every sort of sequence id.           *)
HeaderFamily ==
    [headers |-> {CALL, REPLY, EXCEPTION, ONEWAY} \X {0, 1, 128, -1, Largest, Smallest} \X {0, 1, 128},
     ids |-> {1}, types |-> {"BOOL", "STRING"}, values |-> FewValues, sizes |-> {0},
     fields |-> 1, depth |-> 1, multiplexed |-> FALSE]

RequestFamily ==
    [HeaderFamily EXCEPT !.headers = {h \in @ : h[1] \in {CALL, ONEWAY}},
                         !.multiplexed = TRUE]

MCFamilies == {IdFamily, ValueFamily, NestedFamily, MapFamily, HeaderFamily, RequestFamily}
==============================================================================
