------------------------ MODULE CompactProtocolProofs ------------------------
(***************************************************************************)
(* Proofs for TCompactProtocol: whatever structs, lists and maps a message *)
(* has inside one another, and wherever booleans are in them, the reader   *)
(* reads what was written, and both protocol objects are as new when the   *)
(* message ends.                                                           *)
(*                                                                         *)
(* First the objects, whatever the bytes are: one at work has put aside    *)
(* one id for each struct it is in, that of the outermost one is 0, and a  *)
(* boolean only until the value that is due next.                          *)
(*                                                                         *)
(* Then the bytes: integers as varints, and how each header and value is   *)
(* taken off the wire when other bytes are behind it.  At last the calls:  *)
(* each was written with bytes that mean it to a reader whose object and   *)
(* whose types to come are those of the writer at that time.               *)
(***************************************************************************)
EXTENDS CompactProtocol, FiniteSets, FiniteSetTheorems, NaturalsInduction, SequenceTheorems,
        TLAPS, WellFoundedInduction

(* A sequence, of whatever elements.                                       *)
IsSequence(s) == s \in Seq({s[i] : i \in 1..Len(s)})

IsEntry(e) == e = [ids |-> e.ids, types |-> e.types, plain |-> e.plain, depth |-> e.depth]

(* What is to be finished.                                                 *)
IsTodo(t) == IsSequence(t) /\ \A i \in 1..Len(t) : IsEntry(t[i])

(* The structs in t, by their heights: those stay when something is put in *)
(* front of t.                                                             *)
Structs(t) == {h \in 1..Len(t) : t[Len(t) + 1 - h].types = <<>>}

IsProtocol(p) ==
    /\ p = [lastFieldId |-> p.lastFieldId, lastField |-> p.lastField, boolean |-> p.boolean]
    /\ IsSequence(p.lastField)

(* An object that writes or reads what is in t.                            *)
Stacked(p, t) ==
    /\ Len(p.lastField) = Cardinality(Structs(t))
    /\ p.lastField = <<>> => p.lastFieldId = 0
    /\ p.lastField # <<>> => p.lastField[1] = 0
    /\ p.boolean # <<>> =>
         /\ p.lastField # <<>>
         /\ t # <<>> /\ Head(t).types # <<>> /\ Head(Head(t).types) = "BOOL"

Inv ==
    /\ IsTodo(todo)
    /\ IsProtocol(out) /\ IsProtocol(in)
    /\ phase \in Phases
    /\ IF phase = "writing" THEN Stacked(out, todo) ELSE out = NewProtocol
    /\ IF phase = "reading" THEN Stacked(in, todo) ELSE in = NewProtocol
    /\ phase \notin {"writing", "reading"} => todo = <<>>

------------------------------------------------------------------------------
(* Sequences.                                                              *)
LEMMA SequenceOf ==
  ASSUME NEW S, NEW s \in Seq(S)
  PROVE  IsSequence(s)
<1>1. Len(s) \in Nat /\ \A i \in 1..Len(s) : s[i] \in S
  BY LenProperties, ElementOfSeq
<1>2. s = [i \in 1..Len(s) |-> s[i]]
  BY LenProperties
<1>3. [i \in 1..Len(s) |-> s[i]] \in [1..Len(s) -> {s[i] : i \in 1..Len(s)}]
  OBVIOUS
<1>4. s \in UNION {[1..n -> {s[i] : i \in 1..Len(s)}] : n \in Nat}
  BY <1>1, <1>2, <1>3
<1> QED
  BY <1>4, SeqDef DEF IsSequence

(* The empty sequence, of nothing.                                         *)
LEMMA EmptyIsSequence == IsSequence(<<>>) /\ Len(<<>>) = 0
<1>1. <<>> \in Seq({}) /\ Len(<<>>) = 0
  BY EmptySeq
<1> QED
  BY <1>1, SequenceOf

(* An element more at the end: an id is pushed.                            *)
LEMMA Pushed ==
  ASSUME NEW s, IsSequence(s), NEW e
  PROVE  /\ IsSequence(Append(s, e))
         /\ Len(s) \in Nat
         /\ Len(Append(s, e)) = Len(s) + 1
         /\ Append(s, e) # <<>>
         /\ Append(s, e)[1] = IF s = <<>> THEN e ELSE s[1]
<1> DEFINE S == {s[i] : i \in 1..Len(s)} \cup {e}
<1>1. s \in Seq(S) /\ e \in S
  <2>1. s \in Seq({s[i] : i \in 1..Len(s)})
    BY DEF IsSequence
  <2>2. {s[i] : i \in 1..Len(s)} \subseteq S
    OBVIOUS
  <2> QED
    BY <2>1, <2>2, SeqMonotonic
<1> HIDE DEF S
<1>2. /\ Append(s, e) \in Seq(S) /\ Len(Append(s, e)) = Len(s) + 1
      /\ \A i \in 1..Len(s) : Append(s, e)[i] = s[i]
      /\ Append(s, e)[Len(s) + 1] = e
  BY <1>1, AppendProperties
<1>3. Len(s) \in Nat /\ (s = <<>> <=> Len(s) = 0)
  BY <1>1, LenProperties, EmptySeq
<1>4. Append(s, e) # <<>>
  BY <1>2, <1>3, EmptySeq
<1>5. IsSequence(Append(s, e))
  BY <1>2, SequenceOf
<1>6. Append(s, e)[1] = IF s = <<>> THEN e ELSE s[1]
  BY <1>2, <1>3
<1> QED
  BY <1>2, <1>3, <1>4, <1>5, <1>6

(* The last element less: the id is taken back.                            *)
LEMMA Popped ==
  ASSUME NEW s, IsSequence(s), s # <<>>
  PROVE  LET q == SubSeq(s, 1, Len(s) - 1)
         IN  /\ IsSequence(q)
             /\ Len(s) \in Nat \ {0}
             /\ Len(q) = Len(s) - 1
             /\ q = <<>> <=> Len(s) = 1
             /\ q # <<>> => q[1] = s[1]
<1> DEFINE S == {s[i] : i \in 1..Len(s)}
           q == SubSeq(s, 1, Len(s) - 1)
<1>1. s \in Seq(S)
  BY DEF IsSequence
<1> HIDE DEF S
<1>2. Len(s) \in Nat \ {0}
  BY <1>1, EmptySeq
<1>3. /\ q \in Seq(S)
      /\ Len(q) = Len(s) - 1
      /\ \A i \in 1..(Len(s) - 1) : q[i] = s[i]
  BY <1>1, <1>2, SubSeqProperties
<1>4. q = <<>> <=> Len(q) = 0
  BY <1>3, EmptySeq
<1> HIDE DEF q
<1>5. IsSequence(q)
  BY <1>3, SequenceOf
<1>6. q = <<>> <=> Len(s) = 1
  BY <1>2, <1>3, <1>4
<1>7. q # <<>> => q[1] = s[1]
  BY <1>2, <1>3, <1>6
<1>8. IsSequence(q) /\ Len(s) \in Nat \ {0} /\ Len(q) = Len(s) - 1
      /\ (q = <<>> <=> Len(s) = 1) /\ (q # <<>> => q[1] = s[1])
  BY <1>2, <1>3, <1>5, <1>6, <1>7
<1> QED
  BY <1>8 DEF q

------------------------------------------------------------------------------
(* What is to be finished.                                                 *)
LEMMA StructsFinite ==
  ASSUME NEW t, IsTodo(t)
  PROVE  /\ Len(t) \in Nat
         /\ t = <<>> <=> Len(t) = 0
         /\ IsFiniteSet(Structs(t))
         /\ Cardinality(Structs(t)) \in Nat
<1>1. t \in Seq({t[i] : i \in 1..Len(t)})
  BY DEF IsTodo, IsSequence
<1>2. Len(t) \in Nat /\ (t = <<>> <=> Len(t) = 0)
  BY <1>1, LenProperties, EmptySeq
<1>3. IsFiniteSet(1..Len(t))
  BY <1>2, FS_Interval
<1>4. Structs(t) \in SUBSET (1..Len(t))
  BY DEF Structs
<1>5. IsFiniteSet(Structs(t))
  BY <1>3, <1>4, FS_Subset
<1> QED
  BY <1>2, <1>5, FS_CardinalityType

(* Something is put in front.                                              *)
LEMMA InFront ==
  ASSUME NEW t, IsTodo(t), NEW e, IsEntry(e)
  PROVE  LET more == <<e>> \o t
         IN  /\ IsTodo(more)
             /\ more # <<>> /\ Head(more) = e /\ Tail(more) = t
             /\ Len(more) = Len(t) + 1
             /\ Structs(more) = IF e.types = <<>> THEN Structs(t) \cup {Len(t) + 1}
                                ELSE Structs(t)
<1> DEFINE S == {t[i] : i \in 1..Len(t)} \cup {e}
           more == <<e>> \o t
<1>1. t \in Seq(S) /\ e \in S
  <2>1. t \in Seq({t[i] : i \in 1..Len(t)})
    BY DEF IsTodo, IsSequence
  <2>2. {t[i] : i \in 1..Len(t)} \subseteq S
    OBVIOUS
  <2> QED
    BY <2>1, <2>2, SeqMonotonic
<1> HIDE DEF S
<1>2. Len(t) \in Nat
  BY StructsFinite
<1>3. /\ more \in Seq(S)
      /\ Len(more) = Len(t) + 1
      /\ more[1] = e
      /\ \A i \in 1..Len(t) : more[i + 1] = t[i]
  BY <1>1, <1>2
<1>4. more # <<>> /\ Head(more) = e /\ Tail(more) = t
  <2>1. more # <<>>
    BY <1>2, <1>3, EmptySeq
  <2>2. /\ Head(more) = more[1]
        /\ Tail(more) \in Seq(S)
        /\ Len(Tail(more)) = Len(more) - 1
        /\ \A i \in 1..Len(Tail(more)) : Tail(more)[i] = more[i + 1]
    BY <1>3, <2>1, HeadTailProperties
  <2>3. Tail(more) = t
    BY <1>1, <1>2, <1>3, <2>2, SeqEqual
  <2> QED
    BY <1>3, <2>1, <2>2, <2>3
<1> HIDE DEF more
<1>5. IsSequence(more)
  BY <1>3, SequenceOf
<1>6. \A i \in 1..Len(more) : more[i] = IF i = 1 THEN e ELSE t[i - 1]
  BY <1>2, <1>3
<1>7. \A i \in 1..Len(more) : IsEntry(more[i])
  <2> SUFFICES ASSUME NEW i \in 1..Len(more)
               PROVE  IsEntry(more[i])
    OBVIOUS
  <2>1. CASE i = 1
    BY <1>3, <2>1
  <2>2. CASE i # 1
    <3>1. i - 1 \in 1..Len(t) /\ more[i] = t[i - 1]
      BY <1>2, <1>3, <1>6, <2>2
    <3> QED
      BY <3>1 DEF IsTodo
  <2> QED
    BY <2>1, <2>2
<1>8. \A h \in 1..Len(more) :
        more[Len(more) + 1 - h] = IF h = Len(t) + 1 THEN e ELSE t[Len(t) + 1 - h]
  BY <1>2, <1>3, <1>6
<1>9. Structs(more) = IF e.types = <<>> THEN Structs(t) \cup {Len(t) + 1} ELSE Structs(t)
  <2>1. Structs(more) = {h \in 1..(Len(t) + 1) :
                           IF h = Len(t) + 1 THEN e.types = <<>>
                           ELSE t[Len(t) + 1 - h].types = <<>>}
    BY <1>3, <1>8 DEF Structs
  <2>2. \A h : h \in 1..(Len(t) + 1) /\ h # Len(t) + 1 <=> h \in 1..Len(t)
    BY <1>2
  <2> QED
    BY <1>2, <2>1, <2>2 DEF Structs
<1>10. /\ IsTodo(more)
       /\ more # <<>> /\ Head(more) = e /\ Tail(more) = t
       /\ Len(more) = Len(t) + 1
       /\ Structs(more) = IF e.types = <<>> THEN Structs(t) \cup {Len(t) + 1} ELSE Structs(t)
  BY <1>3, <1>4, <1>5, <1>7, <1>9 DEF IsTodo
<1> QED
  BY <1>10 DEF more

(* What is in front is taken away.                                         *)
LEMMA Behind ==
  ASSUME NEW t, IsTodo(t), t # <<>>
  PROVE  /\ IsEntry(Head(t))
         /\ IsTodo(Tail(t))
         /\ Len(Tail(t)) = Len(t) - 1
         /\ Structs(Tail(t)) = Structs(t) \ {Len(t)}
         /\ Len(t) \in Structs(t) <=> Head(t).types = <<>>
<1> DEFINE S == {t[i] : i \in 1..Len(t)}
<1>1. t \in Seq(S)
  BY DEF IsTodo, IsSequence
<1> HIDE DEF S
<1>2. /\ Head(t) = t[1]
      /\ Tail(t) \in Seq(S)
      /\ Len(t) \in Nat \ {0}
      /\ Len(Tail(t)) = Len(t) - 1
      /\ \A i \in 1..(Len(t) - 1) : Tail(t)[i] = t[i + 1]
  BY <1>1, HeadTailProperties, EmptySeq
<1>3. IsEntry(Head(t))
  BY <1>2 DEF IsTodo
<1>4. IsSequence(Tail(t))
  BY <1>2, SequenceOf
<1>5. \A i \in 1..Len(Tail(t)) : IsEntry(Tail(t)[i])
  BY <1>2 DEF IsTodo
<1>6. \A h \in 1..(Len(t) - 1) : Tail(t)[Len(t) - h] = t[Len(t) + 1 - h]
  BY <1>2
<1>7. Structs(Tail(t)) = Structs(t) \ {Len(t)}
  BY <1>2, <1>6 DEF Structs
<1>8. Len(t) \in Structs(t) <=> Head(t).types = <<>>
  BY <1>2 DEF Structs
<1> QED
  BY <1>2, <1>3, <1>4, <1>5, <1>7, <1>8 DEF IsTodo

(* An entry of which a part is changed.                                    *)
LEMMA EntryChanged ==
  ASSUME NEW e, IsEntry(e), NEW v
  PROVE  /\ IsEntry([e EXCEPT !.types = v]) /\ [e EXCEPT !.types = v].types = v
         /\ IsEntry([e EXCEPT !.ids = v]) /\ [e EXCEPT !.ids = v].types = e.types
BY DEF IsEntry

(* A value is dealt with: no struct begins or ends.                        *)
LEMMA ValueDone ==
  ASSUME IsTodo(todo), todo # <<>>, ~InStruct
  PROVE  IsTodo(AfterValue) /\ Structs(AfterValue) = Structs(todo)
<1> DEFINE left == Tail(Head(todo).types)
           e == [Head(todo) EXCEPT !.types = left]
<1>1. Head(todo).types # <<>>
  BY DEF InStruct
<1>2. /\ IsEntry(Head(todo)) /\ IsTodo(Tail(todo))
      /\ Len(Tail(todo)) = Len(todo) - 1
      /\ Structs(Tail(todo)) = Structs(todo) \ {Len(todo)}
      /\ Len(todo) \notin Structs(todo)
  BY <1>1, Behind
<1>3. Structs(Tail(todo)) = Structs(todo)
  BY <1>2
<1>4. CASE left = <<>>
  BY <1>2, <1>3, <1>4 DEF AfterValue
<1>5. CASE left # <<>>
  <2>1. IsEntry(e) /\ e.types = left
    BY <1>2, EntryChanged
  <2>2. AfterValue = <<e>> \o Tail(todo)
    BY <1>5 DEF AfterValue
  <2> HIDE DEF e, left
  <2>3. IsTodo(<<e>> \o Tail(todo)) /\ Structs(<<e>> \o Tail(todo)) = Structs(Tail(todo))
    BY <1>2, <1>5, <2>1, InFront
  <2> QED
    BY <1>3, <2>2, <2>3
<1> QED
  BY <1>4, <1>5

(* So it is when a list or a map begins, which are not counted.            *)
LEMMA ContainerBegun ==
  ASSUME IsTodo(todo), todo # <<>>, ~InStruct, NEW types, NEW isPlain
  PROVE  LET t == InsideContainer(types, isPlain) \o AfterValue
         IN  IsTodo(t) /\ Structs(t) = Structs(todo)
<1>1. IsTodo(AfterValue) /\ Structs(AfterValue) = Structs(todo)
  BY ValueDone
<1>2. CASE types = <<>>
  <2>1. InsideContainer(types, isPlain) \o AfterValue = AfterValue
    BY <1>1, <1>2, ConcatEmptySeq DEF InsideContainer, IsTodo, IsSequence
  <2> QED
    BY <1>1, <2>1
<1>3. CASE types # <<>>
  <2> DEFINE e == Elements(types, isPlain, Head(todo).depth + 1)
  <2>1. IsEntry(e) /\ e.types # <<>>
    BY <1>3 DEF IsEntry, Elements
  <2>2. InsideContainer(types, isPlain) = <<e>>
    BY <1>3 DEF InsideContainer
  <2> HIDE DEF e
  <2>3. IsTodo(<<e>> \o AfterValue) /\ Structs(<<e>> \o AfterValue) = Structs(AfterValue)
    BY <1>1, <2>1, InFront
  <2> QED
    BY <1>1, <2>2, <2>3
<1> QED
  BY <1>2, <1>3

(* A field begins: its value is due.                                       *)
LEMMA FieldBegun ==
  ASSUME IsTodo(todo), InStruct, NEW type, NEW t, t # <<>>, IsTodo(t), Structs(t) = Structs(todo)
  PROVE  LET more == InsideField(type) \o t
         IN  /\ IsTodo(more) /\ more # <<>> /\ Structs(more) = Structs(todo)
             /\ Head(more).types = <<type>>
<1> DEFINE e == Elements(<<type>>, FALSE, Head(todo).depth)
<1>1. IsEntry(e) /\ e.types = <<type>>
  BY DEF IsEntry, Elements
<1>2. InsideField(type) = <<e>>
  BY DEF InsideField
<1>3. <<type>> # <<>>
  OBVIOUS
<1> HIDE DEF e
<1>4. /\ IsTodo(<<e>> \o t) /\ <<e>> \o t # <<>> /\ Structs(<<e>> \o t) = Structs(t)
      /\ Head(<<e>> \o t) = e
  BY <1>1, <1>3, InFront
<1> QED
  BY <1>1, <1>2, <1>4

(* The writer also strikes the field out of those of the struct.           *)
LEMMA FieldStruck ==
  ASSUME IsTodo(todo), InStruct, NEW ids
  PROVE  LET t == <<[Head(todo) EXCEPT !.ids = ids]>> \o Tail(todo)
         IN  IsTodo(t) /\ t # <<>> /\ Structs(t) = Structs(todo)
<1> DEFINE e == [Head(todo) EXCEPT !.ids = ids]
<1>1. todo # <<>> /\ Head(todo).types = <<>>
  BY DEF InStruct
<1>2. /\ IsEntry(Head(todo)) /\ IsTodo(Tail(todo))
      /\ Len(Tail(todo)) = Len(todo) - 1
      /\ Structs(Tail(todo)) = Structs(todo) \ {Len(todo)}
      /\ Len(todo) \in Structs(todo)
  BY <1>1, Behind
<1>3. IsEntry(e) /\ e.types = <<>>
  BY <1>1, <1>2, EntryChanged
<1> HIDE DEF e
<1>4. /\ IsTodo(<<e>> \o Tail(todo)) /\ <<e>> \o Tail(todo) # <<>>
      /\ Structs(<<e>> \o Tail(todo)) = Structs(Tail(todo)) \cup {Len(Tail(todo)) + 1}
  BY <1>2, <1>3, InFront
<1>5. Len(todo) \in Nat
  BY StructsFinite
<1>6. Structs(<<e>> \o Tail(todo)) = Structs(todo)
  <2>1. Len(Tail(todo)) + 1 = Len(todo)
    BY <1>2, <1>5
  <2> QED
    BY <1>2, <1>4, <2>1
<1> QED
  BY <1>4, <1>6 DEF e

(* Two entries are put in front one after the other.                       *)
LEMMA TwoInFront ==
  ASSUME NEW t, IsTodo(t), NEW d, NEW e
  PROVE  <<d>> \o <<e>> \o t = <<d>> \o (<<e>> \o t)
<1> DEFINE S == {t[i] : i \in 1..Len(t)} \cup {d, e}
<1>1. t \in Seq(S) /\ d \in S /\ e \in S
  <2>1. t \in Seq({t[i] : i \in 1..Len(t)})
    BY DEF IsTodo, IsSequence
  <2>2. {t[i] : i \in 1..Len(t)} \subseteq S
    OBVIOUS
  <2> QED
    BY <2>1, <2>2, SeqMonotonic
<1> HIDE DEF S
<1>2. <<d>> \in Seq(S) /\ <<e>> \in Seq(S)
  BY <1>1
<1> QED
  BY <1>1, <1>2, ConcatAssociative

------------------------------------------------------------------------------
(* What a call does to the object it is made on.                           *)
LEMMA ObjectTyped ==
  ASSUME NEW p, IsProtocol(p)
  PROVE  p \in [lastFieldId : {p.lastFieldId}, lastField : {p.lastField},
                boolean : {p.boolean}]
<1> DEFINE Id == p.lastFieldId
           Ids == p.lastField
           Aside == p.boolean
<1>1. p = [lastFieldId |-> Id, lastField |-> Ids, boolean |-> Aside]
  BY DEF IsProtocol
<1> HIDE DEF Id, Ids, Aside
<1>2. p \in [lastFieldId : {Id}, lastField : {Ids}, boolean : {Aside}]
  BY <1>1
<1> QED
  BY <1>2 DEF Id, Ids, Aside

(* An object is known by its members.                                      *)
LEMMA ObjectIs ==
  ASSUME NEW a, NEW b, NEW c, NEW q \in [lastFieldId : {a}, lastField : {b}, boolean : {c}]
  PROVE  /\ q.lastFieldId = a /\ q.lastField = b /\ q.boolean = c
         /\ q = [lastFieldId |-> a, lastField |-> b, boolean |-> c]
OBVIOUS

(* A boolean is put aside only until the value that is due.                *)
LEMMA NothingAside ==
  ASSUME NEW p, Stacked(p, todo), \/ InStruct
                                  \/ \E type : Due(type) /\ type # "BOOL"
  PROVE  p.boolean = <<>>
BY DEF Stacked, InStruct, Due

(* A call that leaves the object alone, and changes no struct.             *)
LEMMA ObjectUnchanged ==
  ASSUME NEW p, Stacked(p, todo), p.boolean = <<>>, NEW t, Structs(t) = Structs(todo)
  PROVE  Stacked(p, t)
BY DEF Stacked

(* A struct begins: the last id is put aside, and ids start from 0.        *)
LEMMA StructBegun ==
  ASSUME NEW p, IsProtocol(p), Stacked(p, todo), IsTodo(todo), Due("STRUCT"), NEW ids
  PROVE  LET q == [p EXCEPT !.lastField = Append(@, p.lastFieldId), !.lastFieldId = 0]
             t == InsideStruct(ids) \o AfterValue
         IN  IsProtocol(q) /\ IsTodo(t) /\ Stacked(q, t)
<1> DEFINE q == [p EXCEPT !.lastField = Append(@, p.lastFieldId), !.lastFieldId = 0]
           t == InsideStruct(ids) \o AfterValue
           e == Struct(ids, Head(todo).depth + 1)
<1>1. p.boolean = <<>>
  BY NothingAside
<1>2. IsTodo(AfterValue) /\ Structs(AfterValue) = Structs(todo)
  BY ValueDone DEF Due
<1>3. IsEntry(e) /\ e.types = <<>> /\ t = <<e>> \o AfterValue
  BY DEF IsEntry, Struct, InsideStruct
<1> HIDE DEF e
<1>4. IsTodo(t) /\ Structs(t) = Structs(todo) \cup {Len(AfterValue) + 1}
  BY <1>2, <1>3, InFront
<1>5. Cardinality(Structs(t)) = Cardinality(Structs(todo)) + 1
  <2>1. Len(AfterValue) \in Nat /\ IsFiniteSet(Structs(todo))
    BY <1>2, StructsFinite
  <2>2. Len(AfterValue) + 1 \notin Structs(AfterValue)
    BY <2>1 DEF Structs
  <2> QED
    BY <1>2, <1>4, <2>1, <2>2, FS_AddElement
<1>6. /\ IsSequence(Append(p.lastField, p.lastFieldId))
      /\ Len(p.lastField) \in Nat
      /\ Len(Append(p.lastField, p.lastFieldId)) = Len(p.lastField) + 1
      /\ Append(p.lastField, p.lastFieldId) # <<>>
      /\ Append(p.lastField, p.lastFieldId)[1] =
           IF p.lastField = <<>> THEN p.lastFieldId ELSE p.lastField[1]
  BY Pushed DEF IsProtocol
<1>7. /\ q.lastField = Append(p.lastField, p.lastFieldId)
      /\ q.lastFieldId = 0 /\ q.boolean = p.boolean
      /\ q = [lastFieldId |-> q.lastFieldId, lastField |-> q.lastField, boolean |-> q.boolean]
  <2>1. p \in [lastFieldId : {p.lastFieldId}, lastField : {p.lastField},
                boolean : {p.boolean}]
    BY ObjectTyped
  <2>2. q \in [lastFieldId : {0}, lastField : {Append(p.lastField, p.lastFieldId)},
                boolean : {p.boolean}]
    BY <2>1
  <2> HIDE DEF q
  <2> QED
    BY <2>2, ObjectIs
<1> HIDE DEF q, t
<1>8. IsProtocol(q)
  BY <1>6, <1>7 DEF IsProtocol
<1>9. Stacked(q, t)
  BY <1>1, <1>5, <1>6, <1>7 DEF Stacked
<1>10. IsProtocol(q) /\ IsTodo(t) /\ Stacked(q, t)
  BY <1>4, <1>8, <1>9
<1> QED
  BY <1>10 DEF q, t

(* The header of a field goes by: its id is the last one; the value of a   *)
(* boolean may have been put aside with it, or is taken with it.           *)
LEMMA FieldPassed ==
  ASSUME NEW p, IsProtocol(p), Stacked(p, todo), p.lastField # <<>>,
         NEW id, NEW boolean, NEW t, Structs(t) = Structs(todo),
         boolean # <<>> => t # <<>> /\ Head(t).types = <<"BOOL">>
  PROVE  LET q == [p EXCEPT !.lastFieldId = id, !.boolean = boolean]
         IN  IsProtocol(q) /\ Stacked(q, t)
<1> DEFINE q == [p EXCEPT !.lastFieldId = id, !.boolean = boolean]
<1>1. /\ q.lastField = p.lastField /\ q.boolean = boolean
      /\ q = [lastFieldId |-> q.lastFieldId, lastField |-> q.lastField, boolean |-> q.boolean]
  <2>1. p \in [lastFieldId : {p.lastFieldId}, lastField : {p.lastField},
                boolean : {p.boolean}]
    BY ObjectTyped
  <2>2. q \in [lastFieldId : {id}, lastField : {p.lastField},
                boolean : {boolean}]
    BY <2>1
  <2> HIDE DEF q
  <2> QED
    BY <2>2, ObjectIs
<1> HIDE DEF q
<1>2. IsProtocol(q)
  BY <1>1 DEF IsProtocol
<1>3. <<"BOOL">> # <<>> /\ Head(<<"BOOL">>) = "BOOL"
  OBVIOUS
<1>4. Stacked(q, t)
  BY <1>1, <1>3 DEF Stacked
<1> QED
  BY <1>2, <1>4 DEF q

(* In a struct there is an id put aside.                                   *)
LEMMA SomethingStacked ==
  ASSUME NEW p, IsProtocol(p), Stacked(p, todo), IsTodo(todo), InStruct
  PROVE  /\ Len(p.lastField) \in Nat \ {0} /\ p.lastField # <<>>
         /\ IsFiniteSet(Structs(todo)) /\ Len(todo) \in Structs(todo)
<1>1. IsFiniteSet(Structs(todo))
  BY StructsFinite
<1>2. Len(todo) \in Structs(todo)
  BY Behind DEF InStruct
<1>3. Cardinality(Structs(todo)) # 0
  BY <1>1, <1>2, FS_EmptySet
<1>4. p.lastField \in Seq({p.lastField[i] : i \in 1..Len(p.lastField)})
  BY DEF IsProtocol, IsSequence
<1>5. Len(p.lastField) \in Nat /\ (p.lastField = <<>> <=> Len(p.lastField) = 0)
  BY <1>4, LenProperties, EmptySeq
<1> QED
  BY <1>1, <1>2, <1>3, <1>5 DEF Stacked

(* A struct ends: the id put aside last is the last one again; behind the  *)
(* outermost struct the object is as new.                                  *)
LEMMA StructEnded ==
  ASSUME NEW p, IsProtocol(p), Stacked(p, todo), IsTodo(todo), InStruct
  PROVE  LET q == [p EXCEPT !.lastFieldId = p.lastField[Len(p.lastField)],
                            !.lastField = SubSeq(@, 1, Len(@) - 1)]
         IN  /\ IsProtocol(q) /\ IsTodo(Tail(todo))
             /\ IF Tail(todo) = <<>> THEN q = NewProtocol ELSE Stacked(q, Tail(todo))
<1> DEFINE q == [p EXCEPT !.lastFieldId = p.lastField[Len(p.lastField)],
                          !.lastField = SubSeq(@, 1, Len(@) - 1)]
           less == SubSeq(p.lastField, 1, Len(p.lastField) - 1)
<1>1. p.boolean = <<>>
  BY NothingAside
<1>2. /\ Len(p.lastField) \in Nat \ {0} /\ p.lastField # <<>>
      /\ IsFiniteSet(Structs(todo)) /\ Len(todo) \in Structs(todo)
  BY SomethingStacked
<1>3. p.lastField[1] = 0 /\ Len(p.lastField) = Cardinality(Structs(todo))
  BY <1>2 DEF Stacked
<1>4. /\ IsTodo(Tail(todo)) /\ Len(Tail(todo)) = Len(todo) - 1
      /\ Structs(Tail(todo)) = Structs(todo) \ {Len(todo)}
  BY Behind DEF InStruct
<1>5. Cardinality(Structs(Tail(todo))) = Len(p.lastField) - 1
  BY <1>2, <1>3, <1>4, FS_RemoveElement
<1>6. /\ IsSequence(less) /\ Len(less) = Len(p.lastField) - 1
      /\ less = <<>> <=> Len(p.lastField) = 1
      /\ less # <<>> => less[1] = p.lastField[1]
  BY <1>2, Popped DEF IsProtocol
<1>7. /\ q.lastField = less /\ q.boolean = p.boolean
      /\ q.lastFieldId = p.lastField[Len(p.lastField)]
      /\ q = [lastFieldId |-> q.lastFieldId, lastField |-> q.lastField, boolean |-> q.boolean]
  <2>1. p \in [lastFieldId : {p.lastFieldId}, lastField : {p.lastField},
                boolean : {p.boolean}]
    BY ObjectTyped
  <2>2. q \in [lastFieldId : {p.lastField[Len(p.lastField)]}, lastField : {less},
                boolean : {p.boolean}]
    BY <2>1
  <2> HIDE DEF q, less
  <2> QED
    BY <2>2, ObjectIs
<1> HIDE DEF q, less
<1>8. IsProtocol(q)
  BY <1>6, <1>7 DEF IsProtocol
<1>9. less = <<>> => q.lastFieldId = 0
  BY <1>3, <1>6, <1>7
<1>10. Stacked(q, Tail(todo))
  BY <1>1, <1>3, <1>5, <1>6, <1>7, <1>9 DEF Stacked
<1>11. CASE Tail(todo) = <<>>
  <2>1. Len(Tail(todo)) = 0
    BY <1>11, EmptyIsSequence
  <2>2. Structs(Tail(todo)) = {}
    BY <2>1 DEF Structs
  <2>3. Len(p.lastField) = 1
    <3>1. Cardinality(Structs(Tail(todo))) = 0
      BY <2>2, FS_EmptySet
    <3>2. 0 = Len(p.lastField) - 1
      BY <1>5, <3>1, Zenon
    <3> QED
      BY <1>2, <3>2
  <2>4. less = <<>> /\ q.lastFieldId = 0
    BY <1>6, <1>9, <2>3
  <2> QED
    BY <1>1, <1>4, <1>7, <1>8, <1>11, <2>4 DEF NewProtocol, q
<1>12. CASE Tail(todo) # <<>>
  BY <1>4, <1>8, <1>10, <1>12 DEF q
<1> QED
  BY <1>11, <1>12

------------------------------------------------------------------------------
(* A message begins, for either object.                                    *)
LEMMA MessageBegun ==
  /\ IsTodo(<<Message>>) /\ IsProtocol(NewProtocol) /\ Stacked(NewProtocol, <<Message>>)
<1> DEFINE e == Message
<1>1. IsEntry(e) /\ e.types = <<"STRUCT">> /\ <<"STRUCT">> # <<>>
  BY DEF IsEntry, Message, Elements
<1>2. IsTodo(<<>>) /\ Len(<<>>) = 0 /\ Structs(<<>>) = {}
  BY EmptyIsSequence DEF IsTodo, Structs
<1> HIDE DEF e
<1>3. IsTodo(<<e>> \o <<>>) /\ Structs(<<e>> \o <<>>) = {}
  BY <1>1, <1>2, InFront
<1>4. <<e>> \o <<>> = <<e>>
  OBVIOUS
<1>5. NewProtocol = [lastFieldId |-> 0, lastField |-> <<>>, boolean |-> <<>>]
  BY DEF NewProtocol
<1>6. /\ NewProtocol.lastFieldId = 0 /\ NewProtocol.lastField = <<>>
      /\ NewProtocol.boolean = <<>>
  BY <1>5
<1>7. IsProtocol(NewProtocol)
  BY <1>5, <1>6, EmptyIsSequence DEF IsProtocol
<1>8. Stacked(NewProtocol, <<e>>)
  BY <1>3, <1>4, <1>6, EmptyIsSequence, FS_EmptySet DEF Stacked
<1> QED
  BY <1>3, <1>4, <1>7, <1>8 DEF e

(* Both objects are new.                                                   *)
LEMMA InitEstablishesInv ==
  ASSUME Init
  PROVE  Inv
BY MessageBegun, EmptyIsSequence DEF Init, Inv, IsTodo, Phases

(* What a call of the writer inside of its message has to keep.            *)
LEMMA WritesOn ==
  ASSUME Inv, phase = "writing", phase' = "writing", UNCHANGED in,
         IsTodo(todo'), IsProtocol(out'), Stacked(out', todo')
  PROVE  Inv'
BY DEF Inv

(* What a call of the reader inside of its message has to keep.            *)
LEMMA ReadsOn ==
  ASSUME Inv, phase = "reading", phase' = "reading", UNCHANGED out,
         IsTodo(todo'), IsProtocol(in'), Stacked(in', todo')
  PROVE  Inv'
BY DEF Inv

(* A new object begins a message.                                          *)
LEMMA WriteMessageBeginKeepsInv ==
  ASSUME Inv, NEW type, NEW seqid, NEW name, WriteMessageBegin(type, seqid, name)
  PROVE  Inv'
<1>1. /\ phase = "new" /\ phase' = "writing" /\ todo' = <<Message>>
      /\ UNCHANGED <<in, out>>
  BY DEF WriteMessageBegin, Writes
<1>2. out = NewProtocol /\ in = NewProtocol
  BY <1>1 DEF Inv
<1> QED
  BY <1>1, <1>2, MessageBegun DEF Inv, Phases

(* writeStructBegin.                                                       *)
LEMMA WriteStructBeginKeepsInv ==
  ASSUME Inv, WriteStructBegin
  PROVE  Inv'
<1>1. /\ phase = "writing" /\ Due("STRUCT") /\ UNCHANGED <<phase, in>>
      /\ out' = [out EXCEPT !.lastField = Append(@, out.lastFieldId), !.lastFieldId = 0]
  BY DEF WriteStructBegin, Writes
<1>2. PICK ids : todo' = InsideStruct(ids) \o AfterValue
  BY DEF WriteStructBegin
<1>3. IsProtocol(out) /\ Stacked(out, todo) /\ IsTodo(todo)
  BY <1>1 DEF Inv
<1>4. IsProtocol(out') /\ IsTodo(todo') /\ Stacked(out', todo')
  BY <1>1, <1>2, <1>3, StructBegun
<1> QED
  BY <1>1, <1>4, WritesOn

(* writeFieldBegin sends the header, or puts a boolean aside.              *)
LEMMA WriteFieldBeginKeepsInv ==
  ASSUME Inv, NEW id, NEW type, WriteFieldBegin(id, type)
  PROVE  Inv'
<1> DEFINE t == <<[Head(todo) EXCEPT !.ids = @ \ {id}]>> \o Tail(todo)
<1>1. phase = "writing" /\ InStruct /\ UNCHANGED <<phase, in>>
  BY DEF WriteFieldBegin, Writes
<1>2. IsProtocol(out) /\ Stacked(out, todo) /\ IsTodo(todo)
  BY <1>1 DEF Inv
<1>3. IsTodo(t) /\ t # <<>> /\ Structs(t) = Structs(todo)
  BY <1>1, <1>2, FieldStruck
<1>4. todo' = InsideField(type) \o t
  <2>1. todo' = InsideField(type) \o <<[Head(todo) EXCEPT !.ids = @ \ {id}]>> \o Tail(todo)
    BY DEF WriteFieldBegin
  <2>2. IsTodo(Tail(todo))
    BY <1>1, <1>2, Behind DEF InStruct
  <2> QED
    BY <2>1, <2>2, TwoInFront DEF InsideField
<1> HIDE DEF t
<1>5. /\ IsTodo(todo') /\ todo' # <<>> /\ Structs(todo') = Structs(todo)
      /\ Head(todo').types = <<type>>
  BY <1>1, <1>2, <1>3, <1>4, FieldBegun
<1>6. out.lastField # <<>> /\ out.boolean = <<>>
  BY <1>1, <1>2, SomethingStacked, NothingAside
<1>7. CASE type = "BOOL"
  <2>1. out' = [out EXCEPT !.lastFieldId = out.lastFieldId, !.boolean = <<id>>]
    <3>1. out' = [out EXCEPT !.boolean = <<id>>]
      BY <1>7 DEF WriteFieldBegin
    <3> QED
      BY <3>1
  <2> QED
    BY <1>1, <1>2, <1>5, <1>6, <1>7, <2>1, FieldPassed, WritesOn
<1>8. CASE type # "BOOL"
  <2>1. out' = [out EXCEPT !.lastFieldId = id, !.boolean = <<>>]
    <3>1. out' = [out EXCEPT !.lastFieldId = id]
      BY <1>8 DEF WriteFieldBegin
    <3> QED
      BY <1>6, <3>1
  <2> QED
    BY <1>1, <1>2, <1>5, <1>6, <2>1, FieldPassed, WritesOn
<1> QED
  BY <1>7, <1>8

(* writeBool sends the header that was put aside, or a byte.               *)
LEMMA WriteBoolKeepsInv ==
  ASSUME Inv, NEW val, WriteBool(val)
  PROVE  Inv'
<1>1. /\ phase = "writing" /\ Due("BOOL") /\ UNCHANGED <<phase, in>>
      /\ todo' = AfterValue
  BY DEF WriteBool, Writes
<1>2. IsProtocol(out) /\ Stacked(out, todo) /\ IsTodo(todo)
  BY <1>1 DEF Inv
<1>3. IsTodo(todo') /\ Structs(todo') = Structs(todo)
  BY <1>1, <1>2, ValueDone DEF Due
<1>4. CASE out.boolean # <<>>
  <2>1. out' = [out EXCEPT !.lastFieldId = out.boolean[1], !.boolean = <<>>]
    BY <1>4 DEF WriteBool
  <2>2. out.lastField # <<>>
    BY <1>2, <1>4 DEF Stacked
  <2> QED
    BY <1>1, <1>2, <1>3, <2>1, <2>2, FieldPassed, WritesOn
<1>5. CASE out.boolean = <<>>
  <2>1. out' = out
    BY <1>5 DEF WriteBool
  <2> QED
    BY <1>1, <1>2, <1>3, <1>5, <2>1, ObjectUnchanged, WritesOn
<1> QED
  BY <1>4, <1>5

(* The other values, and the headers of lists and maps.                    *)
LEMMA WriteValueKeepsInv ==
  ASSUME Inv, \/ \E type \in Scalars \ {"BOOL"} : \E val : WriteScalar(type, val)
              \/ \E elem, size : WriteListBegin(elem, size)
              \/ \E key, val, size : WriteMapBegin(key, val, size)
  PROVE  Inv'
<1>1. /\ phase = "writing" /\ UNCHANGED <<phase, in, out>>
      /\ \E type : Due(type) /\ type # "BOOL"
  <2>1. phase = "writing" /\ UNCHANGED <<phase, in, out>>
    BY DEF WriteScalar, WriteListBegin, WriteMapBegin, Writes
  <2>2. (\E type \in Scalars \ {"BOOL"} : Due(type)) \/ Due("LIST") \/ Due("MAP")
    BY Zenon DEF WriteScalar, WriteListBegin, WriteMapBegin
  <2> QED
    BY <2>1, <2>2
<1>2. IsProtocol(out) /\ Stacked(out, todo) /\ IsTodo(todo)
  BY <1>1 DEF Inv
<1>3. todo # <<>> /\ ~InStruct
  BY <1>1 DEF Due
<1>4. \/ todo' = AfterValue
      \/ \E types, isPlain : todo' = InsideContainer(types, isPlain) \o AfterValue
  BY DEF WriteScalar, WriteListBegin, WriteMapBegin
<1>5. IsTodo(todo') /\ Structs(todo') = Structs(todo)
  BY <1>2, <1>3, <1>4, ValueDone, ContainerBegun
<1>6. out.boolean = <<>>
  BY <1>1, <1>2, NothingAside
<1> QED
  BY <1>1, <1>2, <1>5, <1>6, ObjectUnchanged, WritesOn

(* writeStructEnd.                                                         *)
LEMMA WriteStructEndKeepsInv ==
  ASSUME Inv, WriteStructEnd
  PROVE  Inv'
<1>1. /\ phase = "writing" /\ InStruct /\ UNCHANGED in
      /\ todo' = Tail(todo)
      /\ phase' = IF todo' = <<>> THEN "sent" ELSE "writing"
      /\ out' = [out EXCEPT !.lastFieldId = out.lastField[Len(out.lastField)],
                            !.lastField = SubSeq(@, 1, Len(@) - 1)]
  BY DEF WriteStructEnd, Writes
<1>2. IsProtocol(out) /\ Stacked(out, todo) /\ IsTodo(todo)
  BY <1>1 DEF Inv
<1>3. /\ IsProtocol(out') /\ IsTodo(todo')
      /\ IF todo' = <<>> THEN out' = NewProtocol ELSE Stacked(out', todo')
  BY <1>1, <1>2, StructEnded
<1> QED
  BY <1>1, <1>3 DEF Inv, Phases

------------------------------------------------------------------------------
(* The reader begins, or its message is refused.                           *)
LEMMA ReadMessageBeginKeepsInv ==
  ASSUME Inv, ReadMessageBegin
  PROVE  Inv'
<1>1. /\ phase = "sent" /\ UNCHANGED <<in, out>>
      /\ \/ phase' = "refused" /\ UNCHANGED todo
         \/ phase' = "reading" /\ todo' = <<Message>>
  BY DEF ReadMessageBegin, Reads
<1>2. out = NewProtocol /\ in = NewProtocol
  BY <1>1 DEF Inv
<1> QED
  BY <1>1, <1>2, MessageBegun DEF Inv, Phases

(* readStructBegin.                                                        *)
LEMMA ReadStructBeginKeepsInv ==
  ASSUME Inv, ReadStructBegin
  PROVE  Inv'
<1>1. /\ phase = "reading" /\ Due("STRUCT") /\ UNCHANGED <<phase, out>>
      /\ in' = [in EXCEPT !.lastField = Append(@, in.lastFieldId), !.lastFieldId = 0]
      /\ todo' = InsideStruct({}) \o AfterValue
  BY DEF ReadStructBegin, Reads
<1>2. IsProtocol(in) /\ Stacked(in, todo) /\ IsTodo(todo)
  BY <1>1 DEF Inv
<1>3. IsProtocol(in') /\ IsTodo(todo') /\ Stacked(in', todo')
  BY <1>1, <1>2, StructBegun
<1> QED
  BY <1>1, <1>3, ReadsOn

(* readFieldBegin keeps the value of a boolean for readBool.               *)
LEMMA ReadFieldBeginKeepsInv ==
  ASSUME Inv, ReadFieldBegin
  PROVE  Inv'
<1>1. phase = "reading" /\ InStruct /\ UNCHANGED <<phase, out>>
  BY DEF ReadFieldBegin, Reads
<1>2. PICK id, type, val :
        /\ in' = [in EXCEPT !.lastFieldId = id,
                            !.boolean = IF type = "BOOL" THEN <<val>> ELSE @]
        /\ todo' = InsideField(type) \o todo
  BY DEF ReadFieldBegin
<1>3. IsProtocol(in) /\ Stacked(in, todo) /\ IsTodo(todo)
  BY <1>1 DEF Inv
<1>4. /\ IsTodo(todo') /\ todo' # <<>> /\ Structs(todo') = Structs(todo)
      /\ Head(todo').types = <<type>>
  BY <1>1, <1>2, <1>3, FieldBegun DEF InStruct
<1>5. in.lastField # <<>> /\ in.boolean = <<>>
  BY <1>1, <1>3, SomethingStacked, NothingAside
<1>6. PICK boolean :
        /\ in' = [in EXCEPT !.lastFieldId = id, !.boolean = boolean]
        /\ boolean # <<>> => type = "BOOL"
  BY <1>2, <1>5
<1> QED
  BY <1>1, <1>3, <1>4, <1>5, <1>6, FieldPassed, ReadsOn

(* readBool returns the value that was kept, or takes a byte.              *)
LEMMA ReadBoolKeepsInv ==
  ASSUME Inv, ReadBool
  PROVE  Inv'
<1>1. /\ phase = "reading" /\ Due("BOOL") /\ UNCHANGED <<phase, out>>
      /\ todo' = AfterValue
  BY DEF ReadBool, Reads
<1>2. IsProtocol(in) /\ Stacked(in, todo) /\ IsTodo(todo)
  BY <1>1 DEF Inv
<1>3. IsTodo(todo') /\ Structs(todo') = Structs(todo)
  BY <1>1, <1>2, ValueDone DEF Due
<1>4. CASE in.boolean # <<>>
  <2>1. in' = [in EXCEPT !.lastFieldId = in.lastFieldId, !.boolean = <<>>]
    <3>1. in' = [in EXCEPT !.boolean = <<>>]
      BY <1>4 DEF ReadBool
    <3> QED
      BY <3>1
  <2>2. in.lastField # <<>>
    BY <1>2, <1>4 DEF Stacked
  <2> QED
    BY <1>1, <1>2, <1>3, <2>1, <2>2, FieldPassed, ReadsOn
<1>5. CASE in.boolean = <<>>
  <2>1. in' = in
    BY <1>5 DEF ReadBool
  <2> QED
    BY <1>1, <1>2, <1>3, <1>5, <2>1, ObjectUnchanged, ReadsOn
<1> QED
  BY <1>4, <1>5

(* The other values, and the headers of lists and maps.                    *)
LEMMA ReadValueKeepsInv ==
  ASSUME Inv, ReadByte \/ ReadI32 \/ ReadString \/ ReadListBegin \/ ReadMapBegin
  PROVE  Inv'
<1>1. /\ phase = "reading" /\ UNCHANGED <<phase, in, out>>
      /\ \E type : Due(type) /\ type # "BOOL"
  <2>1. phase = "reading" /\ UNCHANGED <<phase, in, out>>
    BY DEF ReadByte, ReadI32, ReadString, ReadListBegin, ReadMapBegin, Reads
  <2>2. Due("BYTE") \/ Due("I32") \/ Due("STRING") \/ Due("LIST") \/ Due("MAP")
    BY Zenon DEF ReadByte, ReadI32, ReadString, ReadListBegin, ReadMapBegin
  <2> QED
    BY <2>1, <2>2
<1>2. IsProtocol(in) /\ Stacked(in, todo) /\ IsTodo(todo)
  BY <1>1 DEF Inv
<1>3. todo # <<>> /\ ~InStruct
  BY <1>1 DEF Due
<1>4. \/ todo' = AfterValue
      \/ \E types, isPlain : todo' = InsideContainer(types, isPlain) \o AfterValue
  BY DEF ReadByte, ReadI32, ReadString, ReadListBegin, ReadMapBegin
<1>5. IsTodo(todo') /\ Structs(todo') = Structs(todo)
  BY <1>2, <1>3, <1>4, ValueDone, ContainerBegun
<1>6. in.boolean = <<>>
  BY <1>1, <1>2, NothingAside
<1> QED
  BY <1>1, <1>2, <1>5, <1>6, ObjectUnchanged, ReadsOn

(* readStructEnd.                                                          *)
LEMMA ReadStructEndKeepsInv ==
  ASSUME Inv, ReadStructEnd
  PROVE  Inv'
<1>1. /\ phase = "reading" /\ InStruct /\ UNCHANGED out
      /\ todo' = Tail(todo)
      /\ phase' = IF todo' = <<>> THEN "done" ELSE "reading"
      /\ in' = [in EXCEPT !.lastFieldId = in.lastField[Len(in.lastField)],
                          !.lastField = SubSeq(@, 1, Len(@) - 1)]
  BY DEF ReadStructEnd, Reads
<1>2. IsProtocol(in) /\ Stacked(in, todo) /\ IsTodo(todo)
  BY <1>1 DEF Inv
<1>3. /\ IsProtocol(in') /\ IsTodo(todo')
      /\ IF todo' = <<>> THEN in' = NewProtocol ELSE Stacked(in', todo')
  BY <1>1, <1>2, StructEnded
<1> QED
  BY <1>1, <1>3 DEF Inv, Phases

------------------------------------------------------------------------------
(* Every step of the writer and of the reader.                             *)
LEMMA NextKeepsInv ==
  ASSUME Inv, Next
  PROVE  Inv'
<1>1. CASE Write
  BY <1>1, WriteMessageBeginKeepsInv, WriteStructBeginKeepsInv, WriteFieldBeginKeepsInv,
     WriteBoolKeepsInv, WriteValueKeepsInv, WriteStructEndKeepsInv DEF Write
<1>2. CASE Read
  BY <1>2, ReadMessageBeginKeepsInv, ReadStructBeginKeepsInv, ReadFieldBeginKeepsInv,
     ReadBoolKeepsInv, ReadValueKeepsInv, ReadStructEndKeepsInv DEF Read
<1>3. CASE Finished
  BY <1>3 DEF Finished, vars, Inv
<1> QED
  BY <1>1, <1>2, <1>3 DEF Next

(* The invariant of both objects, for every family of messages.            *)
THEOREM Invariance == Spec => []Inv
<1>1. Init => Inv
  BY InitEstablishesInv
<1>2. Inv /\ [Next]_vars => Inv'
  <2> SUFFICES ASSUME Inv, [Next]_vars
               PROVE  Inv'
    OBVIOUS
  <2>1. CASE UNCHANGED vars
    BY <2>1 DEF vars, Inv
  <2> QED
    BY <2>1, NextKeepsInv
<1> QED
  BY <1>1, <1>2, PTL DEF Spec

(* Once a message is written or read, the protocol object is as it was     *)
(* before: its field ids and booleans have no effect on the next message,  *)
(* however deep the structs, lists and maps were and whatever a            *)
(* multiplexing processor refused.                                         *)
THEOREM AsNew == Spec => []NothingRemembered
<1>1. Inv => NothingRemembered
  BY DEF Inv, NothingRemembered
<1> QED
  BY <1>1, Invariance, PTL

(* The least of a set of natural numbers.                                  *)
LEMMA Smallest ==
  ASSUME NEW T, T \subseteq Nat, T # {}
  PROVE  \E m \in T : \A k \in Nat : k < m => k \notin T
<1> DEFINE less == OpToRel(<, Nat)
<1>1. \A m, k \in Nat : <<k, m>> \in less <=> k < m
  BY DEF OpToRel
<1>2. IsWellFoundedOn(less, Nat)
  BY NatLessThanWellFounded
<1> HIDE DEF less
<1>3. PICK m \in T : \A k \in T : <<k, m>> \notin less
  BY <1>2, WFMin
<1>4. \A k \in Nat : k < m => k \notin T
  BY <1>1, <1>3
<1> QED
  BY <1>4

------------------------------------------------------------------------------
(* Varints.  The bytes of u, by those of smaller numbers in f.             *)
Coded(f, u) == IF u < 128 THEN <<u>> ELSE <<128 + (u % 128)>> \o f[u \div 128]
CodedTo(f, n) == f = [u \in 0..n |-> Coded(f, u)]

(* A number of more than one byte is sent as a smaller one behind a byte.  *)
LEMMA Shifted ==
  ASSUME NEW u \in Nat, ~(u < 128)
  PROVE  u \div 128 \in Nat /\ u \div 128 < u /\ u \div 128 >= 1
OBVIOUS

(* There is one way to code the numbers up to n.                           *)
LEMMA CodedAlike ==
  ASSUME NEW f, NEW h, NEW n \in Nat, NEW m \in Nat, CodedTo(f, n), CodedTo(h, m)
  PROVE  \A u \in Nat : u <= n /\ u <= m => f[u] = h[u]
<1> DEFINE T == {u \in Nat : u <= n /\ u <= m /\ f[u] # h[u]}
<1>1. SUFFICES ASSUME T # {} PROVE FALSE
  OBVIOUS
<1>2. PICK u \in T : \A k \in Nat : k < u => k \notin T
  <2>1. T \subseteq Nat
    OBVIOUS
  <2> HIDE DEF T
  <2> QED
    BY <1>1, <2>1, Smallest
<1>3. u \in Nat /\ u \in 0..n /\ u \in 0..m /\ f[u] # h[u]
  BY <1>2
<1>4. f[u] = Coded(f, u) /\ h[u] = Coded(h, u)
  <2>1. f[u] = [w \in 0..n |-> Coded(f, w)][u] /\ h[u] = [w \in 0..m |-> Coded(h, w)][u]
    BY Zenon DEF CodedTo
  <2> QED
    BY <1>3, <2>1, Zenon
<1>5. CASE u < 128
  BY <1>3, <1>4, <1>5 DEF Coded
<1>6. CASE ~(u < 128)
  <2>1. u \div 128 \in Nat /\ u \div 128 < u
    BY <1>3, <1>6, Shifted
  <2>2. f[u \div 128] = h[u \div 128]
    BY <1>2, <1>3, <2>1
  <2> QED
    BY <1>3, <1>4, <1>6, <2>2, Zenon DEF Coded
<1> QED
  BY <1>5, <1>6

(* And there is a way.                                                     *)
LEMMA CodedSomehow ==
  \A n \in Nat : \E f : CodedTo(f, n)
<1> DEFINE T == {n \in Nat : ~\E f : CodedTo(f, n)}
<1>1. SUFFICES ASSUME T # {} PROVE FALSE
  OBVIOUS
<1>2. PICK n \in T : \A k \in Nat : k < n => k \notin T
  <2>1. T \subseteq Nat
    OBVIOUS
  <2> HIDE DEF T
  <2> QED
    BY <1>1, <2>1, Smallest
<1>3. n \in Nat /\ ~\E f : CodedTo(f, n)
  BY <1>2
<1>4. PICK f : \A u \in Nat : u < n => f[u] = Coded(f, u)
  <2>1. CASE n = 0
    BY <2>1
  <2>2. CASE n # 0
    <3>1. n - 1 \in Nat /\ n - 1 < n
      BY <1>3, <2>2
    <3>2. PICK f : CodedTo(f, n - 1)
      BY <1>2, <3>1
    <3>3. \A u \in Nat : u < n => f[u] = Coded(f, u)
      <4> SUFFICES ASSUME NEW u \in Nat, u < n
                   PROVE  f[u] = Coded(f, u)
        OBVIOUS
      <4>1. u \in 0..(n - 1)
        BY <1>3
      <4>2. f[u] = [w \in 0..(n - 1) |-> Coded(f, w)][u]
        BY <3>2, Zenon DEF CodedTo
      <4> QED
        BY <4>1, <4>2, Zenon
    <3> QED
      BY <3>3
  <2> QED
    BY <2>1, <2>2
<1> DEFINE h == [u \in 0..n |-> IF u < n THEN f[u] ELSE Coded(f, u)]
<1>5. \A u \in 0..n : h[u] = Coded(h, u)
  <2> SUFFICES ASSUME NEW u \in 0..n
               PROVE  h[u] = Coded(h, u)
    OBVIOUS
  <2>1. u \in Nat /\ u <= n
    BY <1>3
  <2>2. h[u] = Coded(f, u)
    BY <1>4, <2>1
  <2>3. CASE u < 128
    BY <2>2, <2>3 DEF Coded
  <2>4. CASE ~(u < 128)
    <3>1. u \div 128 \in Nat /\ u \div 128 < u
      BY <2>1, <2>4, Shifted
    <3>2. h[u \div 128] = f[u \div 128]
      BY <1>3, <2>1, <3>1
    <3> HIDE DEF h
    <3> QED
      BY <2>2, <2>4, <3>2, Zenon DEF Coded
  <2> QED
    BY <2>3, <2>4
<1>6. h = [u \in 0..n |-> Coded(h, u)]
  <2>1. h = [u \in 0..n |-> h[u]]
    OBVIOUS
  <2> HIDE DEF h
  <2> QED
    BY <1>5, <2>1, Zenon
<1> HIDE DEF h
<1> QED
  BY <1>3, <1>6 DEF CodedTo

(* So Varint is what its definition says.                                  *)
LEMMA VarintIs ==
  \A u \in Nat : Varint[u] = Coded(Varint, u)
<1> DEFINE by(n) == CHOOSE f : CodedTo(f, n)
           V == [u \in Nat |-> by(u)[u]]
<1>1. \A n \in Nat : CodedTo(by(n), n)
  BY CodedSomehow
<1>2. \A u \in Nat : V[u] = Coded(V, u)
  <2> SUFFICES ASSUME NEW u \in Nat
               PROVE  V[u] = Coded(V, u)
    OBVIOUS
  <2>1. V[u] = by(u)[u]
    OBVIOUS
  <2>2. by(u)[u] = Coded(by(u), u)
    <3>1. by(u) = [w \in 0..u |-> Coded(by(u), w)]
      BY <1>1 DEF CodedTo
    <3>2. u \in 0..u
      OBVIOUS
    <3>3. by(u)[u] = [w \in 0..u |-> Coded(by(u), w)][u]
      BY <3>1, Zenon
    <3> HIDE DEF by
    <3> QED
      BY <3>2, <3>3, Zenon
  <2>3. CASE u < 128
    BY <2>1, <2>2, <2>3 DEF Coded
  <2>4. CASE ~(u < 128)
    <3>1. u \div 128 \in Nat /\ u \div 128 < u
      BY <2>4, Shifted
    <3>2. V[u \div 128] = by(u \div 128)[u \div 128]
      BY <3>1
    <3>3. CodedTo(by(u), u) /\ CodedTo(by(u \div 128), u \div 128)
      BY <1>1, <3>1
    <3> HIDE DEF by, V
    <3>4. by(u)[u \div 128] = by(u \div 128)[u \div 128]
      BY <3>1, <3>3, CodedAlike
    <3> QED
      BY <2>1, <2>2, <2>4, <3>2, <3>4, Zenon DEF Coded
  <2> QED
    BY <2>3, <2>4
<1>3. V = [u \in Nat |-> Coded(V, u)]
  <2>1. V = [u \in Nat |-> V[u]]
    OBVIOUS
  <2> HIDE DEF V
  <2> QED
    BY <1>2, <2>1, Zenon
<1> HIDE DEF V
<1>4. \E W : W = [u \in Nat |-> IF u < 128 THEN <<u>> ELSE <<128 + (u % 128)>> \o W[u \div 128]]
  BY <1>3 DEF Coded
<1>5. Varint = [u \in Nat |-> IF u < 128 THEN <<u>> ELSE <<128 + (u % 128)>> \o Varint[u \div 128]]
  BY <1>4 DEF Varint
<1>6. \A u \in Nat : Varint[u] = IF u < 128 THEN <<u>> ELSE <<128 + (u % 128)>> \o Varint[u \div 128]
  <2> DEFINE W == Varint
  <2>1. W = [u \in Nat |-> IF u < 128 THEN <<u>> ELSE <<128 + (u % 128)>> \o W[u \div 128]]
    BY <1>5
  <2> HIDE DEF W
  <2>2. \A u \in Nat : W[u] = IF u < 128 THEN <<u>> ELSE <<128 + (u % 128)>> \o W[u \div 128]
    BY <2>1, Zenon
  <2> QED
    BY <2>2 DEF W
<1> QED
  BY <1>6 DEF Coded

(* What is on the wire.                                                    *)
Bytes == Seq(0..255)

(* The number of seven bits of the byte i and of those behind it, in f.    *)
Sevens(b, f, i) == (b[i] % 128) + (IF b[i] < 128 THEN 0 ELSE 128 * f[i + 1])
SumsOf(b, f) == f = [i \in 1..Len(b) |-> Sevens(b, f, i)]

(* The bytes b are those of a varint, and the bits in them make up u.      *)
Varied(b, u) ==
    /\ b \in Bytes /\ Len(b) \in Nat /\ Len(b) >= 1
    /\ \A i \in 1..Len(b) : b[i] < 128 <=> i = Len(b)
    /\ \E f : SumsOf(b, f)
    /\ \A f : SumsOf(b, f) => f[1] = u

(* A number of seven bits is its own varint.                               *)
LEMMA OneByte ==
  ASSUME NEW u \in Nat, u < 128
  PROVE  Varied(<<u>>, u)
<1>1. /\ <<u>> \in Bytes /\ Len(<<u>>) = 1 /\ <<u>>[1] = u
  BY DEF Bytes
<1> DEFINE b == <<u>>
<1> HIDE DEF b
<1>2. b \in Bytes /\ Len(b) = 1 /\ b[1] = u
  BY <1>1 DEF b
<1>3. \A f : Sevens(b, f, 1) = u
  BY <1>2 DEF Sevens
<1>4. \A f : SumsOf(b, f) <=> f = [i \in 1..1 |-> u]
  <2>1. \A i \in 1..1 : i = 1
    OBVIOUS
  <2>2. \A f : [i \in 1..Len(b) |-> Sevens(b, f, i)] = [i \in 1..1 |-> u]
    BY <1>2, <1>3, <2>1
  <2> QED
    BY <2>2 DEF SumsOf
<1>5. \A f : SumsOf(b, f) => f[1] = u
  BY <1>4
<1>6. \E f : SumsOf(b, f)
  BY <1>4
<1>7. \A i \in 1..Len(b) : b[i] < 128 <=> i = Len(b)
  BY <1>2
<1>8. Varied(b, u)
  BY <1>2, <1>5, <1>6, <1>7 DEF Varied
<1> QED
  BY <1>8 DEF b

(* A larger one: seven bits, and the varint of the rest behind them.       *)
LEMMA OneByteMore ==
  ASSUME NEW u \in Nat, ~(u < 128), NEW c, Varied(c, u \div 128)
  PROVE  Varied(<<128 + (u % 128)>> \o c, u)
<1> DEFINE first == 128 + (u % 128)
           b == <<first>> \o c
<1>1. first \in 128..255 /\ first % 128 = u % 128
  OBVIOUS
<1>2. c \in Bytes /\ Len(c) \in Nat /\ Len(c) >= 1
  BY DEF Varied
<1>3. <<first>> \in Bytes /\ Len(<<first>>) = 1 /\ <<first>>[1] = first
  BY <1>1 DEF Bytes
<1> HIDE DEF first
<1>4. /\ b \in Bytes /\ Len(b) = Len(c) + 1
      /\ \A i \in 1..(Len(c) + 1) : b[i] = IF i <= 1 THEN <<first>>[i] ELSE c[i - 1]
  BY <1>2, <1>3, ConcatProperties DEF Bytes
<1> HIDE DEF b
<1>5. b[1] = first /\ \A i \in 1..Len(c) : b[i + 1] = c[i]
  BY <1>2, <1>3, <1>4
<1>6. \A i \in 1..Len(b) : b[i] < 128 <=> i = Len(b)
  <2> SUFFICES ASSUME NEW i \in 1..Len(b)
               PROVE  b[i] < 128 <=> i = Len(b)
    OBVIOUS
  <2>1. CASE i = 1
    BY <1>1, <1>2, <1>4, <1>5, <2>1
  <2>2. CASE i # 1
    <3>1. i - 1 \in 1..Len(c) /\ b[i] = c[i - 1]
      BY <1>2, <1>4, <2>2
    <3>2. c[i - 1] < 128 <=> i - 1 = Len(c)
      BY <3>1 DEF Varied
    <3> QED
      BY <1>2, <1>4, <3>1, <3>2
  <2> QED
    BY <2>1, <2>2
<1>7. \A f : SumsOf(b, f) => f[1] = u
  <2> SUFFICES ASSUME NEW f, SumsOf(b, f)
               PROVE  f[1] = u
    OBVIOUS
  <2> DEFINE h == [i \in 1..Len(c) |-> f[i + 1]]
  <2>1. \A i \in 1..(Len(c) + 1) : f[i] = Sevens(b, f, i)
    <3>1. f = [i \in 1..(Len(c) + 1) |-> Sevens(b, f, i)]
      BY <1>4 DEF SumsOf
    <3>2. \A i \in 1..(Len(c) + 1) : [j \in 1..(Len(c) + 1) |-> Sevens(b, f, j)][i] = Sevens(b, f, i)
      OBVIOUS
    <3> QED
      BY <3>1, <3>2, Zenon
  <2>2. \A i \in 1..Len(c) : f[i + 1] = Sevens(c, h, i)
    <3> SUFFICES ASSUME NEW i \in 1..Len(c)
                 PROVE  f[i + 1] = Sevens(c, h, i)
      OBVIOUS
    <3>1. i + 1 \in 1..(Len(c) + 1) /\ b[i + 1] = c[i]
      BY <1>2, <1>5
    <3>2. f[i + 1] = (c[i] % 128) + (IF c[i] < 128 THEN 0 ELSE 128 * f[i + 1 + 1])
      BY <2>1, <3>1 DEF Sevens
    <3>3. c[i] < 128 <=> i = Len(c)
      BY DEF Varied
    <3>4. ~(c[i] < 128) => i + 1 \in 1..Len(c)
      BY <1>2, <3>3
    <3>5. ~(c[i] < 128) => h[i + 1] = f[i + 1 + 1]
      BY <3>4
    <3> HIDE DEF h
    <3> QED
      BY <3>2, <3>5, Zenon DEF Sevens
  <2>3. SumsOf(c, h)
    <3>1. h = [i \in 1..Len(c) |-> Sevens(c, h, i)]
      BY <2>2, Zenon
    <3> QED
      BY <3>1 DEF SumsOf
  <2>4. h[1] = u \div 128
    <3> HIDE DEF h
    <3> QED
      BY <2>3 DEF Varied
  <2>5. f[2] = u \div 128
    BY <1>2, <2>4
  <2>6. f[1] = Sevens(b, f, 1)
    BY <1>2, <2>1
  <2>7. f[1] = (first % 128) + 128 * (u \div 128)
    <3>1. ~(first < 128)
      BY <1>1
    <3> QED
      BY <1>5, <2>5, <2>6, <3>1 DEF Sevens
  <2> QED
    BY <1>1, <2>7
<1>8. \E f : SumsOf(b, f)
  <2>1. PICK h : SumsOf(c, h)
    BY DEF Varied
  <2> DEFINE f == [i \in 1..(Len(c) + 1) |-> IF i = 1 THEN (first % 128) + 128 * h[1] ELSE h[i - 1]]
  <2>2. \A i \in 1..Len(c) : h[i] = Sevens(c, h, i)
    <3>1. h = [i \in 1..Len(c) |-> Sevens(c, h, i)]
      BY <2>1 DEF SumsOf
    <3>2. \A i \in 1..Len(c) : [j \in 1..Len(c) |-> Sevens(c, h, j)][i] = Sevens(c, h, i)
      OBVIOUS
    <3> QED
      BY <3>1, <3>2, Zenon
  <2>3. \A i \in 1..Len(c) : f[i + 1] = h[i]
    BY <1>2
  <2>4. f[1] = (first % 128) + 128 * h[1]
    BY <1>2
  <2>5. \A i \in 1..(Len(c) + 1) : f[i] = Sevens(b, f, i)
    <3> SUFFICES ASSUME NEW i \in 1..(Len(c) + 1)
                 PROVE  f[i] = Sevens(b, f, i)
      OBVIOUS
    <3>1. CASE i = 1
      <4>1. ~(first < 128) /\ f[1 + 1] = h[1]
        BY <1>1, <1>2, <2>3
      <4> HIDE DEF f
      <4> QED
        BY <1>5, <2>4, <3>1, <4>1, Zenon DEF Sevens
    <3>2. CASE i # 1
      <4>1. PICK k \in 1..Len(c) : i = k + 1
        <5>1. i - 1 \in 1..Len(c) /\ i = (i - 1) + 1
          BY <1>2, <3>2
        <5> QED
          BY <5>1
      <4>2. f[i] = h[k] /\ b[i] = c[k]
        BY <1>5, <2>3, <4>1, Zenon
      <4>3. ~(c[k] < 128) => f[i + 1] = h[k + 1]
        <5>1. ~(c[k] < 128) => k + 1 \in 1..Len(c)
          BY <1>2 DEF Varied
        <5> HIDE DEF f
        <5> QED
          BY <2>3, <4>1, <5>1
      <4> HIDE DEF f
      <4> QED
        BY <2>2, <4>2, <4>3, Zenon DEF Sevens
    <3> QED
      BY <3>1, <3>2
  <2>6. f = [i \in 1..Len(b) |-> Sevens(b, f, i)]
    <3>1. f = [i \in 1..(Len(c) + 1) |-> f[i]]
      OBVIOUS
    <3> HIDE DEF f
    <3> QED
      BY <1>4, <2>5, <3>1, Zenon
  <2> HIDE DEF f
  <2> QED
    BY <2>6 DEF SumsOf
<1>9. Varied(b, u)
  BY <1>2, <1>4, <1>6, <1>7, <1>8 DEF Varied
<1> QED
  BY <1>9 DEF b, first

(* Every number is sent as a varint of it.                                 *)
LEMMA VarintVaried ==
  \A u \in Nat : Varied(Varint[u], u)
<1> DEFINE T == {u \in Nat : ~Varied(Varint[u], u)}
<1>1. SUFFICES ASSUME T # {} PROVE FALSE
  OBVIOUS
<1>2. PICK u \in T : \A k \in Nat : k < u => k \notin T
  <2>1. T \subseteq Nat
    OBVIOUS
  <2> HIDE DEF T
  <2> QED
    BY <1>1, <2>1, Smallest
<1>3. u \in Nat /\ ~Varied(Varint[u], u)
  BY <1>2
<1>4. Varint[u] = Coded(Varint, u)
  BY <1>3, VarintIs
<1>5. CASE u < 128
  <2>1. Varied(<<u>>, u)
    BY <1>3, <1>5, OneByte
  <2> QED
    BY <1>3, <1>4, <1>5, <2>1 DEF Coded
<1>6. CASE ~(u < 128)
  <2>1. u \div 128 \in Nat /\ u \div 128 < u
    BY <1>3, <1>6, Shifted
  <2>2. Varied(Varint[u \div 128], u \div 128)
    BY <1>2, <2>1
  <2>3. Varied(<<128 + (u % 128)>> \o Varint[u \div 128], u)
    BY <1>3, <1>6, <2>2, OneByteMore
  <2> QED
    BY <1>3, <1>4, <1>6, <2>3, Zenon DEF Coded
<1> QED
  BY <1>5, <1>6

(* What is behind the bytes that are taken off the wire.                   *)
LEMMA Dropped ==
  ASSUME NEW b \in Bytes, NEW rest \in Bytes
  PROVE  /\ b \o rest \in Bytes
         /\ Len(b) \in Nat /\ Len(b \o rest) = Len(b) + Len(rest) /\ Len(rest) \in Nat
         /\ \A i \in 1..Len(b) : (b \o rest)[i] = b[i]
         /\ Drop(b \o rest, Len(b)) = rest
<1> DEFINE w == b \o rest
<1>1. /\ w \in Bytes /\ Len(b) \in Nat /\ Len(rest) \in Nat
      /\ Len(w) = Len(b) + Len(rest)
      /\ \A i \in 1..(Len(b) + Len(rest)) : w[i] = IF i <= Len(b) THEN b[i] ELSE rest[i - Len(b)]
  BY ConcatProperties, LenProperties DEF Bytes
<1> HIDE DEF w
<1>2. \A i \in 1..Len(b) : w[i] = b[i]
  BY <1>1
<1>3. /\ Drop(w, Len(b)) \in Bytes
      /\ Len(Drop(w, Len(b))) = Len(rest)
      /\ \A i \in 1..Len(rest) : Drop(w, Len(b))[i] = w[Len(b) + i]
  <2>1. \A i \in (Len(b) + 1)..Len(w) : w[i] \in 0..255
    <3>1. \A i \in (Len(b) + 1)..Len(w) : i \in 1..Len(w)
      BY <1>1
    <3> QED
      BY <1>1, <3>1, ElementOfSeq DEF Bytes
  <2>2. Len(b) + 1 \in Int /\ Len(w) \in Int
    BY <1>1
  <2>3. /\ SubSeq(w, Len(b) + 1, Len(w)) \in Seq(0..255)
        /\ Len(SubSeq(w, Len(b) + 1, Len(w))) =
             IF Len(b) + 1 <= Len(w) THEN Len(w) - (Len(b) + 1) + 1 ELSE 0
        /\ \A i \in 1..(Len(w) - (Len(b) + 1) + 1) :
             SubSeq(w, Len(b) + 1, Len(w))[i] = w[Len(b) + 1 + i - 1]
    BY <2>1, <2>2, SubSeqProperties
  <2>4. Len(w) - (Len(b) + 1) + 1 = Len(rest) /\ \A i \in 1..Len(rest) : Len(b) + 1 + i - 1 = Len(b) + i
    BY <1>1
  <2> QED
    BY <1>1, <2>3, <2>4 DEF Drop, Bytes
<1>4. \A i \in 1..Len(rest) : Drop(w, Len(b))[i] = rest[i]
  <2> SUFFICES ASSUME NEW i \in 1..Len(rest)
               PROVE  Drop(w, Len(b))[i] = rest[i]
    OBVIOUS
  <2>1. Len(b) + i \in 1..(Len(b) + Len(rest)) /\ ~(Len(b) + i <= Len(b)) /\ Len(b) + i - Len(b) = i
    BY <1>1
  <2> QED
    BY <1>1, <1>3, <2>1
<1>5. Drop(w, Len(b)) = rest
  BY <1>3, <1>4, SeqEqual DEF Bytes
<1> QED
  BY <1>1, <1>2, <1>5 DEF w

(* A byte in front.                                                        *)
LEMMA ByteInFront ==
  ASSUME NEW n \in 0..255, NEW rest \in Bytes
  PROVE  /\ <<n>> \in Bytes /\ Len(<<n>>) = 1
         /\ <<n>> \o rest \in Bytes /\ <<n>> \o rest # <<>>
         /\ Head(<<n>> \o rest) = n /\ (<<n>> \o rest)[1] = n
         /\ Tail(<<n>> \o rest) = rest
         /\ Len(<<n>> \o rest) = Len(rest) + 1
         /\ Drop(<<n>> \o rest, 1) = rest
<1>1. <<n>> \in Bytes /\ Len(<<n>>) = 1 /\ <<n>>[1] = n
  BY DEF Bytes
<1>2. /\ <<n>> \o rest \in Bytes /\ Len(rest) \in Nat
      /\ Len(<<n>> \o rest) = Len(rest) + 1
      /\ (<<n>> \o rest)[1] = n
      /\ Drop(<<n>> \o rest, 1) = rest
  <2> DEFINE b == <<n>>
  <2> HIDE DEF b
  <2>1. b \in Bytes /\ Len(b) = 1 /\ b[1] = n
    BY <1>1 DEF b
  <2>2. /\ b \o rest \in Bytes /\ Len(rest) \in Nat
        /\ Len(b \o rest) = Len(b) + Len(rest)
        /\ \A i \in 1..Len(b) : (b \o rest)[i] = b[i]
        /\ Drop(b \o rest, Len(b)) = rest
    BY <2>1, Dropped
  <2>3. /\ b \o rest \in Bytes /\ Len(rest) \in Nat
        /\ Len(b \o rest) = Len(rest) + 1
        /\ (b \o rest)[1] = n
        /\ Drop(b \o rest, 1) = rest
    BY <2>1, <2>2
  <2> QED
    BY <2>3 DEF b
<1> DEFINE w == <<n>> \o rest
<1> HIDE DEF w
<1>3. /\ w \in Seq(0..255) /\ Len(rest) \in Nat
      /\ Len(w) = Len(rest) + 1 /\ w[1] = n /\ Drop(w, 1) = rest
  BY <1>2 DEF w, Bytes
<1>4. w # <<>>
  BY <1>3, EmptySeq
<1>5. Head(w) = n
  BY <1>3, <1>4
<1>6. Tail(w) = rest
  <2>1. Tail(w) = SubSeq(w, 2, Len(w))
    BY <1>3, <1>4, TailIsSubSeq
  <2> QED
    BY <1>3, <2>1 DEF Drop
<1> QED
  BY <1>1, <1>2, <1>4, <1>5, <1>6 DEF w

(* A varint in front is read as the number that was sent.                  *)
LEMMA VarintInFront ==
  ASSUME NEW u \in Nat, NEW rest \in Bytes
  PROVE  LET w == Varint[u] \o rest
         IN  /\ Varint[u] \in Bytes /\ w \in Bytes /\ w # <<>>
             /\ HasVarint(w)
             /\ VarintLength(w) = Len(Varint[u])
             /\ ReadVarint(w) = Unsigned(u)
             /\ Drop(w, Len(Varint[u])) = rest
<1> DEFINE b == Varint[u]
           w == b \o rest
<1>1. Varied(b, u)
  BY VarintVaried
<1> HIDE DEF b
<1>2. b \in Bytes /\ Len(b) \in Nat /\ Len(b) >= 1 /\ \A i \in 1..Len(b) : b[i] < 128 <=> i = Len(b)
  BY <1>1 DEF Varied
<1>3. /\ w \in Bytes
      /\ Len(w) = Len(b) + Len(rest) /\ Len(rest) \in Nat
      /\ \A i \in 1..Len(b) : w[i] = b[i]
      /\ Drop(w, Len(b)) = rest
  BY <1>2, Dropped
<1> HIDE DEF w
<1>4. DOMAIN w = 1..Len(w) /\ Len(w) \in Nat /\ \A i \in 1..Len(w) : w[i] \in Int
  <2>1. w \in Seq(0..255)
    BY <1>3 DEF Bytes
  <2>2. \A i \in 1..Len(w) : w[i] \in 0..255
    BY <2>1, ElementOfSeq
  <2>3. DOMAIN w = 1..Len(w) /\ Len(w) \in Nat
    BY <2>1, LenProperties
  <2>4. \A n \in 0..255 : n \in Int
    OBVIOUS
  <2>5. \A i \in 1..Len(w) : w[i] \in Int
    BY <2>2, <2>4, Zenon
  <2> QED
    BY <2>3, <2>5, Zenon
<1>5. Len(b) \in DOMAIN w /\ w[Len(b)] < 128
  BY <1>2, <1>3, <1>4
<1>6. w # <<>>
  BY <1>2, <1>3, EmptySeq
<1>7. HasVarint(w)
  BY <1>5 DEF HasVarint
<1>8. VarintLength(w) = Len(b)
  <2>1. \A j \in 1..(Len(b) - 1) : w[j] >= 128
    <3> SUFFICES ASSUME NEW j \in 1..(Len(b) - 1)
                 PROVE  w[j] >= 128
      OBVIOUS
    <3>1. j \in 1..Len(b) /\ j # Len(b) /\ j \in 1..Len(w)
      BY <1>2, <1>3
    <3> QED
      BY <1>2, <1>3, <1>4, <3>1
  <2>2. ASSUME NEW i \in DOMAIN w, w[i] < 128, \A j \in 1..(i - 1) : w[j] >= 128
        PROVE  i = Len(b)
    <3>1. i \in 1..Len(w)
      BY <1>4
    <3>2. CASE i < Len(b)
      <4>1. i \in 1..Len(b) /\ i # Len(b)
        BY <1>2, <3>1, <3>2
      <4> QED
        BY <1>2, <1>3, <2>2, <4>1
    <3>3. CASE Len(b) < i
      <4>1. Len(b) \in 1..(i - 1)
        BY <1>2, <3>1, <3>3
      <4>2. w[Len(b)] >= 128 /\ w[Len(b)] \in Int
        BY <1>4, <1>5, <2>2, <4>1
      <4> QED
        BY <1>5, <4>2
    <3> QED
      BY <1>2, <3>1, <3>2, <3>3
  <2>3. \A i \in DOMAIN w :
          (w[i] < 128 /\ \A j \in 1..(i - 1) : w[j] >= 128) <=> i = Len(b)
    BY <1>5, <2>1, <2>2
  <2> QED
    BY <1>5, <2>3 DEF VarintLength
<1>9. ReadVarint(w) = Unsigned(u)
  <2> DEFINE sum(f) == [i \in 1..VarintLength(w) |->
                          (w[i] % 128) + (IF w[i] < 128 THEN 0 ELSE 128 * f[i + 1])]
             from == CHOOSE f : f = sum(f)
  <2>1. \A f : sum(f) = [i \in 1..Len(b) |-> Sevens(b, f, i)]
    BY <1>3, <1>8 DEF Sevens
  <2>2. \E f : f = sum(f)
    <3>1. PICK f : SumsOf(b, f)
      BY <1>1 DEF Varied
    <3>2. f = sum(f)
      <4> HIDE DEF sum
      <4> QED
        BY <2>1, <3>1 DEF SumsOf
    <3> QED
      BY <3>2
  <2>3. from = sum(from)
    <3> HIDE DEF sum
    <3> QED
      BY <2>2
  <2>4. SumsOf(b, from)
    <3> HIDE DEF sum, from
    <3> QED
      BY <2>1, <2>3 DEF SumsOf
  <2>5. from[1] = u
    <3> HIDE DEF from
    <3> QED
      BY <1>1, <2>4 DEF Varied
  <2>6. ReadVarint(w) = Unsigned(from[1])
    BY DEF ReadVarint
  <2> QED
    BY <2>5, <2>6
<1>10. b \in Bytes /\ w \in Bytes /\ w # <<>> /\ HasVarint(w) /\ VarintLength(w) = Len(b)
       /\ ReadVarint(w) = Unsigned(u) /\ Drop(w, Len(b)) = rest
  BY <1>2, <1>3, <1>6, <1>7, <1>8, <1>9
<1> QED
  BY <1>10 DEF b, w

------------------------------------------------------------------------------
(* A power of two is as many as the subsets of an interval. *)
LEMMA SubsetsOf ==
  ASSUME NEW n \in Nat
  PROVE  /\ IsFiniteSet(SUBSET (1..n)) /\ 2^n \in Nat
         /\ Cardinality(SUBSET (1..n)) = 2^n
<1>1. IsFiniteSet(1..n) /\ Cardinality(1..n) = n
  <2>1. IsFiniteSet(1..n) /\ Cardinality(1..n) = IF 1 > n THEN 0 ELSE n - 1 + 1
    BY FS_Interval
  <2> QED
    BY <2>1
<1>2. IsFiniteSet(SUBSET (1..n)) /\ Cardinality(SUBSET (1..n)) = 2^n
  BY <1>1, FS_SUBSET
<1>3. Cardinality(SUBSET (1..n)) \in Nat
  BY <1>2, FS_CardinalityType
<1> QED
  BY <1>2, <1>3

(* A power of two, and the next one.                                       *)
LEMMA Doubled ==
  ASSUME NEW n \in Nat
  PROVE  2^n \in Nat /\ 2^(n + 1) = 2 * 2^n
<1> DEFINE A == SUBSET (1..n)
           with(T) == T \cup {n + 1}
           B == {with(T) : T \in A}
           f == [T \in A |-> with(T)]
<1>1. SUBSET (1..(n + 1)) = A \cup B
  <2>1. \A T \in SUBSET (1..(n + 1)) : T \notin A => T = with(T \ {n + 1}) /\ T \ {n + 1} \in A
    OBVIOUS
  <2>2. 1..n \subseteq 1..(n + 1) /\ n + 1 \in 1..(n + 1)
    OBVIOUS
  <2>3. \A T \in A : T \subseteq 1..(n + 1) /\ with(T) \subseteq 1..(n + 1)
    BY <2>2
  <2>4. \A T \in SUBSET (1..(n + 1)) : T \in A \cup B
    BY <2>1
  <2>5. \A T \in A \cup B : T \in SUBSET (1..(n + 1))
    BY <2>3
  <2> HIDE DEF A, B
  <2> QED
    BY <2>4, <2>5
<1>2. A \cap B = {}
  OBVIOUS
<1>3. f \in Bijection(A, B)
  <2>1. f \in [A -> B] /\ \A T \in B : \E U \in A : f[U] = T
    OBVIOUS
  <2>2. \A T, U \in A : f[T] = f[U] => T = U
    <3> SUFFICES ASSUME NEW T \in A, NEW U \in A, with(T) = with(U)
                 PROVE  T = U
      OBVIOUS
    <3>1. n + 1 \notin T /\ n + 1 \notin U
      OBVIOUS
    <3> QED
      BY <3>1
  <2> HIDE DEF f, A, B
  <2> QED
    BY <2>1, <2>2 DEF Bijection, Injection, Surjection, IsInjective
<1>4. IsFiniteSet(A) /\ Cardinality(A) = 2^n /\ 2^n \in Nat
  BY SubsetsOf
<1>5. Cardinality(A \cup B) = 2^(n + 1)
  <2>1. n + 1 \in Nat
    OBVIOUS
  <2>2. Cardinality(SUBSET (1..(n + 1))) = 2^(n + 1)
    BY <2>1, SubsetsOf
  <2> HIDE DEF A, B
  <2> QED
    BY <1>1, <2>2
<1> HIDE DEF A, B, f
<1>6. IsFiniteSet(B) /\ Cardinality(B) = Cardinality(A)
  BY <1>3, <1>4, FS_Bijection DEF ExistsBijection
<1>7. Cardinality(A \cup B) = Cardinality(A) + Cardinality(B) - Cardinality(A \cap B)
  BY <1>4, <1>6, FS_Union
<1>8. Cardinality(A \cap B) = 0
  BY <1>2, FS_EmptySet
<1> QED
  BY <1>4, <1>5, <1>6, <1>7, <1>8

(* An integer has more than 16 bits.                                       *)
LEMMA AtLeast ==
  ASSUME NEW n \in Nat, n >= 16
  PROVE  2^n >= 65536
<1> DEFINE T == {m \in Nat : m >= 16 /\ 2^m < 65536}
<1>1. SUFFICES ASSUME T # {} PROVE FALSE
  <2>1. n \notin T => ~(2^n < 65536)
    OBVIOUS
  <2>2. 2^n \in Nat
    BY Doubled
  <2> QED
    BY <2>1, <2>2
<1>2. PICK m \in T : \A k \in Nat : k < m => k \notin T
  <2>1. T \subseteq Nat
    OBVIOUS
  <2> HIDE DEF T
  <2> QED
    BY <1>1, <2>1, Smallest
<1>3. m \in Nat /\ m > 16 /\ 2^m < 65536
  <2>1. m # 16
    <3> SUFFICES ASSUME m = 16 PROVE FALSE
      OBVIOUS
    <3> DEFINE power(k) == 2^k
    <3>1. power(16) = 65536 /\ power(m) < 65536
      BY <1>2
    <3> HIDE DEF power, T
    <3>2. power(m) = power(16)
      BY Zenon
    <3> QED
      BY <3>1, <3>2, SMT
  <2> QED
    BY <2>1, <1>2
<1>4. m - 1 \in Nat /\ m - 1 >= 16 /\ m - 1 < m /\ (m - 1) + 1 = m
  BY <1>3
<1>5. 2^(m - 1) \in Nat /\ 2^m = 2 * 2^(m - 1)
  BY <1>4, Doubled
<1>6. ~(2^(m - 1) < 65536)
  BY <1>2, <1>4
<1> QED
  BY <1>3, <1>5, <1>6


(* What an integer holds, and a size.                                      *)
Ints == -(2^(Width - 1))..(2^(Width - 1) - 1)
Sizes == 0..(2^(Width - 1) - 1)
FieldIds == -(2^15)..(2^15 - 1)

(* What is needed of the width of an integer.                              *)
LEMMA Widths ==
  /\ 2^(Width - 1) \in Nat /\ 2^(Width - 1) >= 65536
  /\ 2^Width = 2 * 2^(Width - 1)
<1>1. Width - 1 \in Nat /\ Width - 1 >= 16 /\ (Width - 1) + 1 = Width
  <2>1. Width \in Nat /\ Width > 16
    BY CompactAssumption, Zenon
  <2> QED
    BY <2>1
<1>2. 2^(Width - 1) >= 65536
  BY <1>1, AtLeast
<1>3. 2^(Width - 1) \in Nat /\ 2^((Width - 1) + 1) = 2 * 2^(Width - 1)
  BY <1>1, Doubled
<1> QED
  BY <1>1, <1>2, <1>3

(* Numbers that fit are unchanged by the arithmetic.                       *)
LEMMA Wraps ==
  ASSUME NEW h \in Nat
  PROVE  /\ \A n \in 0..(2 * h - 1) : n % (2 * h) = n
         /\ \A n \in -(2 * h)..-1 : n % (2 * h) = n + 2 * h
<1>1. ASSUME NEW m \in Nat, NEW n \in 0..(m - 1)
      PROVE  n % m = n
  OBVIOUS
<1>2. ASSUME NEW m \in Nat, NEW n \in (-m)..(-1)
      PROVE  n % m = n + m
  OBVIOUS
<1>3. 2 * h \in Nat
  OBVIOUS
<1> QED
  BY <1>1, <1>2, <1>3

(* An integer is read as it was before zigzag.                             *)
LEMMA ZigZagged ==
  ASSUME NEW n \in Ints
  PROVE  /\ ZigZag(n) \in Nat
         /\ Unsigned(ZigZag(n)) = ZigZag(n)
         /\ UnZigZag(ZigZag(n)) = n
<1> DEFINE h == 2^(Width - 1)
<1>1. h \in Nat /\ h >= 65536 /\ 2^Width = 2 * h /\ n \in -h..(h - 1)
  BY Widths DEF Ints
<1> HIDE DEF h
<1>2. /\ \A k \in 0..(2 * h - 1) : k % (2 * h) = k
      /\ \A k \in -(2 * h)..-1 : k % (2 * h) = k + 2 * h
  <2>1. h \in Nat
    BY <1>1
  <2> QED
    BY <2>1, Wraps, Zenon
<1>3. CASE n < 0
  <2>1. 2 * n \in -(2 * h)..-1
    BY <1>1, <1>3
  <2>2. Unsigned(2 * n) = 2 * n + 2 * h
    BY <1>1, <1>2, <2>1 DEF Unsigned
  <2>3. ZigZag(n) = 2 * h - 1 - (2 * n + 2 * h)
    BY <1>1, <1>3, <2>2 DEF ZigZag
  <2>4. ZigZag(n) = -(2 * n) - 1 /\ ZigZag(n) \in 0..(2 * h - 1)
    BY <1>1, <1>3, <2>3
  <2>5. (-(2 * n) - 1) % 2 = 1 /\ (-(2 * n) - 1) \div 2 = -n - 1
    BY <1>1
  <2>6. UnZigZag(ZigZag(n)) = n
    BY <1>1, <2>4, <2>5 DEF UnZigZag
  <2> QED
    BY <1>1, <1>2, <2>4, <2>6 DEF Unsigned
<1>4. CASE ~(n < 0)
  <2>1. 2 * n \in 0..(2 * h - 1)
    BY <1>1, <1>4
  <2>2. ZigZag(n) = 2 * n
    BY <1>1, <1>2, <1>4, <2>1 DEF ZigZag, Unsigned
  <2>3. (2 * n) % 2 = 0 /\ (2 * n) \div 2 = n
    BY <1>1
  <2> QED
    BY <1>1, <1>2, <2>1, <2>2, <2>3 DEF Unsigned, UnZigZag
<1> QED
  BY <1>3, <1>4

(* So is a size, and a sequence id.                                        *)
LEMMA SizeKept ==
  ASSUME NEW n \in Sizes
  PROVE  n \in Nat /\ Unsigned(n) = n
<1> DEFINE h == 2^(Width - 1)
<1>1. h \in Nat /\ h >= 65536 /\ 2^Width = 2 * h /\ n \in 0..(h - 1)
  BY Widths DEF Sizes
<1> HIDE DEF h
<1>2. \A k \in 0..(2 * h - 1) : k % (2 * h) = k
  <2>1. h \in Nat
    BY <1>1
  <2> QED
    BY <2>1, Wraps, Zenon
<1>3. n \in 0..(2 * h - 1)
  BY <1>1
<1> QED
  BY <1>1, <1>2, <1>3 DEF Unsigned

(* A sequence id is sent as an unsigned number, and read as a signed one.  *)
LEMMA SeqidKept ==
  ASSUME NEW n \in Ints
  PROVE  /\ Unsigned(n) \in Nat
         /\ Unsigned(Unsigned(n)) = Unsigned(n)
         /\ Signed(Unsigned(n), Width) = n
<1> DEFINE h == 2^(Width - 1)
<1>1. h \in Nat /\ h >= 65536 /\ 2^Width = 2 * h /\ n \in -h..(h - 1)
  BY Widths DEF Ints
<1>2. \A u : Signed(u, Width) = ((u + h) % (2 * h)) - h
  BY <1>1 DEF Signed
<1> HIDE DEF h
<1>3. /\ \A k \in 0..(2 * h - 1) : k % (2 * h) = k
      /\ \A k \in -(2 * h)..-1 : k % (2 * h) = k + 2 * h
  <2>1. h \in Nat
    BY <1>1
  <2> QED
    BY <2>1, Wraps, Zenon
<1>4. Unsigned(n) = (IF n < 0 THEN n + 2 * h ELSE n) /\ Unsigned(n) \in 0..(2 * h - 1)
  <2>1. CASE n < 0
    <3>1. n \in -(2 * h)..-1
      BY <1>1, <2>1
    <3> QED
      BY <1>1, <1>3, <2>1, <3>1 DEF Unsigned
  <2>2. CASE ~(n < 0)
    <3>1. n \in 0..(2 * h - 1)
      BY <1>1, <2>2
    <3> QED
      BY <1>1, <1>3, <2>2, <3>1 DEF Unsigned
  <2> QED
    BY <2>1, <2>2
<1>5. Unsigned(Unsigned(n)) = Unsigned(n)
  BY <1>1, <1>3, <1>4 DEF Unsigned
<1>6. (Unsigned(n) + h) % (2 * h) = n + h
  <2>1. CASE n < 0
    <3>1. Unsigned(n) + h = (n + h) + 2 * h /\ n + h \in 0..(2 * h - 1)
      BY <1>1, <1>4, <2>1
    <3>2. ASSUME NEW m \in Nat, NEW k \in 0..(m - 1)
          PROVE  (k + m) % m = k
      OBVIOUS
    <3>3. 2 * h \in Nat
      BY <1>1
    <3> QED
      BY <3>1, <3>2, <3>3
  <2>2. CASE ~(n < 0)
    <3>1. Unsigned(n) + h = n + h /\ n + h \in 0..(2 * h - 1)
      BY <1>1, <1>4, <2>2
    <3> QED
      BY <1>3, <3>1
  <2> QED
    BY <2>1, <2>2
<1>7. Signed(Unsigned(n), Width) = n
  BY <1>1, <1>2, <1>6
<1> QED
  BY <1>1, <1>4, <1>5, <1>7

(* A byte and an id are read with their signs.                             *)
LEMMA ByteKept ==
  ASSUME NEW n \in -128..127
  PROVE  Byte(n) \in 0..255 /\ Signed(Byte(n), 8) = n
<1>1. (((n % 256) + 2^(8 - 1)) % 2^8) - 2^(8 - 1) = n
  OBVIOUS
<1> QED
  BY <1>1 DEF Byte, Signed

(* A short is an integer as well.                                          *)
LEMMA IdKept ==
  ASSUME NEW id \in FieldIds
  PROVE  /\ id \in Int /\ id \in Ints
         /\ Signed(id, 16) = id
<1>1. ((id + 2^(16 - 1)) % 2^16) - 2^(16 - 1) = id
  BY DEF FieldIds
<1>2. id \in Int /\ -65536 <= id /\ id <= 65535
  BY DEF FieldIds
<1>3. id \in Ints
  BY <1>2, Widths DEF Ints
<1> QED
  BY <1>1, <1>2, <1>3 DEF Signed

(* A type is known by its nibble.                                          *)
LEMMA TypeKept ==
  ASSUME NEW type \in TTypes
  PROVE  /\ CompactType[type] \in 1..12
         /\ TTypeOf(CompactType[type]) = type
         /\ IsCompactType(CompactType[type])
         /\ CompactType[type] # False
<1>1. DOMAIN CompactType = {"STOP", "BOOL", "BYTE", "I32", "STRING", "LIST", "MAP", "STRUCT"}
  BY DEF CompactType
<1>2. type \in {"BOOL", "BYTE", "I32", "STRING", "LIST", "MAP", "STRUCT"}
  BY <1>1 DEF TTypes
<1>3. /\ CompactType["STOP"] = 0 /\ CompactType["BOOL"] = 1 /\ CompactType["BYTE"] = 3
      /\ CompactType["I32"] = 5 /\ CompactType["STRING"] = 8 /\ CompactType["LIST"] = 9
      /\ CompactType["MAP"] = 11 /\ CompactType["STRUCT"] = 12
  BY DEF CompactType
<1>4. \A t \in DOMAIN CompactType : CompactType[t] = CompactType[type] => t = type
  BY <1>1, <1>2, <1>3
<1>5. CompactType[type] \in 1..12 /\ CompactType[type] # 2
  BY <1>2, <1>3
<1>6. type \in DOMAIN CompactType
  BY <1>1, <1>2
<1> QED
  BY <1>4, <1>5, <1>6 DEF TTypeOf, IsCompactType, False

(* The nibbles of a boolean in a field's header, and the one of an empty   *)
(* map.                                                                    *)
LEMMA NibblesKept ==
  /\ TTypeOf(1) = "BOOL" /\ TTypeOf(False) = "BOOL" /\ TTypeOf(0) = "STOP"
  /\ IsCompactType(1) /\ IsCompactType(False) /\ IsCompactType(0)
  /\ False = 2 /\ CompactType["BOOL"] = 1
<1>1. DOMAIN CompactType = {"STOP", "BOOL", "BYTE", "I32", "STRING", "LIST", "MAP", "STRUCT"}
  BY DEF CompactType
<1>2. /\ CompactType["STOP"] = 0 /\ CompactType["BOOL"] = 1 /\ CompactType["BYTE"] = 3
      /\ CompactType["I32"] = 5 /\ CompactType["STRING"] = 8 /\ CompactType["LIST"] = 9
      /\ CompactType["MAP"] = 11 /\ CompactType["STRUCT"] = 12
  BY DEF CompactType
<1>3. \A t \in DOMAIN CompactType :
        /\ CompactType[t] = 0 => t = "STOP"
        /\ CompactType[t] = 1 => t = "BOOL"
  BY <1>1, <1>2
<1>4. "STOP" \in DOMAIN CompactType /\ "BOOL" \in DOMAIN CompactType
  BY <1>1
<1> QED
  BY <1>2, <1>3, <1>4 DEF TTypeOf, IsCompactType, False

(* The header of a field behind the field of the id last.                  *)
FieldBytes(last, id, nibble) ==
    IF id > last /\ id - last <= 15 THEN <<Byte((id - last) * 16 + nibble)>>
    ELSE <<nibble>> \o Varint[ZigZag(id)]

(* A varint behind a byte.                                                 *)
LEMMA VarintBehind ==
  ASSUME NEW n \in 0..255, NEW u \in Nat, NEW rest \in Bytes
  PROVE  LET w == (<<n>> \o Varint[u]) \o rest
         IN  /\ <<n>> \o Varint[u] \in Bytes
             /\ w \in Bytes /\ w # <<>> /\ Head(w) = n
             /\ HasVarint(Tail(w))
             /\ ReadVarint(Tail(w)) = Unsigned(u)
             /\ Drop(w, 1 + VarintLength(Tail(w))) = rest
<1> DEFINE v == Varint[u]
<1>1. /\ v \in Bytes /\ v \o rest \in Bytes
      /\ HasVarint(v \o rest)
      /\ VarintLength(v \o rest) = Len(v)
      /\ ReadVarint(v \o rest) = Unsigned(u)
  BY VarintInFront
<1> HIDE DEF v
<1>2. <<n>> \in Bytes /\ Len(<<n>>) = 1
  BY ByteInFront, <1>1
<1>3. (<<n>> \o v) \o rest = <<n>> \o (v \o rest)
  BY <1>1, <1>2, ConcatAssociative DEF Bytes
<1>4. <<n>> \o v \in Bytes /\ Len(<<n>> \o v) = Len(v) + 1
  BY <1>1, ByteInFront
<1>5. Drop((<<n>> \o v) \o rest, Len(<<n>> \o v)) = rest
  BY <1>4, Dropped
<1>6. Len(v) \in Nat
  BY <1>1, LenProperties DEF Bytes
<1> DEFINE w == <<n>> \o (v \o rest)
<1>7. w \in Bytes /\ w # <<>> /\ Head(w) = n /\ Tail(w) = v \o rest
  BY <1>1, ByteInFront
<1>8. Drop(w, 1 + Len(v)) = rest
  <2>1. Len(<<n>> \o v) = 1 + Len(v)
    BY <1>4, <1>6
  <2> QED
    BY <1>3, <1>5, <2>1
<1> HIDE DEF w
<1>9. /\ w \in Bytes /\ w # <<>> /\ Head(w) = n
      /\ HasVarint(Tail(w))
      /\ ReadVarint(Tail(w)) = Unsigned(u)
      /\ Drop(w, 1 + VarintLength(Tail(w))) = rest
  BY <1>1, <1>7, <1>8
<1>10. w = (<<n>> \o v) \o rest
  BY <1>3 DEF w
<1> QED
  BY <1>4, <1>9, <1>10 DEF v

(* What readFieldBegin takes out of a header.                              *)
HeaderId(w, last) ==
    IF Head(w) \div 16 = 0 THEN Signed(UnZigZag(ReadVarint(Tail(w))), 16)
    ELSE Signed(last + Head(w) \div 16, 16)
HeaderLength(w) == 1 + (IF Head(w) \div 16 = 0 THEN VarintLength(Tail(w)) ELSE 0)

ReadAsField(w, last, id, nibble, rest) ==
    /\ w # <<>> /\ Head(w) # 0 /\ Head(w) % 16 = nibble
    /\ HeaderId(w, last) = id
    /\ Drop(w, HeaderLength(w)) = rest

(* readFieldBegin gives the id that was sent, as a difference from the     *)
(* last one or behind the byte, and takes the header off the wire.         *)
LEMMA FieldInFront ==
  ASSUME NEW last \in Int, NEW id \in FieldIds, NEW nibble \in 1..12, NEW rest \in Bytes
  PROVE  /\ FieldBytes(last, id, nibble) \in Bytes
         /\ ReadAsField(FieldBytes(last, id, nibble) \o rest, last, id, nibble, rest)
<1> DEFINE b == FieldBytes(last, id, nibble)
           w == b \o rest
<1>1. id \in Int /\ id \in Ints /\ Signed(id, 16) = id
  BY IdKept
<1>2. CASE id > last /\ id - last <= 15
  <2> DEFINE d == id - last
             n == Byte(d * 16 + nibble)
  <2>1. d \in 1..15 /\ last + d = id
    BY <1>1, <1>2
  <2> HIDE DEF d
  <2>2. n \in 0..255 /\ n % 16 = nibble /\ n \div 16 = d /\ n # 0
    BY <2>1 DEF Byte
  <2>3. b = <<n>>
    BY <1>2 DEF FieldBytes, d
  <2> HIDE DEF n, b
  <2>4. b \in Bytes /\ w # <<>> /\ Head(w) = n /\ Drop(w, 1) = rest
    BY <2>2, <2>3, ByteInFront
  <2> HIDE DEF w
  <2>5. Head(w) \div 16 = d /\ d # 0
    BY <2>1, <2>2, <2>4
  <2>6. HeaderId(w, last) = id
    BY <1>1, <2>1, <2>5 DEF HeaderId
  <2>7. HeaderLength(w) = 1
    BY <2>5 DEF HeaderLength
  <2>8. b \in Bytes /\ ReadAsField(w, last, id, nibble, rest)
    BY <2>2, <2>4, <2>6, <2>7 DEF ReadAsField
  <2> QED
    BY <2>8 DEF w, b
<1>3. CASE ~(id > last /\ id - last <= 15)
  <2>1. b = <<nibble>> \o Varint[ZigZag(id)]
    BY <1>3 DEF FieldBytes
  <2>2. ZigZag(id) \in Nat /\ Unsigned(ZigZag(id)) = ZigZag(id) /\ UnZigZag(ZigZag(id)) = id
    BY <1>1, ZigZagged
  <2>3. nibble \in 0..255 /\ nibble % 16 = nibble /\ nibble \div 16 = 0 /\ nibble # 0
    OBVIOUS
  <2> HIDE DEF b
  <2>4. /\ b \in Bytes /\ w # <<>> /\ Head(w) = nibble
        /\ ReadVarint(Tail(w)) = Unsigned(ZigZag(id))
        /\ Drop(w, 1 + VarintLength(Tail(w))) = rest
    BY <2>1, <2>2, <2>3, VarintBehind
  <2> HIDE DEF w
  <2>5. HeaderId(w, last) = id
    BY <1>1, <2>2, <2>3, <2>4 DEF HeaderId
  <2>6. HeaderLength(w) = 1 + VarintLength(Tail(w))
    BY <2>3, <2>4 DEF HeaderLength
  <2>7. b \in Bytes /\ ReadAsField(w, last, id, nibble, rest)
    BY <2>3, <2>4, <2>5, <2>6 DEF ReadAsField
  <2> QED
    BY <2>7 DEF w, b
<1> QED
  BY <1>2, <1>3

(* What readListBegin does.                                                *)
ListSize(w) == IF Head(w) \div 16 = 15 THEN ReadVarint(Tail(w)) ELSE Head(w) \div 16
ListLength(w) == 1 + (IF Head(w) \div 16 = 15 THEN VarintLength(Tail(w)) ELSE 0)

(* readListBegin gives the size that was sent, in four bits or behind the  *)
(* byte.                                                                   *)
LEMMA ListInFront ==
  ASSUME NEW elem \in TTypes, NEW size \in Sizes, NEW rest \in Bytes
  PROVE  LET w == ListHeader(elem, size) \o rest
         IN  /\ ListHeader(elem, size) \in Bytes
             /\ TTypeOf(Head(w) % 16) = elem
             /\ ListSize(w) = size
             /\ Drop(w, ListLength(w)) = rest
<1> DEFINE b == ListHeader(elem, size)
           w == b \o rest
           nibble == CompactType[elem]
<1>1. nibble \in 1..12 /\ TTypeOf(nibble) = elem
  BY TypeKept
<1>2. size \in Nat /\ Unsigned(size) = size
  BY SizeKept
<1> HIDE DEF nibble
<1>3. CASE size <= 14
  <2> DEFINE n == Byte(size * 16 + nibble)
  <2>1. n \in 0..255 /\ n % 16 = nibble /\ n \div 16 = size /\ size # 15
    BY <1>1, <1>2, <1>3 DEF Byte
  <2>2. b = <<n>>
    BY <1>3 DEF ListHeader, nibble
  <2> HIDE DEF n, b
  <2>3. b \in Bytes /\ Head(w) = n /\ Drop(w, 1) = rest
    BY <2>1, <2>2, ByteInFront
  <2> HIDE DEF w
  <2>4. ListSize(w) = size /\ ListLength(w) = 1
    BY <2>1, <2>3 DEF ListSize, ListLength
  <2>5. b \in Bytes /\ TTypeOf(Head(w) % 16) = elem /\ ListSize(w) = size
        /\ Drop(w, ListLength(w)) = rest
    BY <1>1, <2>1, <2>3, <2>4
  <2> QED
    BY <2>5 DEF w, b
<1>4. CASE ~(size <= 14)
  <2> DEFINE n == 240 + nibble
  <2>1. n \in 0..255 /\ n % 16 = nibble /\ n \div 16 = 15
    BY <1>1
  <2>2. b = <<n>> \o Varint[size]
    BY <1>4 DEF ListHeader, nibble
  <2> HIDE DEF n, b
  <2>3. /\ b \in Bytes /\ Head(w) = n
        /\ ReadVarint(Tail(w)) = Unsigned(size)
        /\ Drop(w, 1 + VarintLength(Tail(w))) = rest
    BY <1>2, <2>1, <2>2, VarintBehind
  <2> HIDE DEF w
  <2>4. ListSize(w) = size /\ ListLength(w) = 1 + VarintLength(Tail(w))
    BY <1>2, <2>1, <2>3 DEF ListSize, ListLength
  <2>5. b \in Bytes /\ TTypeOf(Head(w) % 16) = elem /\ ListSize(w) = size
        /\ Drop(w, ListLength(w)) = rest
    BY <1>1, <2>1, <2>3, <2>4
  <2> QED
    BY <2>5 DEF w, b
<1> QED
  BY <1>3, <1>4

(* What readMapBegin does.                                                 *)
MapTypes(w) == IF ReadVarint(w) = 0 THEN 0 ELSE w[VarintLength(w) + 1]
MapLength(w) == VarintLength(w) + (IF ReadVarint(w) = 0 THEN 0 ELSE 1)

(* readMapBegin gives the size that was sent, and the types of a map that  *)
(* is not empty.                                                           *)
LEMMA MapInFront ==
  ASSUME NEW key \in TTypes, NEW val \in TTypes, NEW size \in Sizes, NEW rest \in Bytes
  PROVE  LET w == MapHeader(key, val, size) \o rest
         IN  /\ MapHeader(key, val, size) \in Bytes
             /\ ReadVarint(w) = size
             /\ TTypeOf(MapTypes(w) \div 16) = IF size = 0 THEN "STOP" ELSE key
             /\ TTypeOf(MapTypes(w) % 16) = IF size = 0 THEN "STOP" ELSE val
             /\ Drop(w, MapLength(w)) = rest
<1> DEFINE b == MapHeader(key, val, size)
           w == b \o rest
<1>1. size \in Nat /\ Unsigned(size) = size
  BY SizeKept
<1>2. CASE size = 0
  <2>1. Varint[0] = <<0>>
    <3>1. Varint[0] = Coded(Varint, 0)
      BY VarintIs
    <3> QED
      BY <3>1 DEF Coded
  <2>2. b = Varint[size]
    BY <1>2, <2>1 DEF MapHeader
  <2> HIDE DEF b
  <2>3. /\ b \in Bytes /\ ReadVarint(w) = size /\ VarintLength(w) = Len(b)
        /\ Drop(w, Len(b)) = rest
    BY <1>1, <2>2, VarintInFront
  <2>4. Len(b) \in Nat
    BY <2>3, LenProperties DEF Bytes
  <2> HIDE DEF w
  <2>5. MapTypes(w) = 0 /\ MapLength(w) = Len(b)
    BY <1>2, <2>3, <2>4 DEF MapTypes, MapLength
  <2>6. TTypeOf(MapTypes(w) \div 16) = "STOP" /\ TTypeOf(MapTypes(w) % 16) = "STOP"
    <3>1. 0 \div 16 = 0 /\ 0 % 16 = 0
      OBVIOUS
    <3> QED
      BY <2>5, <3>1, NibblesKept
  <2>7. b \in Bytes /\ ReadVarint(w) = size
        /\ TTypeOf(MapTypes(w) \div 16) = (IF size = 0 THEN "STOP" ELSE key)
        /\ TTypeOf(MapTypes(w) % 16) = (IF size = 0 THEN "STOP" ELSE val)
        /\ Drop(w, MapLength(w)) = rest
    BY <1>2, <2>3, <2>5, <2>6
  <2> QED
    BY <2>7 DEF w, b
<1>3. CASE size # 0
  <2> DEFINE k == CompactType[key]
             v == CompactType[val]
             n == Byte(k * 16 + v)
             u == Varint[size]
  <2>1. k \in 1..12 /\ v \in 1..12 /\ TTypeOf(k) = key /\ TTypeOf(v) = val
    BY TypeKept
  <2>2. b = u \o <<n>>
    BY <1>3 DEF MapHeader
  <2> HIDE DEF k, v
  <2>3. n \in 0..255 /\ n % 16 = v /\ n \div 16 = k
    BY <2>1 DEF Byte
  <2> HIDE DEF n, b
  <2>4. <<n>> \in Bytes /\ <<n>> \o rest \in Bytes /\ (<<n>> \o rest)[1] = n /\ Len(<<n>>) = 1
    BY <2>3, ByteInFront
  <2>5. /\ u \in Bytes
        /\ ReadVarint(u \o (<<n>> \o rest)) = size
        /\ VarintLength(u \o (<<n>> \o rest)) = Len(u)
    BY <1>1, <2>4, VarintInFront
  <2> HIDE DEF u
  <2>6. w = u \o (<<n>> \o rest)
    BY <2>2, <2>4, <2>5, ConcatAssociative DEF Bytes
  <2>7. b \in Bytes /\ Len(b) = Len(u) + 1 /\ b[Len(u) + 1] = n /\ Len(u) \in Nat
    <3> DEFINE one == <<n>>
    <3>1. one \in Bytes /\ Len(one) = 1 /\ one[1] = n
      BY <2>4
    <3> HIDE DEF one
    <3>2. Len(u) \in Nat
      BY <2>5, LenProperties DEF Bytes
    <3>3. /\ u \o one \in Bytes
          /\ Len(u \o one) = Len(u) + 1
          /\ (u \o one)[Len(u) + 1] = n
      <4>1. /\ u \o one \in Seq(0..255)
            /\ Len(u \o one) = Len(u) + Len(one)
            /\ \A i \in 1..(Len(u) + Len(one)) : (u \o one)[i] = IF i <= Len(u) THEN u[i] ELSE one[i - Len(u)]
        BY <2>5, <3>1, ConcatProperties DEF Bytes
      <4>2. Len(u) + 1 \in 1..(Len(u) + Len(one)) /\ ~(Len(u) + 1 <= Len(u)) /\ Len(u) + 1 - Len(u) = 1
        BY <3>1, <3>2
      <4> QED
        BY <3>1, <4>1, <4>2 DEF Bytes
    <3>4. b = u \o one
      BY <2>2 DEF one
    <3> QED
      BY <3>1, <3>2, <3>3, <3>4
  <2>8. w[Len(u) + 1] = n /\ Drop(w, Len(u) + 1) = rest
    <3>1. Len(u) + 1 \in 1..Len(b)
      BY <2>7
    <3>2. (b \o rest)[Len(u) + 1] = b[Len(u) + 1] /\ Drop(b \o rest, Len(b)) = rest
      BY <2>7, <3>1, Dropped
    <3> QED
      BY <2>7, <3>2
  <2> HIDE DEF w
  <2>9. ReadVarint(w) = size /\ VarintLength(w) = Len(u)
    BY <2>5, <2>6
  <2>10. MapTypes(w) = n /\ MapLength(w) = Len(u) + 1
    BY <1>3, <2>8, <2>9 DEF MapTypes, MapLength
  <2>11. b \in Bytes /\ ReadVarint(w) = size
        /\ TTypeOf(MapTypes(w) \div 16) = (IF size = 0 THEN "STOP" ELSE key)
        /\ TTypeOf(MapTypes(w) % 16) = (IF size = 0 THEN "STOP" ELSE val)
        /\ Drop(w, MapLength(w)) = rest
    BY <1>3, <2>1, <2>3, <2>7, <2>8, <2>9, <2>10
  <2> QED
    BY <2>11 DEF w, b
<1> QED
  BY <1>2, <1>3

(* Bytes in front of bytes in front of bytes.                              *)
LEMMA Joined ==
  ASSUME NEW a \in Bytes, NEW b \in Bytes, NEW c \in Bytes
  PROVE  (a \o b) \o c = a \o (b \o c)
BY ConcatAssociative DEF Bytes

(* The bytes of a string.                                                  *)
Text(n) == [i \in 1..n |-> 12]

(* It is as long as its varint says.                                       *)
LEMMA TextIs ==
  ASSUME NEW n \in Nat
  PROVE  Text(n) \in Bytes /\ Len(Text(n)) = n
<1>1. Text(n) \in [1..n -> 0..255]
  BY DEF Text
<1>2. Text(n) \in Seq(0..255)
  <2>1. Text(n) \in UNION {[1..m -> 0..255] : m \in Nat}
    BY <1>1, Zenon
  <2> QED
    BY <2>1, SeqDef, Zenon
<1>3. DOMAIN Text(n) = 1..n
  BY DEF Text
<1>4. DOMAIN Text(n) = 1..Len(Text(n)) /\ Len(Text(n)) \in Nat
  BY <1>2, LenProperties
<1>5. \A k \in Nat : 1..k = 1..n => k = n
  <2> SUFFICES ASSUME NEW k \in Nat, 1..k = 1..n
               PROVE  k = n
    OBVIOUS
  <2>1. (k \in 1..k <=> k \in 1..n) /\ (n \in 1..n <=> n \in 1..k)
    BY Zenon
  <2> QED
    BY <2>1
<1> QED
  BY <1>2, <1>3, <1>4, <1>5 DEF Bytes

(* A string is taken off the wire with its length in front.                *)
LEMMA StringInFront ==
  ASSUME NEW val \in Sizes, NEW rest \in Bytes
  PROVE  LET b == Varint[val] \o Text(val)
             w == b \o rest
         IN  /\ b \in Bytes
             /\ ReadVarint(w) = val
             /\ Drop(w, VarintLength(w) + val) = rest
<1> DEFINE u == Varint[val]
           s == Text(val)
           b == u \o s
           w == b \o rest
<1>1. val \in Nat /\ Unsigned(val) = val
  BY SizeKept
<1>2. s \in Bytes /\ Len(s) = val
  BY <1>1, TextIs
<1> HIDE DEF s
<1>3. s \o rest \in Bytes
  BY <1>2, Dropped
<1>4. u \in Bytes /\ ReadVarint(u \o (s \o rest)) = val /\ VarintLength(u \o (s \o rest)) = Len(u)
  BY <1>1, <1>3, VarintInFront
<1> HIDE DEF u
<1>5. b \in Bytes /\ Len(b) = Len(u) + val
  BY <1>2, <1>4, Dropped
<1>6. w = u \o (s \o rest)
  BY <1>2, <1>4, ConcatAssociative DEF Bytes
<1> HIDE DEF b
<1>7. Drop(w, Len(b)) = rest
  BY <1>5, Dropped
<1> HIDE DEF w
<1>8. b \in Bytes /\ ReadVarint(w) = val /\ Drop(w, VarintLength(w) + val) = rest
  BY <1>4, <1>5, <1>6, <1>7
<1> QED
  BY <1>8 DEF w, b, u, s

(* What readMessageBegin does.                                             *)
Body(w) == Drop(w, 2 + VarintLength(Drop(w, 2)))

ReadAsMessage(w, type, seqid, name, rest) ==
    /\ (w[2] \div 32) % 4 = type % 4
    /\ Signed(ReadVarint(Drop(w, 2)), Width) = seqid
    /\ ReadVarint(Body(w)) = name
    /\ Drop(w, Len(w) - Len(Body(w)) + VarintLength(Body(w)) + name) = rest

(* readMessageBegin gives what was sent, but for two bits of the type.     *)
LEMMA MessageInFront ==
  ASSUME NEW type \in 1..4, NEW seqid \in Ints, NEW name \in Sizes, NEW rest \in Bytes
  PROVE  /\ MessageHeader(type, seqid, name) \in Bytes
         /\ ReadAsMessage(MessageHeader(type, seqid, name) \o rest, type, seqid, name, rest)
<1> DEFINE n == Byte(1 + type * 32)
           p == <<130, n>>
           u == Varint[Unsigned(seqid)]
           v == Varint[name] \o Text(name)
           b == MessageHeader(type, seqid, name)
           w == b \o rest
<1>1. /\ Unsigned(seqid) \in Nat /\ Unsigned(Unsigned(seqid)) = Unsigned(seqid)
      /\ Signed(Unsigned(seqid), Width) = seqid
  BY SeqidKept
<1>2. name \in Nat
  BY SizeKept
<1>3. n \in 0..255 /\ (n \div 32) % 4 = type % 4
  BY DEF Byte
<1> HIDE DEF n
<1>4. p \in Bytes /\ Len(p) = 2 /\ p[2] = n
  BY <1>3 DEF Bytes
<1> HIDE DEF p
<1>5. /\ v \in Bytes
      /\ ReadVarint(v \o rest) = name
      /\ Drop(v \o rest, VarintLength(v \o rest) + name) = rest
  BY StringInFront
<1>6. v \o rest \in Bytes
  BY <1>5, Dropped
<1>7. /\ u \in Bytes
      /\ ReadVarint(u \o (v \o rest)) = Unsigned(seqid)
      /\ VarintLength(u \o (v \o rest)) = Len(u)
  BY <1>1, <1>6, VarintInFront
<1>8. b = (p \o u) \o v
  <2>1. Varint[name] \in Bytes /\ Text(name) \in Bytes
    BY <1>2, <1>6, VarintInFront, TextIs
  <2>2. p \o u \in Bytes
    BY <1>4, <1>7, Dropped
  <2>3. b = ((p \o u) \o Varint[name]) \o Text(name)
    BY DEF MessageHeader, p, n, Text
  <2>4. ((p \o u) \o Varint[name]) \o Text(name) = (p \o u) \o (Varint[name] \o Text(name))
    BY <2>1, <2>2, Joined, Zenon
  <2> QED
    BY <2>3, <2>4
<1> HIDE DEF u, v
<1>9. /\ p \o u \in Bytes /\ Len(p \o u) = 2 + Len(u) /\ Len(u) \in Nat
      /\ (p \o u)[2] = n
  <2>1. /\ p \o u \in Bytes /\ Len(p \o u) = Len(p) + Len(u) /\ Len(u) \in Nat
        /\ \A i \in 1..Len(p) : (p \o u)[i] = p[i]
    BY <1>4, <1>7, Dropped
  <2> QED
    BY <1>4, <2>1
<1>10. b \in Bytes
  BY <1>5, <1>8, <1>9, Dropped
<1> HIDE DEF b
<1>11. w = (p \o u) \o (v \o rest)
  <2>1. w = ((p \o u) \o v) \o rest
    BY <1>8
  <2> QED
    <3> HIDE DEF v, p, u, w
    <3>1. rest \in Bytes
      OBVIOUS
    <3> QED
      BY <1>5, <1>9, <2>1, <3>1, Joined, Zenon
<1>12. w = p \o (u \o (v \o rest))
  <2> HIDE DEF p, u, v, w
  <2> QED
    BY <1>4, <1>6, <1>7, <1>11, Joined, Zenon
<1>13. u \o (v \o rest) \in Bytes
  BY <1>6, <1>7, Dropped
<1>14. Drop(w, 2) = u \o (v \o rest) /\ w[2] = n
  <2>1. /\ Drop(p \o (u \o (v \o rest)), Len(p)) = u \o (v \o rest)
        /\ \A i \in 1..Len(p) : (p \o (u \o (v \o rest)))[i] = p[i]
    BY <1>4, <1>13, Dropped
  <2> HIDE DEF w
  <2>2. w[2] = (p \o (u \o (v \o rest)))[2] /\ Drop(w, 2) = Drop(p \o (u \o (v \o rest)), 2)
    BY <1>12, Zenon
  <2>3. 2 \in 1..Len(p)
    BY <1>4
  <2> DEFINE x == p \o (u \o (v \o rest))
  <2> HIDE DEF x
  <2>4. Drop(x, Len(p)) = u \o (v \o rest) /\ \A i \in 1..Len(p) : x[i] = p[i]
    BY <2>1 DEF x
  <2>5. w[2] = x[2] /\ Drop(w, 2) = Drop(x, 2)
    BY <2>2 DEF x
  <2> QED
    BY <1>4, <2>3, <2>4, <2>5
<1>15. Body(w) = v \o rest /\ Len(w) = 2 + Len(u) + Len(v \o rest) /\ Len(v \o rest) \in Nat
  <2>1. /\ Drop((p \o u) \o (v \o rest), Len(p \o u)) = v \o rest
        /\ Len((p \o u) \o (v \o rest)) = Len(p \o u) + Len(v \o rest)
        /\ Len(v \o rest) \in Nat
    BY <1>6, <1>9, Dropped
  <2>2. 2 + VarintLength(Drop(w, 2)) = Len(p \o u)
    BY <1>7, <1>9, <1>14
  <2>3. Body(w) = v \o rest
    BY <1>11, <2>1, <2>2 DEF Body
  <2> QED
    BY <1>9, <1>11, <2>1, <2>3
<1>16. Drop(w, Len(w) - Len(Body(w)) + VarintLength(Body(w)) + name) = rest
  <2> DEFINE k == VarintLength(v \o rest)
             q == p \o u
             z == Varint[name]
             s == Text(name)
  <2>1. s \in Bytes /\ Len(s) = name
    BY <1>2, TextIs
  <2>2. s \o rest \in Bytes
    BY <2>1, Dropped
  <2>3. z \in Bytes /\ VarintLength(z \o (s \o rest)) = Len(z) /\ Len(z) \in Nat
    <3>1. z \in Bytes /\ VarintLength(z \o (s \o rest)) = Len(z)
      BY <1>2, <2>2, VarintInFront
    <3> QED
      BY <3>1, LenProperties DEF Bytes
  <2>4. v = z \o s
    BY DEF v
  <2> HIDE DEF s, z
  <2>5. v \o rest = z \o (s \o rest) /\ Len(v) = Len(z) + name
    <3>1. (z \o s) \o rest = z \o (s \o rest)
      BY <2>1, <2>3, ConcatAssociative DEF Bytes
    <3>2. Len(z \o s) = Len(z) + Len(s)
      BY <2>1, <2>3, Dropped
    <3> QED
      BY <2>1, <2>4, <3>1, <3>2
  <2>6. k = Len(z)
    BY <2>3, <2>5
  <2>7. Len(b) = Len(q) + Len(v)
    BY <1>5, <1>8, <1>9, Dropped
  <2>8. Len(w) - Len(Body(w)) + VarintLength(Body(w)) + name = Len(b)
    <3> HIDE DEF w, k, q
    <3>1. Len(w) - Len(Body(w)) = 2 + Len(u)
      BY <1>9, <1>15
    <3>2. VarintLength(Body(w)) = Len(z)
      BY <1>15, <2>6 DEF k
    <3>3. Len(b) = 2 + Len(u) + Len(z) + name
      BY <1>2, <1>9, <2>3, <2>5, <2>7 DEF q
    <3> QED
      BY <1>2, <1>9, <2>3, <3>1, <3>2, <3>3
  <2>9. Drop(w, Len(b)) = rest
    BY <1>10, Dropped
  <2> QED
    BY <2>8, <2>9
<1>17. (w[2] \div 32) % 4 = type % 4
  BY <1>3, <1>14
<1>18. Signed(ReadVarint(Drop(w, 2)), Width) = seqid
  BY <1>1, <1>7, <1>14
<1>19. ReadVarint(Body(w)) = name
  BY <1>5, <1>15
<1> HIDE DEF w
<1>20. b \in Bytes /\ ReadAsMessage(w, type, seqid, name, rest)
  BY <1>10, <1>16, <1>17, <1>18, <1>19 DEF ReadAsMessage
<1> QED
  BY <1>20 DEF w, b

------------------------------------------------------------------------------
(* What both sides know of what is to be finished: the types.              *)
Types(t) == [i \in 1..Len(t) |-> t[i].types]

(* The types that remain when the next value has been dealt with.          *)
Left(types) ==
    IF Tail(Head(types)) = <<>> THEN Tail(types) ELSE <<Tail(Head(types))>> \o Tail(types)
Inside(types, left) == IF types = <<>> THEN left ELSE <<types>> \o left

InFields(types) == types # <<>> /\ Head(types) = <<>>
Expects(types, type) == types # <<>> /\ Head(types) # <<>> /\ Head(Head(types)) = type

(* They are as many as what they are types of.                             *)
LEMMA TypesAre ==
  ASSUME NEW t, IsTodo(t)
  PROVE  /\ Types(t) \in Seq({t[i].types : i \in 1..Len(t)})
         /\ Len(Types(t)) = Len(t) /\ Len(t) \in Nat
         /\ \A i \in 1..Len(t) : Types(t)[i] = t[i].types
<1> DEFINE S == {t[i].types : i \in 1..Len(t)}
<1>1. Len(t) \in Nat
  BY StructsFinite
<1>2. Types(t) \in [1..Len(t) -> S]
  BY DEF Types
<1> HIDE DEF S
<1>3. Types(t) \in UNION {[1..n -> S] : n \in Nat}
  BY <1>1, <1>2
<1>4. Types(t) \in Seq(S)
  BY <1>3, SeqDef
<1>5. DOMAIN Types(t) = 1..Len(t)
  BY DEF Types
<1>6. Len(Types(t)) = Len(t)
  <2>1. 1..Len(Types(t)) = 1..Len(t) /\ Len(Types(t)) \in Nat
    BY <1>4, <1>5, LenProperties
  <2>2. ASSUME NEW k \in Nat, NEW n \in Nat, 1..k = 1..n
        PROVE  k = n
    <3>1. (k \in 1..k <=> k \in 1..n) /\ (n \in 1..n <=> n \in 1..k)
      BY <2>2, Zenon
    <3> QED
      BY <3>1
  <2> QED
    BY <1>1, <2>1, <2>2
<1>7. \A i \in 1..Len(t) : Types(t)[i] = t[i].types
  BY DEF Types
<1> QED
  BY <1>1, <1>4, <1>6, <1>7 DEF S

(* The first ones, and those behind them.                                  *)
LEMMA TypesAhead ==
  ASSUME NEW t, IsTodo(t)
  PROVE  /\ Types(t) = <<>> <=> t = <<>>
         /\ t # <<>> => Head(Types(t)) = Head(t).types /\ Tail(Types(t)) = Types(Tail(t))
<1> DEFINE S == {t[i].types : i \in 1..Len(t)}
<1>1. /\ Types(t) \in Seq(S) /\ Len(Types(t)) = Len(t) /\ Len(t) \in Nat
      /\ \A i \in 1..Len(t) : Types(t)[i] = t[i].types
  BY TypesAre
<1>2. t = <<>> <=> Len(t) = 0
  BY StructsFinite
<1> HIDE DEF S
<1>3. Types(t) = <<>> <=> Len(Types(t)) = 0
  BY <1>1, EmptySeq
<1>4. ASSUME t # <<>>
      PROVE  Head(Types(t)) = Head(t).types /\ Tail(Types(t)) = Types(Tail(t))
  <2>1. /\ IsTodo(Tail(t)) /\ Len(Tail(t)) = Len(t) - 1
        /\ \A i \in 1..(Len(t) - 1) : Tail(t)[i] = t[i + 1]
    <3>1. IsTodo(Tail(t)) /\ Len(Tail(t)) = Len(t) - 1
      BY <1>4, Behind
    <3>2. t \in Seq({t[i] : i \in 1..Len(t)})
      BY DEF IsTodo, IsSequence
    <3>3. \A i \in 1..Len(Tail(t)) : Tail(t)[i] = t[i + 1]
      BY <1>4, <3>2, HeadTailProperties
    <3> QED
      BY <3>1, <3>3
  <2>2. Types(t) # <<>>
    BY <1>1, <1>2, <1>3, <1>4
  <2>3. /\ Head(Types(t)) = Types(t)[1]
        /\ Tail(Types(t)) \in Seq(S)
        /\ Len(Tail(Types(t))) = Len(t) - 1
        /\ \A i \in 1..(Len(t) - 1) : Tail(Types(t))[i] = Types(t)[i + 1]
    BY <1>1, <2>2, HeadTailProperties
  <2>4. Head(t) = t[1] /\ 1 \in 1..Len(t)
    BY <1>1, <1>2, <1>4
  <2>5. \A i \in 1..(Len(t) - 1) : Tail(Types(t))[i] = Tail(t)[i].types
    <3> SUFFICES ASSUME NEW i \in 1..(Len(t) - 1)
                 PROVE  Tail(Types(t))[i] = Tail(t)[i].types
      OBVIOUS
    <3>1. i + 1 \in 1..Len(t)
      BY <1>1
    <3> QED
      BY <1>1, <2>1, <2>3, <3>1
  <2>6. Tail(Types(t)) = [i \in 1..(Len(t) - 1) |-> Tail(Types(t))[i]]
    <3>1. DOMAIN Tail(Types(t)) = 1..(Len(t) - 1) /\ Tail(Types(t)) \in [1..(Len(t) - 1) -> S]
      BY <2>3, LenProperties
    <3> QED
      BY <3>1
  <2>7. Tail(Types(t)) = Types(Tail(t))
    BY <2>1, <2>5, <2>6 DEF Types
  <2> QED
    BY <1>1, <2>3, <2>4, <2>7
<1> QED
  BY <1>1, <1>2, <1>3, <1>4

(* One element in front of a sequence.                                     *)
LEMMA PutInFront ==
  ASSUME NEW S, NEW e \in S, NEW t \in Seq(S)
  PROVE  /\ <<e>> \o t \in Seq(S)
         /\ Len(<<e>> \o t) = Len(t) + 1
         /\ (<<e>> \o t)[1] = e
         /\ \A i \in 1..Len(t) : (<<e>> \o t)[i + 1] = t[i]
BY LenProperties

(* Types are put in front with what they are types of.                     *)
LEMMA TypesInFront ==
  ASSUME NEW t, IsTodo(t), NEW e, IsEntry(e)
  PROVE  Types(<<e>> \o t) = <<e.types>> \o Types(t)
<1> DEFINE w == <<e>> \o t
           S == {t[i].types : i \in 1..Len(t)} \cup {e.types}
           ts == Types(t)
           one == <<e.types>>
<1>1. IsTodo(w) /\ Len(w) = Len(t) + 1 /\ w # <<>> /\ Head(w) = e /\ Tail(w) = t
  BY InFront
<1>2. ts \in Seq(S) /\ Len(ts) = Len(t) /\ Len(t) \in Nat
  <2>1. ts \in Seq({t[i].types : i \in 1..Len(t)}) /\ Len(ts) = Len(t) /\ Len(t) \in Nat
    BY TypesAre
  <2>2. {t[i].types : i \in 1..Len(t)} \subseteq S
    OBVIOUS
  <2> QED
    BY <2>1, <2>2, SeqMonotonic
<1>3. one \in Seq(S) /\ Len(one) = 1 /\ one[1] = e.types
  OBVIOUS
<1> HIDE DEF w, ts, one, S
<1>4. Head(Types(w)) = e.types /\ Tail(Types(w)) = ts /\ Types(w) # <<>>
  BY <1>1, TypesAhead DEF ts
<1>5. Types(w) \in Seq({w[i].types : i \in 1..Len(w)}) /\ Len(Types(w)) = Len(t) + 1
  BY <1>1, TypesAre
<1>6. /\ Types(w)[1] = e.types
      /\ \A i \in 1..Len(t) : Types(w)[i + 1] = ts[i]
  <2>1. /\ Head(Types(w)) = Types(w)[1]
        /\ Len(Tail(Types(w))) = Len(Types(w)) - 1
        /\ \A i \in 1..Len(Tail(Types(w))) : Tail(Types(w))[i] = Types(w)[i + 1]
    <3> DEFINE x == Types(w)
               X == {w[i].types : i \in 1..Len(w)}
    <3> HIDE DEF x, X
    <3>1. x \in Seq(X) /\ x # <<>>
      BY <1>4, <1>5 DEF x, X
    <3>2. Head(x) = x[1] /\ Len(Tail(x)) = Len(x) - 1 /\ \A i \in 1..Len(Tail(x)) : Tail(x)[i] = x[i + 1]
      BY <3>1, HeadTailProperties
    <3> QED
      BY <3>2 DEF x
  <2> QED
    BY <1>2, <1>4, <1>5, <2>1
<1>7. /\ one \o ts \in Seq(S) /\ Len(one \o ts) = Len(t) + 1
      /\ (one \o ts)[1] = e.types
      /\ \A i \in 1..Len(t) : (one \o ts)[i + 1] = ts[i]
  <2>1. e.types \in S
    BY DEF S
  <2>2. ts \in Seq(S) /\ Len(ts) = Len(t)
    BY <1>2
  <2> QED
    BY <2>1, <2>2, PutInFront DEF one
<1>8. Types(w) = one \o ts
  <2>1. \A i \in 1..(Len(t) + 1) : Types(w)[i] = (one \o ts)[i]
    <3> SUFFICES ASSUME NEW i \in 1..(Len(t) + 1)
                 PROVE  Types(w)[i] = (one \o ts)[i]
      OBVIOUS
    <3>1. CASE i = 1
      BY <1>6, <1>7, <3>1
    <3>2. CASE i # 1
      <4>1. i - 1 \in 1..Len(t) /\ i = (i - 1) + 1
        BY <1>2, <3>2
      <4>2. Types(w)[(i - 1) + 1] = ts[i - 1] /\ (one \o ts)[(i - 1) + 1] = ts[i - 1]
        BY <1>6, <1>7, <4>1
      <4> QED
        BY <4>1, <4>2
    <3> QED
      BY <3>1, <3>2
  <2>2. DOMAIN Types(w) = 1..(Len(t) + 1)
    BY <1>1 DEF Types
  <2>3. Types(w) = [i \in 1..(Len(t) + 1) |-> Types(w)[i]]
    BY <1>1 DEF Types
  <2>4. one \o ts \in [1..(Len(t) + 1) -> S]
    BY <1>7, LenProperties
  <2>5. one \o ts = [i \in 1..(Len(t) + 1) |-> (one \o ts)[i]]
    BY <2>4
  <2> QED
    BY <2>1, <2>3, <2>5, Zenon
<1> QED
  BY <1>8 DEF w, ts, one
(* What the writing and the reading methods do to it.                      *)
LEMMA TypesLeft ==
  ASSUME IsTodo(todo), todo # <<>>, ~InStruct
  PROVE  IsTodo(AfterValue) /\ Types(AfterValue) = Left(Types(todo))
<1> DEFINE left == Tail(Head(todo).types)
           e == [Head(todo) EXCEPT !.types = left]
<1>1. IsTodo(AfterValue) /\ IsEntry(Head(todo)) /\ IsTodo(Tail(todo))
  BY ValueDone, Behind
<1>2. Head(Types(todo)) = Head(todo).types /\ Tail(Types(todo)) = Types(Tail(todo))
  BY TypesAhead
<1>3. CASE left = <<>>
  BY <1>1, <1>2, <1>3 DEF AfterValue, Left
<1>4. CASE left # <<>>
  <2>1. IsEntry(e) /\ e.types = left
    BY <1>1, EntryChanged
  <2>2. AfterValue = <<e>> \o Tail(todo)
    BY <1>4 DEF AfterValue
  <2>3. Left(Types(todo)) = <<left>> \o Types(Tail(todo))
    BY <1>2, <1>4 DEF Left
  <2> HIDE DEF e, left
  <2>4. Types(<<e>> \o Tail(todo)) = <<e.types>> \o Types(Tail(todo))
    BY <1>1, <2>1, TypesInFront
  <2> QED
    BY <1>1, <2>1, <2>2, <2>3, <2>4
<1> QED
  BY <1>3, <1>4

(* A list or a map begins.                                                 *)
LEMMA TypesInside ==
  ASSUME IsTodo(todo), todo # <<>>, ~InStruct, NEW types, NEW isPlain
  PROVE  Types(InsideContainer(types, isPlain) \o AfterValue) = Inside(types, Left(Types(todo)))
<1>1. IsTodo(AfterValue) /\ Types(AfterValue) = Left(Types(todo))
  BY TypesLeft
<1>2. CASE types = <<>>
  <2>1. InsideContainer(types, isPlain) \o AfterValue = AfterValue
    BY <1>1, <1>2, ConcatEmptySeq DEF InsideContainer, IsTodo, IsSequence
  <2> QED
    BY <1>1, <1>2, <2>1 DEF Inside
<1>3. CASE types # <<>>
  <2> DEFINE e == Elements(types, isPlain, Head(todo).depth + 1)
  <2>1. IsEntry(e) /\ e.types = types
    BY DEF IsEntry, Elements
  <2>2. InsideContainer(types, isPlain) = <<e>>
    BY <1>3 DEF InsideContainer
  <2> HIDE DEF e
  <2>3. Types(<<e>> \o AfterValue) = <<types>> \o Types(AfterValue)
    BY <1>1, <2>1, TypesInFront
  <2> QED
    BY <1>1, <1>3, <2>2, <2>3 DEF Inside
<1> QED
  BY <1>2, <1>3

(* A struct begins, with no value due but its fields.                      *)
LEMMA TypesInStruct ==
  ASSUME IsTodo(todo), todo # <<>>, ~InStruct, NEW ids
  PROVE  Types(InsideStruct(ids) \o AfterValue) = << <<>> >> \o Left(Types(todo))
<1> DEFINE e == Struct(ids, Head(todo).depth + 1)
<1>1. IsTodo(AfterValue) /\ Types(AfterValue) = Left(Types(todo))
  BY TypesLeft
<1>2. IsEntry(e) /\ e.types = <<>>
  BY DEF IsEntry, Struct
<1>3. InsideStruct(ids) = <<e>>
  BY DEF InsideStruct
<1> HIDE DEF e
<1>4. Types(<<e>> \o AfterValue) = << <<>> >> \o Types(AfterValue)
  BY <1>1, <1>2, TypesInFront
<1> QED
  BY <1>1, <1>3, <1>4

(* A field begins: its value is due.                                       *)
LEMMA TypesInField ==
  ASSUME NEW t, IsTodo(t), NEW type
  PROVE  Types(InsideField(type) \o t) = << <<type>> >> \o Types(t)
<1> DEFINE e == Elements(<<type>>, FALSE, Head(todo).depth)
<1>1. IsEntry(e) /\ e.types = <<type>>
  BY DEF IsEntry, Elements
<1>2. InsideField(type) = <<e>>
  BY DEF InsideField
<1> HIDE DEF e
<1>3. Types(<<e>> \o t) = << <<type>> >> \o Types(t)
  BY <1>1, TypesInFront
<1> QED
  BY <1>2, <1>3

(* An id is struck out: the types are as before.                           *)
LEMMA TypesStruck ==
  ASSUME IsTodo(todo), InStruct, NEW ids
  PROVE  Types(<<[Head(todo) EXCEPT !.ids = ids]>> \o Tail(todo)) = Types(todo)
<1> DEFINE e == [Head(todo) EXCEPT !.ids = ids]
<1>1. todo # <<>>
  BY DEF InStruct
<1>2. IsEntry(Head(todo)) /\ IsTodo(Tail(todo))
  BY <1>1, Behind
<1>3. IsEntry(e) /\ e.types = Head(todo).types
  BY <1>2, EntryChanged
<1> HIDE DEF e
<1>4. Types(<<e>> \o Tail(todo)) = <<Head(todo).types>> \o Types(Tail(todo))
  BY <1>2, <1>3, TypesInFront
<1> DEFINE d == Head(todo)
           r == Tail(todo)
<1>5. todo = <<d>> \o r
  <2> DEFINE S == {todo[i] : i \in 1..Len(todo)}
  <2>1. todo \in Seq(S)
    BY DEF IsTodo, IsSequence
  <2> HIDE DEF S
  <2>2. todo = SubSeq(todo, 1, Len(todo)) /\ Len(todo) \in Nat /\ Len(todo) >= 1
    BY <1>1, <2>1, SubSeqFull, EmptySeq
  <2>3. SubSeq(todo, 1, Len(todo)) = <<todo[1]>> \o SubSeq(todo, 1 + 1, Len(todo))
    <3>1. 1 \in 1..Len(todo) /\ Len(todo) \in 1..Len(todo)
      BY <2>2
    <3> QED
      BY <2>1, <3>1, SubSeqRecursiveFirst
  <2>4. Tail(todo) = SubSeq(todo, 2, Len(todo)) /\ Head(todo) = todo[1]
    BY <1>1, <2>1, TailIsSubSeq
  <2> QED
    BY <2>2, <2>3, <2>4
<1> HIDE DEF d, r
<1>6. Types(<<d>> \o r) = <<d.types>> \o Types(r)
  BY <1>2, TypesInFront DEF d, r
<1>7. Types(todo) = <<d.types>> \o Types(r)
  BY <1>5, <1>6
<1>8. Types(<<e>> \o Tail(todo)) = Types(todo)
  BY <1>4, <1>7 DEF d, r
<1> QED
  BY <1>8 DEF e

(* What is due, by the types.                                              *)
LEMMA DueByTypes ==
  ASSUME IsTodo(todo)
  PROVE  /\ InStruct <=> InFields(Types(todo))
         /\ \A type : Due(type) <=> Expects(Types(todo), type)
BY TypesAhead DEF InStruct, Due, InFields, Expects

------------------------------------------------------------------------------
(* What the bytes of a call mean to a reader.  p and q are what it knows   *)
(* before and after it: its object, the types it has to finish.            *)
Opened(p) == [p EXCEPT !.lastField = Append(@, p.lastFieldId), !.lastFieldId = 0]
Closed(p) ==
    [p EXCEPT !.lastFieldId = p.lastField[Len(p.lastField)],
              !.lastField = SubSeq(@, 1, Len(@) - 1)]
Headed(p, type, id, nibble) ==
    [p EXCEPT !.lastFieldId = id,
              !.boolean = IF type = "BOOL" THEN <<IF nibble = False THEN 0 ELSE 1>> ELSE @]

MeansMessage(c, b, p, q) ==
    \E type \in 1..4, seqid \in Ints, name \in Sizes :
      /\ c = Call("MessageBegin", <<type, name>>, seqid)
      /\ b = MessageHeader(type, seqid, name)
      /\ p.types = <<>> /\ q.types = << <<"STRUCT">> >>
      /\ q.obj = p.obj

MeansStruct(c, b, p, q) ==
    /\ c = Call("StructBegin", <<>>, 0) /\ b = <<>>
    /\ Expects(p.types, "STRUCT") /\ q.types = << <<>> >> \o Left(p.types)
    /\ q.obj = Opened(p.obj)

MeansField(c, b, p, q) ==
    \E type \in TTypes, id \in FieldIds, nibble \in 1..12 :
      /\ nibble = CompactType[type] \/ (type = "BOOL" /\ nibble = False)
      /\ c = Call("FieldBegin", <<type>>, id)
      /\ p.obj.lastFieldId \in Int
      /\ b = FieldBytes(p.obj.lastFieldId, id, nibble)
      /\ InFields(p.types) /\ q.types = << <<type>> >> \o p.types
      /\ q.obj = Headed(p.obj, type, id, nibble)

MeansEnd(c, b, p, q) ==
    /\ c = Call("StructEnd", <<>>, 0) /\ b = <<0>>
    /\ InFields(p.types) /\ q.types = Tail(p.types)
    /\ q.obj = Closed(p.obj)

(* A boolean that was in the header of its field, and one that was not.    *)
MeansHeld(c, b, p, q) ==
    /\ p.obj.boolean # <<>>
    /\ c = Call("BOOL", <<>>, p.obj.boolean[1]) /\ b = <<>>
    /\ Expects(p.types, "BOOL") /\ q.types = Left(p.types)
    /\ q.obj = [p.obj EXCEPT !.boolean = <<>>]
MeansBool(c, b, p, q) ==
    \E val \in {0, 1} :
      /\ p.obj.boolean = <<>>
      /\ c = Call("BOOL", <<>>, val) /\ b = <<IF val = 1 THEN 1 ELSE False>>
      /\ Expects(p.types, "BOOL") /\ q.types = Left(p.types)
      /\ q.obj = p.obj

MeansByte(c, b, p, q) ==
    \E val \in -128..127 :
      /\ c = Call("BYTE", <<>>, val) /\ b = <<Byte(val)>>
      /\ Expects(p.types, "BYTE") /\ q.types = Left(p.types)
      /\ q.obj = p.obj
MeansI32(c, b, p, q) ==
    \E val \in Ints :
      /\ c = Call("I32", <<>>, val) /\ b = Varint[ZigZag(val)]
      /\ Expects(p.types, "I32") /\ q.types = Left(p.types)
      /\ q.obj = p.obj
MeansString(c, b, p, q) ==
    \E val \in Sizes :
      /\ c = Call("STRING", <<>>, val) /\ b = Varint[val] \o Text(val)
      /\ Expects(p.types, "STRING") /\ q.types = Left(p.types)
      /\ q.obj = p.obj

MeansList(c, b, p, q) ==
    \E elem \in TTypes, size \in Sizes :
      /\ c = Call("ListBegin", <<elem>>, size) /\ b = ListHeader(elem, size)
      /\ Expects(p.types, "LIST")
      /\ q.types = Inside(ListOf(elem, size), Left(p.types))
      /\ q.obj = p.obj
MeansMap(c, b, p, q) ==
    \E key, val \in TTypes, size \in Sizes :
      /\ c = Call("MapBegin", <<key, val>>, size) /\ b = MapHeader(key, val, size)
      /\ Expects(p.types, "MAP")
      /\ q.types = Inside(MapOf(key, val, size), Left(p.types))
      /\ q.obj = p.obj

Means(c, b, p, q) ==
    \/ MeansMessage(c, b, p, q) \/ MeansStruct(c, b, p, q) \/ MeansField(c, b, p, q)
    \/ MeansEnd(c, b, p, q) \/ MeansHeld(c, b, p, q) \/ MeansBool(c, b, p, q)
    \/ MeansByte(c, b, p, q) \/ MeansI32(c, b, p, q) \/ MeansString(c, b, p, q)
    \/ MeansList(c, b, p, q) \/ MeansMap(c, b, p, q)

(* The reader has made the call c, and knows q.                            *)
Follows(c, rest, q) ==
    /\ wire' = rest
    /\ read' = Append(read, ReadAs(c))
    /\ in' = q.obj

(* Most calls are read as they were written.                               *)
LEMMA ReadAsItIs ==
  ASSUME NEW op, NEW types, NEW num, op \notin {"MapBegin", "MessageBegin"}
  PROVE  ReadAs(Call(op, types, num)) = Call(op, types, num)
BY DEF ReadAs, Call

(* The type of a ONEWAY message is lost.                                   *)
LEMMA OnewayAs ==
  ASSUME NEW type, NEW name, NEW seqid, NEW c, c = Call("MessageBegin", <<type, name>>, seqid)
  PROVE  [c EXCEPT !.types[1] = 0] = Call("MessageBegin", <<0, name>>, seqid)
<1>1. [<<type, name>> EXCEPT ![1] = 0] = <<0, name>>
  OBVIOUS
<1>2. [Call("MessageBegin", <<type, name>>, seqid) EXCEPT !.types[1] = 0] =
        Call("MessageBegin", <<0, name>>, seqid)
  BY <1>1 DEF Call
<1> QED
  BY <1>2

(* Which call it is, the type that is due tells.                           *)
LEMMA MeantByType ==
  ASSUME NEW c, NEW b, NEW p, NEW q, Means(c, b, p, q)
  PROVE  /\ Expects(p.types, "STRUCT") => MeansStruct(c, b, p, q)
         /\ Expects(p.types, "BOOL") => MeansHeld(c, b, p, q) \/ MeansBool(c, b, p, q)
         /\ Expects(p.types, "BYTE") => MeansByte(c, b, p, q)
         /\ Expects(p.types, "I32") => MeansI32(c, b, p, q)
         /\ Expects(p.types, "STRING") => MeansString(c, b, p, q)
         /\ Expects(p.types, "LIST") => MeansList(c, b, p, q)
         /\ Expects(p.types, "MAP") => MeansMap(c, b, p, q)
         /\ InFields(p.types) => MeansField(c, b, p, q) \/ MeansEnd(c, b, p, q)
         /\ p.types = <<>> => MeansMessage(c, b, p, q)
<1>1. /\ MeansMessage(c, b, p, q) => p.types = <<>>
      /\ MeansStruct(c, b, p, q) => Expects(p.types, "STRUCT")
      /\ MeansField(c, b, p, q) \/ MeansEnd(c, b, p, q) => InFields(p.types)
      /\ MeansHeld(c, b, p, q) \/ MeansBool(c, b, p, q) => Expects(p.types, "BOOL")
      /\ MeansByte(c, b, p, q) => Expects(p.types, "BYTE")
      /\ MeansI32(c, b, p, q) => Expects(p.types, "I32")
      /\ MeansString(c, b, p, q) => Expects(p.types, "STRING")
      /\ MeansList(c, b, p, q) => Expects(p.types, "LIST")
      /\ MeansMap(c, b, p, q) => Expects(p.types, "MAP")
  BY DEF MeansMessage, MeansStruct, MeansField, MeansEnd, MeansHeld, MeansBool, MeansByte,
         MeansI32, MeansString, MeansList, MeansMap
<1>2. \A s, t : Expects(p.types, s) /\ Expects(p.types, t) => s = t
  BY DEF Expects
<1>3. ~(InFields(p.types) /\ p.types = <<>>)
      /\ \A t : Expects(p.types, t) => ~InFields(p.types) /\ p.types # <<>>
  BY DEF Expects, InFields
<1>4. \A s, t \in {"STRUCT", "BOOL", "BYTE", "I32", "STRING", "LIST", "MAP"} :
        Expects(p.types, s) /\ Expects(p.types, t) => s = t
  BY <1>2
<1> QED
  BY <1>1, <1>3, <1>4 DEF Means

(* readMessageBegin takes the bytes for what they mean.                    *)
LEMMA ReadsMessage ==
  ASSUME NEW c, NEW b, NEW rest \in Bytes, NEW p, NEW q, MeansMessage(c, b, p, q),
         wire = b \o rest, in = p.obj, ReadMessageBegin
  PROVE  Follows(c, rest, q) /\ (phase' = "reading" => Types(todo') = q.types)
<1>1. PICK type \in 1..4, seqid \in Ints, name \in Sizes :
        /\ c = Call("MessageBegin", <<type, name>>, seqid)
        /\ b = MessageHeader(type, seqid, name)
        /\ q.types = << <<"STRUCT">> >> /\ q.obj = p.obj
  BY DEF MeansMessage
<1>2. /\ (wire[2] \div 32) % 4 = type % 4
      /\ Signed(ReadVarint(Drop(wire, 2)), Width) = seqid
      /\ ReadVarint(Body(wire)) = name
      /\ Drop(wire, Len(wire) - Len(Body(wire)) + VarintLength(Body(wire)) + name) = rest
  <2>1. ReadAsMessage(MessageHeader(type, seqid, name) \o rest, type, seqid, name, rest)
    BY MessageInFront
  <2>2. ReadAsMessage(wire, type, seqid, name, rest)
    BY <1>1, <2>1
  <2> QED
    BY <2>2 DEF ReadAsMessage
<1>3. /\ wire' = rest
      /\ read' = Append(read, Call("MessageBegin", <<type % 4, name>>, seqid))
      /\ in' = in
  <2>1. /\ wire' = Drop(wire, Len(wire) - Len(Body(wire)) + VarintLength(Body(wire)) + ReadVarint(Body(wire)))
        /\ read' = Append(read, Call("MessageBegin",
                                     <<(wire[2] \div 32) % 4, ReadVarint(Body(wire))>>,
                                     Signed(ReadVarint(Drop(wire, 2)), Width)))
        /\ in' = in
    BY DEF ReadMessageBegin, Reads, Body
  <2> QED
    BY <1>2, <2>1, Zenon
<1>4. ReadAs(c) = Call("MessageBegin", <<type % 4, name>>, seqid)
  <2>1. CASE type = 4
    <3>1. type % 4 = 0
      BY <2>1
    <3>2. ReadAs(c) = [c EXCEPT !.types[1] = 0]
      BY <1>1, <2>1 DEF ReadAs, Call, ONEWAY
    <3>3. ReadAs(c) = Call("MessageBegin", <<0, name>>, seqid)
      BY <1>1, <3>2, OnewayAs
    <3> QED
      BY <3>1, <3>3
  <2>2. CASE type # 4
    <3>1. type % 4 = type
      BY <2>2
    <3> QED
      BY <1>1, <2>2, <3>1 DEF ReadAs, Call, ONEWAY
  <2> QED
    BY <2>1, <2>2
<1>5. phase' = "reading" => Types(todo') = q.types
  <2> SUFFICES ASSUME phase' = "reading"
               PROVE  Types(todo') = q.types
    OBVIOUS
  <2>1. todo' = <<Message>>
    BY DEF ReadMessageBegin
  <2>2. Message.types = <<"STRUCT">>
    BY DEF Message, Elements
  <2>3. Types(<<Message>>) = [i \in 1..1 |-> <<"STRUCT">>]
    BY <2>2 DEF Types
  <2> QED
    BY <1>1, <2>1, <2>3
<1> QED
  BY <1>1, <1>3, <1>4, <1>5 DEF Follows

(* readStructBegin, for which there are none.                              *)
LEMMA ReadsStruct ==
  ASSUME IsTodo(todo), NEW c, NEW b, NEW rest \in Bytes, NEW p, NEW q, MeansStruct(c, b, p, q),
         wire = b \o rest, in = p.obj, Types(todo) = p.types, ReadStructBegin
  PROVE  Follows(c, rest, q) /\ Types(todo') = q.types
<1>1. /\ c = Call("StructBegin", <<>>, 0) /\ b = <<>>
      /\ q.types = << <<>> >> \o Left(p.types) /\ q.obj = Opened(p.obj)
  BY DEF MeansStruct
<1>2. wire = rest
  BY <1>1, ConcatEmptySeq DEF Bytes
<1>3. wire' = Drop(wire, 0) /\ read' = Append(read, c) /\ in' = Opened(in)
  BY <1>1 DEF ReadStructBegin, Reads, Opened
<1>4. Drop(rest, 0) = rest
  <2>1. SubSeq(rest, 1, Len(rest)) = rest
    BY SubSeqFull DEF Bytes
  <2> QED
    BY <2>1 DEF Drop
<1>5. ReadAs(c) = c
  BY <1>1, ReadAsItIs
<1>6. Types(todo') = q.types
  <2>1. todo # <<>> /\ ~InStruct
    BY DEF ReadStructBegin, Due
  <2>2. todo' = InsideStruct({}) \o AfterValue
    BY DEF ReadStructBegin
  <2> QED
    BY <1>1, <2>1, <2>2, TypesInStruct
<1> QED
  BY <1>1, <1>2, <1>3, <1>4, <1>5, <1>6 DEF Follows

(* readFieldBegin: the first byte tells a field from the end.              *)
LEMMA ReadsField ==
  ASSUME IsTodo(todo), NEW c, NEW b, NEW rest \in Bytes, NEW p, NEW q,
         MeansField(c, b, p, q) \/ MeansEnd(c, b, p, q),
         wire = b \o rest, in = p.obj, Types(todo) = p.types, ReadFieldBegin
  PROVE  Follows(c, rest, q) /\ Types(todo') = q.types
<1>1. MeansField(c, b, p, q)
  <2>1. Head(wire) # 0
    BY DEF ReadFieldBegin
  <2>2. Head(<<0>> \o rest) = 0
    <3>1. 0 \in 0..255
      OBVIOUS
    <3> QED
      BY <3>1, ByteInFront, Zenon
  <2> QED
    BY <2>1, <2>2 DEF MeansEnd
<1>2. PICK type \in TTypes, id \in FieldIds, nibble \in 1..12 :
        /\ nibble = CompactType[type] \/ (type = "BOOL" /\ nibble = False)
        /\ c = Call("FieldBegin", <<type>>, id)
        /\ p.obj.lastFieldId \in Int
        /\ b = FieldBytes(p.obj.lastFieldId, id, nibble)
        /\ q.types = << <<type>> >> \o p.types
        /\ q.obj = Headed(p.obj, type, id, nibble)
  BY <1>1 DEF MeansField
<1>3. /\ Head(wire) % 16 = nibble
      /\ HeaderId(wire, in.lastFieldId) = id
      /\ Drop(wire, HeaderLength(wire)) = rest
  <2>1. PICK last \in Int : last = p.obj.lastFieldId
    BY <1>2
  <2> DEFINE h == FieldBytes(last, id, nibble)
  <2>2. ReadAsField(h \o rest, last, id, nibble, rest)
    BY FieldInFront
  <2>3. wire = h \o rest /\ in.lastFieldId = last
    BY <1>2, <2>1
  <2> HIDE DEF h
  <2> QED
    BY <2>2, <2>3 DEF ReadAsField
<1>4. TTypeOf(nibble) = type
  BY <1>2, TypeKept, NibblesKept
<1>5. /\ wire' = Drop(wire, HeaderLength(wire))
      /\ read' = Append(read, Call("FieldBegin", <<TTypeOf(Head(wire) % 16)>>,
                                   HeaderId(wire, in.lastFieldId)))
      /\ in' = Headed(in, TTypeOf(Head(wire) % 16), HeaderId(wire, in.lastFieldId), Head(wire) % 16)
      /\ todo' = InsideField(TTypeOf(Head(wire) % 16)) \o todo
  BY DEF ReadFieldBegin, Reads, HeaderId, HeaderLength, Headed
<1>6. ReadAs(c) = c
  BY <1>2, ReadAsItIs
<1>7. Follows(c, rest, q)
  BY <1>2, <1>3, <1>4, <1>5, <1>6 DEF Follows
<1>8. Types(todo') = q.types
  BY <1>2, <1>3, <1>4, <1>5, TypesInField
<1> QED
  BY <1>7, <1>8

(* readFieldBegin and readStructEnd, at the end of a struct.               *)
LEMMA ReadsEnd ==
  ASSUME IsTodo(todo), NEW c, NEW b, NEW rest \in Bytes, NEW p, NEW q,
         MeansField(c, b, p, q) \/ MeansEnd(c, b, p, q),
         wire = b \o rest, in = p.obj, Types(todo) = p.types, ReadStructEnd
  PROVE  Follows(c, rest, q) /\ Types(todo') = q.types
<1>1. MeansEnd(c, b, p, q)
  <2>1. Head(wire) = 0
    BY DEF ReadStructEnd
  <2>2. ASSUME MeansField(c, b, p, q) PROVE FALSE
    <3>1. PICK last \in Int, id \in FieldIds, nibble \in 1..12 : b = FieldBytes(last, id, nibble)
      BY <2>2 DEF MeansField
    <3>2. ReadAsField(FieldBytes(last, id, nibble) \o rest, last, id, nibble, rest)
      BY FieldInFront
    <3> QED
      BY <2>1, <3>1, <3>2 DEF ReadAsField
  <2> QED
    BY <2>2
<1>2. /\ c = Call("StructEnd", <<>>, 0) /\ b = <<0>>
      /\ q.types = Tail(p.types) /\ q.obj = Closed(p.obj)
  BY <1>1 DEF MeansEnd
<1>3. Drop(wire, 1) = rest
  <2>1. 0 \in 0..255
    OBVIOUS
  <2>2. Drop(<<0>> \o rest, 1) = rest
    BY <2>1, ByteInFront, Zenon
  <2> QED
    BY <1>2, <2>2
<1>4. wire' = Drop(wire, 1) /\ read' = Append(read, c) /\ in' = Closed(in) /\ todo' = Tail(todo)
  BY <1>2 DEF ReadStructEnd, Reads, Closed
<1>5. ReadAs(c) = c
  BY <1>2, ReadAsItIs
<1>6. todo # <<>>
  BY DEF ReadStructEnd, InStruct
<1>7. Types(todo') = q.types
  BY <1>2, <1>4, <1>6, TypesAhead
<1> QED
  BY <1>2, <1>3, <1>4, <1>5, <1>7 DEF Follows

(* readBool, with the value from the header or from a byte.                *)
LEMMA ReadsBool ==
  ASSUME IsTodo(todo), NEW c, NEW b, NEW rest \in Bytes, NEW p, NEW q,
         MeansHeld(c, b, p, q) \/ MeansBool(c, b, p, q),
         wire = b \o rest, in = p.obj, Types(todo) = p.types, ReadBool
  PROVE  Follows(c, rest, q) /\ Types(todo') = q.types
<1>1. todo # <<>> /\ ~InStruct /\ todo' = AfterValue
  BY DEF ReadBool, Due
<1>2. Types(todo') = Left(p.types)
  BY <1>1, TypesLeft
<1>3. CASE MeansHeld(c, b, p, q)
  <2>1. /\ c = Call("BOOL", <<>>, in.boolean[1]) /\ b = <<>> /\ in.boolean # <<>>
        /\ q.types = Left(p.types) /\ q.obj = [in EXCEPT !.boolean = <<>>]
    BY <1>3 DEF MeansHeld
  <2>2. wire = rest
    BY <2>1, ConcatEmptySeq DEF Bytes
  <2>3. wire' = Drop(wire, 0) /\ read' = Append(read, c) /\ in' = [in EXCEPT !.boolean = <<>>]
    BY <2>1 DEF ReadBool, Reads
  <2>4. Drop(rest, 0) = rest
    <3>1. SubSeq(rest, 1, Len(rest)) = rest
      BY SubSeqFull DEF Bytes
    <3> QED
      BY <3>1 DEF Drop
  <2>5. ReadAs(c) = c
    BY <2>1, ReadAsItIs
  <2> QED
    BY <1>2, <2>1, <2>2, <2>3, <2>4, <2>5 DEF Follows
<1>4. CASE MeansBool(c, b, p, q)
  <2>1. PICK val \in {0, 1} :
          /\ c = Call("BOOL", <<>>, val) /\ b = <<IF val = 1 THEN 1 ELSE False>>
          /\ in.boolean = <<>> /\ q.types = Left(p.types) /\ q.obj = in
    BY <1>4 DEF MeansBool
  <2> DEFINE n == IF val = 1 THEN 1 ELSE False
  <2>2. n \in 0..255 /\ (n = 1 <=> val = 1)
    BY DEF False
  <2>3. b = <<n>>
    BY <2>1
  <2> HIDE DEF n
  <2>4. Head(wire) = n /\ Drop(wire, 1) = rest
    BY <2>2, <2>3, ByteInFront
  <2>5. wire' = Drop(wire, 1) /\ in' = in
        /\ read' = Append(read, Call("BOOL", <<>>, IF Head(wire) = 1 THEN 1 ELSE 0))
    BY <2>1, NibblesKept DEF ReadBool, Reads
  <2>6. (IF Head(wire) = 1 THEN 1 ELSE 0) = val
    BY <2>2, <2>4
  <2>7. ReadAs(c) = c
    BY <2>1, ReadAsItIs
  <2> QED
    BY <1>2, <2>1, <2>4, <2>5, <2>6, <2>7 DEF Follows
<1> QED
  BY <1>3, <1>4

(* readByte.                                                               *)
LEMMA ReadsByte ==
  ASSUME IsTodo(todo), NEW c, NEW b, NEW rest \in Bytes, NEW p, NEW q, MeansByte(c, b, p, q),
         wire = b \o rest, in = p.obj, Types(todo) = p.types, ReadByte
  PROVE  Follows(c, rest, q) /\ Types(todo') = q.types
<1>1. PICK val \in -128..127 :
        /\ c = Call("BYTE", <<>>, val) /\ b = <<Byte(val)>>
        /\ q.types = Left(p.types) /\ q.obj = in
  BY DEF MeansByte
<1>2. Byte(val) \in 0..255 /\ Signed(Byte(val), 8) = val
  BY ByteKept
<1>3. Head(wire) = Byte(val) /\ Drop(wire, 1) = rest
  BY <1>1, <1>2, ByteInFront
<1>4. wire' = Drop(wire, 1) /\ read' = Append(read, Call("BYTE", <<>>, Signed(Head(wire), 8))) /\ in' = in
  BY DEF ReadByte, Reads
<1>5. ReadAs(c) = c
  BY <1>1, ReadAsItIs
<1>6. todo # <<>> /\ ~InStruct /\ todo' = AfterValue
  BY DEF ReadByte, Due
<1> QED
  BY <1>1, <1>2, <1>3, <1>4, <1>5, <1>6, TypesLeft DEF Follows

(* readI16, readI32 and readI64.                                           *)
LEMMA ReadsI32 ==
  ASSUME IsTodo(todo), NEW c, NEW b, NEW rest \in Bytes, NEW p, NEW q, MeansI32(c, b, p, q),
         wire = b \o rest, in = p.obj, Types(todo) = p.types, ReadI32
  PROVE  Follows(c, rest, q) /\ Types(todo') = q.types
<1>1. PICK val \in Ints :
        /\ c = Call("I32", <<>>, val) /\ b = Varint[ZigZag(val)]
        /\ q.types = Left(p.types) /\ q.obj = in
  BY DEF MeansI32
<1>2. ZigZag(val) \in Nat /\ Unsigned(ZigZag(val)) = ZigZag(val) /\ UnZigZag(ZigZag(val)) = val
  BY ZigZagged
<1>3. ReadVarint(wire) = ZigZag(val) /\ Drop(wire, VarintLength(wire)) = rest
  BY <1>1, <1>2, VarintInFront
<1>4. wire' = Drop(wire, VarintLength(wire)) /\ in' = in
      /\ read' = Append(read, Call("I32", <<>>, UnZigZag(ReadVarint(wire))))
  BY DEF ReadI32, Reads
<1>5. ReadAs(c) = c
  BY <1>1, ReadAsItIs
<1>6. todo # <<>> /\ ~InStruct /\ todo' = AfterValue
  BY DEF ReadI32, Due
<1> QED
  BY <1>1, <1>2, <1>3, <1>4, <1>5, <1>6, TypesLeft DEF Follows

(* readString.                                                             *)
LEMMA ReadsString ==
  ASSUME IsTodo(todo), NEW c, NEW b, NEW rest \in Bytes, NEW p, NEW q, MeansString(c, b, p, q),
         wire = b \o rest, in = p.obj, Types(todo) = p.types, ReadString
  PROVE  Follows(c, rest, q) /\ Types(todo') = q.types
<1>1. PICK val \in Sizes :
        /\ c = Call("STRING", <<>>, val) /\ b = Varint[val] \o Text(val)
        /\ q.types = Left(p.types) /\ q.obj = in
  BY DEF MeansString
<1>2. ReadVarint(wire) = val /\ Drop(wire, VarintLength(wire) + val) = rest
  BY <1>1, StringInFront
<1>3. wire' = Drop(wire, VarintLength(wire) + ReadVarint(wire)) /\ in' = in
      /\ read' = Append(read, Call("STRING", <<>>, ReadVarint(wire)))
  BY DEF ReadString, Reads
<1>4. ReadAs(c) = c
  BY <1>1, ReadAsItIs
<1>5. todo # <<>> /\ ~InStruct /\ todo' = AfterValue
  BY DEF ReadString, Due
<1> QED
  BY <1>1, <1>2, <1>3, <1>4, <1>5, TypesLeft DEF Follows

(* readListBegin and readSetBegin.                                         *)
LEMMA ReadsList ==
  ASSUME IsTodo(todo), NEW c, NEW b, NEW rest \in Bytes, NEW p, NEW q, MeansList(c, b, p, q),
         wire = b \o rest, in = p.obj, Types(todo) = p.types, ReadListBegin
  PROVE  Follows(c, rest, q) /\ Types(todo') = q.types
<1>1. PICK elem \in TTypes, size \in Sizes :
        /\ c = Call("ListBegin", <<elem>>, size) /\ b = ListHeader(elem, size)
        /\ q.types = Inside(ListOf(elem, size), Left(p.types)) /\ q.obj = in
  BY DEF MeansList
<1>2. TTypeOf(Head(wire) % 16) = elem /\ ListSize(wire) = size /\ Drop(wire, ListLength(wire)) = rest
  BY <1>1, ListInFront
<1>3. /\ wire' = Drop(wire, ListLength(wire)) /\ in' = in
      /\ read' = Append(read, Call("ListBegin", <<TTypeOf(Head(wire) % 16)>>, ListSize(wire)))
      /\ todo' = InsideContainer(ListOf(TTypeOf(Head(wire) % 16), ListSize(wire)), FALSE) \o AfterValue
  BY DEF ReadListBegin, Reads, ListLength, ListSize
<1>4. ReadAs(c) = c
  BY <1>1, ReadAsItIs
<1>5. todo # <<>> /\ ~InStruct
  BY DEF ReadListBegin, Due
<1> QED
  BY <1>1, <1>2, <1>3, <1>4, <1>5, TypesInside DEF Follows

(* readMapBegin.                                                           *)
LEMMA ReadsMap ==
  ASSUME IsTodo(todo), NEW c, NEW b, NEW rest \in Bytes, NEW p, NEW q, MeansMap(c, b, p, q),
         wire = b \o rest, in = p.obj, Types(todo) = p.types, ReadMapBegin
  PROVE  Follows(c, rest, q) /\ Types(todo') = q.types
<1>1. PICK key \in TTypes, val \in TTypes, size \in Sizes :
        /\ c = Call("MapBegin", <<key, val>>, size) /\ b = MapHeader(key, val, size)
        /\ q.types = Inside(MapOf(key, val, size), Left(p.types)) /\ q.obj = in
  BY DEF MeansMap
<1> DEFINE k == IF size = 0 THEN "STOP" ELSE key
           v == IF size = 0 THEN "STOP" ELSE val
<1>2. /\ ReadVarint(wire) = size
      /\ TTypeOf(MapTypes(wire) \div 16) = k
      /\ TTypeOf(MapTypes(wire) % 16) = v
      /\ Drop(wire, MapLength(wire)) = rest
  BY <1>1, MapInFront
<1>3. /\ wire' = Drop(wire, MapLength(wire)) /\ in' = in
      /\ read' = Append(read, Call("MapBegin",
                                   <<TTypeOf(MapTypes(wire) \div 16), TTypeOf(MapTypes(wire) % 16)>>,
                                   ReadVarint(wire)))
      /\ todo' = InsideContainer(MapOf(TTypeOf(MapTypes(wire) \div 16),
                                       TTypeOf(MapTypes(wire) % 16), ReadVarint(wire)), FALSE)
                 \o AfterValue
  BY DEF ReadMapBegin, Reads, MapLength, MapTypes
<1>4. ReadAs(c) = Call("MapBegin", <<k, v>>, size)
  BY <1>1 DEF ReadAs, Call
<1>5. MapOf(k, v, size) = MapOf(key, val, size)
  <2>1. CASE size = 0
    BY <2>1 DEF MapOf
  <2>2. CASE size # 0
    BY <2>2
  <2> QED
    BY <2>1, <2>2
<1> HIDE DEF k, v
<1>6. todo # <<>> /\ ~InStruct
  BY DEF ReadMapBegin, Due
<1>7. Types(todo') = q.types
  BY <1>1, <1>2, <1>3, <1>5, <1>6, TypesInside
<1>8. Follows(c, rest, q)
  BY <1>1, <1>2, <1>3, <1>4 DEF Follows
<1> QED
  BY <1>7, <1>8

------------------------------------------------------------------------------
(* Every id that an object holds fits into 16 bits.                        *)
Numbered(p) ==
    /\ p.lastFieldId \in FieldIds
    /\ \A i \in 1..Len(p.lastField) : p.lastField[i] \in FieldIds

(* The calls written, each with its bytes, as a chain: g[i] is what the    *)
(* reader knows before it makes the i-th call, w[i] what is on the wire.   *)
At(o, t) == [obj |-> o, types |-> t]
Chain(g, w, n, calls) ==
    /\ \A i \in 1..(n + 1) : w[i] \in Bytes /\ Numbered(g[i].obj)
    /\ w[n + 1] = <<>>
    /\ \A i \in 1..n : \E b \in Bytes :
         w[i] = b \o w[i + 1] /\ Means(calls[i], b, g[i], g[i + 1])

(* A boolean field has begun, of which nothing is on the wire yet.         *)
Pending(p) ==
    \E id \in FieldIds :
      /\ out.boolean = <<id>>
      /\ written[Len(written)] = Call("FieldBegin", <<"BOOL">>, id)
      /\ InFields(p.types) /\ Types(todo) = << <<"BOOL">> >> \o p.types
      /\ p.obj = [out EXCEPT !.boolean = <<>>]

(* Where the writer is: at the end of a chain.  Where the reader is: where *)
(* its calls have led it.                                                  *)
WriterAt(n, p) ==
    IF out.boolean = <<>>
    THEN Len(written) = n /\ (IF phase \in {"new", "writing"} THEN p = At(out, Types(todo))
                              ELSE p.types = <<>>)
    ELSE phase = "writing" /\ Len(written) = n + 1 /\ Pending(p)
ReaderAt(n, p, left) ==
    /\ Len(read) \in 0..n
    /\ wire = left /\ in = p.obj
    /\ phase \in {"new", "writing", "sent"} <=> read = <<>>
    /\ phase \in {"sent", "reading", "done"} => Types(todo) = p.types

Account(g, w, n) ==
    /\ Chain(g, w, n, written)
    /\ g[1] = At(NewProtocol, <<>>)
    /\ WriterAt(n, g[n + 1])
    /\ ReaderAt(n, g[Len(read) + 1], w[Len(read) + 1])

Told ==
    /\ family \in Families
    /\ IsSequence(written) /\ IsSequence(read)
    /\ Numbered(out)
    /\ phase = "new" <=> written = <<>>
    /\ \A i \in 2..Len(written) : written[i].op # "MessageBegin"
    /\ \A i \in 1..Len(read) : read[i] = ReadAs(written[i])
    /\ \E n \in Nat : \E g, w : Account(g, w, n)

(* An element more at the end, and where the others are.                   *)
LEMMA Appended ==
  ASSUME NEW s, IsSequence(s), NEW e
  PROVE  /\ IsSequence(Append(s, e))
         /\ Len(s) \in Nat
         /\ s = <<>> <=> Len(s) = 0
         /\ Len(Append(s, e)) = Len(s) + 1
         /\ Append(s, e) # <<>>
         /\ \A i \in 1..Len(s) : Append(s, e)[i] = s[i]
         /\ Append(s, e)[Len(s) + 1] = e
<1> DEFINE S == {s[i] : i \in 1..Len(s)} \cup {e}
<1>1. s \in Seq(S) /\ e \in S
  <2>1. s \in Seq({s[i] : i \in 1..Len(s)})
    BY DEF IsSequence
  <2>2. {s[i] : i \in 1..Len(s)} \subseteq S
    OBVIOUS
  <2> QED
    BY <2>1, <2>2, SeqMonotonic
<1> HIDE DEF S
<1>2. /\ \A i \in 1..Len(s) : Append(s, e)[i] = s[i]
      /\ Append(s, e)[Len(s) + 1] = e
  BY <1>1, AppendProperties
<1>3. s = <<>> <=> Len(s) = 0
  BY <1>1, LenProperties, EmptySeq
<1> QED
  BY <1>2, <1>3, Pushed

Longer(g, w, n, calls, b, q) ==
    \E h, x : /\ Chain(h, x, n + 1, calls)
              /\ h[1] = g[1] /\ h[n + 2] = q
              /\ x[1] = w[1] \o b

(* The call after the last one of a chain: what was on the wire is in      *)
(* front of its bytes.                                                     *)
LEMMA ChainLonger ==
  ASSUME NEW n \in Nat, NEW g, NEW w, NEW calls, NEW more, Chain(g, w, n, calls),
         \A i \in 1..n : more[i] = calls[i],
         NEW b \in Bytes, NEW q, Means(more[n + 1], b, g[n + 1], q), Numbered(q.obj)
  PROVE  Longer(g, w, n, more, b, q)
<1> DEFINE h == [i \in 1..(n + 2) |-> IF i = n + 2 THEN q ELSE g[i]]
           x == [i \in 1..(n + 2) |-> IF i = n + 2 THEN <<>> ELSE w[i] \o b]
<1>1. /\ \A i \in 1..(n + 1) : i \in 1..(n + 2) /\ i # n + 2
      /\ n + 2 \in 1..(n + 2) /\ 1 \in 1..(n + 1) /\ n + 1 \in 1..(n + 1)
      /\ (n + 1) + 1 = n + 2
      /\ \A i \in 1..(n + 2) : i \in 1..(n + 1) \/ i = n + 2
      /\ \A i \in 1..(n + 1) : i \in 1..n \/ i = n + 1
      /\ \A i \in 1..n : i \in 1..(n + 1) /\ i + 1 \in 1..(n + 1)
  OBVIOUS
<1>2. /\ \A i \in 1..(n + 1) : h[i] = g[i] /\ x[i] = w[i] \o b
      /\ h[n + 2] = q /\ x[n + 2] = <<>>
  BY <1>1
<1>3. /\ \A i \in 1..(n + 1) : w[i] \in Bytes /\ Numbered(g[i].obj)
      /\ w[n + 1] = <<>>
      /\ \A i \in 1..n : \E a \in Bytes :
           w[i] = a \o w[i + 1] /\ Means(calls[i], a, g[i], g[i + 1])
  BY DEF Chain
<1> HIDE DEF h, x
<1>4. \A i \in 1..(n + 2) : x[i] \in Bytes /\ Numbered(h[i].obj)
  <2> SUFFICES ASSUME NEW i \in 1..(n + 2)
               PROVE  x[i] \in Bytes /\ Numbered(h[i].obj)
    OBVIOUS
  <2>1. CASE i \in 1..(n + 1)
    <3>1. w[i] \in Bytes /\ Numbered(g[i].obj)
      BY <1>3, <2>1
    <3>2. w[i] \o b \in Bytes
      BY <3>1, Dropped
    <3> QED
      BY <1>2, <2>1, <3>1, <3>2
  <2>2. CASE i = n + 2
    <3>1. <<>> \in Bytes
      BY EmptySeq DEF Bytes
    <3> QED
      BY <1>2, <2>2, <3>1
  <2> QED
    BY <1>1, <2>1, <2>2
<1>5. ASSUME NEW i \in 1..(n + 1)
      PROVE  \E a \in Bytes : x[i] = a \o x[i + 1] /\ Means(more[i], a, h[i], h[i + 1])
  <2>1. CASE i \in 1..n
    <3>1. PICK a \in Bytes : w[i] = a \o w[i + 1] /\ Means(calls[i], a, g[i], g[i + 1])
      BY <1>3, <2>1
    <3>2. w[i + 1] \in Bytes
      BY <1>1, <1>3, <2>1
    <3>3. (a \o w[i + 1]) \o b = a \o (w[i + 1] \o b)
      BY <3>2, Joined
    <3>4. h[i] = g[i] /\ h[i + 1] = g[i + 1] /\ x[i] = w[i] \o b /\ x[i + 1] = w[i + 1] \o b
      BY <1>1, <1>2, <2>1
    <3>5. x[i] = a \o x[i + 1]
      BY <3>1, <3>3, <3>4, Zenon
    <3>6. Means(more[i], a, h[i], h[i + 1])
      BY <2>1, <3>1, <3>4, Zenon
    <3> QED
      BY <3>5, <3>6
  <2>2. CASE i = n + 1
    <3>1. h[i] = g[n + 1] /\ h[i + 1] = q /\ x[i] = w[n + 1] \o b /\ x[i + 1] = <<>>
      BY <1>1, <1>2, <2>2
    <3>2. x[i] = b /\ b \o <<>> = b
      BY <1>3, <3>1, ConcatEmptySeq DEF Bytes
    <3>3. x[i] = b \o x[i + 1]
      BY <3>1, <3>2, Zenon
    <3>4. Means(more[i], b, h[i], h[i + 1])
      BY <2>2, <3>1, Zenon
    <3> QED
      BY <3>3, <3>4
  <2> QED
    BY <1>1, <2>1, <2>2
<1>6. Chain(h, x, n + 1, more)
  <2>1. (n + 1) + 1 = n + 2
    OBVIOUS
  <2> QED
    BY <1>2, <1>4, <1>5, <2>1 DEF Chain
<1>7. h[1] = g[1] /\ h[n + 2] = q /\ x[1] = w[1] \o b
  BY <1>1, <1>2
<1> QED
  BY <1>6, <1>7 DEF Longer

------------------------------------------------------------------------------
(* The writer's side.                                                      *)

(* What the families may give.                                             *)
LEMMA FamilyBounds ==
  ASSUME NEW f \in Families
  PROVE  /\ \A header \in f.headers :
              header[1] \in 1..4 /\ header[2] \in Ints /\ header[3] \in Sizes
         /\ f.ids \subseteq FieldIds /\ f.types \subseteq TTypes /\ f.sizes \subseteq Sizes
         /\ f.values["BYTE"] \subseteq -128..127
         /\ f.values["I32"] \subseteq Ints
         /\ f.values["STRING"] \subseteq Sizes
<1>1. /\ f.headers \subseteq (CALL..ONEWAY) \X Ints \X Sizes
      /\ f.ids \subseteq FieldIds /\ f.types \subseteq TTypes /\ f.sizes \subseteq Sizes
      /\ f.values["BYTE"] \subseteq -128..127
      /\ f.values["I32"] \subseteq Ints
      /\ f.values["STRING"] \subseteq Sizes
  BY CompactAssumption, Zenon DEF Ints, Sizes, FieldIds
<1>2. CALL..ONEWAY = 1..4
  BY DEF CALL, ONEWAY
<1> DEFINE A == 1..4
<1>3. f.headers \subseteq A \X Ints \X Sizes
  BY <1>1, <1>2
<1> HIDE DEF A
<1>4. \A header \in A \X Ints \X Sizes :
        header[1] \in A /\ header[2] \in Ints /\ header[3] \in Sizes
  OBVIOUS
<1>5. \A header \in f.headers :
        header[1] \in A /\ header[2] \in Ints /\ header[3] \in Sizes
  BY <1>3, <1>4
<1> QED
  BY <1>1, <1>5 DEF A

(* A call is written that the reader will make when it comes to it.        *)
Extends(c, b) ==
    /\ Writes(c, b) /\ b \in Bytes
    /\ Means(c, b, At(out, Types(todo)), At(out', Types(todo')))
    /\ Numbered(out') /\ out'.boolean = <<>>

(* The calls that were written stay, and one is added.                     *)
LEMMA WrittenMore ==
  ASSUME Told, NEW c, NEW b, Writes(c, b), c.op = "MessageBegin" => written = <<>>
  PROVE  /\ IsSequence(written') /\ IsSequence(read')
         /\ Len(written) \in Nat /\ Len(written') = Len(written) + 1 /\ written' # <<>>
         /\ \A i \in 1..Len(written) : written'[i] = written[i]
         /\ written'[Len(written) + 1] = c
         /\ \A i \in 2..Len(written') : written'[i].op # "MessageBegin"
<1>1. /\ IsSequence(written) /\ IsSequence(read)
      /\ \A i \in 2..Len(written) : written[i].op # "MessageBegin"
  BY DEF Told
<1>2. written' = Append(written, c) /\ read' = read
  BY DEF Writes
<1>3. /\ IsSequence(written') /\ Len(written) \in Nat
      /\ written = <<>> <=> Len(written) = 0
      /\ Len(written') = Len(written) + 1
      /\ written' # <<>>
      /\ \A i \in 1..Len(written) : written'[i] = written[i]
      /\ written'[Len(written) + 1] = c
  BY <1>1, <1>2, Appended
<1>4. ASSUME NEW i \in 2..Len(written') PROVE written'[i].op # "MessageBegin"
  <2>1. CASE i = Len(written) + 1
    <3>1. Len(written) # 0
      BY <1>3, <2>1
    <3> QED
      BY <1>3, <2>1, <3>1
  <2>2. CASE i # Len(written) + 1
    <3>1. i \in 2..Len(written) /\ i \in 1..Len(written)
      BY <1>3, <2>2
    <3> QED
      BY <1>1, <1>3, <3>1
  <2> QED
    BY <2>1, <2>2
<1> QED
  BY <1>1, <1>2, <1>3, <1>4

(* So the account of what was written gets longer.                         *)
LEMMA ToldMore ==
  ASSUME Told, NEW c, NEW b, Extends(c, b), out.boolean = <<>>,
         c.op = "MessageBegin" => written = <<>>,
         phase \in {"new", "writing"},
         \/ phase' = "writing"
         \/ phase' = "sent" /\ todo' = <<>>
  PROVE  Told'
<1>0. PICK n \in Nat : \E g, w : Account(g, w, n)
  BY DEF Told
<1>1. PICK g, w : Account(g, w, n)
  BY <1>0
<1>2. /\ Chain(g, w, n, written) /\ g[1] = At(NewProtocol, <<>>)
      /\ Len(written) = n /\ g[n + 1] = At(out, Types(todo))
      /\ Len(read) \in 0..n /\ read = <<>>
      /\ wire = w[Len(read) + 1] /\ in = g[Len(read) + 1].obj
  BY <1>1 DEF Account, WriterAt, ReaderAt
<1>3. Len(read) = 0 /\ Len(read) + 1 = 1
  BY <1>2
<1>4. /\ IsSequence(written') /\ IsSequence(read')
      /\ Len(written') = n + 1 /\ written' # <<>>
      /\ \A i \in 1..n : written'[i] = written[i]
      /\ written'[n + 1] = c
      /\ \A i \in 2..Len(written') : written'[i].op # "MessageBegin"
  <2>1. Writes(c, b)
    BY DEF Extends
  <2> QED
    BY <1>2, <2>1, WrittenMore
<1>5. wire' = wire \o b /\ read' = read /\ in' = in /\ family' = family /\ b \in Bytes
  BY DEF Extends, Writes
<1>6. PICK q : q = At(out', Types(todo'))
  OBVIOUS
<1>7. Means(written'[n + 1], b, g[n + 1], q)
  BY <1>2, <1>4, <1>6 DEF Extends
<1>8. PICK h, x : /\ Chain(h, x, n + 1, written')
                  /\ h[1] = g[1] /\ h[n + 2] = q
                  /\ x[1] = w[1] \o b
  <2>0. PICK calls, more : calls = written /\ more = written'
    OBVIOUS
  <2>1. PICK a \in Bytes : calls = written /\ more = written' /\ a = b
    BY <1>5, <2>0
  <2>2. /\ Chain(g, w, n, calls)
        /\ \A i \in 1..n : more[i] = calls[i]
        /\ Means(more[n + 1], a, g[n + 1], q) /\ Numbered(q.obj)
    <3>1. Numbered(q.obj)
      BY <1>6 DEF At, Extends
    <3> QED
      BY <1>2, <1>4, <1>7, <2>1, <3>1
  <2>3. Longer(g, w, n, more, a, q)
    BY <2>2, ChainLonger
  <2> QED
    BY <2>1, <2>3 DEF Longer
<1>9. (n + 1) + 1 = n + 2 /\ n + 1 \in Nat /\ Len(read') \in 0..(n + 1) /\ Len(read') + 1 = 1
  BY <1>3, <1>5
<1>10. q.types = Types(todo') /\ q.obj = out'
  BY <1>6 DEF At
<1>11. phase' = "sent" => Types(todo') = <<>>
  <2>1. ASSUME todo' = <<>> PROVE Types(todo') = <<>>
    <3>1. Types(<<>>) = <<>>
      BY TypesAhead, EmptyIsSequence DEF IsTodo
    <3> QED
      BY <2>1, <3>1
  <2> QED
    BY <2>1
<1>12. out'.boolean = <<>> /\ Numbered(out')
  BY DEF Extends
<1>13. WriterAt(n + 1, h[n + 2])'
  BY <1>4, <1>6, <1>8, <1>10, <1>11, <1>12 DEF WriterAt
<1>14. h[1].types = <<>> /\ h[1].obj = in'
  BY <1>2, <1>3, <1>5, <1>8 DEF At
<1>15. ReaderAt(n + 1, h[1], x[1])'
  BY <1>2, <1>3, <1>5, <1>8, <1>9, <1>11, <1>14 DEF ReaderAt
<1>16. Account(h, x, n + 1)'
  <2>1. h[1] = At(NewProtocol, <<>>)
    BY <1>2, <1>8
  <2> QED
    BY <1>8, <1>9, <1>13, <1>15, <2>1 DEF Account
<1>17. \A i \in 1..Len(read') : read'[i] = ReadAs(written'[i])
  BY <1>3, <1>5
<1>18. phase' # "new"
  OBVIOUS
<1> QED
  BY <1>4, <1>5, <1>9, <1>12, <1>16, <1>17, <1>18 DEF Told

(* What becomes of an object when a struct begins or ends, and with the    *)
(* header of a field.                                                      *)
LEMMA ObjectsParts ==
  ASSUME NEW p, IsProtocol(p), NEW id, NEW nibble
  PROVE  /\ Opened(p).lastFieldId = 0
         /\ Opened(p).lastField = Append(p.lastField, p.lastFieldId)
         /\ Opened(p).boolean = p.boolean
         /\ Closed(p).lastFieldId = p.lastField[Len(p.lastField)]
         /\ Closed(p).lastField = SubSeq(p.lastField, 1, Len(p.lastField) - 1)
         /\ Closed(p).boolean = p.boolean
         /\ [p EXCEPT !.lastFieldId = id].lastFieldId = id
         /\ [p EXCEPT !.lastFieldId = id].lastField = p.lastField
         /\ [p EXCEPT !.lastFieldId = id].boolean = p.boolean
         /\ \A type : type # "BOOL" => Headed(p, type, id, nibble) = [p EXCEPT !.lastFieldId = id]
<1> DEFINE x == p.lastFieldId
           y == p.lastField
           v == p.boolean
           Ids == Append(y, x)
           Less == SubSeq(y, 1, Len(y) - 1)
           last == y[Len(y)]
<1>1. p \in [lastFieldId : {x}, lastField : {y}, boolean : {v}]
  BY ObjectTyped
<1>2. Opened(p) \in [lastFieldId : {0}, lastField : {Ids}, boolean : {v}]
  BY <1>1 DEF Opened
<1>3. Closed(p) \in [lastFieldId : {last}, lastField : {Less}, boolean : {v}]
  BY <1>1 DEF Closed
<1>4. [p EXCEPT !.lastFieldId = id] \in [lastFieldId : {id}, lastField : {y}, boolean : {v}]
  BY <1>1
<1>5. ASSUME NEW type, type # "BOOL"
      PROVE  Headed(p, type, id, nibble) = [p EXCEPT !.lastFieldId = id]
  <2>1. Headed(p, type, id, nibble) \in [lastFieldId : {id}, lastField : {y}, boolean : {v}]
    BY <1>1, <1>5 DEF Headed
  <2> HIDE DEF x, y, v, Ids, Less, last
  <2> DEFINE q == Headed(p, type, id, nibble)
             r == [p EXCEPT !.lastFieldId = id]
  <2>2. /\ q \in [lastFieldId : {id}, lastField : {y}, boolean : {v}]
        /\ r \in [lastFieldId : {id}, lastField : {y}, boolean : {v}]
    BY <1>4, <2>1
  <2> HIDE DEF q, r
  <2>3. q = r
    BY <2>2
  <2> QED
    BY <2>3 DEF q, r
<1>6. Opened(p).lastFieldId = 0 /\ Opened(p).lastField = Ids /\ Opened(p).boolean = v
  <2> HIDE DEF x, y, v, Ids, Less, last
  <2> QED
    BY <1>2
<1>7. Closed(p).lastFieldId = last /\ Closed(p).lastField = Less /\ Closed(p).boolean = v
  <2> HIDE DEF x, y, v, Ids, Less, last
  <2> QED
    BY <1>3
<1> DEFINE r == [p EXCEPT !.lastFieldId = id]
<1>8. r.lastFieldId = id /\ r.lastField = y /\ r.boolean = v
  <2>1. r \in [lastFieldId : {id}, lastField : {y}, boolean : {v}]
    BY <1>4
  <2> HIDE DEF r, x, y, v, Ids, Less, last
  <2> QED
    BY <2>1
<1> QED
  BY <1>5, <1>6, <1>7, <1>8

(* A header without a boolean sets the last id alone.                      *)
LEMMA HeadedIs ==
  ASSUME NEW p, IsProtocol(p), NEW id, NEW nibble, NEW type, type # "BOOL"
  PROVE  Headed(p, type, id, nibble) = [p EXCEPT !.lastFieldId = id]
BY ObjectsParts

(* A field begins: its type is due.                                        *)
LEMMA FieldAhead ==
  ASSUME IsTodo(todo), InStruct, NEW id, NEW type
  PROVE  Types(InsideField(type) \o <<[Head(todo) EXCEPT !.ids = @ \ {id}]>> \o Tail(todo)) =
           << <<type>> >> \o Types(todo)
<1> DEFINE t == <<[Head(todo) EXCEPT !.ids = @ \ {id}]>> \o Tail(todo)
<1>1. IsTodo(t) /\ Types(t) = Types(todo)
  BY FieldStruck, TypesStruck
<1>2. InsideField(type) \o <<[Head(todo) EXCEPT !.ids = @ \ {id}]>> \o Tail(todo) =
        InsideField(type) \o t
  <2>1. IsTodo(Tail(todo))
    BY Behind DEF InStruct
  <2> QED
    BY <2>1, TwoInFront DEF InsideField
<1> HIDE DEF t
<1>3. Types(InsideField(type) \o t) = << <<type>> >> \o Types(t)
  BY <1>1, TypesInField
<1> QED
  BY <1>1, <1>2, <1>3

(* The same bytes, whoever's last id it is.                                *)
LEMMA HeaderIs ==
  ASSUME NEW id, NEW nibble
  PROVE  FieldHeader(id, nibble) = FieldBytes(out.lastFieldId, id, nibble)
BY DEF FieldHeader, FieldBytes

(* The writing methods send what the reading ones take it for.             *)
LEMMA MessageWritten ==
  ASSUME Inv, Told, NEW type \in 1..4, NEW seqid \in Ints, NEW name \in Sizes,
         WriteMessageBegin(type, seqid, name)
  PROVE  Extends(Call("MessageBegin", <<type, name>>, seqid), MessageHeader(type, seqid, name))
<1> DEFINE c == Call("MessageBegin", <<type, name>>, seqid)
           b == MessageHeader(type, seqid, name)
<1>1. Writes(c, b) /\ out' = out /\ todo' = <<Message>> /\ phase = "new"
  BY DEF WriteMessageBegin
<1>2. b \in Bytes
  <2>1. <<>> \in Bytes
    BY EmptySeq DEF Bytes
  <2> QED
    BY <2>1, MessageInFront
<1>3. out = NewProtocol /\ todo = <<>>
  BY <1>1 DEF Inv
<1>4. Types(<<>>) = <<>>
  BY TypesAhead, EmptyIsSequence DEF IsTodo
<1>5. Types(<<Message>>) = << <<"STRUCT">> >>
  <2>1. Message.types = <<"STRUCT">>
    BY DEF Message, Elements
  <2> QED
    BY <2>1 DEF Types
<1> HIDE DEF b
<1>6. \E t \in 1..4, s \in Ints, m \in Sizes :
        c = Call("MessageBegin", <<t, m>>, s) /\ b = MessageHeader(t, s, m)
  BY DEF b
<1> HIDE DEF c
<1>7. MeansMessage(c, b, At(out, Types(todo)), At(out', Types(todo')))
  BY <1>1, <1>3, <1>4, <1>5, <1>6, Zenon DEF MeansMessage, At
<1>8. Numbered(out') /\ out'.boolean = <<>>
  <2>1. Numbered(out)
    BY DEF Told
  <2>2. NewProtocol.boolean = <<>>
    BY DEF NewProtocol
  <2> QED
    BY <1>1, <1>3, <2>1, <2>2
<1>9. Extends(c, b)
  BY <1>1, <1>2, <1>7, <1>8 DEF Extends, Means
<1> QED
  BY <1>9 DEF b, c

(* writeStructBegin sends nothing.                                         *)
LEMMA StructWritten ==
  ASSUME Inv, Told, out.boolean = <<>>, WriteStructBegin
  PROVE  Extends(Call("StructBegin", <<>>, 0), <<>>)
<1>1. /\ Writes(Call("StructBegin", <<>>, 0), <<>>)
      /\ out' = Opened(out) /\ todo # <<>> /\ ~InStruct /\ Due("STRUCT")
      /\ \E ids : todo' = InsideStruct(ids) \o AfterValue
  BY DEF WriteStructBegin, Opened, Due
<1>2. <<>> \in Bytes
  BY EmptySeq DEF Bytes
<1>3. IsTodo(todo) /\ IsProtocol(out)
  BY DEF Inv
<1>4. Types(todo') = << <<>> >> \o Left(Types(todo))
  BY <1>1, <1>3, TypesInStruct
<1>5. Expects(Types(todo), "STRUCT")
  BY <1>1, <1>3, DueByTypes
<1>6. MeansStruct(Call("StructBegin", <<>>, 0), <<>>, At(out, Types(todo)), At(out', Types(todo')))
  BY <1>1, <1>4, <1>5 DEF MeansStruct, At
<1>7. Numbered(out') /\ out'.boolean = <<>>
  <2>1. Numbered(out)
    BY DEF Told
  <2>2. /\ out'.lastFieldId = 0 /\ out'.boolean = out.boolean
        /\ out'.lastField = Append(out.lastField, out.lastFieldId)
    BY <1>1, <1>3, ObjectsParts
  <2>3. PICK s, e : s = out.lastField /\ e = out.lastFieldId
    OBVIOUS
  <2>4. /\ Len(s) \in Nat /\ Len(Append(s, e)) = Len(s) + 1
        /\ \A i \in 1..Len(s) : Append(s, e)[i] = s[i]
        /\ Append(s, e)[Len(s) + 1] = e
    BY <1>3, <2>3, Appended DEF IsProtocol
  <2>5. e \in FieldIds /\ \A i \in 1..Len(s) : s[i] \in FieldIds
    BY <2>1, <2>3 DEF Numbered
  <2>6. ASSUME NEW i \in 1..Len(Append(s, e)) PROVE Append(s, e)[i] \in FieldIds
    <3>1. i \in 1..Len(s) \/ i = Len(s) + 1
      BY <2>4
    <3> QED
      BY <2>4, <2>5, <3>1
  <2>7. 0 \in FieldIds
    BY DEF FieldIds
  <2> QED
    BY <2>2, <2>3, <2>6, <2>7 DEF Numbered
<1> QED
  BY <1>1, <1>2, <1>6, <1>7 DEF Extends, Means

(* writeFieldStop and writeStructEnd.                                      *)
LEMMA EndWritten ==
  ASSUME Inv, Told, out.boolean = <<>>, WriteStructEnd
  PROVE  Extends(Call("StructEnd", <<>>, 0), <<0>>)
<1>1. /\ Writes(Call("StructEnd", <<>>, 0), <<0>>)
      /\ out' = Closed(out) /\ todo # <<>> /\ InStruct /\ phase = "writing"
      /\ todo' = Tail(todo)
  BY DEF WriteStructEnd, Closed, InStruct
<1>2. <<0>> \in Bytes
  <2>1. 0 \in 0..255 /\ <<>> \in Bytes
    BY EmptySeq DEF Bytes
  <2> QED
    BY <2>1, ByteInFront, Zenon
<1>3. IsTodo(todo) /\ IsProtocol(out) /\ Stacked(out, todo)
  BY <1>1 DEF Inv
<1>4. Types(todo') = Tail(Types(todo))
  BY <1>1, <1>3, TypesAhead
<1>5. InFields(Types(todo))
  BY <1>1, <1>3, DueByTypes
<1>6. MeansEnd(Call("StructEnd", <<>>, 0), <<0>>, At(out, Types(todo)), At(out', Types(todo')))
  BY <1>1, <1>4, <1>5 DEF MeansEnd, At
<1>7. Numbered(out') /\ out'.boolean = <<>>
  <2>1. Numbered(out)
    BY DEF Told
  <2>2. PICK s : s = out.lastField
    OBVIOUS
  <2>3. /\ out'.lastFieldId = s[Len(s)] /\ out'.boolean = out.boolean
        /\ out'.lastField = SubSeq(s, 1, Len(s) - 1)
    BY <1>1, <1>3, <2>2, ObjectsParts
  <2>4. Len(s) \in Nat \ {0} /\ IsSequence(s)
    BY <1>1, <1>3, <2>2, SomethingStacked DEF IsProtocol
  <2>5. \A i \in 1..Len(s) : s[i] \in FieldIds
    BY <2>1, <2>2 DEF Numbered
  <2> DEFINE S == {s[i] : i \in 1..Len(s)}
             less == SubSeq(s, 1, Len(s) - 1)
  <2>6. s \in Seq(S)
    BY <2>4 DEF IsSequence
  <2> HIDE DEF S
  <2>7. Len(less) = Len(s) - 1 /\ \A i \in 1..(Len(s) - 1) : less[i] = s[i]
    <3>1. PICK n \in Nat : n = Len(s) - 1
      BY <2>4
    <3>2. n \in 0..Len(s)
      BY <2>4, <3>1
    <3> DEFINE cut == SubSeq(s, 1, n)
    <3>3. Len(cut) = n /\ \A i \in 1..n : cut[i] = s[i]
      BY <2>6, <3>2, SubSeqProperties
    <3> QED
      BY <3>1, <3>3
  <2> HIDE DEF less
  <2>8. \A i \in 1..Len(less) : less[i] \in FieldIds
    BY <2>4, <2>5, <2>7
  <2>9. s[Len(s)] \in FieldIds
    BY <2>4, <2>5
  <2> QED
    BY <2>3, <2>8, <2>9 DEF Numbered, less
<1> QED
  BY <1>1, <1>2, <1>6, <1>7 DEF Extends, Means

(* writeFieldBegin, of a field that is not a boolean.                      *)
LEMMA FieldWritten ==
  ASSUME Inv, Told, out.boolean = <<>>, NEW id \in FieldIds, NEW type \in TTypes, type # "BOOL",
         WriteFieldBegin(id, type)
  PROVE  \E b : Extends(Call("FieldBegin", <<type>>, id), b)
<1> DEFINE c == Call("FieldBegin", <<type>>, id)
           nibble == CompactType[type]
           b == FieldBytes(out.lastFieldId, id, nibble)
<1>1. /\ Writes(c, FieldHeader(id, nibble))
      /\ out' = [out EXCEPT !.lastFieldId = id] /\ InStruct /\ phase = "writing"
      /\ todo' = InsideField(type) \o <<[Head(todo) EXCEPT !.ids = @ \ {id}]>> \o Tail(todo)
  BY DEF WriteFieldBegin
<1>2. Writes(c, b)
  BY <1>1, HeaderIs
<1>3. nibble \in 1..12
  BY TypeKept
<1>4. out.lastFieldId \in Int /\ Numbered(out)
  BY DEF Told, Numbered, FieldIds
<1>5. b \in Bytes
  <2>1. <<>> \in Bytes
    BY EmptySeq DEF Bytes
  <2>2. PICK last \in Int : last = out.lastFieldId
    BY <1>4
  <2> QED
    BY <1>3, <2>1, <2>2, FieldInFront
<1>6. IsTodo(todo) /\ IsProtocol(out)
  BY DEF Inv
<1>7. Types(todo') = << <<type>> >> \o Types(todo)
  BY <1>1, <1>6, FieldAhead
<1>8. InFields(Types(todo))
  BY <1>1, <1>6, DueByTypes
<1>9. out' = Headed(out, type, id, nibble)
  <2>1. Headed(out, type, id, nibble) = [out EXCEPT !.lastFieldId = id]
    BY <1>6, HeadedIs
  <2> QED
    BY <1>1, <2>1
<1> HIDE DEF nibble, b, c
<1>10. \E ty \in TTypes, i \in FieldIds, k \in 1..12 :
         /\ k = CompactType[ty] \/ (ty = "BOOL" /\ k = False)
         /\ c = Call("FieldBegin", <<ty>>, i)
         /\ b = FieldBytes(out.lastFieldId, i, k)
         /\ Types(todo') = << <<ty>> >> \o Types(todo)
         /\ out' = Headed(out, ty, i, k)
  BY <1>3, <1>7, <1>9 DEF nibble, b, c
<1>11. MeansField(c, b, At(out, Types(todo)), At(out', Types(todo')))
  BY <1>4, <1>8, <1>10, Zenon DEF MeansField, At
<1>12. Numbered(out') /\ out'.boolean = <<>>
  <2>1. out'.lastFieldId = id /\ out'.lastField = out.lastField /\ out'.boolean = out.boolean
    BY <1>1, <1>6, ObjectsParts
  <2> QED
    BY <1>4, <2>1 DEF Numbered
<1>13. Extends(c, b)
  BY <1>2, <1>5, <1>11, <1>12 DEF Extends, Means
<1> QED
  BY <1>13 DEF c

(* A call that leaves the object as it is.                                 *)
LEMMA ValueExtends ==
  ASSUME Told, out.boolean = <<>>, out' = out, NEW c, NEW b \in Bytes, Writes(c, b),
         Means(c, b, At(out, Types(todo)), At(out, Types(todo')))
  PROVE  Extends(c, b)
BY DEF Extends, Told

(* writeBool, of an element.                                               *)
LEMMA BoolWritten ==
  ASSUME Inv, Told, out.boolean = <<>>, NEW val \in {0, 1}, WriteBool(val)
  PROVE  Extends(Call("BOOL", <<>>, val), ValueBytes("BOOL", val))
<1> DEFINE c == Call("BOOL", <<>>, val)
           b == <<IF val = 1 THEN 1 ELSE False>>
<1>1. ValueBytes("BOOL", val) = b
  BY NibblesKept DEF ValueBytes
<1>2. Writes(c, b) /\ out' = out /\ todo' = AfterValue /\ Due("BOOL") /\ todo # <<>> /\ ~InStruct
  BY <1>1 DEF WriteBool, Due
<1>3. b \in Bytes
  <2> DEFINE k == IF val = 1 THEN 1 ELSE False
  <2>1. k \in 0..255 /\ <<>> \in Bytes
    BY EmptySeq DEF False, Bytes
  <2> HIDE DEF k
  <2>2. <<k>> \in Bytes
    BY <2>1, ByteInFront
  <2> QED
    BY <2>2 DEF k
<1>4. IsTodo(todo)
  BY DEF Inv
<1>5. Types(todo') = Left(Types(todo)) /\ Expects(Types(todo), "BOOL")
  BY <1>2, <1>4, TypesLeft, DueByTypes
<1>6. MeansBool(c, b, At(out, Types(todo)), At(out, Types(todo')))
  BY <1>5 DEF MeansBool, At
<1> HIDE DEF c, b
<1>7. Extends(c, b)
  BY <1>2, <1>3, <1>6, ValueExtends DEF Means
<1> QED
  BY <1>1, <1>7 DEF c

(* writeByte, writeI16, writeI32, writeI64 and writeString.                *)
LEMMA ScalarWritten ==
  ASSUME Inv, Told, out.boolean = <<>>, NEW type, NEW val, WriteScalar(type, val),
         \/ type = "BYTE" /\ val \in -128..127
         \/ type = "I32" /\ val \in Ints
         \/ type = "STRING" /\ val \in Sizes
  PROVE  Extends(Call(type, <<>>, val), ValueBytes(type, val))
<1> DEFINE c == Call(type, <<>>, val)
           b == ValueBytes(type, val)
           p == At(out, Types(todo))
           q == At(out, Types(todo'))
<1>1. Writes(c, b) /\ out' = out /\ todo' = AfterValue /\ Due(type) /\ todo # <<>> /\ ~InStruct
  BY DEF WriteScalar, Due
<1>2. IsTodo(todo)
  BY DEF Inv
<1>3. Types(todo') = Left(Types(todo)) /\ Expects(Types(todo), type)
  BY <1>1, <1>2, TypesLeft, DueByTypes
<1>4. /\ p.obj = out /\ q.obj = out
      /\ q.types = Left(p.types) /\ Expects(p.types, type)
  BY <1>3 DEF At
<1>5. <<>> \in Bytes
  BY EmptySeq DEF Bytes
<1> HIDE DEF p, q
<1>6. CASE type = "BYTE" /\ val \in -128..127
  <2>1. b = <<Byte(val)>>
    BY <1>6 DEF ValueBytes
  <2>2. b \in Bytes
    <3>1. PICK k \in 0..255 : k = Byte(val)
      BY <1>6, ByteKept
    <3>2. <<k>> \in Bytes
      BY <1>5, ByteInFront, Zenon
    <3> QED
      BY <2>1, <3>1, <3>2
  <2>3. MeansByte(c, b, p, q)
    BY <1>4, <1>6, <2>1 DEF MeansByte
  <2> QED
    BY <1>1, <2>2, <2>3, ValueExtends DEF Means, p, q
<1>7. CASE type = "I32" /\ val \in Ints
  <2>1. b = Varint[ZigZag(val)]
    BY <1>7 DEF ValueBytes
  <2>2. b \in Bytes
    BY <1>5, <1>7, <2>1, ZigZagged, VarintInFront
  <2>3. MeansI32(c, b, p, q)
    BY <1>4, <1>7, <2>1 DEF MeansI32
  <2> QED
    BY <1>1, <2>2, <2>3, ValueExtends DEF Means, p, q
<1>8. CASE type = "STRING" /\ val \in Sizes
  <2>1. b = Varint[val] \o Text(val)
    BY <1>8 DEF ValueBytes, Text
  <2>2. b \in Bytes
    BY <1>5, <1>8, <2>1, StringInFront
  <2>3. MeansString(c, b, p, q)
    BY <1>4, <1>8, <2>1 DEF MeansString
  <2> QED
    BY <1>1, <2>2, <2>3, ValueExtends DEF Means, p, q
<1> QED
  BY <1>6, <1>7, <1>8

(* writeListBegin and writeSetBegin.                                       *)
LEMMA ListWritten ==
  ASSUME Inv, Told, out.boolean = <<>>, NEW elem \in TTypes, NEW size \in Sizes,
         WriteListBegin(elem, size)
  PROVE  Extends(Call("ListBegin", <<elem>>, size), ListHeader(elem, size))
<1> DEFINE c == Call("ListBegin", <<elem>>, size)
           b == ListHeader(elem, size)
<1>1. /\ Writes(c, b) /\ out' = out /\ Due("LIST") /\ todo # <<>> /\ ~InStruct
      /\ todo' = InsideContainer(ListOf(elem, size), Plain) \o AfterValue
  BY DEF WriteListBegin, Due
<1>2. IsTodo(todo)
  BY DEF Inv
<1>3. /\ Types(todo') = Inside(ListOf(elem, size), Left(Types(todo)))
      /\ Expects(Types(todo), "LIST")
  BY <1>1, <1>2, TypesInside, DueByTypes
<1>4. <<>> \in Bytes
  BY EmptySeq DEF Bytes
<1>5. b \in Bytes
  BY <1>4, ListInFront
<1> HIDE DEF b
<1>6. MeansList(c, b, At(out, Types(todo)), At(out, Types(todo')))
  BY <1>3 DEF MeansList, At, b
<1> HIDE DEF c
<1>7. Extends(c, b)
  BY <1>1, <1>5, <1>6, ValueExtends DEF Means
<1> QED
  BY <1>7 DEF b, c

(* writeMapBegin.                                                          *)
LEMMA MapWritten ==
  ASSUME Inv, Told, out.boolean = <<>>, NEW key \in TTypes, NEW val \in TTypes,
         NEW size \in Sizes, WriteMapBegin(key, val, size)
  PROVE  Extends(Call("MapBegin", <<key, val>>, size), MapHeader(key, val, size))
<1> DEFINE c == Call("MapBegin", <<key, val>>, size)
           b == MapHeader(key, val, size)
<1>1. /\ Writes(c, b) /\ out' = out /\ Due("MAP") /\ todo # <<>> /\ ~InStruct
      /\ todo' = InsideContainer(MapOf(key, val, size), Plain) \o AfterValue
  BY DEF WriteMapBegin, Due
<1>2. IsTodo(todo)
  BY DEF Inv
<1>3. /\ Types(todo') = Inside(MapOf(key, val, size), Left(Types(todo)))
      /\ Expects(Types(todo), "MAP")
  BY <1>1, <1>2, TypesInside, DueByTypes
<1>4. <<>> \in Bytes
  BY EmptySeq DEF Bytes
<1>5. b \in Bytes
  BY <1>4, MapInFront
<1> HIDE DEF b
<1>6. MeansMap(c, b, At(out, Types(todo)), At(out, Types(todo')))
  BY <1>3 DEF MeansMap, At, b
<1> HIDE DEF c
<1>7. Extends(c, b)
  BY <1>1, <1>5, <1>6, ValueExtends DEF Means
<1> QED
  BY <1>7 DEF b, c

(* A boolean field begins: nothing is sent, and the account is the same.   *)
LEMMA BoolFieldToldOn ==
  ASSUME Inv, Told, out.boolean = <<>>, NEW id \in FieldIds, WriteFieldBegin(id, "BOOL")
  PROVE  Told'
<1> DEFINE c == Call("FieldBegin", <<"BOOL">>, id)
<1>1. /\ Writes(c, <<>>) /\ phase = "writing" /\ phase' = phase
      /\ out' = [out EXCEPT !.boolean = <<id>>] /\ InStruct
      /\ todo' = InsideField("BOOL") \o <<[Head(todo) EXCEPT !.ids = @ \ {id}]>> \o Tail(todo)
  BY DEF WriteFieldBegin
<1>2. PICK n \in Nat : \E g, w : Account(g, w, n)
  BY DEF Told
<1>3. PICK g, w : Account(g, w, n)
  BY <1>2
<1>4. /\ Chain(g, w, n, written) /\ g[1] = At(NewProtocol, <<>>)
      /\ Len(written) = n /\ g[n + 1] = At(out, Types(todo))
      /\ Len(read) \in 0..n /\ read = <<>>
      /\ wire = w[Len(read) + 1] /\ in = g[Len(read) + 1].obj
  BY <1>1, <1>3 DEF Account, WriterAt, ReaderAt
<1>5. /\ IsSequence(written') /\ IsSequence(read')
      /\ Len(written') = n + 1 /\ written' # <<>>
      /\ \A i \in 1..n : written'[i] = written[i]
      /\ written'[n + 1] = c
      /\ \A i \in 2..Len(written') : written'[i].op # "MessageBegin"
  <2>1. c.op # "MessageBegin"
    BY DEF Call
  <2> HIDE DEF c
  <2> QED
    BY <1>1, <1>4, <2>1, WrittenMore
<1>6. /\ wire' = wire /\ read' = read /\ in' = in /\ family' = family
  <2>1. wire \in Bytes
    <3>1. Len(read) + 1 \in 1..(n + 1)
      BY <1>4
    <3> QED
      BY <1>4, <3>1 DEF Chain
  <2>2. wire \o <<>> = wire
    BY <2>1, ConcatEmptySeq DEF Bytes
  <2> QED
    BY <1>1, <2>2 DEF Writes
<1>7. IsTodo(todo) /\ IsProtocol(out) /\ Numbered(out)
  BY DEF Inv, Told
<1>8. InFields(Types(todo)) /\ Types(todo') = << <<"BOOL">> >> \o Types(todo)
  BY <1>1, <1>7, DueByTypes, FieldAhead
<1>9. /\ out'.boolean = <<id>> /\ out'.lastField = out.lastField
      /\ out'.lastFieldId = out.lastFieldId
      /\ [out' EXCEPT !.boolean = <<>>] = out
  <2>1. PICK x, y : x = out.lastFieldId /\ y = out.lastField
    OBVIOUS
  <2>2. out = [lastFieldId |-> x, lastField |-> y, boolean |-> <<>>]
    BY <1>7, <2>1 DEF IsProtocol
  <2>3. PICK p : p = out'
    OBVIOUS
  <2>4. p = [lastFieldId |-> x, lastField |-> y, boolean |-> <<id>>]
    BY <1>1, <2>2, <2>3
  <2>5. p.boolean = <<id>> /\ p.lastField = y /\ p.lastFieldId = x
    BY <2>4
  <2>6. [p EXCEPT !.boolean = <<>>] = [lastFieldId |-> x, lastField |-> y, boolean |-> <<>>]
    BY <2>4
  <2> QED
    BY <2>1, <2>2, <2>3, <2>5, <2>6
<1>10. Numbered(out')
  BY <1>7, <1>9 DEF Numbered
<1>11. Chain(g, w, n, written')
  <2>1. PICK old, new : old = written /\ new = written'
    OBVIOUS
  <2>2. Chain(g, w, n, old) /\ \A i \in 1..n : new[i] = old[i]
    BY <1>4, <1>5, <2>1
  <2>3. Chain(g, w, n, new)
    BY <2>2 DEF Chain
  <2> QED
    BY <2>1, <2>3
<1>12. g[n + 1].types = Types(todo) /\ g[n + 1].obj = out
  BY <1>4 DEF At
<1>13. Pending(g[n + 1])'
  BY <1>5, <1>8, <1>9, <1>12 DEF Pending
<1>14. WriterAt(n, g[n + 1])'
  <2>1. <<id>> # <<>>
    OBVIOUS
  <2> QED
    BY <1>1, <1>5, <1>9, <1>13, <2>1 DEF WriterAt
<1>15. ReaderAt(n, g[Len(read) + 1], w[Len(read) + 1])'
  BY <1>1, <1>4, <1>6 DEF ReaderAt
<1>16. Account(g, w, n)'
  BY <1>4, <1>11, <1>14, <1>15 DEF Account
<1>17. \A i \in 1..Len(read') : read'[i] = ReadAs(written'[i])
  <2>1. Len(read) = 0
    BY <1>4
  <2> QED
    BY <1>6, <2>1
<1>18. family \in Families
  BY DEF Told
<1> QED
  BY <1>1, <1>5, <1>6, <1>10, <1>16, <1>17, <1>18 DEF Told

(* The value of a boolean field: the header that is sent stands for both   *)
(* calls, that of the field, which was put aside, and that of the value.   *)
LEMMA BoolHeldToldOn ==
  ASSUME Inv, Told, out.boolean # <<>>, NEW val \in {0, 1}, WriteBool(val)
  PROVE  Told'
<1> DEFINE nibble == IF val = 1 THEN 1 ELSE False
           c == Call("BOOL", <<>>, val)
<1>1. PICK n \in Nat : \E g, w : Account(g, w, n)
  BY DEF Told
<1>2. PICK g, w : Account(g, w, n)
  BY <1>1
<1>3. /\ Chain(g, w, n, written) /\ g[1] = At(NewProtocol, <<>>)
      /\ Len(written) = n + 1 /\ Pending(g[n + 1]) /\ phase = "writing"
      /\ Len(read) \in 0..n /\ read = <<>>
      /\ wire = w[Len(read) + 1] /\ in = g[Len(read) + 1].obj
  BY <1>2 DEF Account, WriterAt, ReaderAt
<1>4. PICK id \in FieldIds :
        /\ out.boolean = <<id>>
        /\ written[n + 1] = Call("FieldBegin", <<"BOOL">>, id)
        /\ InFields(g[n + 1].types) /\ Types(todo) = << <<"BOOL">> >> \o g[n + 1].types
        /\ g[n + 1].obj = [out EXCEPT !.boolean = <<>>]
  BY <1>3 DEF Pending
<1> DEFINE b == FieldBytes(out.lastFieldId, id, nibble)
<1>5. out.boolean[1] = id
  BY <1>4
<1>6. /\ Writes(c, b) /\ Due("BOOL") /\ todo # <<>> /\ ~InStruct /\ todo' = AfterValue
      /\ phase' = phase
      /\ out' = [out EXCEPT !.lastFieldId = id, !.boolean = <<>>]
  <2>1. (IF val = 1 THEN CompactType["BOOL"] ELSE False) = nibble
    BY NibblesKept
  <2>2. /\ Writes(c, FieldHeader(id, nibble)) /\ phase' = phase
        /\ Due("BOOL") /\ todo' = AfterValue
        /\ out' = [out EXCEPT !.lastFieldId = id, !.boolean = <<>>]
    BY <1>5, <2>1 DEF WriteBool
  <2> QED
    BY <2>2, HeaderIs DEF Due
<1>7. IsTodo(todo) /\ IsProtocol(out) /\ Numbered(out)
  BY DEF Inv, Told
<1>8. Types(todo') = Left(Types(todo)) /\ Expects(Types(todo), "BOOL")
  BY <1>6, <1>7, TypesLeft, DueByTypes
<1>9. nibble \in 1..12 /\ (nibble = CompactType["BOOL"] \/ nibble = False)
      /\ (IF nibble = False THEN 0 ELSE 1) = val
  BY NibblesKept DEF False
<1>10. PICK last \in Int : \E ids : last = out.lastFieldId /\ ids = out.lastField
  BY <1>7 DEF Numbered, FieldIds
<1>11. PICK ids : last = out.lastFieldId /\ ids = out.lastField
  BY <1>10
<1>12. PICK p, q, r, now :
         /\ p = g[n + 1]
         /\ q = At(Headed(p.obj, "BOOL", id, nibble), Types(todo))
         /\ now = out'
         /\ r = At(now, Types(todo'))
  OBVIOUS
<1> HIDE DEF nibble, c
<1>13. /\ p.obj = [lastFieldId |-> last, lastField |-> ids, boolean |-> <<>>]
       /\ q.obj = [lastFieldId |-> id, lastField |-> ids, boolean |-> <<val>>]
       /\ r.obj = [lastFieldId |-> id, lastField |-> ids, boolean |-> <<>>]
       /\ r.obj = now
  <2>1. out = [lastFieldId |-> last, lastField |-> ids, boolean |-> <<id>>]
    BY <1>4, <1>7, <1>11 DEF IsProtocol
  <2>2. p.obj = [lastFieldId |-> last, lastField |-> ids, boolean |-> <<>>]
    BY <1>4, <1>12, <2>1
  <2>3. now = [lastFieldId |-> id, lastField |-> ids, boolean |-> <<>>]
    BY <1>6, <1>12, <2>1
  <2>4. PICK o : o = p.obj
    OBVIOUS
  <2>5. PICK one : one = <<val>> /\ one = <<IF nibble = False THEN 0 ELSE 1>>
    BY <1>9
  <2>6. Headed(o, "BOOL", id, nibble) = [o EXCEPT !.lastFieldId = id, !.boolean = one]
    BY <2>5, Zenon DEF Headed
  <2>7. Headed(o, "BOOL", id, nibble) =
          [lastFieldId |-> id, lastField |-> ids, boolean |-> <<val>>]
    <3>1. o = [lastFieldId |-> last, lastField |-> ids, boolean |-> <<>>]
      BY <2>2, <2>4
    <3>2. [o EXCEPT !.lastFieldId = id, !.boolean = one] =
            [lastFieldId |-> id, lastField |-> ids, boolean |-> one]
      <4> DEFINE m == [o EXCEPT !.lastFieldId = id, !.boolean = one]
      <4>1. o \in [lastFieldId : {last}, lastField : {ids}, boolean : {<<>>}]
        BY <3>1
      <4>2. m \in [lastFieldId : {id}, lastField : {ids}, boolean : {one}]
        BY <4>1
      <4> HIDE DEF m
      <4>3. m = [lastFieldId |-> id, lastField |-> ids, boolean |-> one]
        BY <4>2, ObjectIs
      <4> QED
        BY <4>3 DEF m
    <3> QED
      BY <2>5, <2>6, <3>2, Zenon
  <2> QED
    BY <1>12, <2>2, <2>3, <2>4, <2>7 DEF At
<1>14. Numbered(q.obj) /\ Numbered(r.obj)
  <2>1. \A i \in 1..Len(ids) : ids[i] \in FieldIds
    BY <1>7, <1>11 DEF Numbered
  <2> QED
    BY <1>12, <1>13, <2>1 DEF Numbered
<1>15. MeansField(written[n + 1], b, p, q)
  <2>1. "BOOL" \in TTypes
    BY DEF TTypes, CompactType
  <2>2. p.obj.lastFieldId = last
    BY <1>13
  <2>3. b = FieldBytes(p.obj.lastFieldId, id, nibble)
    BY <1>10, <2>2
  <2>4. q.types = << <<"BOOL">> >> \o p.types /\ InFields(p.types)
        /\ q.obj = Headed(p.obj, "BOOL", id, nibble)
    BY <1>4, <1>12 DEF At
  <2>5. written[n + 1] = Call("FieldBegin", <<"BOOL">>, id) /\ p.obj.lastFieldId \in Int
    BY <1>4, <2>2
  <2> HIDE DEF b
  <2> QED
    BY <1>9, <2>1, <2>3, <2>4, <2>5, Zenon DEF MeansField
<1>16. MeansHeld(c, <<>>, q, r)
  <2>1. q.obj.boolean = <<val>> /\ <<val>> # <<>> /\ q.obj.boolean[1] = val
    BY <1>13
  <2>2. r.types = Left(q.types) /\ Expects(q.types, "BOOL")
    BY <1>8, <1>12 DEF At
  <2>3. r.obj = [q.obj EXCEPT !.boolean = <<>>]
    BY <1>13
  <2> QED
    BY <2>1, <2>2, <2>3 DEF MeansHeld, c
<1>17. b \in Bytes /\ <<>> \in Bytes
  <2>1. <<>> \in Bytes
    BY EmptySeq DEF Bytes
  <2> QED
    BY <1>9, <1>10, <2>1, FieldInFront
<1>18. /\ IsSequence(written') /\ IsSequence(read')
       /\ Len(written') = n + 2 /\ written' # <<>>
       /\ \A i \in 1..(n + 1) : written'[i] = written[i]
       /\ written'[n + 2] = c
       /\ \A i \in 2..Len(written') : written'[i].op # "MessageBegin"
  <2>1. c.op # "MessageBegin"
    BY DEF Call, c
  <2>2. (n + 1) + 1 = n + 2
    OBVIOUS
  <2> HIDE DEF b
  <2> QED
    BY <1>3, <1>6, <2>1, <2>2, WrittenMore
<1>19. wire' = wire \o b /\ read' = read /\ in' = in /\ family' = family
  BY <1>6 DEF Writes
<1>20. PICK calls, more : calls = written /\ more = written'
  OBVIOUS
<1>21. PICK a \in Bytes : a = b
  BY <1>17
<1>22. PICK h, x : Chain(h, x, n + 1, more) /\ h[1] = g[1] /\ h[n + 2] = q /\ x[1] = w[1] \o a
  <2>1. Chain(g, w, n, calls) /\ \A i \in 1..n : more[i] = calls[i]
    BY <1>3, <1>18, <1>20
  <2>2. Means(more[n + 1], a, g[n + 1], q)
    <3>1. more[n + 1] = written[n + 1]
      BY <1>18, <1>20
    <3> QED
      BY <1>12, <1>15, <1>21, <3>1 DEF Means
  <2>3. Longer(g, w, n, more, a, q)
    BY <1>14, <2>1, <2>2, ChainLonger
  <2> QED
    BY <2>3 DEF Longer
<1>23. PICK k, y : Chain(k, y, n + 2, more) /\ k[1] = g[1] /\ k[n + 3] = r /\ y[1] = x[1] \o <<>>
  <2>1. PICK m \in Nat, none \in Bytes : m = n + 1 /\ none = <<>>
    BY <1>17
  <2>2. m + 1 = n + 2 /\ m + 2 = n + 3
    BY <2>1
  <2>3. Means(more[m + 1], none, h[m + 1], r)
    BY <1>16, <1>18, <1>20, <1>22, <2>1, <2>2 DEF Means
  <2>4. Chain(h, x, m, more)
    BY <1>22, <2>1
  <2>5. Longer(h, x, m, more, none, r)
    BY <1>14, <2>3, <2>4, ChainLonger
  <2> QED
    BY <1>22, <2>1, <2>2, <2>5 DEF Longer
<1>24. /\ Len(read) = 0 /\ Len(read) + 1 = 1 /\ Len(read') + 1 = 1 /\ Len(read') = 0
       /\ 0 \in 0..(n + 2) /\ n + 2 \in Nat /\ (n + 2) + 1 = n + 3
  BY <1>3, <1>19
<1>25. y[1] = wire'
  <2>1. x[1] \in Bytes
    <3>1. 1 \in 1..((n + 1) + 1)
      OBVIOUS
    <3> QED
      BY <1>22, <3>1 DEF Chain
  <2>2. y[1] = x[1]
    BY <1>23, <2>1, ConcatEmptySeq DEF Bytes
  <2> HIDE DEF b
  <2> QED
    BY <1>3, <1>19, <1>21, <1>22, <1>24, <2>2
<1> HIDE DEF b
<1>26. r = At(out', Types(todo')) /\ out'.boolean = <<>> /\ out'.lastFieldId = id
       /\ out'.lastField = out.lastField
  BY <1>11, <1>12, <1>13
<1>27. Numbered(out')
  BY <1>7, <1>26 DEF Numbered
<1>28. WriterAt(n + 2, k[n + 3])'
  BY <1>3, <1>6, <1>18, <1>23, <1>26 DEF WriterAt
<1>29. ReaderAt(n + 2, k[1], y[1])'
  BY <1>3, <1>6, <1>19, <1>23, <1>24, <1>25 DEF ReaderAt
<1>30. Account(k, y, n + 2)'
  BY <1>3, <1>20, <1>23, <1>24, <1>28, <1>29 DEF Account
<1>31. \A i \in 1..Len(read') : read'[i] = ReadAs(written'[i])
  BY <1>24
<1>32. family \in Families
  BY DEF Told
<1> QED
  BY <1>3, <1>6, <1>18, <1>19, <1>24, <1>27, <1>30, <1>31, <1>32 DEF Told

(* Every call of the writer.                                               *)
LEMMA WriteToldOn ==
  ASSUME Inv, Told, Write
  PROVE  Told'
<1> USE FamilyBounds
<1>0. family \in Families
  BY DEF Told
<1>1. CASE \E header \in family.headers : WriteMessageBegin(header[1], header[2], header[3])
  <2>1. PICK header \in family.headers : WriteMessageBegin(header[1], header[2], header[3])
    BY <1>1
  <2>2. PICK type \in 1..4, seqid \in Ints, name \in Sizes : WriteMessageBegin(type, seqid, name)
    BY <1>0, <2>1
  <2>3. phase = "new" /\ phase' = "writing" /\ out = NewProtocol
    BY <2>2 DEF WriteMessageBegin, Inv
  <2>4. out.boolean = <<>> /\ written = <<>>
    BY <2>3 DEF NewProtocol, Told
  <2>5. Extends(Call("MessageBegin", <<type, name>>, seqid), MessageHeader(type, seqid, name))
    BY <2>2, MessageWritten
  <2> QED
    BY <2>3, <2>4, <2>5, ToldMore
<1>2. ASSUME NEW c, NEW b, Extends(c, b), c.op # "MessageBegin", out.boolean = <<>>,
             phase = "writing", phase' = "writing" \/ (phase' = "sent" /\ todo' = <<>>)
      PROVE  Told'
  BY <1>2, ToldMore
<1>3. ASSUME phase = "writing", \/ InStruct
                                \/ \E type : Due(type) /\ type # "BOOL"
      PROVE  out.boolean = <<>>
  <2>1. Stacked(out, todo)
    BY <1>3 DEF Inv
  <2> QED
    BY <1>3, <2>1, NothingAside
<1>4. CASE WriteStructBegin
  <2>1. phase = "writing" /\ phase' = "writing" /\ Due("STRUCT")
    BY <1>4 DEF WriteStructBegin
  <2>2. out.boolean = <<>>
    BY <1>3, <2>1
  <2>3. Extends(Call("StructBegin", <<>>, 0), <<>>) /\ Call("StructBegin", <<>>, 0).op # "MessageBegin"
    BY <1>4, <2>2, StructWritten DEF Call
  <2> QED
    BY <1>2, <2>1, <2>2, <2>3
<1>5. CASE \E id \in family.ids, type \in family.types : WriteFieldBegin(id, type)
  <2>1. PICK id \in FieldIds, type \in TTypes : WriteFieldBegin(id, type)
    BY <1>0, <1>5
  <2>2. phase = "writing" /\ phase' = "writing" /\ InStruct
    BY <2>1 DEF WriteFieldBegin
  <2>3. out.boolean = <<>>
    BY <1>3, <2>2
  <2>4. CASE type = "BOOL"
    BY <2>1, <2>3, <2>4, BoolFieldToldOn
  <2>5. CASE type # "BOOL"
    <3>1. PICK b : Extends(Call("FieldBegin", <<type>>, id), b)
      BY <2>1, <2>3, <2>5, FieldWritten
    <3>2. Call("FieldBegin", <<type>>, id).op # "MessageBegin"
      BY DEF Call
    <3> QED
      BY <1>2, <2>2, <2>3, <3>1, <3>2
  <2> QED
    BY <2>4, <2>5
<1>6. CASE \E val \in {0, 1} : WriteBool(val)
  <2>1. PICK val \in {0, 1} : WriteBool(val)
    BY <1>6
  <2>2. phase = "writing" /\ phase' = "writing"
    BY <2>1 DEF WriteBool
  <2>3. CASE out.boolean = <<>>
    <3>1. Call("BOOL", <<>>, val).op # "MessageBegin"
      BY DEF Call
    <3> QED
      BY <1>2, <2>1, <2>2, <2>3, <3>1, BoolWritten
  <2>4. CASE out.boolean # <<>>
    BY <2>1, <2>4, BoolHeldToldOn
  <2> QED
    BY <2>3, <2>4
<1>7. CASE \E type \in Scalars \ {"BOOL"} : \E val \in family.values[type] : WriteScalar(type, val)
  <2>1. PICK type \in Scalars \ {"BOOL"} : \E val \in family.values[type] : WriteScalar(type, val)
    BY <1>7
  <2>2. PICK val \in family.values[type] : WriteScalar(type, val)
    BY <2>1
  <2>3. \/ type = "BYTE" /\ val \in -128..127
        \/ type = "I32" /\ val \in Ints
        \/ type = "STRING" /\ val \in Sizes
    <3>1. type \in {"BYTE", "I32", "STRING"}
      BY DEF Scalars
    <3> QED
      BY <1>0, <3>1, Zenon
  <2>4. phase = "writing" /\ phase' = "writing" /\ Due(type) /\ type # "BOOL"
    BY <2>2 DEF WriteScalar
  <2>5. out.boolean = <<>>
    BY <1>3, <2>4
  <2>6. Extends(Call(type, <<>>, val), ValueBytes(type, val))
    BY <2>2, <2>3, <2>5, ScalarWritten
  <2>7. Call(type, <<>>, val).op # "MessageBegin"
    BY <2>3 DEF Call
  <2> QED
    BY <1>2, <2>4, <2>5, <2>6, <2>7
<1>8. CASE \E elem \in family.types, size \in family.sizes : WriteListBegin(elem, size)
  <2>1. PICK elem \in TTypes, size \in Sizes : WriteListBegin(elem, size)
    BY <1>0, <1>8
  <2>2. phase = "writing" /\ phase' = "writing" /\ Due("LIST")
    BY <2>1 DEF WriteListBegin
  <2>3. out.boolean = <<>>
    BY <1>3, <2>2
  <2>4. Extends(Call("ListBegin", <<elem>>, size), ListHeader(elem, size))
    BY <2>1, <2>3, ListWritten
  <2>5. Call("ListBegin", <<elem>>, size).op # "MessageBegin"
    BY DEF Call
  <2> QED
    BY <1>2, <2>2, <2>3, <2>4, <2>5
<1>9. CASE \E key, val \in family.types, size \in family.sizes : WriteMapBegin(key, val, size)
  <2>1. PICK key \in TTypes, val \in TTypes, size \in Sizes : WriteMapBegin(key, val, size)
    BY <1>0, <1>9
  <2>2. phase = "writing" /\ phase' = "writing" /\ Due("MAP")
    BY <2>1 DEF WriteMapBegin
  <2>3. out.boolean = <<>>
    BY <1>3, <2>2
  <2>4. Extends(Call("MapBegin", <<key, val>>, size), MapHeader(key, val, size))
    BY <2>1, <2>3, MapWritten
  <2>5. Call("MapBegin", <<key, val>>, size).op # "MessageBegin"
    BY DEF Call
  <2> QED
    BY <1>2, <2>2, <2>3, <2>4, <2>5
<1>10. CASE WriteStructEnd
  <2>1. phase = "writing" /\ InStruct /\ (phase' = "writing" \/ (phase' = "sent" /\ todo' = <<>>))
    BY <1>10 DEF WriteStructEnd
  <2>2. out.boolean = <<>>
    BY <1>3, <2>1
  <2>3. Extends(Call("StructEnd", <<>>, 0), <<0>>) /\ Call("StructEnd", <<>>, 0).op # "MessageBegin"
    BY <1>10, <2>2, EndWritten DEF Call
  <2> QED
    BY <1>2, <2>1, <2>2, <2>3
<1> QED
  BY <1>1, <1>4, <1>5, <1>6, <1>7, <1>8, <1>9, <1>10 DEF Write

------------------------------------------------------------------------------
(* The reader's side.                                                      *)

(* The call that the reader has to make: its bytes are in front of the     *)
(* wire, and what the reader knows is what the writer knew.                *)
LEMMA CallAhead ==
  ASSUME Inv, Told, NEW n \in Nat, NEW g, NEW w, Account(g, w, n),
         phase = "sent" \/ (phase = "reading" /\ todo # <<>>)
  PROVE  \E k \in 1..n : \E b \in Bytes :
           /\ k = Len(read) + 1
           /\ wire = b \o w[k + 1] /\ w[k + 1] \in Bytes
           /\ Means(written[k], b, g[k], g[k + 1])
           /\ in = g[k].obj /\ Types(todo) = g[k].types
<1>1. /\ Chain(g, w, n, written)
      /\ Len(written) = n /\ g[n + 1].types = <<>>
      /\ Len(read) \in 0..n
      /\ wire = w[Len(read) + 1] /\ in = g[Len(read) + 1].obj
      /\ Types(todo) = g[Len(read) + 1].types
      /\ phase = "sent" => read = <<>>
  BY DEF Account, WriterAt, ReaderAt
<1>2. Len(read) # n
  <2>1. CASE phase = "sent"
    <3>1. Len(read) = 0
      BY <1>1, <2>1
    <3>2. written # <<>> /\ IsSequence(written)
      BY <2>1 DEF Told
    <3>3. Len(written) # 0
      BY <3>2, Appended
    <3> QED
      BY <1>1, <3>1, <3>3
  <2>2. CASE phase = "reading" /\ todo # <<>>
    <3>1. Types(todo) # <<>>
      BY <2>2, TypesAhead DEF Inv
    <3> QED
      BY <1>1, <3>1
  <2> QED
    BY <2>1, <2>2
<1>3. PICK k \in 1..n : k = Len(read) + 1 /\ k + 1 \in 1..(n + 1)
  BY <1>1, <1>2
<1>4. /\ w[k + 1] \in Bytes
      /\ \E b \in Bytes : w[k] = b \o w[k + 1] /\ Means(written[k], b, g[k], g[k + 1])
  BY <1>1, <1>3 DEF Chain
<1> QED
  BY <1>1, <1>3, <1>4

(* It has made this call.                                                  *)
LEMMA ToldRead ==
  ASSUME Told, NEW n \in Nat, NEW g, NEW w, Account(g, w, n),
         phase \in {"sent", "reading"}, NEW k \in 1..n, k = Len(read) + 1,
         Follows(written[k], w[k + 1], g[k + 1]),
         UNCHANGED <<family, out, written>>,
         phase' \in {"reading", "done", "refused"},
         phase' # "refused" => Types(todo') = g[k + 1].types
  PROVE  Told'
<1>1. /\ Chain(g, w, n, written) /\ g[1] = At(NewProtocol, <<>>)
      /\ out.boolean = <<>> /\ Len(written) = n /\ g[n + 1].types = <<>>
  BY DEF Account, WriterAt
<1>2. /\ family \in Families /\ IsSequence(written) /\ IsSequence(read) /\ Numbered(out)
      /\ written # <<>>
      /\ \A i \in 2..Len(written) : written[i].op # "MessageBegin"
      /\ \A i \in 1..Len(read) : read[i] = ReadAs(written[i])
  BY DEF Told
<1>3. read' = Append(read, ReadAs(written[k])) /\ wire' = w[k + 1] /\ in' = g[k + 1].obj
  BY DEF Follows
<1>4. /\ IsSequence(read') /\ Len(read') = k /\ read' # <<>>
      /\ \A i \in 1..Len(read) : read'[i] = read[i]
      /\ read'[k] = ReadAs(written[k])
  BY <1>2, <1>3, Appended
<1>5. \A i \in 1..Len(read') : read'[i] = ReadAs(written'[i])
  <2> SUFFICES ASSUME NEW i \in 1..Len(read')
               PROVE  read'[i] = ReadAs(written[i])
    OBVIOUS
  <2>1. CASE i = k
    BY <1>4, <2>1
  <2>2. CASE i # k
    <3>1. i \in 1..Len(read)
      BY <1>4, <2>2
    <3> QED
      BY <1>2, <1>4, <3>1
  <2> QED
    BY <2>1, <2>2
<1>6. WriterAt(n, g[n + 1])'
  BY <1>1 DEF WriterAt
<1>7. ReaderAt(n, g[k + 1], w[k + 1])'
  BY <1>3, <1>4 DEF ReaderAt
<1>8. Account(g, w, n)'
  BY <1>1, <1>4, <1>6, <1>7 DEF Account
<1> QED
  BY <1>2, <1>4, <1>5, <1>8 DEF Told

(* Every call of the reader.                                               *)
LEMMA ReadToldOn ==
  ASSUME Inv, Told, Read
  PROVE  Told'
<1>1. phase = "sent" \/ (phase = "reading" /\ todo # <<>>)
  BY DEF Read, ReadMessageBegin, ReadStructBegin, ReadFieldBegin, ReadBool, ReadByte, ReadI32,
         ReadString, ReadListBegin, ReadMapBegin, ReadStructEnd, InStruct, Due
<1>2. UNCHANGED <<family, out, written>>
  BY DEF Read, ReadMessageBegin, ReadStructBegin, ReadFieldBegin, ReadBool, ReadByte, ReadI32,
         ReadString, ReadListBegin, ReadMapBegin, ReadStructEnd, Reads
<1>3. phase' \in {"reading", "done", "refused"}
  BY DEF Read, ReadMessageBegin, ReadStructBegin, ReadFieldBegin, ReadBool, ReadByte, ReadI32,
         ReadString, ReadListBegin, ReadMapBegin, ReadStructEnd
<1>4. PICK n \in Nat : \E g, w : Account(g, w, n)
  BY DEF Told
<1>5. PICK g, w : Account(g, w, n)
  BY <1>4
<1>6. PICK k \in 1..n : \E b \in Bytes :
         /\ k = Len(read) + 1
         /\ wire = b \o w[k + 1] /\ w[k + 1] \in Bytes
         /\ Means(written[k], b, g[k], g[k + 1])
         /\ in = g[k].obj /\ Types(todo) = g[k].types
  BY <1>1, <1>5, CallAhead
<1>7. PICK b \in Bytes :
         /\ k = Len(read) + 1
         /\ wire = b \o w[k + 1] /\ w[k + 1] \in Bytes
         /\ Means(written[k], b, g[k], g[k + 1])
         /\ in = g[k].obj /\ Types(todo) = g[k].types
  BY <1>6
<1>8. PICK c, rest, p, q :
        /\ c = written[k] /\ rest = w[k + 1] /\ p = g[k] /\ q = g[k + 1]
  OBVIOUS
<1>9. /\ rest \in Bytes /\ wire = b \o rest /\ Means(c, b, p, q)
      /\ in = p.obj /\ Types(todo) = p.types
  BY <1>7, <1>8
<1>10. IsTodo(todo)
  BY DEF Inv
<1>11. Follows(c, rest, q) /\ (phase' # "refused" => Types(todo') = q.types)
  <2>1. CASE ReadMessageBegin
    <3>1. phase = "sent" /\ phase' \in {"reading", "refused"}
      BY <2>1 DEF ReadMessageBegin
    <3>2. Types(todo) = <<>>
      BY <3>1, <1>10, TypesAhead DEF Inv
    <3>3. MeansMessage(c, b, p, q)
      BY <1>9, <3>2, MeantByType
    <3> QED
      BY <1>9, <2>1, <3>1, <3>3, ReadsMessage
  <2>2. CASE ReadStructBegin
    <3>1. Expects(p.types, "STRUCT")
      BY <1>9, <1>10, <2>2, DueByTypes DEF ReadStructBegin
    <3> QED
      BY <1>9, <1>10, <2>2, <3>1, MeantByType, ReadsStruct
  <2>3. CASE ReadFieldBegin
    <3>1. InFields(p.types)
      BY <1>9, <1>10, <2>3, DueByTypes DEF ReadFieldBegin
    <3> QED
      BY <1>9, <1>10, <2>3, <3>1, MeantByType, ReadsField
  <2>4. CASE ReadBool
    <3>1. Expects(p.types, "BOOL")
      BY <1>9, <1>10, <2>4, DueByTypes DEF ReadBool
    <3> QED
      BY <1>9, <1>10, <2>4, <3>1, MeantByType, ReadsBool
  <2>5. CASE ReadByte
    <3>1. Expects(p.types, "BYTE")
      BY <1>9, <1>10, <2>5, DueByTypes DEF ReadByte
    <3> QED
      BY <1>9, <1>10, <2>5, <3>1, MeantByType, ReadsByte
  <2>6. CASE ReadI32
    <3>1. Expects(p.types, "I32")
      BY <1>9, <1>10, <2>6, DueByTypes DEF ReadI32
    <3> QED
      BY <1>9, <1>10, <2>6, <3>1, MeantByType, ReadsI32
  <2>7. CASE ReadString
    <3>1. Expects(p.types, "STRING")
      BY <1>9, <1>10, <2>7, DueByTypes DEF ReadString
    <3> QED
      BY <1>9, <1>10, <2>7, <3>1, MeantByType, ReadsString
  <2>8. CASE ReadListBegin
    <3>1. Expects(p.types, "LIST")
      BY <1>9, <1>10, <2>8, DueByTypes DEF ReadListBegin
    <3> QED
      BY <1>9, <1>10, <2>8, <3>1, MeantByType, ReadsList
  <2>9. CASE ReadMapBegin
    <3>1. Expects(p.types, "MAP")
      BY <1>9, <1>10, <2>9, DueByTypes DEF ReadMapBegin
    <3> QED
      BY <1>9, <1>10, <2>9, <3>1, MeantByType, ReadsMap
  <2>10. CASE ReadStructEnd
    <3>1. InFields(p.types)
      BY <1>9, <1>10, <2>10, DueByTypes DEF ReadStructEnd
    <3> QED
      BY <1>9, <1>10, <2>10, <3>1, MeantByType, ReadsEnd
  <2> QED
    BY <2>1, <2>2, <2>3, <2>4, <2>5, <2>6, <2>7, <2>8, <2>9, <2>10 DEF Read
<1> QED
  BY <1>1, <1>2, <1>3, <1>5, <1>7, <1>8, <1>11, ToldRead

------------------------------------------------------------------------------
(* Nothing is written or read yet.                                         *)
LEMMA InitTold ==
  ASSUME Init
  PROVE  Told
<1> DEFINE new == At(NewProtocol, <<>>)
           g == [i \in 1..1 |-> new]
           w == [i \in 1..1 |-> <<>>]
<1>1. /\ family \in Families /\ wire = <<>> /\ out = NewProtocol /\ in = NewProtocol
      /\ todo = <<>> /\ phase = "new" /\ written = <<>> /\ read = <<>>
  BY DEF Init
<1>2. IsSequence(<<>>) /\ Len(<<>>) = 0 /\ <<>> \in Bytes
  BY EmptyIsSequence, EmptySeq DEF Bytes
<1>3. /\ NewProtocol.boolean = <<>> /\ NewProtocol.lastField = <<>>
      /\ NewProtocol.lastFieldId = 0 /\ new.obj = NewProtocol /\ new.types = <<>>
  BY DEF NewProtocol, At
<1>4. Numbered(out)
  <2>1. 0 \in FieldIds
    BY DEF FieldIds
  <2> QED
    BY <1>1, <1>2, <1>3, <2>1 DEF Numbered
<1>5. Types(<<>>) = <<>>
  BY <1>2, TypesAhead DEF IsTodo
<1>6. g[1] = new /\ w[1] = <<>> /\ 0 + 1 = 1
  OBVIOUS
<1> HIDE DEF g, w
<1>7. Chain(g, w, 0, written)
  <2>1. \A i \in 1..(0 + 1) : i = 1
    OBVIOUS
  <2>2. \A i \in 1..0 : FALSE
    OBVIOUS
  <2>3. Numbered(g[1].obj)
    BY <1>1, <1>3, <1>4, <1>6
  <2> QED
    BY <1>2, <1>6, <2>1, <2>2, <2>3 DEF Chain
<1>8. WriterAt(0, g[1])
  BY <1>1, <1>2, <1>3, <1>5, <1>6 DEF WriterAt
<1>9. ReaderAt(0, g[1], w[1])
  BY <1>1, <1>2, <1>3, <1>6 DEF ReaderAt
<1>10. Account(g, w, 0)
  BY <1>1, <1>2, <1>6, <1>7, <1>8, <1>9 DEF Account
<1>11. 0 \in Nat
  OBVIOUS
<1>12. /\ \A i \in 2..Len(written) : written[i].op # "MessageBegin"
       /\ \A i \in 1..Len(read) : read[i] = ReadAs(written[i])
  BY <1>1, <1>2
<1> QED
  BY <1>1, <1>2, <1>4, <1>10, <1>11, <1>12 DEF Told

(* Nothing happens.                                                        *)
LEMMA StutterTold ==
  ASSUME Told, UNCHANGED vars
  PROVE  Told'
<1>1. PICK n \in Nat : \E g, w : Account(g, w, n)
  BY DEF Told
<1>2. PICK g, w : Account(g, w, n)
  BY <1>1
<1>3. Account(g, w, n)'
  BY <1>2 DEF Account, WriterAt, ReaderAt, Pending, vars
<1> QED
  BY <1>3 DEF Told, vars

(* The account is kept by every step.                                      *)
LEMMA NextTold ==
  ASSUME Inv, Told, [Next]_vars
  PROVE  Told'
BY WriteToldOn, ReadToldOn, StutterTold DEF Next, Finished

(* It says that what was read is what was written, as far as it was read.  *)
LEMMA ToldSays ==
  ASSUME Inv, Told
  PROVE  ReadsWhatWasWritten
<1>1. PICK n \in Nat : \E g, w : Account(g, w, n)
  BY DEF Told
<1>2. PICK g, w : Account(g, w, n)
  BY <1>1
<1>3. /\ Chain(g, w, n, written) /\ Len(read) \in 0..n
      /\ Len(written) = n \/ Len(written) = n + 1
      /\ wire = w[Len(read) + 1]
  BY <1>2 DEF Account, WriterAt, ReaderAt
<1>4. /\ IsSequence(written) /\ IsSequence(read)
      /\ \A i \in 2..Len(written) : written[i].op # "MessageBegin"
      /\ \A i \in 1..Len(read) : read[i] = ReadAs(written[i])
  BY DEF Told
<1>5. DOMAIN read = 1..Len(read)
  <2> DEFINE S == {read[i] : i \in 1..Len(read)}
  <2>1. read \in Seq(S)
    BY <1>4 DEF IsSequence
  <2> HIDE DEF S
  <2> QED
    BY <2>1, LenProperties
<1>6. ASSUME phase = "done"
      PROVE  Len(read) = Len(written) /\ wire = <<>>
  <2>1. /\ Len(written) = n /\ Types(todo) = g[Len(read) + 1].types /\ read # <<>>
    BY <1>2, <1>6 DEF Account, WriterAt, ReaderAt
  <2>2. Types(todo) = <<>>
    BY <1>6, TypesAhead DEF Inv
  <2>3. Len(read) # 0
    BY <1>4, <2>1, Appended
  <2>4. ASSUME Len(read) # n PROVE FALSE
    <3>1. PICK k \in 2..n : k = Len(read) + 1
      BY <1>3, <2>3, <2>4
    <3>2. PICK b \in Bytes : Means(written[k], b, g[k], g[k + 1])
      <4>1. k \in 1..n
        OBVIOUS
      <4> QED
        BY <1>3, <4>1 DEF Chain
    <3>3. g[k].types = <<>>
      BY <2>1, <2>2, <3>1
    <3>4. MeansMessage(written[k], b, g[k], g[k + 1])
      BY <3>2, <3>3, MeantByType
    <3>5. written[k].op = "MessageBegin"
      BY <3>4 DEF MeansMessage, Call
    <3> QED
      BY <1>4, <2>1, <3>5
  <2>5. w[n + 1] = <<>>
    BY <1>3 DEF Chain
  <2> QED
    BY <1>3, <2>1, <2>4, <2>5
<1>7. Len(read) <= Len(written)
  BY <1>3
<1> QED
  BY <1>4, <1>5, <1>6, <1>7 DEF ReadsWhatWasWritten

(* The bookkeeping stays within its bound.                                 *)
Counted == family \in Families /\ fields \in 0..family.fields

(* Every step keeps it there.                                              *)
LEMMA NextCounted ==
  ASSUME Counted, [Next]_vars
  PROVE  Counted'
<1>1. CASE \E id \in family.ids, type \in family.types : WriteFieldBegin(id, type)
  <2>1. family' = family /\ fields' = fields + 1 /\ fields < family.fields
    BY <1>1 DEF WriteFieldBegin, Writes
  <2>2. family.fields \in Nat
    BY CompactAssumption, Zenon DEF Counted
  <2> QED
    BY <2>1, <2>2 DEF Counted
<1>2. CASE UNCHANGED <<family, fields>>
  BY <1>2 DEF Counted
<1>3. Read => UNCHANGED <<family, fields>>
  BY DEF Read, ReadMessageBegin, ReadStructBegin, ReadFieldBegin, ReadBool, ReadByte, ReadI32,
         ReadString, ReadListBegin, ReadMapBegin, ReadStructEnd, Reads
<1>4. Write => \/ \E id \in family.ids, type \in family.types : WriteFieldBegin(id, type)
               \/ UNCHANGED <<family, fields>>
  BY DEF Write, WriteMessageBegin, WriteStructBegin, WriteBool, WriteScalar, WriteListBegin,
         WriteMapBegin, WriteStructEnd, Writes
<1>5. UNCHANGED vars => UNCHANGED <<family, fields>>
  BY DEF vars
<1> QED
  BY <1>1, <1>2, <1>3, <1>4, <1>5 DEF Next, Finished

(* What is on the wire are bytes, and the ids of both objects have 16      *)
(* bits.                                                                   *)
LEMMA ToldTyped ==
  ASSUME Inv, Told, Counted
  PROVE  TypeOK
<1>1. PICK n \in Nat : \E g, w : Account(g, w, n)
  BY DEF Told
<1>2. PICK g, w : Account(g, w, n)
  BY <1>1
<1>3. /\ Chain(g, w, n, written) /\ Len(read) + 1 \in 1..(n + 1)
      /\ wire = w[Len(read) + 1] /\ in = g[Len(read) + 1].obj
  BY <1>2 DEF Account, ReaderAt
<1>4. wire \in Bytes /\ Numbered(in)
  BY <1>3 DEF Chain
<1>5. Numbered(out)
  BY DEF Told
<1> QED
  BY <1>4, <1>5 DEF TypeOK, Inv, Counted, Numbered, Bytes, FieldIds

(* Types are kept: what the protocol sends are bytes, and no id it sets    *)
(* aside or adds a difference to leaves the 16 bits of a short.            *)
THEOREM TypesKept == Spec => []TypeOK
<1>1. Init => Told /\ Counted
  <2>1. Init => Counted
    <3> SUFFICES ASSUME Init
                 PROVE  Counted
      OBVIOUS
    <3>1. family \in Families /\ fields = 0
      BY DEF Init
    <3>2. family.fields \in Nat
      BY <3>1, CompactAssumption, Zenon
    <3> QED
      BY <3>1, <3>2 DEF Counted
  <2> QED
    BY <2>1, InitTold
<1>2. Inv /\ Told /\ Counted /\ [Next]_vars => Told' /\ Counted'
  BY NextTold, NextCounted
<1>3. Inv /\ Told /\ Counted => TypeOK
  BY ToldTyped
<1> QED
  BY <1>1, <1>2, <1>3, Invariance, PTL DEF Spec

(* What was written is what is read, whatever the ids, sizes, integers and *)
(* types are and however deep the structs, lists and maps: no difference   *)
(* of ids, no boolean in a header, no zigzag or varint is read as another  *)
(* one, and no byte is left for the next message.                          *)
THEOREM ReadBack == Spec => []ReadsWhatWasWritten
<1>1. Init => Told
  BY InitTold
<1>2. Inv /\ Told /\ [Next]_vars => Told'
  BY NextTold
<1>3. Inv /\ Told => ReadsWhatWasWritten
  BY ToldSays
<1> QED
  BY <1>1, <1>2, <1>3, Invariance, PTL DEF Spec
==============================================================================
