----------------------- MODULE GeneratedServicesProofs -----------------------
(***************************************************************************)
(* What holds between the generated client and the generated processor of  *)
(* every two targets, for any functions and any number of calls.           *)
(*                                                                         *)
(* Every client writes a call as a message of five protocol calls, whose   *)
(* last is the only end of a message in it.  Hence the requests that are   *)
(* on the way to the server are always five times the calls that it has    *)
(* not processed (Requested), and it never processes what was not called.  *)
(* A processor that an exception leaves was given a cause by its handler   *)
(* (ThrownForCause), and once the connection is lost nothing is on its way *)
(* that could open it again.                                               *)
(***************************************************************************)
EXTENDS GeneratedServices, SequenceTheorems, TLAPS

(* A sequence of whatever.                                                 *)
IsSequence(s) == \E S : s \in Seq(S)

(* A call on the wire: its protocol calls and the last of them.            *)
CallLength == 5

(* The requests under way are whole calls, one for each that the server    *)
(* has not processed.                                                      *)
Requested ==
  /\ Len(requests) = CallLength * (Len(calls) - Len(ends))
  /\ \A k \in 1..Len(requests) : requests[k].op = "MessageEnd" <=> k % CallLength = 0

(* The state of the two programs and their histories are well formed.      *)
Histories ==
  /\ client \in Clients /\ server \in Servers
  /\ open \in BOOLEAN /\ waiting \in BOOLEAN
  /\ IsSequence(requests)
  /\ IsSequence(calls)
  /\ IsSequence(ends)
  /\ IsSequence(told)
  /\ Len(calls) <= MaxCalls /\ Len(ends) <= Len(calls) /\ Len(told) = Len(calls)

Inv ==
  /\ Histories
  /\ IF open THEN Requested ELSE requests = <<>>
  /\ LostForCause

-----------------------------------------------------------------------------
(* A sequence of whatever remains one behind Append and in front of more.  *)
LEMMA AppendAny ==
  ASSUME NEW s, IsSequence(s), NEW x
  PROVE  /\ IsSequence(Append(s, x))
         /\ Len(Append(s, x)) = Len(s) + 1 /\ Len(s) \in Nat
         /\ \A i \in 1..Len(s) : Append(s, x)[i] = s[i]
         /\ Append(s, x)[Len(s) + 1] = x
<1>1. PICK S : s \in Seq(S)
  BY DEF IsSequence
<1>2. s \in Seq(S \cup {x}) /\ x \in S \cup {x}
  BY <1>1
<1>3. Append(s, x) \in Seq(S \cup {x})
  BY <1>2, AppendProperties
<1>4. /\ Len(Append(s, x)) = Len(s) + 1 /\ Len(s) \in Nat
      /\ \A i \in 1..Len(s) : Append(s, x)[i] = s[i]
      /\ Append(s, x)[Len(s) + 1] = x
  BY <1>2, AppendProperties, LenProperties
<1> QED BY <1>3, <1>4 DEF IsSequence

(* Every send_<function> writes a CALL without arguments, whatever number  *)
(* it gives it.                                                            *)
LEMMA SentAsMessage ==
  ASSUME NEW target \in ClientTargets, NEW fn, NEW seqid
  PROVE  \E num : SendCall(target, fn, seqid) = Message("CALL", fn.name, num, NoArguments)
<1>1. CASE target = "cpp"
  BY <1>1 DEF SendCall, Cpp!SendCall, Cpp!Message, Message, Cpp!NoArguments, NoArguments,
     Cpp!MessageBegin, MessageBegin, Cpp!Mark, Mark, Cpp!Call, Call
<1>2. CASE target = "java"
  BY <1>2 DEF SendCall, Java!SendCall, Java!Message, Message, Java!NoArguments, NoArguments,
     Java!MessageBegin, MessageBegin, Java!Mark, Mark, Java!Call, Call
<1>3. CASE target = "py"
  BY <1>3 DEF SendCall, Py!SendCall, Py!Message, Message, Py!NoArguments, NoArguments,
     Py!MessageBegin, MessageBegin, Py!Mark, Mark, Py!Call, Call
<1>4. CASE target = "as3"
  BY <1>4 DEF SendCall, As3!SendCall, As3!Message, Message, As3!NoArguments, NoArguments,
     As3!MessageBegin, MessageBegin, As3!Mark, Mark, As3!Call, Call
<1>5. CASE target = "cocoa"
  BY <1>5 DEF SendCall, Cocoa!SendCall, Cocoa!Message, Message, Cocoa!NoArguments, NoArguments,
     Cocoa!MessageBegin, MessageBegin, Cocoa!Mark, Mark, Cocoa!Call, Call
<1>6. CASE target = "csharp"
  BY <1>6 DEF SendCall, CSharp!SendCall, CSharp!Message, Message, CSharp!NoArguments, NoArguments,
     CSharp!MessageBegin, MessageBegin, CSharp!Mark, Mark, CSharp!Call, Call
<1>7. CASE target = "go"
  BY <1>7 DEF SendCall, Go!SendCall, Go!Message, Message, Go!NoArguments, NoArguments,
     Go!MessageBegin, MessageBegin, Go!Mark, Mark, Go!Call, Call
<1>8. CASE target = "javame"
  BY <1>8 DEF SendCall, Javame!SendCall, Javame!Message, Message, Javame!NoArguments, NoArguments,
     Javame!MessageBegin, MessageBegin, Javame!Mark, Mark, Javame!Call, Call
<1>9. CASE target = "js"
  BY <1>9 DEF SendCall, Js!SendCall, Js!Message, Message, Js!NoArguments, NoArguments,
     Js!MessageBegin, MessageBegin, Js!Mark, Mark, Js!Call, Call
<1>10. CASE target = "lua"
  BY <1>10 DEF SendCall, Lua!SendCall, Lua!Message, Message, Lua!NoArguments, NoArguments,
     Lua!MessageBegin, MessageBegin, Lua!Mark, Mark, Lua!Call, Call
<1>11. CASE target = "perl"
  BY <1>11 DEF SendCall, Perl!SendCall, Perl!Message, Message, Perl!NoArguments, NoArguments,
     Perl!MessageBegin, MessageBegin, Perl!Mark, Mark, Perl!Call, Call
<1>12. CASE target = "php"
  BY <1>12 DEF SendCall, Php!SendCall, Php!Message, Message, Php!NoArguments, NoArguments,
     Php!MessageBegin, MessageBegin, Php!Mark, Mark, Php!Call, Call
<1>13. CASE target = "rb"
  BY <1>13 DEF SendCall, Rb!SendCall, Rb!Message, Message, Rb!NoArguments, NoArguments,
     Rb!MessageBegin, MessageBegin, Rb!Mark, Mark, Rb!Call, Call
<1> QED BY <1>1, <1>2, <1>3, <1>4, <1>5, <1>6, <1>7, <1>8, <1>9, <1>10, <1>11, <1>12, <1>13 DEF ClientTargets

(* How a handler may end: a function whose handler is not called fails.    *)
Ended(target, fn, end) ==
  /\ end.kind \in {"returned", "declared", "undeclared"}
  /\ CallsHandler(target, fn) \/ end.kind = "undeclared"

(* An exception that leaves the processor of a function is one that the    *)
(* handler threw and the IDL does not declare, or that no @try surrounds.  *)
LEMMA ThrownForCause ==
  ASSUME NEW target \in ServerTargets, NEW fn, NEW seqid, NEW end, Ended(target, fn, end),
         ProcessFunction(target, fn, seqid, end).thrown
  PROVE  \/ end.kind = "undeclared"
         \/ end.kind = "declared" /\ target \in LosesDeclaredExceptions
<1> USE DEF ProcessFunction, Ended, LosesDeclaredExceptions
<1>1. CASE target = "cpp"
  BY <1>1 DEF Cpp!ProcessFunction, Cpp!Processed, Cpp!NoReply
<1>2. CASE target = "java"
  BY <1>2 DEF Java!ProcessFunction, Java!Processed, Java!NoReply
<1>3. CASE target = "py"
  BY <1>3 DEF Py!ProcessFunction, Py!Processed, Py!NoReply
<1>4. CASE target = "as3"
  BY <1>4 DEF As3!ProcessFunction, As3!Processed, As3!NoReply, CallsHandler, As3!CallsHandler
<1>5. CASE target = "cocoa"
  BY <1>5 DEF Cocoa!ProcessFunction, Cocoa!Processed, Cocoa!NoReply
<1>6. CASE target = "csharp"
  BY <1>6 DEF CSharp!ProcessFunction, CSharp!Processed, CSharp!NoReply
<1>7. CASE target = "go"
  BY <1>7 DEF Go!ProcessFunction, Go!Processed, Go!NoReply
<1>8. CASE target = "javame"
  BY <1>8 DEF Javame!ProcessFunction, Javame!Processed, Javame!NoReply
<1>9. CASE target = "js"
  BY <1>9 DEF Js!ProcessFunction, Js!Processed, Js!NoReply
<1>10. CASE target = "lua"
  BY <1>10 DEF Lua!ProcessFunction, Lua!Processed, Lua!NoReply, CallsHandler, Lua!CallsHandler
<1>11. CASE target = "perl"
  BY <1>11 DEF Perl!ProcessFunction, Perl!Processed, Perl!NoReply
<1>12. CASE target = "php"
  BY <1>12 DEF Php!ProcessFunction, Php!Processed, Php!NoReply
<1>13. CASE target = "rb"
  BY <1>13 DEF Rb!ProcessFunction, Rb!Processed, Rb!NoReply
<1>14. CASE target = "java-sync"
  BY <1>14 DEF Java!ProcessFunctionSync, Java!Processed, Java!NoReply
<1> QED BY <1>1, <1>2, <1>3, <1>4, <1>5, <1>6, <1>7, <1>8, <1>9, <1>10, <1>11, <1>12, <1>13, <1>14 DEF ServerTargets

(* One sequence is made of two.                                            *)
Joins(all, s, t) ==
  /\ IsSequence(all)
  /\ Len(all) = Len(s) + Len(t) /\ Len(s) \in Nat /\ Len(t) \in Nat
  /\ \A k \in 1..Len(s) : all[k] = s[k]
  /\ \A k \in 1..Len(t) : all[Len(s) + k] = t[k]

(* Two sequences of whatever make one.                                     *)
LEMMA ConcatAny ==
  ASSUME NEW s, NEW t, IsSequence(s), IsSequence(t)
  PROVE  Joins(s \o t, s, t)
<1>1. PICK S : s \in Seq(S)
  BY DEF IsSequence
<1>2. PICK T : t \in Seq(T)
  BY DEF IsSequence
<1>3. s \in Seq(S \cup T) /\ t \in Seq(S \cup T)
  BY <1>1, <1>2
<1>4. s \o t \in Seq(S \cup T)
  BY <1>3, ConcatProperties
<1>5. Len(s \o t) = Len(s) + Len(t) /\ Len(s) \in Nat /\ Len(t) \in Nat
  BY <1>3, ConcatProperties, LenProperties
<1>6. /\ \A k \in 1..Len(s) : (s \o t)[k] = s[k]
      /\ \A k \in 1..Len(t) : (s \o t)[Len(s) + k] = t[k]
  BY <1>3, <1>5
<1> QED BY <1>4, <1>5, <1>6 DEF IsSequence, Joins

(* A message of one, three and one protocol calls.                         *)
LEMMA FiveInARow ==
  ASSUME NEW a, NEW b, NEW c, NEW d, NEW e
  PROVE  LET m == <<a>> \o <<b, c, d>> \o <<e>>
         IN  /\ IsSequence(m)
             /\ Len(m) = 5
             /\ m[1] = a /\ m[2] = b /\ m[3] = c /\ m[4] = d /\ m[5] = e
<1>1. /\ <<a>> \in Seq({a, b, c, d, e}) /\ <<b, c, d>> \in Seq({a, b, c, d, e})
      /\ <<e>> \in Seq({a, b, c, d, e})
      /\ Len(<<a>>) = 1 /\ Len(<<b, c, d>>) = 3 /\ Len(<<e>>) = 1
      /\ <<a>>[1] = a /\ <<e>>[1] = e
      /\ <<b, c, d>>[1] = b /\ <<b, c, d>>[2] = c /\ <<b, c, d>>[3] = d
  OBVIOUS
<1> DEFINE x == <<a>>
           y == <<b, c, d>>
           z == <<e>>
<1>0. /\ IsSequence(x)
      /\ IsSequence(y)
      /\ IsSequence(z)
  BY <1>1 DEF IsSequence
<1>2. Len(x) = 1 /\ Len(y) = 3 /\ Len(z) = 1 /\ x[1] = a /\ z[1] = e
      /\ y[1] = b /\ y[2] = c /\ y[3] = d
  BY <1>1
<1> HIDE DEF x, y, z
<1> DEFINE xy == x \o y
           m == xy \o z
<1>3. Joins(xy, x, y)
  BY <1>0, ConcatAny
<1> HIDE DEF xy
<1>4. Len(xy) = 4 /\ xy[1] = a /\ xy[1 + 1] = b /\ xy[1 + 2] = c /\ xy[1 + 3] = d
  BY <1>2, <1>3 DEF Joins
<1>5. IsSequence(xy)
  BY <1>3 DEF Joins
<1>6. Joins(m, xy, z)
  BY <1>0, <1>5, ConcatAny
<1> HIDE DEF m
<1>7. /\ Len(m) = 5
      /\ m[1] = xy[1] /\ m[2] = xy[2] /\ m[3] = xy[3] /\ m[4] = xy[4]
      /\ m[4 + 1] = z[1]
  BY <1>2, <1>4, <1>6 DEF Joins
<1>8. /\ IsSequence(m)
      /\ Len(m) = 5
      /\ m[1] = a /\ m[2] = b /\ m[3] = c /\ m[4] = d /\ m[5] = e
  BY <1>2, <1>4, <1>6, <1>7 DEF Joins
<1>9. m = <<a>> \o <<b, c, d>> \o <<e>>
  BY Zenon DEF m, xy, x, y, z
<1> QED BY <1>8, <1>9, Zenon

(* A call without arguments on the wire.                                   *)
LEMMA MessageOfCall ==
  ASSUME NEW name, NEW num
  PROVE  LET m == Message("CALL", name, num, NoArguments)
         IN  /\ IsSequence(m)
             /\ Len(m) = CallLength
             /\ \A k \in 1..CallLength : m[k].op = "MessageEnd" <=> k = CallLength
<1> DEFINE begin == MessageBegin("CALL", name, num)
           m == Message("CALL", name, num, NoArguments)
<1>1. m = <<begin>> \o <<Mark("StructBegin"), Mark("FieldStop"), Mark("StructEnd")>>
            \o <<Mark("MessageEnd")>>
  BY DEF Message, NoArguments
<1>2. /\ begin.op = "MessageBegin" /\ Mark("StructBegin").op = "StructBegin"
      /\ Mark("FieldStop").op = "FieldStop" /\ Mark("StructEnd").op = "StructEnd"
      /\ Mark("MessageEnd").op = "MessageEnd"
  BY DEF MessageBegin, Mark, Call
<1> HIDE DEF begin, m
<1>3. /\ IsSequence(m)
      /\ Len(m) = 5
      /\ m[1] = begin /\ m[2] = Mark("StructBegin") /\ m[3] = Mark("FieldStop")
      /\ m[4] = Mark("StructEnd") /\ m[5] = Mark("MessageEnd")
  BY <1>1, FiveInARow
<1>4. \A k \in 1..5 : k = 1 \/ k = 2 \/ k = 3 \/ k = 4 \/ k = 5
  OBVIOUS
<1>5. \A k \in 1..5 : m[k].op = "MessageEnd" <=> k = 5
  BY <1>2, <1>3, <1>4
<1>6. /\ IsSequence(m)
      /\ Len(m) = CallLength
      /\ \A k \in 1..CallLength : m[k].op = "MessageEnd" <=> k = CallLength
  BY <1>3, <1>5 DEF CallLength
<1> QED BY <1>6 DEF m

(* What is left of whole calls when the first of them is taken.            *)
LEMMA FirstCallTaken ==
  ASSUME NEW wire, IsSequence(wire), NEW n \in Nat \ {0}, Len(wire) = CallLength * n,
         \A k \in 1..Len(wire) : wire[k].op = "MessageEnd" <=> k % CallLength = 0
  PROVE  LET rest == AfterMessage(wire)
         IN  /\ IsSequence(rest)
             /\ Len(rest) = CallLength * (n - 1)
             /\ \A k \in 1..Len(rest) : rest[k].op = "MessageEnd" <=> k % CallLength = 0
<1> DEFINE finals == {i \in 1..Len(wire) : wire[i].op = "MessageEnd"}
           first == CHOOSE i \in finals : \A j \in finals : i <= j
           rest == SubSeq(wire, 6, Len(wire))
<1>1. PICK S : wire \in Seq(S)
  BY DEF IsSequence
<1>2. 5 \in finals /\ \A j \in finals : 5 <= j
  BY DEF CallLength
<1>3. first \in finals /\ \A j \in finals : first <= j
  BY <1>2
<1>4. first = 5
  BY <1>2, <1>3
<1>5. AfterMessage(wire) = rest
  <2>1. AfterMessage(wire) = SubSeq(wire, first + 1, Len(wire))
    BY Zenon DEF AfterMessage
  <2> HIDE DEF first
  <2>2. first + 1 = 6
    BY <1>4
  <2> QED BY <2>1, <2>2
<1>6. /\ rest \in Seq(S) /\ Len(rest) = 5 * n - 5
      /\ \A k \in 1..Len(rest) : rest[k] = wire[5 + k]
  BY <1>1 DEF CallLength
<1>7. \A k \in 1..Len(rest) : rest[k].op = "MessageEnd" <=> k % 5 = 0
  <2> SUFFICES ASSUME NEW k \in 1..Len(rest)
               PROVE  rest[k].op = "MessageEnd" <=> k % 5 = 0
    OBVIOUS
  <2>1. 5 + k \in 1..Len(wire) /\ rest[k] = wire[5 + k]
    BY <1>6 DEF CallLength
  <2>2. (5 + k) % 5 = k % 5
    BY <1>6
  <2> QED BY <2>1, <2>2 DEF CallLength
<1> HIDE DEF rest
<1>8. /\ IsSequence(rest)
      /\ Len(rest) = CallLength * (n - 1)
      /\ \A k \in 1..Len(rest) : rest[k].op = "MessageEnd" <=> k % CallLength = 0
  BY <1>6, <1>7 DEF CallLength, IsSequence
<1> QED BY <1>5, <1>8

(* Whole calls, and one more behind them.                                  *)
LEMMA CallBehindCalls ==
  ASSUME NEW wire, IsSequence(wire), NEW m, IsSequence(m), NEW n \in Nat,
         Len(wire) = CallLength * n, Len(m) = CallLength,
         \A k \in 1..Len(wire) : wire[k].op = "MessageEnd" <=> k % CallLength = 0,
         \A k \in 1..CallLength : m[k].op = "MessageEnd" <=> k = CallLength
  PROVE  /\ IsSequence(wire \o m)
         /\ Len(wire \o m) = CallLength * (n + 1)
         /\ \A k \in 1..Len(wire \o m) :
              (wire \o m)[k].op = "MessageEnd" <=> k % CallLength = 0
<1> DEFINE all == wire \o m
<1>0. Joins(all, wire, m)
  BY ConcatAny
<1> HIDE DEF all
<1>1. /\ IsSequence(all) /\ Len(all) = 5 * n + 5 /\ Len(wire) = 5 * n /\ Len(m) = 5
      /\ \A k \in 1..Len(wire) : all[k] = wire[k]
      /\ \A k \in 1..Len(m) : all[Len(wire) + k] = m[k]
  BY <1>0 DEF CallLength, Joins
<1>2. ASSUME NEW k \in 1..Len(all)
      PROVE  all[k].op = "MessageEnd" <=> k % 5 = 0
  <2>1. CASE k <= Len(wire)
    <3>1. k \in 1..Len(wire) /\ all[k] = wire[k]
      BY <1>1, <2>1
    <3> QED BY <3>1 DEF CallLength
  <2>2. CASE k > Len(wire)
    <3>1. PICK j \in 1..5 : k = 5 * n + j
      <4>1. k - 5 * n \in 1..5 /\ k = 5 * n + (k - 5 * n)
        BY <1>1, <2>2
      <4> QED BY <4>1
    <3>2. all[k] = m[j]
      BY <1>1, <3>1
    <3>3. k % 5 = 0 <=> j = 5
      BY <3>1
    <3> QED BY <3>2, <3>3 DEF CallLength
  <2> QED BY <1>1, <2>1, <2>2
<1>3. /\ IsSequence(all)
      /\ Len(all) = CallLength * (n + 1)
      /\ \A k \in 1..Len(all) : all[k].op = "MessageEnd" <=> k % CallLength = 0
  BY <1>1, <1>2 DEF CallLength
<1> QED BY <1>3 DEF all

(* The histories have lengths.                                             *)
LEMMA Lengths ==
  ASSUME Histories
  PROVE  /\ Len(requests) \in Nat /\ Len(calls) \in Nat /\ Len(ends) \in Nat
         /\ Len(told) \in Nat /\ MaxCalls \in Nat
BY CallsAssumption, AppendAny DEF Histories

(* A call is made.                                                         *)
LEMMA CallFunctionInv ==
  ASSUME Inv, CallFunction
  PROVE  Inv'
<1>1. Histories /\ Requested /\ open = TRUE
  BY DEF Inv, CallFunction, Histories
<1>2. PICK fn \in Functions :
        /\ requests' = requests \o SendCall(client, fn, Len(calls) + 1)
        /\ calls' = Append(calls, fn)
        /\ waiting' = ~fn.oneway
        /\ told' = Append(told, IF fn.oneway THEN Returns(Void) ELSE NotYet)
  BY DEF CallFunction
<1>3. /\ Len(calls) < MaxCalls
      /\ UNCHANGED <<client, server, open, replies, ends>>
  BY DEF CallFunction
<1>4. client \in ClientTargets
  BY <1>1, ClientsAssumption DEF Histories
<1>5. PICK num : SendCall(client, fn, Len(calls) + 1)
                   = Message("CALL", fn.name, num, NoArguments)
  BY <1>4, SentAsMessage
<1> DEFINE m == Message("CALL", fn.name, num, NoArguments)
           n == Len(calls) - Len(ends)
<1>6. n \in Nat
  BY <1>1, Lengths DEF Histories
<1>7. /\ IsSequence(m) /\ Len(m) = CallLength
      /\ \A k \in 1..CallLength : m[k].op = "MessageEnd" <=> k = CallLength
  BY MessageOfCall
<1>8. /\ IsSequence(requests) /\ Len(requests) = CallLength * n
      /\ \A k \in 1..Len(requests) : requests[k].op = "MessageEnd" <=> k % CallLength = 0
  BY <1>1 DEF Histories, Requested
<1>9. requests' = requests \o m
  BY <1>2, <1>5
<1> HIDE DEF m, n
<1>10. /\ IsSequence(requests') /\ Len(requests') = CallLength * (n + 1)
       /\ \A k \in 1..Len(requests') : requests'[k].op = "MessageEnd" <=> k % CallLength = 0
  BY <1>6, <1>7, <1>8, <1>9, CallBehindCalls
<1>11. IsSequence(calls') /\ Len(calls') = Len(calls) + 1
  BY <1>1, <1>2, AppendAny DEF Histories
<1>12. IsSequence(told') /\ Len(told') = Len(told) + 1
  BY <1>1, <1>2, AppendAny DEF Histories
<1>13. Histories'
  BY <1>1, <1>2, <1>3, <1>10, <1>11, <1>12, Lengths DEF Histories
<1>14. Requested'
  BY <1>1, <1>3, <1>10, <1>11, Lengths DEF Requested, n
<1> QED BY <1>1, <1>3, <1>13, <1>14 DEF Inv, LostForCause

(* While a request is under way, the connection is open and some call has  *)
(* not been processed.                                                     *)
LEMMA RequestIsCalled ==
  ASSUME Inv, requests # <<>>
  PROVE  /\ open = TRUE /\ Requested
         /\ Len(calls) - Len(ends) \in Nat \ {0}
<1>1. Histories /\ open = TRUE /\ Requested
  BY DEF Inv, Histories
<1>2. Len(requests) # 0
  <2>1. PICK S : requests \in Seq(S)
    BY <1>1 DEF Histories, IsSequence
  <2> QED BY <2>1, EmptySeq
<1>3. /\ Len(calls) \in Nat /\ Len(ends) \in Nat /\ Len(ends) <= Len(calls)
      /\ Len(requests) = 5 * (Len(calls) - Len(ends))
  BY <1>1, Lengths DEF Histories, Requested, CallLength
<1>4. Len(calls) - Len(ends) # 0
  BY <1>2, <1>3
<1> QED BY <1>1, <1>3, <1>4

(* What a handler that ended so may cost: the connection.                  *)
IsCause(end) == end = Fails \/ (end = Throws /\ server \in LosesDeclaredExceptions)

(* The server has processed a call, and an exception left the processor    *)
(* only for a cause.                                                       *)
LEMMA AnswerInv ==
  ASSUME Inv, requests # <<>>, NEW processed, NEW end, Answer(processed),
         ends' = Append(ends, end), processed.thrown => IsCause(end)
  PROVE  Inv'
<1> DEFINE n == Len(calls) - Len(ends)
<1>1. Histories /\ Requested /\ open = TRUE /\ n \in Nat \ {0}
  BY RequestIsCalled DEF Inv
<1>2. /\ open' = ~processed.thrown
      /\ requests' = IF processed.thrown THEN <<>> ELSE AfterMessage(requests)
      /\ UNCHANGED <<client, server, waiting, calls, told>>
  BY DEF Answer
<1>3. /\ IsSequence(ends') /\ Len(ends') = Len(ends) + 1 /\ Len(ends) \in Nat
      /\ ends'[Len(ends) + 1] = end
  BY <1>1, AppendAny DEF Histories
<1>4. Len(calls) \in Nat /\ Len(calls) - Len(ends') = n - 1 /\ Len(ends') <= Len(calls)
  BY <1>1, <1>3, Lengths
<1>5. CASE processed.thrown
  <2>1. open' = FALSE /\ requests' = <<>>
    BY <1>2, <1>5
  <2>2. requests' \in Seq({})
    BY <2>1
  <2>3. Histories'
    BY <1>1, <1>2, <1>3, <1>4, <2>1, <2>2 DEF Histories, IsSequence
  <2>4. Len(ends) + 1 \in 1..Len(ends') /\ IsCause(end)
    BY <1>3, <1>5
  <2>5. LostForCause'
    BY <1>2, <1>3, <2>4 DEF LostForCause, IsCause
  <2> QED BY <2>1, <2>3, <2>5 DEF Inv
<1>6. CASE ~processed.thrown
  <2>1. open' = TRUE /\ requests' = AfterMessage(requests)
    BY <1>2, <1>6
  <2>2. /\ IsSequence(requests) /\ Len(requests) = CallLength * n
        /\ \A k \in 1..Len(requests) : requests[k].op = "MessageEnd" <=> k % CallLength = 0
    BY <1>1 DEF Histories, Requested
  <2> HIDE DEF n
  <2>3. /\ IsSequence(requests') /\ Len(requests') = CallLength * (n - 1)
        /\ \A k \in 1..Len(requests') : requests'[k].op = "MessageEnd" <=> k % CallLength = 0
    BY <1>1, <2>1, <2>2, FirstCallTaken
  <2>4. Histories'
    BY <1>1, <1>2, <1>3, <1>4, <2>1, <2>3 DEF Histories
  <2>5. Requested'
    BY <1>2, <1>4, <2>3 DEF Requested
  <2> QED BY <2>1, <2>4, <2>5 DEF Inv, LostForCause
<1> QED BY <1>5, <1>6

(* However a handler may end in this model, it ended so for the target.    *)
LEMMA EndsAreEnded ==
  ASSUME NEW fn, NEW end \in EndsOf(fn)
  PROVE  /\ Ended(server, fn, end)
         /\ end.kind = "undeclared" => end = Fails
         /\ end.kind = "declared" => end = Throws
<1>1. /\ Fails.kind = "undeclared" /\ Throws.kind = "declared"
      /\ \A val : Returns(val).kind = "returned"
  BY DEF Fails, Throws, Returns
<1>2. CASE ~CallsHandler(server, fn)
  BY <1>1, <1>2 DEF EndsOf, Ended
<1>3. CASE CallsHandler(server, fn)
  <2>1. \/ end \in {Returns(Void), Returns(Zero), Returns(One), Returns(NULL)}
        \/ end = Throws \/ end = Fails
    BY <1>3 DEF EndsOf
  <2> QED BY <1>1, <1>3, <2>1 DEF Ended
<1> QED BY <1>2, <1>3

(* The server processes a call.                                            *)
LEMMA ServeInv ==
  ASSUME Inv, Serve
  PROVE  Inv'
<1> DEFINE fn == calls[Len(ends) + 1]
           seqid == Head(requests).num
<1>1. requests # <<>>
  BY DEF Serve
<1>2. CASE fn \in Unserved
  <2>1. /\ Answer(UnknownMethod(server, fn.name, seqid))
        /\ ends' = Append(ends, Fails)
    BY <1>2 DEF Serve
  <2> QED BY <1>1, <2>1, AnswerInv DEF IsCause
<1>3. CASE fn \notin Unserved
  <2>1. PICK end \in EndsOf(fn) :
          /\ Answer(ProcessFunction(server, fn, seqid, end))
          /\ ends' = Append(ends, end)
    BY <1>3 DEF Serve
  <2>2. server \in ServerTargets
    BY ServersAssumption DEF Inv, Histories
  <2> DEFINE processed == ProcessFunction(server, fn, seqid, end)
  <2>3. /\ Ended(server, fn, end)
        /\ end.kind = "undeclared" => end = Fails
        /\ end.kind = "declared" => end = Throws
    BY EndsAreEnded
  <2> HIDE DEF fn, seqid
  <2>4. processed.thrown => IsCause(end)
    BY <2>2, <2>3, ThrownForCause DEF IsCause
  <2> QED BY <1>1, <2>1, <2>4, AnswerInv
<1> QED BY <1>2, <1>3

(* The client takes a reply, or gives up, and nothing else changes but     *)
(* what it is told.                                                        *)
LEMMA ToldInv ==
  ASSUME Inv, waiting' \in BOOLEAN, NEW outcome,
         told' = told \/ told' = [told EXCEPT ![Len(calls)] = outcome],
         UNCHANGED <<client, server, open, requests, calls, ends>>
  PROVE  Inv'
<1>1. Histories
  BY DEF Inv
<1>2. PICK S : told \in Seq(S)
  BY <1>1 DEF Histories, IsSequence
<1>3. told' \in Seq(S \cup {outcome}) /\ Len(told') = Len(told)
  BY <1>2
<1>4. Histories'
  BY <1>1, <1>3 DEF Histories, IsSequence
<1> QED BY <1>4 DEF Inv, Requested, LostForCause

(* Inv is inductive.                                                       *)
LEMMA NextInv ==
  ASSUME Inv, [Next]_vars
  PROVE  Inv'
<1>1. CASE CallFunction
  BY <1>1, CallFunctionInv
<1>2. CASE Serve
  BY <1>2, ServeInv
<1>3. CASE ReceiveReply
  <2> DEFINE got == RecvReply(client, calls[Len(calls)], Len(calls), replies)
             done == got.outcome.kind # "ignored"
  <2>1. /\ waiting' = ~done
        /\ told' = IF done THEN [told EXCEPT ![Len(calls)] = got.outcome] ELSE told
        /\ UNCHANGED <<client, server, open, requests, calls, ends>>
    BY <1>3 DEF ReceiveReply
  <2>2. PICK outcome : outcome = got.outcome
    OBVIOUS
  <2>3. /\ waiting' \in BOOLEAN
        /\ told' = told \/ told' = [told EXCEPT ![Len(calls)] = outcome]
    BY <2>1, <2>2
  <2> QED BY <2>1, <2>3, ToldInv
<1>4. CASE LoseConnection
  <2>1. /\ waiting' \in BOOLEAN
        /\ told' = told \/ told' = [told EXCEPT ![Len(calls)] = Refused("transport")]
        /\ UNCHANGED <<client, server, open, requests, calls, ends>>
    BY <1>4 DEF LoseConnection
  <2> QED BY <2>1, ToldInv
<1>5. CASE UNCHANGED vars
  BY <1>5 DEF vars, Inv, Histories, Requested, LostForCause
<1> QED BY <1>1, <1>2, <1>3, <1>4, <1>5 DEF Next

(* Two programs start with nothing called.                                 *)
LEMMA InitInv == Init => Inv
<1> SUFFICES ASSUME Init PROVE Inv
  OBVIOUS
<1>1. IsSequence(<<>>) /\ Len(<<>>) = 0
  <2>1. <<>> \in Seq({}) /\ Len(<<>>) = 0
    OBVIOUS
  <2> QED BY <2>1 DEF IsSequence
<1>2. Histories
  <2>1. requests = <<>> /\ calls = <<>> /\ ends = <<>> /\ told = <<>>
    BY DEF Init
  <2>2. /\ IsSequence(requests) /\ IsSequence(calls) /\ IsSequence(ends)
        /\ IsSequence(told)
    BY <1>1, <2>1
  <2>3. Len(calls) = 0 /\ Len(ends) = 0 /\ Len(told) = 0 /\ MaxCalls \in Nat
    BY <1>1, <2>1, CallsAssumption
  <2>4. /\ client \in Clients /\ server \in Servers
        /\ open \in BOOLEAN /\ waiting \in BOOLEAN
    BY DEF Init
  <2> QED BY <2>2, <2>3, <2>4 DEF Histories
<1>3. Requested
  BY <1>1 DEF Init, Requested, CallLength
<1> QED BY <1>2, <1>3 DEF Init, Inv, LostForCause

(* Between any client and any processor, the requests under way are whole  *)
(* calls that have not been processed, and nothing is under way once the   *)
(* connection is lost.                                                     *)
THEOREM Invariance == Spec => []Inv
<1>1. Inv /\ [Next]_vars => Inv'
  BY NextInv
<1> QED BY InitInv, <1>1, PTL DEF Spec

(* The histories fit each other: the server processes no more calls than   *)
(* the client has made, and the client has been told something of each.    *)
THEOREM TypeCorrectness == Spec => []TypeOK
<1>1. Inv => TypeOK
  BY Lengths DEF Inv, Histories, TypeOK
<1> QED BY Invariance, <1>1, PTL

(* Whatever the two targets, a client loses its connection only after a    *)
(* handler failed, a function was not there, or a declared exception left  *)
(* a processor that does not catch it.                                     *)
THEOREM NeverLostWithoutCause == Spec => []LostForCause
<1>1. Inv => LostForCause
  BY DEF Inv
<1> QED BY Invariance, <1>1, PTL
=============================================================================
