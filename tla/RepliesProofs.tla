--------------------------- MODULE RepliesProofs ---------------------------
(***************************************************************************)
(* Lemmas about the operators of Replies: where the readers may leave a    *)
(* stream, what a line of the server looks like, and what the readers make *)
(* of a whole reply.  A reply that is in the stream from some position on  *)
(* is read like a grammar: each reader ends just past the field that       *)
(* begins where it started, and so the methods of most callbacks end just  *)
(* past the line.                                                          *)
(***************************************************************************)
EXTENDS Replies, SequenceTheorems, FiniteSetTheorems, FunctionTheorems, TLAPS

\* The tokens that are not the sign of an answer.
Plain == [t : TokenTypes \ AnswerSigns, v : Nat]

\* Where a read may start or end: in the stream or anywhere past it.
Positions == Nat \ {0}

-----------------------------------------------------------------------------
(* A reader always ends at a position of the stream or past it. *)

\* What is left of a stream after a read is a stream (every read of receiveLoop).
LEMMA RestOfStream ==
  ASSUME NEW S, NEW s \in Seq(S), NEW p \in Positions
  PROVE  /\ Rest(s, p) \in Seq(S)
         /\ Len(Rest(s, p)) = IF p <= Len(s) THEN Len(s) - p + 1 ELSE 0
         /\ \A i \in 1..Len(Rest(s, p)) :
              /\ i + p - 1 \in 1..Len(s)
              /\ Rest(s, p)[i] = s[i + p - 1]
  BY SMT DEF Rest, Positions

\* A read that looks for a token ends at a position of the stream or past it.
LEMMA PastPosition ==
  ASSUME NEW s \in Seq(Token), NEW p \in Positions, NEW stop, NEW k
  PROVE  Past(s, p, stop, k) \in Positions
<1> DEFINE kth == {q \in Stops(s, p, stop) : Cardinality(Stops(SubSeq(s, 1, q), p, stop)) = k}
<1>1. kth \subseteq Positions
  BY DEF Stops, Positions
<1>2. CASE kth = {}
  <2>1. Past(s, p, stop, k) = Len(s) + 2
    BY <1>2 DEF Past
  <2> QED
    BY <2>1 DEF Positions
<1>3. CASE kth # {}
  <2>1. PICK q \in kth : q = CHOOSE r \in kth : TRUE
    BY <1>3
  <2>2. Past(s, p, stop, k) = 1 + q
    BY <2>1, <1>3 DEF Past
  <2> QED
    BY <1>1, <2>2 DEF Positions
<1> QED
  BY <1>2, <1>3

\* Past never returns a position before the one it started at: a read gives nothing back.
LEMMA PastAdvances ==
  ASSUME NEW s \in Seq(Token), s # <<>>, NEW stop, NEW k
  PROVE  Past(s, 2, stop, k) >= 2
<1> DEFINE kth == {q \in Stops(s, 2, stop) : Cardinality(Stops(SubSeq(s, 1, q), 2, stop)) = k}
<1>1. \A q \in kth : q \in Nat /\ q >= 2
  BY DEF Stops
<1>2. CASE kth = {}
  <2>1. Past(s, 2, stop, k) = Len(s) + 2
    BY <1>2 DEF Past
  <2> QED
    BY <2>1
<1>3. CASE kth # {}
  <2>1. PICK q \in kth : q = CHOOSE r \in kth : TRUE
    BY <1>3
  <2>2. Past(s, 2, stop, k) = 1 + q
    BY <2>1, <1>3 DEF Past
  <2> QED
    BY <1>1, <2>2
<1> QED
  BY <1>2, <1>3

\* readUInt32 returns a number, whatever is in the stream.
LEMMA NumberValue ==
  ASSUME NEW s \in Seq(Token), NEW p
  PROVE  ReadUInt(s, p) \in Nat
<1>1. CASE p \in DOMAIN s /\ s[p].t = "num"
  <2>1. s[p] \in Token
    BY <1>1
  <2>2. s[p] \in Plain
    BY <1>1, <2>1 DEF Token, Plain, TokenTypes, AnswerSigns
  <2> QED
    BY <1>1, <2>2 DEF ReadUInt, Plain
<1>2. CASE ~(p \in DOMAIN s /\ s[p].t = "num")
  BY <1>2 DEF ReadUInt
<1> QED
  BY <1>1, <1>2

\* It ends behind the position it starts from.
LEMMA PastIsBehind ==
  ASSUME NEW s \in Seq(Token), NEW p \in Positions, NEW stop, NEW k
  PROVE  Past(s, p, stop, k) # 1
<1> DEFINE kth == {q \in Stops(s, p, stop) : Cardinality(Stops(SubSeq(s, 1, q), p, stop)) = k}
<1>1. CASE kth = {}
  <2>1. Past(s, p, stop, k) = Len(s) + 2
    BY <1>1, Zenon DEF Past
  <2>2. Len(s) \in Nat
    OBVIOUS
  <2> QED
    BY <2>1, <2>2
<1>2. CASE kth # {}
  <2>1. PICK q : q = CHOOSE n \in kth : TRUE
    OBVIOUS
  <2>2. Past(s, p, stop, k) = 1 + q
    BY <1>2, <2>1, Zenon DEF Past
  <2>3. q \in p..Len(s)
    <3>1. q \in kth
      BY <1>2, <2>1, Zenon
    <3> QED
      BY <3>1 DEF Stops
  <2> QED
    BY <2>2, <2>3 DEF Positions
<1> QED
  BY <1>1, <1>2

\* So does each reading primitive.
LEMMA PrimitivePositions ==
  ASSUME NEW s \in Seq(Token), NEW p \in Positions
  PROVE  /\ \A k : AfterUInts(s, p, k) \in Positions
         /\ SkipToNewline(s, p) \in Positions
         /\ ReadDelimitedList(s, p) \in Positions
         /\ Scan(s, p) \in Positions
         /\ \A n : ReadBits(s, p, n) \in Positions
         /\ ReadTime(s, p) \in Positions
         /\ ReadUInt32Array(s, p) \in Positions
<1>1. \A stop, k : Past(s, p, stop, k) \in Positions
  BY PastPosition
<1>2. p + 1 \in Positions
  BY DEF Positions
<1>3. Scan(s, p) \in Positions
  <2> DEFINE h == Past(s, p, {"num"}, 1)
  <2>1. h \in Positions /\ ReadUInt(s, h - 1) \in Nat
    BY <1>1, NumberValue
  <2>2. Scan(s, p) = h + 1 + ReadUInt(s, h - 1)
    BY DEF Scan
  <2> HIDE DEF h
  <2> QED
    BY <2>1, <2>2 DEF Positions
<1>4. ReadUInt32Array(s, p) \in Positions
  <2> DEFINE list == Past(s, p, {"}"}, 1)
  <2>1. list \in Positions /\ list # 1
    BY <1>1, PastIsBehind
  <2>2. ReadUInt32Array(s, p) \in {list, list - 1, list + 1}
    BY Zenon DEF ReadUInt32Array
  <2> HIDE DEF list
  <2> QED
    BY <2>1, <2>2 DEF Positions
<1> QED
  BY <1>1, <1>2, <1>3, <1>4
     DEF AfterUInts, SkipToNewline, ReadDelimitedList, ReadBits, ReadTime

\* So does every OK method, on a stream that does not fit it too.
LEMMA OKPosition ==
  ASSUME NEW s \in Seq(Token), NEW k \in Kinds
  PROVE  OKEnd(k, s) \in Positions
<1>1. 1 \in Positions
  BY DEF Positions
<1>2. \A p \in Positions :
        /\ \A n : AfterUInts(s, p, n) \in Positions
        /\ SkipToNewline(s, p) \in Positions
        /\ ReadDelimitedList(s, p) \in Positions
        /\ Scan(s, p) \in Positions
        /\ \A n : ReadBits(s, p, n) \in Positions
        /\ \A n : ReadBits(s, p, n) + 1 \in Positions
        /\ ReadTime(s, p) \in Positions
        /\ ReadUInt32Array(s, p) \in Positions
  <2>1. \A q \in Positions : q + 1 \in Positions
    BY DEF Positions
  <2> QED
    BY <2>1, PrimitivePositions
<1>3. MarksOK(s) \in Positions /\ UnreadOK(s) \in Positions
  BY <1>1, <1>2 DEF MarksOK, UnreadOK, ListEnd
<1>4. TextOK(s) \in Positions /\ ZConfOK(s) \in Positions /\ VersionOK(s) \in Positions
  BY <1>1, <1>2 DEF TextOK, ZConfOK, VersionOK, ListEnd
<1>5. TimeOK(s) \in Positions /\ NumberOK(s) \in Positions /\ AsyncOK(s) \in Positions
  BY <1>1, <1>2 DEF TimeOK, NumberOK, AsyncOK
<1>6. PersonOK(s) \in Positions
  BY <1>1, <1>2 DEF PersonOK
<1>7. UConfOK(s) \in Positions
  BY <1>1, <1>2 DEF UConfOK
<1> QED
  BY <1>1, <1>3, <1>4, <1>5, <1>6, <1>7 DEF OKEnd, Kinds

\* So does every Error method.
LEMMA ErrorPosition ==
  ASSUME NEW s \in Seq(Token), NEW k
  PROVE  ErrorEnd(k, s) \in Positions
<1>1. 1 \in Positions
  BY DEF Positions
<1> QED
  BY <1>1, PastPosition DEF ErrorEnd, ReadErrorEnd

\* A callback sends nothing but responses, whatever it reads.
LEMMA ResultsAreResponses ==
  ASSUME NEW s, NEW k, NEW sign \in AnswerSigns
  PROVE  Results(k, sign, s) \subseteq Responses /\ Senders(k, sign, s) \in Nat
<1>1. Value(k, s) \in Responses /\ "err" \in Responses
  BY DEF Value, Responses
<1>2. Results(k, sign, s) \subseteq Responses
  BY <1>1 DEF Results, AnswerSigns
<1> QED
  BY <1>2 DEF Senders

-----------------------------------------------------------------------------
(* A line of the server: its first token is its sign, its second its number, and *)
(* no other one is the sign of an answer.                                        *)

\* The tokens replies are built from, their signs apart, are tokens and no signs.
LEMMA PlainTokens ==
  /\ \A n \in Nat : Num(n) \in Plain
  /\ Space \in Plain /\ Newline \in Plain
  /\ Brace("{") \in Plain /\ Brace("}") \in Plain
  /\ [t |-> "H", v |-> 0] \in Plain /\ [t |-> "x", v |-> 0] \in Plain
  BY DEF Plain, Num, Space, Newline, Brace, TokenTypes, AnswerSigns

\* The short sequences the data of a reply is built from are sequences of their elements.
LEMMA ShortSequences ==
  ASSUME NEW S
  PROVE  /\ \A x \in S : <<x>> \in Seq(S)
         /\ \A x, y \in S : <<x, y>> \in Seq(S)
  OBVIOUS

\* A sequence given by a function over 1..n has that length and those elements.
LEMMA Tabulated ==
  ASSUME NEW S, NEW m \in Nat, NEW f \in [1..m -> S]
  PROVE  f \in Seq(S)
  BY SMT

\* Joining two signless sequences with a blank gives a signless sequence.
LEMMA ThenPlain ==
  ASSUME NEW s \in Seq(Plain), NEW r \in Seq(Plain)
  PROVE  Then(s, r) \in Seq(Plain)
<1>1. <<Space>> \in Seq(Plain)
  BY PlainTokens, ShortSequences
<1> QED
  BY <1>1 DEF Then

\* Zeros, numbers and Hollerith strings hold no sign.
LEMMA NumbersPlain ==
  ASSUME NEW n \in Positions
  PROVE  Numbers(n) \in Seq(Plain) /\ Zeros(n) \in Seq(Plain) /\ Numbers(n) # <<>>
<1>1. 2 * n - 1 \in Nat /\ n \in Nat /\ 2 * n - 1 > 0
  BY DEF Positions
<1>2. Numbers(n) \in Seq(Plain)
  <2>1. Num(1) \in Plain /\ Space \in Plain
    BY PlainTokens
  <2>2. Numbers(n) \in [1..(2 * n - 1) -> Plain]
    BY <1>1, <2>1 DEF Numbers
  <2> QED
    BY <1>1, <2>2, Tabulated
<1>3. Zeros(n) \in Seq(Plain)
  <2>1. Num(0) \in Plain
    BY PlainTokens
  <2>2. Zeros(n) \in [1..n -> Plain]
    BY <1>1, <2>1 DEF Zeros
  <2> QED
    BY <1>1, <2>2, Tabulated
<1>4. Numbers(n) # <<>>
  <2>1. 1 \in DOMAIN Numbers(n)
    BY <1>1 DEF Numbers
  <2> QED
    BY <2>1
<1> QED
  BY <1>2, <1>3, <1>4

\* The data of a successful reply holds no sign, whichever callback is to read it.
LEMMA DataPlain ==
  ASSUME NEW k \in Kinds
  PROVE  Data(k) \in Seq(Plain)
<1>1. \A s, r \in Seq(Plain) : Then(s, r) \in Seq(Plain)
  BY ThenPlain
<1>2. \A n \in {1, 2, 4, 8, 9, 16, 22} : Numbers(n) \in Seq(Plain) /\ Zeros(n) \in Seq(Plain)
  BY NumbersPlain DEF Positions
<1>3. <<Num(1)>> \in Seq(Plain) /\ <<Brace("{")>> \in Seq(Plain) /\ <<Brace("}")>> \in Seq(Plain)
  BY PlainTokens, ShortSequences
<1>4. \A s \in Seq(Plain) : List(s) \in Seq(Plain)
  BY <1>1, <1>3 DEF List, Braced
<1>5. Hollerith \in Seq(Plain)
  <2> DEFINE x == [t |-> "x", v |-> 0]
             H == [t |-> "H", v |-> 0]
  <2>1. x \in Plain /\ H \in Plain /\ Num(TextLen) \in Plain /\ TextLen \in Nat
    BY PlainTokens, RepliesAssumption
  <2>2. Hollerith = <<Num(TextLen), H>> \o [i \in 1..TextLen |-> x]
    BY DEF Hollerith
  <2> HIDE DEF x, H
  <2>3. [i \in 1..TextLen |-> x] \in [1..TextLen -> Plain]
    BY <2>1
  <2>4. [i \in 1..TextLen |-> x] \in Seq(Plain)
    BY <2>1, <2>3, Tabulated
  <2>5. <<Num(TextLen), H>> \in Seq(Plain)
    BY <2>1, ShortSequences
  <2> QED
    BY <2>2, <2>4, <2>5, ConcatProperties
<1>6. Numbers(1) \in Seq(Plain) /\ Numbers(9) \in Seq(Plain) /\ <<>> \in Seq(Plain)
  BY <1>2
<1>7. List(Numbers(1)) \in Seq(Plain) /\ List(Numbers(2)) \in Seq(Plain)
  BY <1>2, <1>4
<1>8. List(Then(Then(Hollerith, Zeros(4)), <<Num(1)>>)) \in Seq(Plain)
  BY <1>1, <1>2, <1>3, <1>4, <1>5
<1>9. Then(Then(<<Num(1)>>, Hollerith), Hollerith) \in Seq(Plain)
  BY <1>1, <1>3, <1>5
<1>10. Then(Then(Then(Hollerith, Zeros(16)), Zeros(8)), Numbers(22)) \in Seq(Plain)
  BY <1>1, <1>2, <1>5
<1>11. Then(Then(Hollerith, Zeros(8)), Numbers(2)) \in Seq(Plain)
  BY <1>1, <1>2, <1>5
<1> QED
  BY <1>5, <1>6, <1>7, <1>8, <1>9, <1>10, <1>11 DEF Data, Kinds

\* A line that carries signless data holds a sign at its first position at most.
LEMMA LineShape ==
  ASSUME NEW sign, NEW id \in Nat, NEW data \in Seq(Plain)
  PROVE  /\ Line(sign, id, data) \in Seq({sign} \cup Plain)
         /\ Len(Line(sign, id, data)) >= 3
         /\ Line(sign, id, data)[1] = sign
         /\ Line(sign, id, data)[2] = Num(id)
         /\ \A i \in 2..Len(Line(sign, id, data)) : Line(sign, id, data)[i] \in Plain
<1> DEFINE line == Line(sign, id, data)
<1>1. Num(id) \in Plain /\ Space \in Plain /\ Newline \in Plain
  BY PlainTokens
<1>2. CASE data = <<>>
  <2>1. line = <<sign, Num(id), Newline>>
    BY <1>2 DEF Line
  <2> QED
    BY <1>1, <2>1
<1>3. CASE data # <<>>
  <2> DEFINE T == {sign} \cup Plain
             start == <<sign, Num(id)>>
             space == <<Space>>
             front == start \o space
             end == <<Newline>>
  <2>1. line = (front \o data) \o end
    BY <1>3 DEF Line, Then
  <2>2. /\ start \in Seq(T) /\ Len(start) = 2 /\ start[1] = sign /\ start[2] = Num(id)
        /\ space \in Seq(T) /\ Len(space) = 1 /\ space[1] = Space
        /\ end \in Seq(T) /\ Len(end) = 1 /\ end[1] = Newline
    BY <1>1
  <2>3. data \in Seq(T) /\ \A j \in 1..Len(data) : data[j] \in Plain
    OBVIOUS
  <2> HIDE DEF start, space, end, T
  <2>4. /\ front \in Seq(T) /\ Len(front) = 3
        /\ front[1] = sign /\ front[2] = Num(id) /\ front[3] = Space
    <3>1. /\ start \o space \in Seq(T)
          /\ Len(start \o space) = Len(start) + Len(space)
          /\ \A i \in 1..Len(start) + Len(space) : (start \o space)[i] =
               IF i <= Len(start) THEN start[i] ELSE space[i - Len(start)]
      BY <2>2, ConcatProperties
    <3> QED
      BY <2>2, <3>1
  <2> HIDE DEF front
  <2>5. /\ front \o data \in Seq(T) /\ Len(front \o data) = Len(data) + 3
        /\ \A i \in 1..3 : (front \o data)[i] = front[i]
        /\ \A i \in 4..Len(data) + 3 : (front \o data)[i] = data[i - 3]
    <3>1. /\ front \o data \in Seq(T)
          /\ Len(front \o data) = Len(front) + Len(data)
          /\ \A i \in 1..Len(front) + Len(data) : (front \o data)[i] =
               IF i <= Len(front) THEN front[i] ELSE data[i - Len(front)]
      BY <2>3, <2>4, ConcatProperties
    <3> QED
      BY <2>3, <2>4, <3>1
  <2> DEFINE body == front \o data
  <2> HIDE DEF body
  <2>6. /\ body \in Seq(T) /\ Len(body) = Len(data) + 3
        /\ \A i \in 1..3 : body[i] = front[i]
        /\ \A i \in 4..Len(data) + 3 : body[i] = data[i - 3]
        /\ line = body \o end
    BY <2>1, <2>5 DEF body
  <2>7. /\ line \in Seq(T) /\ Len(line) = Len(data) + 4
        /\ \A i \in 1..Len(data) + 3 : line[i] = body[i]
        /\ line[Len(data) + 4] = Newline
    <3>1. /\ body \o end \in Seq(T)
          /\ Len(body \o end) = Len(body) + Len(end)
          /\ \A i \in 1..Len(body) + Len(end) : (body \o end)[i] =
               IF i <= Len(body) THEN body[i] ELSE end[i - Len(body)]
      BY <2>2, <2>6, ConcatProperties
    <3> QED
      BY <2>2, <2>3, <2>6, <3>1
  <2>8. \A i \in 1..3 : line[i] = front[i]
    BY <2>6, <2>7
  <2>9. \A i \in 4..Len(data) + 3 : line[i] = data[i - 3]
    BY <2>6, <2>7
  <2>10. line[1] = sign /\ line[2] = Num(id) /\ line[3] = Space
    BY <2>4, <2>8
  <2>11. \A i \in 2..Len(line) : line[i] \in Plain
    <3> SUFFICES ASSUME NEW i \in 2..Len(line) PROVE line[i] \in Plain
      OBVIOUS
    <3>1. i = 2 \/ i = 3 \/ i \in 4..Len(data) + 3 \/ i = Len(data) + 4
      BY <2>7
    <3>2. i \in 4..Len(data) + 3 => i - 3 \in 1..Len(data)
      OBVIOUS
    <3> QED
      BY <1>1, <2>3, <2>7, <2>9, <2>10, <3>1, <3>2
  <2> QED
    BY <2>7, <2>10, <2>11 DEF T
<1> QED
  BY <1>2, <1>3

\* A reply is a sequence of tokens whose only sign is its first token and names its call.
LEMMA ReplyShape ==
  ASSUME NEW s \in AnswerSigns, NEW c \in Calls, NEW id \in Nat, NEW k \in Kinds
  PROVE  /\ Reply(s, c, id, k) \in Seq(Token)
         /\ Len(Reply(s, c, id, k)) >= 3
         /\ Reply(s, c, id, k)[1].t = s /\ Reply(s, c, id, k)[1].v = c
         /\ Reply(s, c, id, k)[2] = Num(id)
         /\ \A i \in 2..Len(Reply(s, c, id, k)) : Reply(s, c, id, k)[i].t \notin AnswerSigns
<1> DEFINE data == IF s = "=" THEN Data(k) ELSE Numbers(2)
           sign == Sign(s, c)
<1>1. data \in Seq(Plain)
  BY DataPlain, NumbersPlain DEF Positions
<1>2. Reply(s, c, id, k) = Line(sign, id, data)
  BY DEF Reply
<1>3. {sign} \cup Plain \subseteq Token
  BY DEF Sign, Plain, Token
<1>4. \A x \in Plain : x.t \notin AnswerSigns
  BY DEF Plain
<1>5. sign.t = s /\ sign.v = c
  BY DEF Sign
<1> HIDE DEF data, sign
<1>6. /\ Line(sign, id, data) \in Seq({sign} \cup Plain)
      /\ Len(Line(sign, id, data)) >= 3
      /\ Line(sign, id, data)[1] = sign
      /\ Line(sign, id, data)[2] = Num(id)
      /\ \A i \in 2..Len(Line(sign, id, data)) : Line(sign, id, data)[i] \in Plain
  BY <1>1, LineShape
<1> QED
  BY <1>2, <1>3, <1>4, <1>5, <1>6

\* An asynchronous message is a sequence of tokens without any "=" or "%".
LEMMA NoticeShape ==
  ASSUME NEW n \in Nat
  PROVE  /\ Notice(n) \in Seq(Token)
         /\ \A i \in 1..Len(Notice(n)) : Notice(n)[i].t \notin AnswerSigns
<1> DEFINE sign == [t |-> ":", v |-> 0]
<1>1. sign \in Plain
  BY DEF Plain, TokenTypes, AnswerSigns
<1>2. Numbers(2) \in Seq(Plain)
  BY NumbersPlain DEF Positions
<1>3. Notice(n) = Line(sign, n, Numbers(2))
  BY DEF Notice
<1>4. Plain \subseteq Token /\ \A x \in Plain : x.t \notin AnswerSigns
  BY DEF Plain, Token
<1>5. {sign} \cup Plain = Plain
  BY <1>1
<1>6. Notice(n) \in Seq(Plain)
  <2>1. Line(sign, n, Numbers(2)) \in Seq({sign} \cup Plain)
    BY <1>2, LineShape
  <2> QED
    BY <1>3, <1>5, <2>1
<1> HIDE DEF sign
<1> QED
  BY <1>4, <1>6

-----------------------------------------------------------------------------
(* What a reply has to say. *)

\* The sequence a is in s from position p on.
Begins(s, p, a) == \A i \in 1..Len(a) : p + i - 1 \in 1..Len(s) /\ s[p + i - 1] = a[i]

\* What a reply has to say, and what is left of it when its header has been read.
Fields(k, sign) == IF sign = "=" THEN Data(k) ELSE Numbers(2)
Remainder(k, sign) ==
  IF Fields(k, sign) = <<>> THEN <<>> ELSE Fields(k, sign) \o <<Newline>>

-----------------------------------------------------------------------------
(* Where Past ends. *)

\* A reader that passes k stops, the last of them just before e, ends at e.
LEMMA PastIs ==
  ASSUME NEW s \in Seq(Token), NEW p \in Positions, NEW stop, NEW k,
         NEW e \in (p + 1)..(Len(s) + 1),
         s[e - 1].t \in stop,
         Cardinality({q \in p..(e - 1) : s[q].t \in stop}) = k
  PROVE  Past(s, p, stop, k) = e
<1> DEFINE Upto(q) == {r \in p..q : s[r].t \in stop}
           kth == {q \in Stops(s, p, stop) : Cardinality(Stops(SubSeq(s, 1, q), p, stop)) = k}
<1>1. p \in Nat /\ p >= 1 /\ Len(s) \in Nat
  BY DEF Positions
<1>2. \A q \in p..Len(s) : Stops(SubSeq(s, 1, q), p, stop) = Upto(q)
  <2> SUFFICES ASSUME NEW q \in p..Len(s)
               PROVE  Stops(SubSeq(s, 1, q), p, stop) = Upto(q)
    OBVIOUS
  <2>1. q \in 1..Len(s)
    BY <1>1
  <2>2. Len(SubSeq(s, 1, q)) = q /\ \A r \in 1..q : SubSeq(s, 1, q)[r] = s[r]
    BY <2>1
  <2>3. \A r \in p..q : r \in 1..q
    BY <1>1
  <2> QED
    BY <2>2, <2>3 DEF Stops
<1>3. \A q \in p..Len(s) : IsFiniteSet(Upto(q))
  <2> SUFFICES ASSUME NEW q \in p..Len(s) PROVE IsFiniteSet(Upto(q))
    OBVIOUS
  <2>1. IsFiniteSet(p..q)
    BY <1>1, FS_Interval
  <2> QED
    BY <2>1, FS_Subset
<1>4. \A q, r \in Stops(s, p, stop) : q < r => Cardinality(Upto(q)) # Cardinality(Upto(r))
  <2> SUFFICES ASSUME NEW q \in Stops(s, p, stop), NEW r \in Stops(s, p, stop), q < r
               PROVE  Cardinality(Upto(q)) # Cardinality(Upto(r))
    OBVIOUS
  <2>1. q \in p..Len(s) /\ r \in p..Len(s) /\ s[r].t \in stop
    BY DEF Stops
  <2>2. Upto(q) \subseteq Upto(r) /\ r \in Upto(r) /\ r \notin Upto(q)
    BY <1>1, <2>1
  <2> QED
    BY <1>3, <2>1, <2>2, FS_Subset
<1>5. e - 1 \in Stops(s, p, stop) /\ e - 1 \in p..Len(s)
  BY <1>1 DEF Stops
<1>6. e - 1 \in kth
  BY <1>2, <1>5
<1>7. \A q \in kth : q = e - 1
  <2> SUFFICES ASSUME NEW q \in kth PROVE q = e - 1
    OBVIOUS
  <2>1. q \in Stops(s, p, stop) /\ q \in p..Len(s)
    BY DEF Stops
  <2>2. Cardinality(Upto(q)) = k /\ Cardinality(Upto(e - 1)) = k
    BY <1>2, <1>5, <2>1
  <2>3. ~(q < e - 1) /\ ~(e - 1 < q)
    BY <1>4, <1>5, <2>1, <2>2
  <2> QED
    BY <1>1, <1>5, <2>1, <2>3
<1>8. (CHOOSE q \in kth : TRUE) = e - 1
  <2>1. PICK q \in kth : q = CHOOSE r \in kth : TRUE
    BY <1>6
  <2> QED
    BY <1>7, <2>1
<1> HIDE DEF kth
<1>9. Past(s, p, stop, k) = 1 + (e - 1)
  BY <1>6, <1>8 DEF Past, kth
<1> QED
  BY <1>1, <1>9

\* A reader that looks for one stop ends just past the first.
LEMMA PastFirst ==
  ASSUME NEW s \in Seq(Token), NEW p \in Positions, NEW stop, NEW q \in p..Len(s),
         s[q].t \in stop, \A r \in p..(q - 1) : s[r].t \notin stop
  PROVE  Past(s, p, stop, 1) = q + 1
<1>1. p \in Nat /\ p >= 1 /\ Len(s) \in Nat
  BY DEF Positions
<1>2. {r \in p..q : s[r].t \in stop} = {q}
  BY <1>1
<1>3. Cardinality({r \in p..q : s[r].t \in stop}) = 1
  BY <1>2, FS_Singleton
<1>4. q + 1 \in (p + 1)..(Len(s) + 1) /\ (q + 1) - 1 = q
  BY <1>1
<1> QED
  BY <1>3, <1>4, PastIs

-----------------------------------------------------------------------------
(* Where the fields of a reply begin. *)

\* A sequence that is in s stays where it is when s is read up to a position before it.
LEMMA BeginsInRest ==
  ASSUME NEW s \in Seq(Token), NEW p \in Positions, NEW i \in Positions, NEW a \in Seq(Token)
  PROVE  Begins(Rest(s, p), i, a) <=> Begins(s, i + p - 1, a)
<1>1. /\ Len(Rest(s, p)) = IF p <= Len(s) THEN Len(s) - p + 1 ELSE 0
      /\ \A j \in 1..Len(Rest(s, p)) :
           /\ j + p - 1 \in 1..Len(s)
           /\ Rest(s, p)[j] = s[j + p - 1]
  BY RestOfStream
<1>2. p \in Nat /\ p >= 1 /\ i \in Nat /\ i >= 1 /\ Len(s) \in Nat /\ Len(a) \in Nat
  BY DEF Positions
<1> DEFINE r == Rest(s, p)
<1> HIDE DEF r
<1>3. /\ Len(r) = IF p <= Len(s) THEN Len(s) - p + 1 ELSE 0
      /\ \A j \in 1..Len(r) : j + p - 1 \in 1..Len(s) /\ r[j] = s[j + p - 1]
  BY <1>1 DEF r
<1>4. ASSUME NEW j \in 1..Len(a)
      PROVE  /\ i + j - 1 \in 1..Len(r) <=> (i + p - 1) + j - 1 \in 1..Len(s)
             /\ i + j - 1 \in 1..Len(r) => r[i + j - 1] = s[(i + p - 1) + j - 1]
  <2>1. (i + j - 1) + p - 1 = (i + p - 1) + j - 1
    BY <1>2
  <2>2. i + j - 1 \in 1..Len(r) => r[i + j - 1] = s[(i + j - 1) + p - 1]
    BY <1>3
  <2> QED
    BY <1>2, <1>3, <2>1, <2>2
<1>5. Begins(r, i, a) <=> Begins(s, i + p - 1, a)
  BY <1>4 DEF Begins
<1> QED
  BY <1>5 DEF r

\* It also stays there when something is appended to s.
LEMMA BeginsInConcat ==
  ASSUME NEW s \in Seq(Token), NEW t \in Seq(Token), NEW p \in Positions,
         NEW a \in Seq(Token), Begins(s, p, a)
  PROVE  Begins(s \o t, p, a)
<1>1. /\ Len(s \o t) = Len(s) + Len(t)
      /\ \A i \in 1..Len(s) + Len(t) :
           (s \o t)[i] = IF i <= Len(s) THEN s[i] ELSE t[i - Len(s)]
  BY ConcatProperties
<1>2. Len(s) \in Nat /\ Len(t) \in Nat
  OBVIOUS
<1> DEFINE r == s \o t
<1> HIDE DEF r
<1>3. Len(r) = Len(s) + Len(t) /\ \A i \in 1..Len(s) : i \in 1..Len(r) /\ r[i] = s[i]
  BY <1>1, <1>2 DEF r
<1>4. Begins(r, p, a)
  BY <1>3 DEF Begins
<1> QED
  BY <1>4 DEF r

\* A joined sequence begins with its first part, and the second follows.
LEMMA BeginsParts ==
  ASSUME NEW s \in Seq(Token), NEW p \in Positions,
         NEW a \in Seq(Token), NEW b \in Seq(Token), Begins(s, p, a \o b)
  PROVE  Begins(s, p, a) /\ Begins(s, p + Len(a), b)
<1>1. /\ Len(a \o b) = Len(a) + Len(b)
      /\ \A i \in 1..Len(a) + Len(b) :
           (a \o b)[i] = IF i <= Len(a) THEN a[i] ELSE b[i - Len(a)]
  BY ConcatProperties
<1>2. Len(a) \in Nat /\ Len(b) \in Nat /\ p \in Nat /\ p >= 1
  BY DEF Positions
<1> DEFINE c == a \o b
<1> HIDE DEF c
<1>3. /\ \A i \in 1..Len(a) : i \in 1..Len(c) /\ c[i] = a[i]
      /\ \A i \in 1..Len(b) : Len(a) + i \in 1..Len(c) /\ c[Len(a) + i] = b[i]
  <2>1. /\ Len(c) = Len(a) + Len(b)
        /\ \A i \in 1..Len(a) + Len(b) : c[i] = IF i <= Len(a) THEN a[i] ELSE b[i - Len(a)]
    BY <1>1 DEF c
  <2>2. \A i \in 1..Len(b) :
          /\ Len(a) + i \in 1..Len(a) + Len(b)
          /\ ~(Len(a) + i <= Len(a)) /\ (Len(a) + i) - Len(a) = i
    BY <1>2
  <2>3. \A i \in 1..Len(b) : c[Len(a) + i] = b[i]
    BY <2>1, <2>2
  <2>4. \A i \in 1..Len(a) : i \in 1..Len(c) /\ c[i] = a[i]
    BY <1>2, <2>1
  <2> QED
    BY <2>1, <2>2, <2>3, <2>4
<1>4. Begins(s, p, c)
  BY DEF c
<1>5. Begins(s, p, a)
  BY <1>3, <1>4 DEF Begins
<1>6. Begins(s, p + Len(a), b)
  <2> SUFFICES ASSUME NEW i \in 1..Len(b)
               PROVE  (p + Len(a)) + i - 1 \in 1..Len(s) /\ s[(p + Len(a)) + i - 1] = b[i]
    BY DEF Begins
  <2>1. (p + Len(a)) + i - 1 = p + (Len(a) + i) - 1
    BY <1>2
  <2> QED
    BY <1>3, <1>4, <2>1 DEF Begins
<1> QED
  BY <1>5, <1>6

\* A single token that begins at p is the token at p.
LEMMA BeginsToken ==
  ASSUME NEW s \in Seq(Token), NEW p \in Positions, NEW x \in Token, Begins(s, p, <<x>>)
  PROVE  p \in 1..Len(s) /\ s[p] = x
<1>1. 1 \in 1..Len(<<x>>) /\ <<x>>[1] = x /\ p + 1 - 1 = p
  BY DEF Positions
<1> QED
  BY <1>1 DEF Begins

\* Two parts with a blank between them.
LEMMA BeginsThen ==
  ASSUME NEW s \in Seq(Token), NEW p \in Positions,
         NEW a \in Seq(Plain), NEW b \in Seq(Plain), Begins(s, p, Then(a, b))
  PROVE  /\ Begins(s, p, a)
         /\ p + Len(a) \in 1..Len(s) /\ s[p + Len(a)].t = "sp"
         /\ Begins(s, p + Len(a) + 1, b)
<1>1. Plain \subseteq Token
  BY DEF Plain, Token
<1>2. Space \in Token /\ Space.t = "sp"
  BY <1>1, PlainTokens DEF Space
<1>3. a \in Seq(Token) /\ b \in Seq(Token) /\ <<Space>> \in Seq(Token) /\ Len(<<Space>>) = 1
  BY <1>1, <1>2, SeqMonotonic
<1>4. p + Len(a) \in Positions
  BY DEF Positions
<1>5. Begins(s, p, a \o <<Space>>) /\ Begins(s, p + Len(a \o <<Space>>), b)
  <2>1. a \o <<Space>> \in Seq(Token)
    BY <1>3, ConcatProperties
  <2> QED
    BY <1>3, <2>1, BeginsParts DEF Then
<1>6. Len(a \o <<Space>>) = Len(a) + 1
  BY <1>3, ConcatProperties
<1>7. Begins(s, p, a) /\ Begins(s, p + Len(a), <<Space>>)
  BY <1>3, <1>5, BeginsParts
<1>8. p + Len(a) \in 1..Len(s) /\ s[p + Len(a)] = Space
  BY <1>2, <1>4, <1>7, BeginsToken
<1>9. p + (Len(a) + 1) = p + Len(a) + 1
  BY <1>3 DEF Positions
<1> QED
  BY <1>2, <1>5, <1>6, <1>7, <1>8, <1>9

-----------------------------------------------------------------------------
(* The fields of a reply are read to their end and no further. *)

\* n numbers with a blank between them, and a byte behind them that is no digit: the n-th
\* read ends past that byte (readUInt32, readUInt16, readTime).
LEMMA ReadsNumbers ==
  ASSUME NEW s \in Seq(Token), NEW p \in Positions, NEW n \in Positions,
         Begins(s, p, Numbers(n)), p + 2 * n - 1 \in 1..Len(s), s[p + 2 * n - 1].t \in NonDigits
  PROVE  AfterUInts(s, p, n) = p + 2 * n
<1> DEFINE e == p + 2 * n
           S == {q \in p..(e - 1) : s[q].t \in NonDigits}
           f == [i \in 1..n |-> p + 2 * i - 1]
<1>1. p \in Nat /\ p >= 1 /\ n \in Nat /\ n >= 1 /\ Len(s) \in Nat
  BY DEF Positions
<1>2. "num" \notin NonDigits /\ "sp" \in NonDigits
  BY DEF NonDigits, TokenTypes, AnswerSigns
<1>3. \A i \in 1..(2 * n - 1) : /\ p + i - 1 \in 1..Len(s)
                                /\ s[p + i - 1].t = IF i % 2 = 1 THEN "num" ELSE "sp"
  <2>1. Len(Numbers(n)) = 2 * n - 1
    BY <1>1 DEF Numbers
  <2>2. \A i \in 1..(2 * n - 1) : Numbers(n)[i].t = IF i % 2 = 1 THEN "num" ELSE "sp"
    BY DEF Numbers, Num, Space
  <2> QED
    BY <2>1, <2>2 DEF Begins
<1>4. \A q \in p..(e - 1) : s[q].t \in NonDigits <=> (q - p + 1) % 2 = 0
  <2> SUFFICES ASSUME NEW q \in p..(e - 1)
               PROVE  s[q].t \in NonDigits <=> (q - p + 1) % 2 = 0
    OBVIOUS
  <2>1. CASE q = e - 1
    <3>1. q - p + 1 = 2 * n /\ (2 * n) % 2 = 0 /\ q = p + 2 * n - 1
      BY <1>1, <2>1
    <3> QED
      BY <2>1, <3>1
  <2>2. CASE q # e - 1
    <3>1. q - p + 1 \in 1..(2 * n - 1) /\ p + (q - p + 1) - 1 = q
      BY <1>1, <2>2
    <3>2. s[q].t = IF (q - p + 1) % 2 = 1 THEN "num" ELSE "sp"
      BY <1>3, <3>1
    <3>3. (q - p + 1) % 2 = 1 \/ (q - p + 1) % 2 = 0
      BY <3>1
    <3> QED
      BY <1>2, <3>2, <3>3
  <2> QED
    BY <2>1, <2>2
<1>5. f \in Bijection(1..n, S)
  <2>1. \A i \in 1..n : p + 2 * i - 1 \in S
    <3> SUFFICES ASSUME NEW i \in 1..n PROVE p + 2 * i - 1 \in S
      OBVIOUS
    <3>1. p + 2 * i - 1 \in p..(e - 1) /\ (p + 2 * i - 1) - p + 1 = 2 * i /\ (2 * i) % 2 = 0
      BY <1>1
    <3> QED
      BY <1>4, <3>1
  <2>2. f \in [1..n -> S] /\ \A i \in 1..n : f[i] = p + 2 * i - 1
    BY <2>1
  <2>3. \A q \in S : \E i \in 1..n : q = p + 2 * i - 1
    <3> SUFFICES ASSUME NEW q \in S PROVE \E i \in 1..n : q = p + 2 * i - 1
      OBVIOUS
    <3>1. q \in p..(e - 1) /\ (q - p + 1) % 2 = 0
      BY <1>4
    <3>2. (q - p + 1) \div 2 \in 1..n /\ 2 * ((q - p + 1) \div 2) = q - p + 1
      BY <1>1, <3>1
    <3> QED
      BY <1>1, <3>1, <3>2
  <2>4. \A i, j \in 1..n : f[i] = f[j] => i = j
    BY <1>1, <2>2
  <2> HIDE DEF f, S
  <2>5. \A q \in S : \E i \in 1..n : f[i] = q
    BY <2>2, <2>3
  <2> QED
    BY <2>2, <2>4, <2>5, Fun_IsBij
<1>6. Cardinality(S) = n
  BY <1>1, <1>5, FS_CountingElements, Fun_ExistsBij
<1>7. e \in (p + 1)..(Len(s) + 1) /\ s[e - 1].t \in NonDigits
  BY <1>1
<1> HIDE DEF S
<1>8. Past(s, p, NonDigits, n) = e
  BY <1>6, <1>7, PastIs DEF S
<1> QED
  BY <1>8 DEF AfterUInts

\* n bits behind a blank (the Fscanf("%0nb") of the bit fields).
LEMMA ReadsBits ==
  ASSUME NEW s \in Seq(Token), NEW p \in Positions, NEW n \in Positions,
         p \in 1..Len(s), s[p].t = "sp", Begins(s, p + 1, Zeros(n))
  PROVE  ReadBits(s, p, n) = p + 1 + n
<1> DEFINE e == p + 1 + n
<1>1. p \in Nat /\ p >= 1 /\ n \in Nat /\ n >= 1 /\ Len(s) \in Nat
  BY DEF Positions
<1>2. \A i \in 1..n : p + i \in 1..Len(s) /\ s[p + i].t = "num"
  <2>1. Len(Zeros(n)) = n /\ \A i \in 1..n : Zeros(n)[i].t = "num"
    BY <1>1 DEF Zeros, Num
  <2>2. \A i \in 1..n : (p + 1) + i - 1 = p + i
    BY <1>1
  <2> QED
    BY <2>1, <2>2 DEF Begins
<1>3. \A q \in p..(e - 1) : s[q].t \in {"num"} <=> q \in (p + 1)..(e - 1)
  <2> SUFFICES ASSUME NEW q \in p..(e - 1)
               PROVE  s[q].t \in {"num"} <=> q \in (p + 1)..(e - 1)
    OBVIOUS
  <2>1. CASE q = p
    BY <1>1, <2>1
  <2>2. CASE q # p
    <3>1. q - p \in 1..n /\ p + (q - p) = q /\ q \in (p + 1)..(e - 1)
      BY <1>1, <2>2
    <3> QED
      BY <1>2, <3>1
  <2> QED
    BY <2>1, <2>2
<1>4. {q \in p..(e - 1) : s[q].t \in {"num"}} = (p + 1)..(e - 1)
  BY <1>1, <1>3
<1>5. Cardinality((p + 1)..(e - 1)) = n
  BY <1>1, FS_Interval
<1>6. e \in (p + 1)..(Len(s) + 1) /\ s[e - 1].t \in {"num"}
  <2>1. n \in 1..n /\ e - 1 = p + n
    BY <1>1
  <2> QED
    BY <1>1, <1>2, <2>1
<1>7. Past(s, p, {"num"}, n) = e
  BY <1>4, <1>5, <1>6, PastIs
<1> QED
  BY <1>7 DEF ReadBits

\* A Hollerith string is as long as it says, and starts with its length.
LEMMA HollerithShape ==
  Hollerith \in Seq(Plain) /\ Len(Hollerith) = TextLen + 2 /\ Hollerith[1] = Num(TextLen)
<1> DEFINE x == [t |-> "x", v |-> 0]
           H == [t |-> "H", v |-> 0]
           start == <<Num(TextLen), H>>
           text == [i \in 1..TextLen |-> x]
<1>1. x \in Plain /\ H \in Plain /\ Num(TextLen) \in Plain /\ TextLen \in Nat
  BY PlainTokens, RepliesAssumption
<1>2. Hollerith = start \o text
  BY DEF Hollerith
<1> HIDE DEF x, H
<1>3. start \in Seq(Plain) /\ Len(start) = 2 /\ start[1] = Num(TextLen)
  BY <1>1
<1>4. text \in [1..TextLen -> Plain] /\ DOMAIN text = 1..TextLen
  BY <1>1
<1>5. text \in Seq(Plain)
  BY <1>1, <1>4, Tabulated
<1>6. Len(text) = TextLen
  BY <1>1, <1>4, <1>5
<1> HIDE DEF start, text
<1>7. /\ start \o text \in Seq(Plain)
      /\ Len(start \o text) = Len(start) + Len(text)
      /\ \A i \in 1..Len(start) + Len(text) : (start \o text)[i] =
           IF i <= Len(start) THEN start[i] ELSE text[i - Len(start)]
  BY <1>3, <1>5, ConcatProperties
<1> QED
  BY <1>1, <1>2, <1>3, <1>6, <1>7

\* A Hollerith string, with or without a blank before it (hollerith.Scan).
LEMMA ReadsHollerith ==
  ASSUME NEW s \in Seq(Token), NEW p \in Positions, NEW b \in {0, 1},
         b = 1 => p \in 1..Len(s) /\ s[p].t = "sp",
         Begins(s, p + b, Hollerith)
  PROVE  Scan(s, p) = p + b + TextLen + 2
<1>1. p \in Nat /\ p >= 1 /\ Len(s) \in Nat /\ TextLen \in Nat /\ p + b \in p..(p + 1)
  BY RepliesAssumption DEF Positions
<1>2. 1 \in 1..Len(Hollerith) /\ Hollerith[1] = Num(TextLen)
  BY <1>1, HollerithShape
<1>3. p + b \in 1..Len(s) /\ s[p + b] = Num(TextLen)
  <2>1. (p + b) + 1 - 1 = p + b
    BY <1>1
  <2> QED
    BY <1>2, <2>1 DEF Begins
<1>4. s[p + b].t = "num" /\ s[p + b].v = TextLen
  BY <1>3 DEF Num
<1> DEFINE q == p + b
<1>5. \A r \in p..(q - 1) : s[r].t \notin {"num"}
  <2> SUFFICES ASSUME NEW r \in p..(q - 1) PROVE s[r].t \notin {"num"}
    OBVIOUS
  <2>1. b = 1 /\ r = p
    BY <1>1
  <2> QED
    BY <2>1
<1>6. p + b \in p..Len(s)
  BY <1>1, <1>3
<1>7. Past(s, p, {"num"}, 1) = p + b + 1
  <2>1. q \in p..Len(s) /\ s[q].t \in {"num"}
    BY <1>4, <1>6
  <2> HIDE DEF q
  <2>2. Past(s, p, {"num"}, 1) = q + 1
    BY <1>5, <2>1, PastFirst
  <2> QED
    BY <2>2 DEF q
<1>8. ReadUInt(s, p + b) = TextLen
  BY <1>3, <1>4 DEF ReadUInt
<1>9. (p + b + 1) - 1 = p + b
  BY <1>1
<1>10. Scan(s, p) = (p + b + 1) + 1 + TextLen
  BY <1>7, <1>8, <1>9 DEF Scan
<1> QED
  BY <1>1, <1>10

\* The length of two parts with a blank between them.
LEMMA ThenLength ==
  ASSUME NEW a \in Seq(Plain), NEW b \in Seq(Plain)
  PROVE  Len(Then(a, b)) = Len(a) + 1 + Len(b)
<1>0. Space \in Plain
  BY PlainTokens, Zenon
<1>1. <<Space>> \in Seq(Plain) /\ Len(<<Space>>) = 1
  BY <1>0
<1>2. a \o <<Space>> \in Seq(Plain) /\ Len(a \o <<Space>>) = Len(a) + 1
  BY <1>1, ConcatProperties
<1> QED
  BY <1>2, ConcatProperties DEF Then

\* The types of the braces.
Opening == "{"
Closing == "}"

\* The two braces are signless tokens, and neither one is the other, a digit or a blank.
LEMMA BraceTokens ==
  /\ Brace(Opening) \in Plain /\ Brace(Opening).t = Opening
  /\ Brace(Closing) \in Plain /\ Brace(Closing).t = Closing
  /\ Opening # Closing /\ Closing # "num" /\ Closing # "sp"
  BY PlainTokens, Zenon DEF Opening, Closing, Brace

\* The readers of lists look for those braces.
LEMMA ListReaders ==
  /\ \A a : Braced(a) = Then(Then(<<Brace(Opening)>>, a), <<Brace(Closing)>>)
  /\ \A s, p : ReadDelimitedList(s, p) =
       IF p \in DOMAIN s /\ s[p].t = Opening THEN Past(s, p, {Closing}, 1) ELSE p + 1
  BY Zenon DEF Opening, Closing, Braced, ReadDelimitedList

\* A list in braces, with its length before it, is read to its closing brace: by
\* readUInt32 and readDelimitedList, and by the Fscanf of ReadUInt32Array.
LEMMA ReadsList ==
  ASSUME NEW s \in Seq(Token), NEW p \in Positions, NEW a \in Seq(Plain),
         \A i \in 1..Len(a) : a[i].t # Closing,
         Begins(s, p, List(a))
  PROVE  /\ Len(List(a)) = Len(a) + 6 /\ p + Len(a) + 6 \in p..(Len(s) + 1)
         /\ ReadDelimitedList(s, AfterUInts(s, p, 1)) = p + Len(a) + 6
         /\ Past(s, p, {Closing}, 1) = p + Len(a) + 6
<1> DEFINE n == Len(a)
           one == <<Num(1)>>
           open == <<Brace(Opening)>>
           shut == <<Brace(Closing)>>
           e == p + n + 5
<1>0. /\ Num(1) \in Plain /\ Num(1).t = "num"
      /\ Plain \subseteq Token
  BY PlainTokens, Zenon DEF Num, Plain, Token
<1>1. p \in Nat /\ p >= 1 /\ n \in Nat /\ Len(s) \in Nat
  BY DEF Positions
<1>2. /\ one \in Seq(Plain) /\ open \in Seq(Plain) /\ shut \in Seq(Plain)
      /\ Len(one) = 1 /\ Len(open) = 1 /\ Len(shut) = 1
  BY <1>0, BraceTokens
<1>3. /\ Then(open, a) \in Seq(Plain) /\ Len(Then(open, a)) = n + 2
      /\ Braced(a) \in Seq(Plain) /\ Len(Braced(a)) = n + 4
  <2>1. Then(open, a) \in Seq(Plain) /\ Len(Then(open, a)) = Len(open) + 1 + n
    BY <1>2, ThenPlain, ThenLength
  <2>2. /\ Then(Then(open, a), shut) \in Seq(Plain)
        /\ Len(Then(Then(open, a), shut)) = Len(Then(open, a)) + 1 + Len(shut)
    BY <1>2, <2>1, ThenPlain, ThenLength
  <2> QED
    BY <1>1, <1>2, <2>1, <2>2, ListReaders
<1>4. Len(List(a)) = n + 6
  <2>1. Len(Then(one, Braced(a))) = Len(one) + 1 + Len(Braced(a))
    BY <1>2, <1>3, ThenLength
  <2> QED
    BY <1>1, <1>2, <1>3, <2>1 DEF List
<1>5. /\ Begins(s, p, one)
      /\ p + 1 \in 1..Len(s) /\ s[p + 1].t = "sp"
      /\ Begins(s, p + 2, Braced(a))
  <2>1. Begins(s, p, Then(one, Braced(a)))
    BY DEF List
  <2>2. /\ Begins(s, p, one)
        /\ p + Len(one) \in 1..Len(s) /\ s[p + Len(one)].t = "sp"
        /\ Begins(s, p + Len(one) + 1, Braced(a))
    BY <1>2, <1>3, <2>1, BeginsThen
  <2>3. p + Len(one) = p + 1 /\ p + Len(one) + 1 = p + 2
    BY <1>1, <1>2
  <2> QED
    BY <2>2, <2>3
<1>6. p \in 1..Len(s) /\ s[p].t = "num"
  BY <1>0, <1>5, BeginsToken
<1>7. p + 2 \in Positions
  BY <1>1 DEF Positions
<1>8. /\ Begins(s, p + 2, Then(open, a))
      /\ e - 1 \in 1..Len(s) /\ s[e - 1].t = "sp"
      /\ Begins(s, e, shut)
  <2>1. Begins(s, p + 2, Then(Then(open, a), shut))
    BY <1>5, ListReaders
  <2>2. /\ Begins(s, p + 2, Then(open, a))
        /\ (p + 2) + (n + 2) \in 1..Len(s) /\ s[(p + 2) + (n + 2)].t = "sp"
        /\ Begins(s, (p + 2) + (n + 2) + 1, shut)
    <3> DEFINE front == Then(open, a)
    <3>1. front \in Seq(Plain) /\ Len(front) = n + 2 /\ Begins(s, p + 2, Then(front, shut))
      BY <1>3, <2>1
    <3> HIDE DEF front
    <3>2. /\ Begins(s, p + 2, front)
          /\ (p + 2) + Len(front) \in 1..Len(s) /\ s[(p + 2) + Len(front)].t = "sp"
          /\ Begins(s, (p + 2) + Len(front) + 1, shut)
      BY <1>2, <1>7, <3>1, BeginsThen
    <3>3. (p + 2) + Len(front) = (p + 2) + (n + 2)
      BY <3>1
    <3> QED
      BY <3>2, <3>3 DEF front
  <2>3. (p + 2) + (n + 2) = e - 1 /\ (p + 2) + (n + 2) + 1 = e
    BY <1>1
  <2> QED
    BY <2>2, <2>3
<1>9. /\ Begins(s, p + 2, open)
      /\ p + 3 \in 1..Len(s) /\ s[p + 3].t = "sp"
      /\ Begins(s, p + 4, a)
  <2>1. /\ Begins(s, p + 2, open)
        /\ (p + 2) + Len(open) \in 1..Len(s) /\ s[(p + 2) + Len(open)].t = "sp"
        /\ Begins(s, (p + 2) + Len(open) + 1, a)
    BY <1>2, <1>7, <1>8, BeginsThen
  <2>2. (p + 2) + Len(open) = p + 3 /\ (p + 2) + Len(open) + 1 = p + 4
    BY <1>1, <1>2
  <2> QED
    BY <2>1, <2>2
<1>10. p + 2 \in 1..Len(s) /\ s[p + 2].t = Opening
  <2>1. Brace(Opening) \in Token /\ Brace(Opening).t = Opening
    BY <1>0, BraceTokens
  <2> QED
    BY <1>7, <1>9, <2>1, BeginsToken
<1>11. e \in 1..Len(s) /\ s[e].t = Closing
  <2>1. Brace(Closing) \in Token /\ Brace(Closing).t = Closing /\ e \in Positions
    BY <1>0, <1>1, BraceTokens DEF Positions
  <2> QED
    BY <1>8, <2>1, BeginsToken
<1>12. \A r \in p..(e - 1) : s[r].t # Closing
  <2> SUFFICES ASSUME NEW r \in p..(e - 1) PROVE s[r].t # Closing
    OBVIOUS
  <2>1. r \in {p, p + 1, p + 2, p + 3, e - 1} \/ r - p - 3 \in 1..n
    BY <1>1
  <2>2. CASE r \in {p, p + 1, p + 2, p + 3, e - 1}
    BY <1>5, <1>6, <1>8, <1>9, <1>10, <2>2, BraceTokens
  <2>3. CASE r - p - 3 \in 1..n
    <3>1. s[(p + 4) + (r - p - 3) - 1] = a[r - p - 3]
      BY <1>9, <2>3 DEF Begins
    <3>2. (p + 4) + (r - p - 3) - 1 = r
      BY <1>1
    <3> QED
      BY <2>3, <3>1, <3>2
  <2> QED
    BY <2>1, <2>2, <2>3
<1> HIDE DEF e
<1>13. e \in Nat /\ e = p + n + 5
  BY <1>1 DEF e
<1>14. AfterUInts(s, p, 1) = p + 2
  <2> DEFINE q == p + 1
  <2>1. q \in p..Len(s) /\ q + 1 = p + 2
    BY <1>1, <1>5
  <2>2. s[q].t \in NonDigits
    <3>1. "sp" \in NonDigits
      BY Zenon DEF NonDigits, TokenTypes, AnswerSigns
    <3> QED
      BY <1>5, <3>1
  <2>3. \A r \in p..(q - 1) : s[r].t \notin NonDigits
    BY <1>1, <1>6 DEF NonDigits
  <2> HIDE DEF q
  <2>4. Past(s, p, NonDigits, 1) = q + 1
    BY <2>1, <2>2, <2>3, PastFirst
  <2> QED
    BY <2>1, <2>4 DEF AfterUInts
<1>15. e \in p..Len(s) /\ e \in (p + 2)..Len(s)
  BY <1>1, <1>11, <1>13
<1>16. Past(s, p, {Closing}, 1) = e + 1
  BY <1>11, <1>12, <1>15, PastFirst
<1>17. Past(s, p + 2, {Closing}, 1) = e + 1
  <2>1. \A r \in (p + 2)..(e - 1) : s[r].t \notin {Closing}
    BY <1>1, <1>12, <1>13
  <2> QED
    BY <1>7, <1>11, <1>15, <2>1, PastFirst
<1>18. ReadDelimitedList(s, p + 2) = e + 1
  <2>1. p + 2 \in DOMAIN s
    BY <1>10
  <2> QED
    BY <1>10, <1>17, <2>1, ListReaders, Zenon
<1>19. e + 1 = p + Len(a) + 6 /\ p + Len(a) + 6 \in p..(Len(s) + 1)
  BY <1>1, <1>13, <1>15
<1> QED
  BY <1>4, <1>14, <1>16, <1>18, <1>19

-----------------------------------------------------------------------------
(* The lists of replies hold no brace, and how long the data of a reply is. *)

Unbraced == {x \in Plain : x.t # Closing}

\* Numbers, zeros and texts hold no closing brace, and so does what is joined of them.
LEMMA UnbracedParts ==
  /\ \A n \in Positions : Numbers(n) \in Seq(Unbraced) /\ Zeros(n) \in Seq(Unbraced)
  /\ Hollerith \in Seq(Unbraced) /\ <<Num(1)>> \in Seq(Unbraced)
  /\ \A a, b \in Seq(Unbraced) : Then(a, b) \in Seq(Unbraced)
<1>1. /\ \A n \in Nat : Num(n) \in Unbraced
      /\ Space \in Unbraced
      /\ [t |-> "H", v |-> 0] \in Unbraced /\ [t |-> "x", v |-> 0] \in Unbraced
  BY PlainTokens, Zenon DEF Unbraced, Closing, Num, Space
<1>2. ASSUME NEW n \in Positions
      PROVE  Numbers(n) \in Seq(Unbraced) /\ Zeros(n) \in Seq(Unbraced)
  <2>1. 2 * n - 1 \in Nat /\ n \in Nat
    BY DEF Positions
  <2>2. Numbers(n) \in [1..(2 * n - 1) -> Unbraced]
    BY <1>1, <2>1 DEF Numbers
  <2>3. Zeros(n) \in [1..n -> Unbraced]
    BY <1>1, <2>1 DEF Zeros
  <2> QED
    BY <2>1, <2>2, <2>3, Tabulated
<1>3. Hollerith \in Seq(Unbraced)
  <2> DEFINE x == [t |-> "x", v |-> 0]
             H == [t |-> "H", v |-> 0]
  <2>1. x \in Unbraced /\ H \in Unbraced /\ Num(TextLen) \in Unbraced /\ TextLen \in Nat
    BY <1>1, RepliesAssumption
  <2>2. Hollerith = <<Num(TextLen), H>> \o [i \in 1..TextLen |-> x]
    BY DEF Hollerith
  <2> HIDE DEF x, H
  <2>3. [i \in 1..TextLen |-> x] \in [1..TextLen -> Unbraced]
    BY <2>1
  <2>4. [i \in 1..TextLen |-> x] \in Seq(Unbraced)
    BY <2>1, <2>3, Tabulated
  <2>5. <<Num(TextLen), H>> \in Seq(Unbraced)
    BY <2>1, ShortSequences
  <2> QED
    BY <2>2, <2>4, <2>5, ConcatProperties
<1>4. <<Num(1)>> \in Seq(Unbraced) /\ <<Space>> \in Seq(Unbraced)
  BY <1>1
<1>5. ASSUME NEW a \in Seq(Unbraced), NEW b \in Seq(Unbraced)
      PROVE  Then(a, b) \in Seq(Unbraced)
  BY <1>4, ConcatProperties DEF Then
<1> QED
  BY <1>2, <1>3, <1>4, <1>5

\* Fields that end a line are in the stream, and so is the newline behind them.
LEMMA BeginsLine ==
  ASSUME NEW s \in Seq(Token), NEW a \in Seq(Plain), Begins(s, 1, a \o <<Newline>>)
  PROVE  /\ Len(a \o <<Newline>>) = Len(a) + 1
         /\ Begins(s, 1, a)
         /\ Len(a) + 1 \in 1..Len(s) /\ s[Len(a) + 1].t = "nl"
<1>1. Newline \in Plain /\ Newline.t = "nl" /\ Plain \subseteq Token
  BY PlainTokens, Zenon DEF Newline, Plain, Token
<1>2. a \in Seq(Token) /\ <<Newline>> \in Seq(Token) /\ Len(<<Newline>>) = 1
  BY <1>1, SeqMonotonic
<1>3. 1 \in Positions /\ 1 + Len(a) \in Positions /\ 1 + Len(a) = Len(a) + 1
  BY DEF Positions
<1>4. Begins(s, 1, a) /\ Begins(s, 1 + Len(a), <<Newline>>)
  BY <1>2, <1>3, BeginsParts
<1>5. 1 + Len(a) \in 1..Len(s) /\ s[1 + Len(a)] = Newline
  BY <1>1, <1>3, <1>4, BeginsToken
<1>6. Len(a \o <<Newline>>) = Len(a) + Len(<<Newline>>)
  BY <1>2, ConcatProperties
<1> QED
  BY <1>1, <1>2, <1>3, <1>4, <1>5, <1>6

\* How long numbers and zeros are.
LEMMA NumbersLength ==
  ASSUME NEW n \in Positions
  PROVE  Len(Numbers(n)) = 2 * n - 1 /\ Len(Zeros(n)) = n
<1>1. 2 * n - 1 \in Nat /\ n \in Nat
  BY DEF Positions
<1> QED
  BY <1>1 DEF Numbers, Zeros

-----------------------------------------------------------------------------
(* Each OK method on the data of its own reply. *)

\* A stream that starts with the given fields and the newline that ends their line.
HoldsLine(s, a) ==
  Begins(s, 1, a) /\ Len(a) + 1 \in 1..Len(s) /\ s[Len(a) + 1].t = "nl"

\* A newline is no digit.
LEMMA NewlineEndsNumber == "nl" \in NonDigits /\ "sp" \in NonDigits /\ "num" \notin NonDigits
  BY Zenon DEF NonDigits, TokenTypes, AnswerSigns

\* n numbers on a line are read with the newline behind them (numberCallback, readTime,
\* and the two numbers of an error as AfterUInts would read them).
LEMMA ReadsNumberLine ==
  ASSUME NEW s \in Seq(Token), NEW n \in Positions, HoldsLine(s, Numbers(n))
  PROVE  AfterUInts(s, 1, n) = Len(Numbers(n)) + 2
<1>1. 1 \in Positions /\ 2 * n \in Nat /\ 1 + 2 * n - 1 = 2 * n /\ (2 * n - 1) + 1 = 2 * n
      /\ 1 + 2 * n = (2 * n - 1) + 2
  BY DEF Positions
<1>2. Len(Numbers(n)) = 2 * n - 1
  BY NumbersLength
<1>3. Begins(s, 1, Numbers(n)) /\ 1 + 2 * n - 1 \in 1..Len(s)
      /\ s[1 + 2 * n - 1].t \in NonDigits
  BY <1>1, <1>2, NewlineEndsNumber DEF HoldsLine
<1> QED
  BY <1>1, <1>2, <1>3, ReadsNumbers

\* The list of a line is read to its brace, and skipToNewline takes the rest of the line.
LEMMA ReadsListLine ==
  ASSUME NEW s \in Seq(Token), NEW a \in Seq(Unbraced), HoldsLine(s, List(a))
  PROVE  /\ Len(List(a)) = Len(a) + 6
         /\ ListEnd(s) = Len(List(a)) + 1
         /\ SkipToNewline(s, ListEnd(s)) = Len(List(a)) + 2
         /\ Past(s, 1, {"}"}, 1) = Len(List(a)) + 1
<1>1. a \in Seq(Plain) /\ (\A i \in 1..Len(a) : a[i].t # Closing)
  <2>1. Unbraced \subseteq Plain
    BY DEF Unbraced
  <2>2. \A i \in 1..Len(a) : a[i] \in Unbraced
    OBVIOUS
  <2> QED
    BY <2>1, <2>2, SeqMonotonic DEF Unbraced
<1>2. 1 \in Positions /\ 1 + Len(a) + 6 = (Len(a) + 6) + 1
  BY DEF Positions
<1>3. /\ Len(List(a)) = Len(a) + 6
      /\ ReadDelimitedList(s, AfterUInts(s, 1, 1)) = 1 + Len(a) + 6
      /\ Past(s, 1, {Closing}, 1) = 1 + Len(a) + 6
  BY <1>1, <1>2, ReadsList DEF HoldsLine
<1>4. ListEnd(s) = Len(List(a)) + 1
  BY <1>2, <1>3 DEF ListEnd
<1>5. Past(s, 1, {"}"}, 1) = Len(List(a)) + 1
  BY <1>2, <1>3, Zenon DEF Closing
<1>6. SkipToNewline(s, ListEnd(s)) = Len(List(a)) + 2
  <2> DEFINE q == Len(List(a)) + 1
  <2>1. q \in Positions /\ q \in q..Len(s) /\ s[q].t \in {"nl"} /\ q + 1 = Len(List(a)) + 2
        /\ q..(q - 1) = {}
    BY <1>1, <1>3 DEF HoldsLine, Positions
  <2>2. ListEnd(s) = q
    BY <1>4
  <2> HIDE DEF q
  <2>3. Past(s, q, {"nl"}, 1) = q + 1
    BY <2>1, PastFirst
  <2> QED
    BY <2>1, <2>2, <2>3 DEF SkipToNewline
<1> QED
  BY <1>3, <1>4, <1>5, <1>6

\* A text (textResponseCallback) is read to its last byte, and the newline is left.
LEMMA ReadsTextLine ==
  ASSUME NEW s \in Seq(Token), HoldsLine(s, Hollerith)
  PROVE  Scan(s, 1) = Len(Hollerith) + 1 /\ Len(Hollerith) = TextLen + 2
<1>1. TextLen \in Nat /\ 1 \in Positions /\ 1 + 0 = 1 /\ 1 + 0 + TextLen + 2 = (TextLen + 2) + 1
  BY RepliesAssumption DEF Positions
<1>2. Scan(s, 1) = 1 + 0 + TextLen + 2
  BY <1>1, ReadsHollerith DEF HoldsLine
<1> QED
  BY <1>1, <1>2, HollerithShape

\* A version (a number and two texts) is read to its last byte.
LEMMA ReadsVersionLine ==
  ASSUME NEW s \in Seq(Token), HoldsLine(s, Then(Then(<<Num(1)>>, Hollerith), Hollerith))
  PROVE  VersionOK(s) = Len(Then(Then(<<Num(1)>>, Hollerith), Hollerith)) + 1
<1> DEFINE one == <<Num(1)>>
           first == Then(one, Hollerith)
           n == TextLen
<1>1. n \in Nat /\ Hollerith \in Seq(Plain) /\ Len(Hollerith) = n + 2
  BY RepliesAssumption, HollerithShape
<1>2. /\ Num(1) \in Plain /\ Num(1) \in Token /\ Num(1).t = "num"
      /\ one \in Seq(Plain) /\ Len(one) = 1
  <2>1. Num(1) \in Plain /\ Num(1) \in Token /\ Num(1).t = "num"
    BY PlainTokens, Zenon DEF Plain, Token, Num
  <2> QED
    BY <2>1
<1>3. 1 \in Positions /\ 3 \in Positions /\ n + 5 \in Positions
  BY <1>1 DEF Positions
<1>4. first \in Seq(Plain) /\ Len(first) = n + 4
  <2>1. Then(one, Hollerith) \in Seq(Plain) /\ Len(Then(one, Hollerith)) = Len(one) + 1 + Len(Hollerith)
    BY <1>1, <1>2, ThenPlain, ThenLength
  <2> QED
    BY <1>1, <1>2, <2>1
<1>5. Len(Then(first, Hollerith)) = 2 * n + 7
  <2> HIDE DEF first
  <2>1. Len(Then(first, Hollerith)) = Len(first) + 1 + Len(Hollerith)
    BY <1>1, <1>4, ThenLength
  <2>2. (n + 4) + 1 + (n + 2) = 2 * n + 7
    BY <1>1
  <2> QED
    BY <1>1, <1>4, <2>1, <2>2
<1>6. /\ Begins(s, 1, Then(one, Hollerith))
      /\ n + 5 \in 1..Len(s) /\ s[n + 5].t = "sp" /\ Begins(s, n + 6, Hollerith)
  <2> HIDE DEF first
  <2>1. /\ Begins(s, 1, first)
        /\ 1 + Len(first) \in 1..Len(s) /\ s[1 + Len(first)].t = "sp"
        /\ Begins(s, 1 + Len(first) + 1, Hollerith)
    BY <1>1, <1>3, <1>4, BeginsThen DEF HoldsLine, first
  <2>2. 1 + Len(first) = n + 5 /\ 1 + Len(first) + 1 = n + 6
    BY <1>1, <1>4
  <2> QED
    BY <2>1, <2>2 DEF first
<1>7. /\ Begins(s, 1, one)
      /\ 2 \in 1..Len(s) /\ s[2].t = "sp" /\ Begins(s, 3, Hollerith)
  <2>1. /\ Begins(s, 1, one)
        /\ 1 + Len(one) \in 1..Len(s) /\ s[1 + Len(one)].t = "sp"
        /\ Begins(s, 1 + Len(one) + 1, Hollerith)
    BY <1>1, <1>2, <1>3, <1>6, BeginsThen
  <2> QED
    BY <1>2, <2>1
<1>8. AfterUInts(s, 1, 1) = 3
  <2>1. 1 \in 1..Len(s) /\ s[1].t = "num"
    BY <1>2, <1>3, <1>7, BeginsToken
  <2>2. 2 \in 1..Len(s) /\ s[2].t \in NonDigits /\ \A r \in 1..(2 - 1) : s[r].t \notin NonDigits
    BY <1>7, <2>1, NewlineEndsNumber
  <2>3. Past(s, 1, NonDigits, 1) = 2 + 1
    BY <1>3, <2>2, PastFirst
  <2> QED
    BY <2>3 DEF AfterUInts
<1>9. Scan(s, 3) = n + 5
  <2>1. Scan(s, 3) = 3 + 0 + n + 2
    BY <1>3, <1>7, ReadsHollerith
  <2> QED
    BY <1>1, <2>1
<1>10. Scan(s, n + 5) = 2 * n + 8
  <2>1. Scan(s, n + 5) = (n + 5) + 1 + n + 2
    <3>1. Begins(s, (n + 5) + 1, Hollerith)
      <4>1. (n + 5) + 1 = n + 6
        BY <1>1
      <4> QED
        BY <1>6, <4>1
    <3> QED
      BY <1>3, <1>6, <3>1, ReadsHollerith
  <2> QED
    BY <1>1, <2>1
<1> QED
  BY <1>1, <1>5, <1>8, <1>9, <1>10, SMTT(20) DEF VersionOK

\* A conference (a text, eight bits and two numbers) is read with its newline.
LEMMA ReadsUConfLine ==
  ASSUME NEW s \in Seq(Token), HoldsLine(s, Then(Then(Hollerith, Zeros(8)), Numbers(2)))
  PROVE  /\ UConfOK(s) = Len(Then(Then(Hollerith, Zeros(8)), Numbers(2))) + 2
         /\ Scan(s, 1) \in 1..Len(s)
<1> DEFINE first == Then(Hollerith, Zeros(8))
           n == TextLen
<1>1. n \in Nat /\ Hollerith \in Seq(Plain) /\ Len(Hollerith) = n + 2
  BY RepliesAssumption, HollerithShape
<1>2. /\ Zeros(8) \in Seq(Plain) /\ Len(Zeros(8)) = 8
      /\ Numbers(2) \in Seq(Plain) /\ Len(Numbers(2)) = 3
  <2>1. 8 \in Positions /\ 2 \in Positions
    BY DEF Positions
  <2>2. Zeros(8) \in Seq(Plain) /\ Numbers(2) \in Seq(Plain)
    BY <2>1, NumbersPlain
  <2>3. Len(Zeros(8)) = 8 /\ Len(Numbers(2)) = 2 * 2 - 1
    BY <2>1, NumbersLength
  <2> QED
    BY <2>2, <2>3
<1>3. /\ 1 \in Positions /\ 2 \in Positions /\ 8 \in Positions
      /\ n + 3 \in Positions /\ n + 13 \in Positions
  BY <1>1 DEF Positions
<1>4. first \in Seq(Plain) /\ Len(first) = n + 11
  <2>1. Then(Hollerith, Zeros(8)) \in Seq(Plain)
        /\ Len(Then(Hollerith, Zeros(8))) = Len(Hollerith) + 1 + Len(Zeros(8))
    BY <1>1, <1>2, ThenPlain, ThenLength
  <2> HIDE DEF first
  <2>2. first \in Seq(Plain) /\ Len(first) = Len(Hollerith) + 1 + Len(Zeros(8))
    BY <2>1 DEF first
  <2>3. (n + 2) + 1 + 8 = n + 11
    BY <1>1
  <2> QED
    BY <1>1, <1>2, <2>2, <2>3
<1>5. Len(Then(first, Numbers(2))) = n + 15
  <2> HIDE DEF first
  <2>1. Len(Then(first, Numbers(2))) = Len(first) + 1 + Len(Numbers(2))
    BY <1>2, <1>4, ThenLength
  <2>2. (n + 11) + 1 + 3 = n + 15
    BY <1>1
  <2> QED
    BY <1>1, <1>2, <1>4, <2>1, <2>2
<1>6. n + 16 \in 1..Len(s) /\ s[n + 16].t \in NonDigits
  <2>1. (n + 15) + 1 = n + 16
    BY <1>1
  <2> QED
    BY <1>5, <2>1, NewlineEndsNumber DEF HoldsLine
<1>7. /\ Begins(s, 1, Then(Hollerith, Zeros(8)))
      /\ n + 12 \in 1..Len(s) /\ s[n + 12].t = "sp" /\ Begins(s, n + 13, Numbers(2))
  <2> HIDE DEF first
  <2>1. /\ Begins(s, 1, first)
        /\ 1 + Len(first) \in 1..Len(s) /\ s[1 + Len(first)].t = "sp"
        /\ Begins(s, 1 + Len(first) + 1, Numbers(2))
    BY <1>2, <1>3, <1>4, BeginsThen DEF HoldsLine, first
  <2>2. 1 + Len(first) = n + 12 /\ 1 + Len(first) + 1 = n + 13
    BY <1>1, <1>4
  <2> QED
    BY <2>1, <2>2 DEF first
<1>8. /\ Begins(s, 1, Hollerith)
      /\ n + 3 \in 1..Len(s) /\ s[n + 3].t = "sp" /\ Begins(s, (n + 3) + 1, Zeros(8))
  <2>1. /\ Begins(s, 1, Hollerith)
        /\ 1 + Len(Hollerith) \in 1..Len(s) /\ s[1 + Len(Hollerith)].t = "sp"
        /\ Begins(s, 1 + Len(Hollerith) + 1, Zeros(8))
    BY <1>1, <1>2, <1>3, <1>7, BeginsThen
  <2>2. 1 + Len(Hollerith) = n + 3
    BY <1>1
  <2> QED
    BY <2>1, <2>2
<1>9. Scan(s, 1) = n + 3
  <2>1. 1 + 0 = 1
    OBVIOUS
  <2>2. Scan(s, 1) = 1 + 0 + n + 2
    BY <1>3, <1>8, <2>1, ReadsHollerith
  <2> QED
    BY <1>1, <2>2
<1>10. ReadBits(s, n + 3, 8) + 1 = n + 13
  <2>1. ReadBits(s, n + 3, 8) = (n + 3) + 1 + 8
    BY <1>3, <1>8, ReadsBits
  <2> QED
    BY <1>1, <2>1
<1>11. AfterUInts(s, n + 13, 2) = n + 17
  <2>1. (n + 13) + 2 * 2 - 1 = n + 16 /\ (n + 13) + 2 * 2 = n + 17
    BY <1>1
  <2>2. AfterUInts(s, n + 13, 2) = (n + 13) + 2 * 2
    BY <1>3, <1>6, <1>7, <2>1, ReadsNumbers
  <2> QED
    BY <2>1, <2>2
<1>12. UConfOK(s) = n + 17
  BY <1>9, <1>10, <1>11 DEF UConfOK
<1> QED
  BY <1>1, <1>5, <1>8, <1>9, <1>12, SMTT(20)

-----------------------------------------------------------------------------
(* The methods of the callbacks on their own replies. *)

\* The header of a reply: its sign, the number and a byte that ends it; what follows is
\* the remainder.
LEMMA ReplyParts ==
  ASSUME NEW s \in AnswerSigns, NEW c \in Calls, NEW id \in Nat, NEW k \in Kinds
  PROVE  /\ Remainder(k, s) \in Seq(Plain)
         /\ Fields(k, s) \in Seq(Plain)
         /\ Len(Reply(s, c, id, k)) = Len(Remainder(k, s)) + 3
         /\ Reply(s, c, id, k)[3].t \in NonDigits
         /\ \A i \in 1..Len(Remainder(k, s)) :
              Reply(s, c, id, k)[i + 3] = Remainder(k, s)[i]
<1> DEFINE data == Fields(k, s)
           sign == Sign(s, c)
           line == Line(sign, id, data)
           rest == IF data = <<>> THEN <<>> ELSE data \o <<Newline>>
<1>1. data \in Seq(Plain)
  BY DataPlain, NumbersPlain DEF Positions, Fields
<1>2. Reply(s, c, id, k) = line
  BY DEF Reply, Fields
<1>3. Remainder(k, s) = rest
  BY DEF Remainder
<1>4. Newline \in Plain /\ Newline.t = "nl" /\ Space \in Plain /\ Space.t = "sp" /\ Num(id) \in Plain
  BY PlainTokens, Zenon DEF Newline, Space
<1> HIDE DEF data, sign
<1>5. CASE data = <<>>
  <2>1. line = <<sign, Num(id), Newline>> /\ rest = <<>>
    BY <1>5 DEF Line
  <2>2. Len(line) = 3 /\ line[3] = Newline
    BY <2>1
  <2> HIDE DEF line, rest
  <2>3. rest \in Seq(Plain) /\ Len(line) = Len(rest) + 3 /\ line[3].t \in NonDigits
        /\ \A i \in 1..Len(rest) : line[i + 3] = rest[i]
    BY <1>4, <2>1, <2>2, NewlineEndsNumber
  <2> QED
    BY <1>1, <1>2, <1>3, <2>3 DEF data
<1>6. CASE data # <<>>
  <2> DEFINE T == {sign} \cup Plain
             start == <<sign, Num(id)>>
             space == <<Space>>
             end == <<Newline>>
             front == start \o space
  <2>1. line = (front \o data) \o end /\ rest = data \o end
    BY <1>6 DEF Line, Then
  <2>2. /\ start \in Seq(T) /\ Len(start) = 2
        /\ space \in Seq(T) /\ Len(space) = 1 /\ space[1] = Space
        /\ end \in Seq(T) /\ Len(end) = 1
        /\ end \in Seq(Plain)
    BY <1>4
  <2>3. data \in Seq(T) /\ data \in Seq(Plain)
    BY <1>1
  <2> HIDE DEF start, space, end, T, line, rest
  <2>4. rest \in Seq(Plain) /\ rest \in Seq(T)
    BY <2>1, <2>2, <2>3, ConcatProperties
  <2>5. front \in Seq(T) /\ Len(front) = 3 /\ front[3] = Space
    <3>1. /\ start \o space \in Seq(T)
          /\ Len(start \o space) = Len(start) + Len(space)
          /\ \A i \in 1..Len(start) + Len(space) : (start \o space)[i] =
               IF i <= Len(start) THEN start[i] ELSE space[i - Len(start)]
      BY <2>2, ConcatProperties
    <3> QED
      BY <2>2, <3>1
  <2> HIDE DEF front
  <2>6. line = front \o rest
    <3>1. front \in Seq(T) /\ data \in Seq(T) /\ end \in Seq(T)
      BY <2>2, <2>3, <2>5
    <3> HIDE DEF data
    <3>2. (front \o data) \o end = front \o (data \o end)
      BY <3>1, ConcatAssociative
    <3> QED
      BY <2>1, <3>2, Zenon
  <2>7. /\ Len(line) = Len(front) + Len(rest)
        /\ \A i \in 1..Len(front) + Len(rest) : line[i] =
             IF i <= Len(front) THEN front[i] ELSE rest[i - Len(front)]
    BY <2>4, <2>5, <2>6, ConcatProperties
  <2>8. Len(line) = Len(rest) + 3 /\ line[3] = Space
    BY <2>4, <2>5, <2>7
  <2>9. \A i \in 1..Len(rest) : line[i + 3] = rest[i]
    <3> SUFFICES ASSUME NEW i \in 1..Len(rest) PROVE line[i + 3] = rest[i]
      OBVIOUS
    <3>1. i + 3 \in 1..Len(front) + Len(rest) /\ ~(i + 3 <= Len(front)) /\ (i + 3) - Len(front) = i
      BY <2>4, <2>5
    <3> QED
      BY <2>7, <3>1
  <2> QED
    BY <1>1, <1>2, <1>3, <1>4, <2>4, <2>8, <2>9, NewlineEndsNumber DEF line, rest, data
<1> QED
  BY <1>5, <1>6

\* Every successful reply but a generic one has data.
LEMMA DataNotEmpty ==
  ASSUME NEW k \in Kinds, k # "generic"
  PROVE  Data(k) # <<>>
<1>1. <<Num(1)>> \in Seq(Plain) /\ <<Brace("{")>> \in Seq(Plain) /\ <<Brace("}")>> \in Seq(Plain)
  BY PlainTokens, ShortSequences, Zenon
<1>2. \A a, b \in Seq(Plain) : Then(a, b) # <<>>
  <2> SUFFICES ASSUME NEW a \in Seq(Plain), NEW b \in Seq(Plain), Then(a, b) = <<>>
               PROVE  FALSE
    OBVIOUS
  <2>1. Len(Then(a, b)) = Len(a) + 1 + Len(b) /\ Len(Then(a, b)) = 0
    BY ThenLength
  <2> QED
    BY <2>1
<1>3. \A a, b \in Seq(Plain) : Then(a, b) \in Seq(Plain)
  BY ThenPlain
<1>4. \A a \in Seq(Plain) : List(a) # <<>>
  BY <1>1, <1>2, <1>3, Zenon DEF List, Braced
<1>5. \A n \in {1, 2, 4, 8, 9, 16, 22} :
        Numbers(n) \in Seq(Plain) /\ Zeros(n) \in Seq(Plain) /\ Numbers(n) # <<>>
  BY NumbersPlain DEF Positions
<1>6. Hollerith \in Seq(Plain) /\ Hollerith # <<>>
  <2>1. Hollerith \in Seq(Plain) /\ Len(Hollerith) = TextLen + 2 /\ TextLen \in Nat
    BY HollerithShape, RepliesAssumption
  <2> QED
    BY <2>1
<1>7. Numbers(1) # <<>> /\ Numbers(9) # <<>>
  BY <1>5
<1>8. List(Numbers(1)) # <<>> /\ List(Numbers(2)) # <<>>
  BY <1>4, <1>5
<1>9. List(Then(Then(Hollerith, Zeros(4)), <<Num(1)>>)) # <<>>
  BY <1>1, <1>3, <1>4, <1>5, <1>6
<1>10. Then(Then(<<Num(1)>>, Hollerith), Hollerith) # <<>>
  BY <1>1, <1>2, <1>3, <1>6
<1>11. Then(Then(Then(Hollerith, Zeros(16)), Zeros(8)), Numbers(22)) # <<>>
  BY <1>2, <1>3, <1>5, <1>6
<1>12. Then(Then(Hollerith, Zeros(8)), Numbers(2)) # <<>>
  BY <1>2, <1>3, <1>5, <1>6
<1> QED
  BY <1>6, <1>7, <1>8, <1>9, <1>10, <1>11, <1>12 DEF Data, Kinds

\* What is left of a reply after its header is its fields and the newline behind them.
LEMMA RemainderLine ==
  ASSUME NEW s \in Seq(Token), NEW k \in Kinds, NEW sign \in AnswerSigns,
         sign = "=" => k # "generic",
         Begins(s, 1, Remainder(k, sign))
  PROVE  /\ HoldsLine(s, Fields(k, sign))
         /\ Len(Remainder(k, sign)) = Len(Fields(k, sign)) + 1
<1>1. Fields(k, sign) \in Seq(Plain) /\ Fields(k, sign) # <<>>
  BY DataPlain, DataNotEmpty, NumbersPlain DEF Fields, Positions, AnswerSigns
<1>2. Remainder(k, sign) = Fields(k, sign) \o <<Newline>>
  BY <1>1 DEF Remainder
<1> QED
  BY <1>1, <1>2, BeginsLine DEF HoldsLine

\* The callbacks whose OK method reads its reply to the newline and no further, or leaves
\* nothing to be read.
ExactKinds == {"generic", "number", "marks", "unread", "time", "uconf"}

\* No OK method but that of a person's status finds its own reply too short, and where
\* the method of an exact callback ends, the next line begins.  ReadUInt32Array needs a
\* socket that takes back the byte it looked ahead.
THEOREM OwnReplyRead ==
  ASSUME NEW s \in Seq(Token), NEW k \in Kinds \ {"person"}, Rewinds \/ k # "async",
         Begins(s, 1, Remainder(k, "="))
  PROVE  /\ ~IsCut(k, s)
         /\ k \in ExactKinds => OKEnd(k, s) = Len(Remainder(k, "=")) + 1
<1> DEFINE n == Len(Data(k))
<1>1. Len(s) \in Nat /\ "=" \in AnswerSigns
  BY DEF AnswerSigns
<1>2. CASE k = "generic"
  <2>1. OKEnd(k, s) = 1 /\ ValueEnd(k, s) = 1 /\ Remainder(k, "=") = <<>>
    BY <1>2 DEF OKEnd, ValueEnd, Remainder, Fields, Data
  <2> QED
    BY <1>1, <2>1 DEF IsCut
<1>3. CASE k # "generic"
  <2>1. HoldsLine(s, Data(k)) /\ Len(Remainder(k, "=")) = n + 1
    <3>1. /\ HoldsLine(s, Fields(k, "="))
          /\ Len(Remainder(k, "=")) = Len(Fields(k, "=")) + 1
      BY <1>1, <1>3, RemainderLine
    <3>2. Fields(k, "=") = Data(k)
      BY DEF Fields
    <3> QED
      BY <3>1, <3>2
  <2>2. n \in Nat /\ n + 1 \in 1..Len(s)
    BY <2>1, DataPlain DEF HoldsLine
  <2>3. 1 \in Positions /\ 2 \in Positions /\ 4 \in Positions /\ 9 \in Positions
    BY DEF Positions
  <2>4. Numbers(1) \in Seq(Unbraced) /\ Numbers(2) \in Seq(Unbraced)
    BY <2>3, UnbracedParts
  <2>5. CASE k \in {"number", "time"}
    <3>1. OKEnd(k, s) = n + 2
      BY <2>1, <2>3, <2>5, ReadsNumberLine
         DEF Data, OKEnd, NumberOK, TimeOK, ReadTime
    <3>2. ValueEnd(k, s) = OKEnd(k, s)
      BY <2>5 DEF ValueEnd
    <3> QED
      BY <2>1, <2>2, <3>1, <3>2 DEF IsCut
  <2>6. CASE k \in {"marks", "unread"}
    <3>1. ListEnd(s) = n + 1 /\ SkipToNewline(s, ListEnd(s)) = n + 2
      BY <2>1, <2>4, <2>6, ReadsListLine DEF Data
    <3>2. OKEnd(k, s) = n + 2 /\ ValueEnd(k, s) = n + 1
      BY <2>6, <3>1 DEF OKEnd, ValueEnd, MarksOK, UnreadOK
    <3> QED
      BY <2>1, <2>2, <3>2 DEF IsCut
  <2>7. CASE k = "zconf"
    <3>1. Then(Then(Hollerith, Zeros(4)), <<Num(1)>>) \in Seq(Unbraced)
      BY <2>3, UnbracedParts
    <3>2. ListEnd(s) = n + 1
      BY <2>1, <2>7, <3>1, ReadsListLine DEF Data
    <3>3. ValueEnd(k, s) = n + 1 /\ k \notin ExactKinds
      BY <2>7, <3>2 DEF OKEnd, ValueEnd, ZConfOK, ExactKinds
    <3> QED
      BY <2>2, <3>3 DEF IsCut
  <2>8. CASE k = "async"
    <3>1. Past(s, 1, {"}"}, 1) = n + 1
      <4>1. Data(k) = List(Numbers(1))
        BY <2>8, Zenon DEF Data
      <4> QED
        BY <2>1, <2>4, <4>1, ReadsListLine, Zenon
    <3>2. AsyncOK(s) = n + 1
      BY <2>8, <3>1, Zenon DEF AsyncOK, ReadUInt32Array
    <3>3. ValueEnd(k, s) = n + 1 /\ k \notin ExactKinds
      BY <2>8, <3>2 DEF OKEnd, ValueEnd, ExactKinds
    <3> QED
      BY <2>2, <3>3 DEF IsCut
  <2>9. CASE k = "text"
    <3>1. Scan(s, 1) = n + 1
      BY <2>1, <2>9, ReadsTextLine DEF Data
    <3>2. ValueEnd(k, s) = n + 1 /\ k \notin ExactKinds
      BY <2>9, <3>1 DEF OKEnd, ValueEnd, TextOK, ExactKinds
    <3> QED
      BY <2>2, <3>2 DEF IsCut
  <2>10. CASE k = "version"
    <3>1. VersionOK(s) = n + 1
      BY <2>1, <2>10, ReadsVersionLine DEF Data
    <3>2. ValueEnd(k, s) = n + 1 /\ k \notin ExactKinds
      BY <2>10, <3>1 DEF OKEnd, ValueEnd, ExactKinds
    <3> QED
      BY <2>2, <3>2 DEF IsCut
  <2>11. CASE k = "uconf"
    <3>1. UConfOK(s) = n + 2
      BY <2>1, <2>11, ReadsUConfLine DEF Data
    <3>2. OKEnd(k, s) = n + 2 /\ ValueEnd(k, s) = n + 2
      BY <2>11, <3>1 DEF OKEnd, ValueEnd
    <3> QED
      BY <2>1, <2>2, <3>2 DEF IsCut
  <2> QED
    BY <1>3, <2>5, <2>6, <2>7, <2>8, <2>9, <2>10, <2>11 DEF Kinds
<1> QED
  BY <1>2, <1>3

\* skipToNewline, on the two numbers of an error, ends at the next line.
LEMMA ReadsErrorLine ==
  ASSUME NEW s \in Seq(Token), HoldsLine(s, Numbers(2))
  PROVE  Past(s, 1, {"nl"}, 1) = 5 /\ Len(Numbers(2)) = 3
<1>0. Len(Numbers(2)) = 3
  <2>1. 2 \in Positions /\ 2 * 2 - 1 = 3
    BY DEF Positions
  <2>2. Len(Numbers(2)) = 2 * 2 - 1
    BY <2>1, NumbersLength
  <2> QED
    BY <2>1, <2>2
<1>1. \A i \in 1..3 : Numbers(2)[i].t # "nl"
  BY DEF Numbers, Num, Space
<1>2. 4 \in 1..Len(s) /\ s[4].t \in {"nl"} /\ \A r \in 1..(4 - 1) : s[r].t \notin {"nl"}
  <2>1. 4 \in 1..Len(s) /\ s[4].t = "nl"
    <3>1. Len(Numbers(2)) + 1 \in 1..Len(s) /\ s[Len(Numbers(2)) + 1].t = "nl"
      BY DEF HoldsLine
    <3>2. 3 + 1 = 4
      OBVIOUS
    <3> QED
      BY <1>0, <3>1, <3>2, Zenon
  <2>2. \A i \in 1..3 : 1 + i - 1 = i /\ s[1 + i - 1] = Numbers(2)[i]
    BY <1>0 DEF HoldsLine, Begins
  <2> QED
    BY <1>1, <2>1, <2>2
<1>3. Past(s, 1, {"nl"}, 1) = 4 + 1
  <2>1. 1 \in Positions
    BY DEF Positions
  <2>2. PICK stop : stop = {"nl"}
    OBVIOUS
  <2>3. 4 \in 1..Len(s) /\ s[4].t \in stop /\ \A r \in 1..(4 - 1) : s[r].t \notin stop
    BY <1>2, <2>2, Zenon
  <2>4. Past(s, 1, stop, 1) = 4 + 1
    BY <2>1, <2>3, PastFirst, Zenon
  <2> QED
    BY <2>2, <2>4, Zenon
<1> QED
  BY <1>0, <1>3

\* Where the Error method of a callback ends on the reply it is for: at the next line, if
\* the socket takes back the byte that Fscanf looked ahead (readError).
THEOREM OwnErrorRead ==
  ASSUME NEW s \in Seq(Token), NEW k \in Kinds, k # "time", Rewinds,
         Begins(s, 1, Remainder(k, "%"))
  PROVE  ErrorEnd(k, s) = Len(Remainder(k, "%")) + 1
<1>1. Fields(k, "%") = Numbers(2) /\ "%" \in AnswerSigns /\ "%" # "="
  BY Zenon DEF Fields, AnswerSigns
<1>2. HoldsLine(s, Numbers(2)) /\ Len(Remainder(k, "%")) = Len(Numbers(2)) + 1
  BY <1>1, RemainderLine, Zenon
<1>3. Past(s, 1, {"nl"}, 1) = 5 /\ Len(Numbers(2)) = 3
  BY <1>2, ReadsErrorLine, Zenon
<1>4. ErrorEnd(k, s) = 5
  BY <1>3, Zenon DEF ErrorEnd, ReadErrorEnd, LinesSkipped
<1> DEFINE n == Len(Remainder(k, "%"))
<1>5. n = 3 + 1
  BY <1>2, <1>3, Zenon
<1>6. ErrorEnd(k, s) = (3 + 1) + 1
  <2>1. (3 + 1) + 1 = 5
    OBVIOUS
  <2> QED
    BY <1>4, <2>1, Zenon
<1> QED
  BY <1>5, <1>6, Zenon

\* The callbacks that check what they read find a stream that has ended too short.
LEMMA NothingIsCut ==
  ASSUME NEW k \in {"marks", "unread", "text", "zconf", "version"}
  PROVE  IsCut(k, <<>>)
<1> DEFINE none == <<>>
<1>1. none \in Seq(Token) /\ Len(none) = 0 /\ DOMAIN none = {} /\ 1..0 = {}
  OBVIOUS
<1> HIDE DEF none
<1>2. \A p \in Positions : \A stop, j : Past(none, p, stop, j) = 2
  <2> SUFFICES ASSUME NEW p \in Positions, NEW stop, NEW j PROVE Past(none, p, stop, j) = 2
    OBVIOUS
  <2>1. p..Len(none) = {}
    BY <1>1 DEF Positions
  <2>2. Stops(none, p, stop) = {}
    BY <2>1 DEF Stops
  <2>3. {q \in Stops(none, p, stop) :
           Cardinality(Stops(SubSeq(none, 1, q), p, stop)) = j} = {}
    BY <2>2
  <2> QED
    BY <1>1, <2>3 DEF Past
<1>3. 1 \in Positions /\ 2 \in Positions /\ 3 \in Positions
  BY DEF Positions
<1>4. AfterUInts(none, 1, 1) = 2
  BY <1>2, <1>3 DEF AfterUInts
<1>5. ListEnd(none) = 3
  <2>1. ReadDelimitedList(none, 2) = 2 + 1
    BY <1>1, Zenon DEF ReadDelimitedList
  <2> QED
    BY <1>4, <2>1 DEF ListEnd
<1>6. \A p \in Positions : Scan(none, p) = 3
  <2> SUFFICES ASSUME NEW p \in Positions PROVE Scan(none, p) = 3
    OBVIOUS
  <2>1. Past(none, p, {"num"}, 1) = 2
    BY <1>2
  <2>2. ReadUInt(none, 2 - 1) = 0
    BY <1>1 DEF ReadUInt
  <2> QED
    BY <2>1, <2>2 DEF Scan
<1>7. ValueEnd(k, none) = 3
  <2>1. TextOK(none) = 3 /\ ZConfOK(none) = 3 /\ VersionOK(none) = 3
    BY <1>3, <1>4, <1>5, <1>6 DEF TextOK, ZConfOK, VersionOK
  <2> QED
    BY <1>5, <2>1 DEF ValueEnd, OKEnd
<1>8. IsCut(k, none)
  BY <1>1, <1>7 DEF IsCut
<1> QED
  BY <1>8 DEF none

\* No OK method sees an error in its own reply.
LEMMA OwnReplyNoError ==
  ASSUME NEW s \in Seq(Token), NEW k \in Kinds, Rewinds \/ k # "async",
         Begins(s, 1, Remainder(k, "="))
  PROVE  ~FailsToRead(k, s)
<1>1. CASE k = "person"
  BY <1>1 DEF FailsToRead
<1>2. CASE k # "person"
  <2>1. ~IsCut(k, s)
    BY <1>2, OwnReplyRead
  <2>2. CASE k = "uconf"
    <3>1. Fields(k, "=") = Then(Then(Hollerith, Zeros(8)), Numbers(2))
      BY <2>2 DEF Fields, Data
    <3>2. HoldsLine(s, Then(Then(Hollerith, Zeros(8)), Numbers(2)))
      <4>1. "=" \in AnswerSigns /\ k # "generic"
        BY <2>2 DEF AnswerSigns
      <4> QED
        BY <3>1, <4>1, RemainderLine
    <3>3. Scan(s, 1) \in 1..Len(s)
      BY <3>2, ReadsUConfLine
    <3>4. ~(Scan(s, 1) > Len(s) + 1)
      BY <3>3
    <3> QED
      BY <2>2, <3>4 DEF FailsToRead
  <2>3. CASE k # "uconf"
    BY <2>1, <2>3 DEF FailsToRead
  <2> QED
    BY <2>2, <2>3
<1> QED
  BY <1>1, <1>2

-----------------------------------------------------------------------------
(* What a callback leaves on its channel. *)

Success == "="
Failure == "%"

\* The two answers there are.
LEMMA AnswerSignsAre ==
  AnswerSigns = {Success, Failure} /\ Success # Failure /\ "none" \notin AnswerSigns
  BY Zenon DEF AnswerSigns, Success, Failure

\* A failed request is an error; of a successful one a callback sends the value it read,
\* or the error of a read, and only that of queryAsync may send both.
LEMMA ResultsAre ==
  ASSUME NEW k, NEW s, NEW sign \in AnswerSigns, NEW r \in Results(k, sign, s)
  PROVE  /\ sign = Failure => r = "err"
         /\ sign = Success => \/ r = Value(k, s) /\ (FailsToRead(k, s) => k = "async")
                              \/ r = "err" /\ FailsToRead(k, s)
<1>1. CASE sign = Failure
  <2>1. Results(k, sign, s) = {"err"}
    BY <1>1, Zenon DEF Results, Failure
  <2> QED
    BY <1>1, <2>1, AnswerSignsAre
<1>2. CASE sign = Success /\ FailsToRead(k, s)
  <2>1. Results(k, sign, s) = {"err"} \cup IF k = "async" THEN {Value(k, s)} ELSE {}
    BY <1>2, Zenon DEF Results, Success
  <2> QED
    BY <1>2, <2>1, AnswerSignsAre
<1>3. CASE sign = Success /\ ~FailsToRead(k, s)
  <2>1. Results(k, sign, s) = {Value(k, s)}
    BY <1>3, Zenon DEF Results, Success
  <2> QED
    BY <1>3, <2>1, AnswerSignsAre
<1> QED
  BY <1>1, <1>2, <1>3, AnswerSignsAre

=============================================================================
