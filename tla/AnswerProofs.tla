---------------------------- MODULE AnswerProofs ----------------------------
(***************************************************************************)
(* What the callers of a session get, for every answer that the Go types   *)
(* can hold.  The server writes an answer as the words of a line.  Where   *)
(* each word stands in the line is where the callback looks for it: the    *)
(* readers skip to it and end just past it.  So a value is read as it was  *)
(* sent.                                                                   *)
(*                                                                         *)
(* A list is first cut off at its first closing brace.  A list of numbers  *)
(* has none but its last word; a list of conferences has one early if a    *)
(* name has one, and then, as when the count is too high, the loop comes   *)
(* to an item that is not whole, and a slice runs off the list.            *)
(***************************************************************************)
EXTENDS SessionProofs

-----------------------------------------------------------------------------
(* The words of an answer's line. *)

\* Words with a blank between them and the line feed after them.
LineOf(words) == Spaced(words) \o <<"LF">>

\* They stand in s, one after the other.
WordsStand(s, words, n, pos) ==
  /\ s \in Texts /\ pos \in [1..(n + 1) -> Nat] /\ pos[1] = 1 /\ pos[n + 1] = Len(s) + 1
  /\ \A i \in 1..n :
       /\ Holds(s, pos[i], words[i]) /\ pos[i + 1] = pos[i] + Len(words[i]) + 1
       /\ Ends(s, pos[i + 1] - 1) /\ Len(words[i]) \in Nat
       /\ pos[i] \in Nat \ {0} /\ pos[i + 1] \in Nat \ {0} /\ pos[i + 1] - 1 \in Nat \ {0}
       /\ i < n => Blanks(s, pos[i + 1] - 1, pos[i + 1])

LEMMA LineOfWords ==
  ASSUME NEW words \in Seq(Texts), NEW n \in Nat \ {0}, n = Len(words)
  PROVE  \E pos : WordsStand(LineOf(words), words, n, pos)
<1> DEFINE s == LineOf(words)
<1>1. PICK lf \in Chars : lf = "LF"
  BY MoreChars, Zenon
<1>2. PICK x \in Texts : x = Spaced(words)
  BY SpacedText
<1>3. <<lf>> \in Texts /\ Len(<<lf>>) = 1
  BY DEF Texts
<1>4. s = x \o <<lf>>
  BY <1>1, <1>2, Zenon DEF LineOf
<1> HIDE DEF s
<1>5. s \in Texts /\ Len(s) = Len(x) + 1 /\ Len(x) \in Nat
  BY <1>3, <1>4, TextConcat, TextLen
<1>6. Holds(s, 1, x) /\ Holds(s, 1 + Len(x), <<lf>>)
  <2>1. Holds(s, 1, x \o <<lf>>)
    BY <1>4, <1>5, HoldsAll
  <2> QED
    BY <1>3, <1>5, <2>1, HoldsConcat
<1>7. PICK pos : WordsAt(s, words, pos) /\ pos[1] = 1 /\ pos[n + 1] = Len(s) + 1
  <2>1. Len(words) > 0 /\ Holds(s, 1, Spaced(words)) /\ 1 \in Nat
    BY <1>2, <1>6
  <2>2. PICK pos : /\ WordsAt(s, words, pos) /\ pos[1] = 1
                   /\ pos[Len(words) + 1] = 1 + Len(Spaced(words)) + 1
    BY <1>5, <2>1, SpacedWords
  <2>3. 1 + Len(Spaced(words)) + 1 = Len(s) + 1
    BY <1>2, <1>5
  <2> QED
    BY <2>2, <2>3
<1>8. pos \in [1..(n + 1) -> Nat]
  BY <1>7, Zenon DEF WordsAt
<1>9. \A i \in 1..n : /\ Holds(s, pos[i], words[i]) /\ pos[i + 1] = pos[i] + Len(words[i]) + 1
                      /\ i < n => At(s, pos[i + 1] - 1, {" "})
  BY <1>7, Zenon DEF WordsAt
<1>10. ASSUME NEW i \in 1..n
       PROVE  /\ Len(words[i]) \in Nat /\ pos[i] \in Nat \ {0}
              /\ pos[i + 1] \in Nat \ {0} /\ pos[i + 1] - 1 \in Nat \ {0}
  <2>1. words[i] \in Texts
    OBVIOUS
  <2>2. Len(words[i]) \in Nat
    BY <2>1, TextLen
  <2>3. PICK p, l : p = pos[i] /\ l = Len(words[i])
    OBVIOUS
  <2>4. Holds(s, p, words[i]) /\ pos[i + 1] = p + l + 1 /\ l \in Nat
    BY <1>9, <2>2, <2>3, Zenon
  <2>5. p \in Nat \ {0}
    BY <2>4, Zenon DEF Holds
  <2> QED
    BY <2>3, <2>4, <2>5
<1>11. Ends(s, pos[n + 1] - 1)
  <2>1. PICK q : q = 1 + Len(x)
    OBVIOUS
  <2>2. s[q] = lf
    BY <1>5, <1>6, <2>1, HoldsOne
  <2>3. pos[n + 1] - 1 = q
    BY <1>5, <1>7, <2>1
  <2>4. Ends(s, q)
    BY <1>1, <2>2, Zenon DEF Ends
  <2> QED
    BY <2>3, <2>4
<1>12. ASSUME NEW i \in 1..n, i < n
       PROVE  Ends(s, pos[i + 1] - 1) /\ Blanks(s, pos[i + 1] - 1, pos[i + 1])
  <2>1. At(s, pos[i + 1] - 1, {" "})
    BY <1>9, <1>12, Zenon
  <2>2. PICK q \in Nat \ {0} : q = pos[i + 1] - 1
    BY <1>10
  <2>3. At(s, q, {" "}) /\ q = pos[i + 1] - 1
    BY <2>1, <2>2, Zenon
  <2>4. \A r \in q..(pos[i + 1] - 1) : r = q
    BY <2>2
  <2>5. Blanks(s, q, pos[i + 1])
    BY <2>3, <2>4, Zenon DEF At, Blanks
  <2> QED
    BY <2>3, <2>5, Zenon DEF At, Ends
<1>13. \A i \in 1..n : i < n \/ i = n
  OBVIOUS
<1>14. WordsStand(s, words, n, pos)
  BY <1>5, <1>7, <1>8, <1>9, <1>10, <1>11, <1>12, <1>13, Zenon DEF WordsStand
<1> QED
  BY <1>14, Zenon DEF s

LEMMA NoBlanksAlways == ASSUME NEW s, NEW p \in Nat PROVE Blanks(s, p, p)
<1>1. \A r : r \notin p..(p - 1)
  OBVIOUS
<1> QED
  BY <1>1, Zenon DEF Blanks

\* A number and a text that are words of a line are read as they were written.
LEMMA NumberWord ==
  ASSUME NEW s, NEW words, NEW n \in Nat, NEW pos, WordsStand(s, words, n, pos),
         NEW i \in 1..n, NEW m \in UInt32, words[i] = Decimal[m]
  PROVE  ReadUInt32(s, pos[i]) = Value(m, pos[i + 1])
<1>1. /\ s \in Texts /\ Holds(s, pos[i], words[i]) /\ pos[i + 1] = pos[i] + Len(words[i]) + 1
      /\ Ends(s, pos[i + 1] - 1) /\ pos[i] \in Nat \ {0} /\ pos[i + 1] \in Nat \ {0}
  BY Zenon DEF WordsStand
<1>2. NumberStands(s, m, pos[i], pos[i + 1])
  BY <1>1 DEF NumberStands
<1> QED
  BY <1>1, <1>2, NumberStandsReads

LEMMA TextWord ==
  ASSUME NEW s, NEW words, NEW n \in Nat, NEW pos, WordsStand(s, words, n, pos),
         NEW i \in 1..n, NEW t \in Texts, Len(t) < Word, words[i] = Sprint(t)
  PROVE  /\ Scan(s, pos[i]) = [v |-> t, next |-> pos[i + 1] - 1, ok |-> TRUE]
         /\ i # 1 => Scan(s, pos[i] - 1) = [v |-> t, next |-> pos[i + 1] - 1, ok |-> TRUE]
<1>1. /\ s \in Texts /\ Holds(s, pos[i], Sprint(t)) /\ pos[i + 1] = pos[i] + Len(Sprint(t)) + 1
      /\ pos[i] \in Nat \ {0} /\ Len(Sprint(t)) \in Nat
  BY Zenon DEF WordsStand
<1>2. pos[i + 1] - 1 = pos[i] + Len(Sprint(t)) /\ pos[i] <= pos[i]
  BY <1>1
<1>3. Scan(s, pos[i]) = [v |-> t, next |-> pos[i] + Len(Sprint(t)), ok |-> TRUE]
  BY <1>1, <1>2, NoBlanksAlways, ScanReads
<1>4. ASSUME i # 1
      PROVE  Scan(s, pos[i] - 1) = [v |-> t, next |-> pos[i] + Len(Sprint(t)), ok |-> TRUE]
  <2>1. PICK j \in 1..n : j + 1 = i /\ j < n
    <3>1. i - 1 \in 1..n /\ (i - 1) + 1 = i /\ i - 1 < n
      BY <1>4
    <3> QED
      BY <3>1
  <2>2. Blanks(s, pos[i] - 1, pos[i]) /\ pos[i] - 1 \in Nat \ {0}
    BY <2>1, Zenon DEF WordsStand
  <2>3. pos[i] - 1 <= pos[i]
    BY <1>1
  <2> QED
    BY <1>1, <2>2, <2>3, ScanReads
<1> QED
  BY <1>2, <1>3, <1>4

-----------------------------------------------------------------------------
(* What the callbacks make of single values. *)

\* A callback gives its caller the value that the server sent.
AsSent(callback, v, s) == ValueOK(callback, s, 1) = Gives({Response(v, Nil)})

LEMMA OneWord ==
  ASSUME NEW w \in Texts
  PROVE  /\ <<w>> \in Seq(Texts) /\ 1 = Len(<<w>>) /\ <<w>>[1] = w /\ LineOf(<<w>>) = w \o <<"LF">>
<1>1. <<w>> \in Seq(Texts) /\ 1 = Len(<<w>>) /\ <<w>>[1] = w
  OBVIOUS
<1>2. PICK words \in Seq(Texts) : words = <<w>> /\ Len(words) = 1 /\ words[1] = w
  BY <1>1
<1>3. PICK sep \in Texts, line \in [0..Len(words) -> Texts] :
        /\ Spaced(words) = line[Len(words)]
        /\ \A i \in 1..Len(words) :
             line[i] = IF i = 1 THEN words[1] ELSE line[i - 1] \o sep \o words[i]
  BY SpacedGrows
<1>4. 1 \in 1..Len(words)
  BY <1>2
<1>5. Spaced(words) = w
  BY <1>2, <1>3, <1>4
<1> QED
  BY <1>1, <1>2, <1>5, Zenon DEF LineOf

\* The lines of the values.
LEMMA ValueLines ==
  ASSUME NEW answer, answer.ok, NEW v, v = answer.v
  PROVE  /\ ReplyLine("text", answer) = Sprint(v) \o <<"LF">>
         /\ ReplyLine("number", answer) = Decimal[v] \o <<"LF">>
         /\ ReplyLine("version", answer) = LineOf(<<Decimal[v[1]], Sprint(v[2]), Sprint(v[3])>>)
         /\ ReplyLine("uconf", answer) =
              LineOf(<<Sprint(v[1]), ExtendedRepr(v[2]), Decimal[v[3]], Decimal[v[4]]>>)
<1>1. \A callback : ReplyLine(callback, answer) = DataOf(callback, answer) \o <<"LF">>
  BY Zenon DEF ReplyLine
<1>2. /\ DataOf("text", answer) = Sprint(v)
      /\ DataOf("number", answer) = Decimal[v]
      /\ DataOf("version", answer) = Spaced(<<Decimal[v[1]], Sprint(v[2]), Sprint(v[3])>>)
      /\ DataOf("uconf", answer) =
           Spaced(<<Sprint(v[1]), ExtendedRepr(v[2]), Decimal[v[3]], Decimal[v[4]]>>)
  BY DEF DataOf
<1> QED
  BY <1>1, <1>2, Zenon DEF LineOf

LEMMA TextReply ==
  ASSUME NEW answer, answer.ok, NEW v, v = answer.v, Typed("text", v)
  PROVE  AsSent("text", v, ReplyLine("text", answer))
<1>1. v \in Texts /\ Len(v) < Word
  BY StringsAreTexts DEF Typed, Lookups
<1>2. PICK w \in Texts : w = Sprint(v)
  BY <1>1, SprintText
<1>3. PICK words \in Seq(Texts) : words = <<w>> /\ 1 = Len(words) /\ words[1] = w
  BY OneWord
<1>4. PICK s : s = ReplyLine("text", answer) /\ s = LineOf(words)
  BY <1>2, <1>3, ValueLines, OneWord, ZenonT(30)
<1>5. PICK n \in Nat \ {0} : n = 1
  OBVIOUS
<1>6. PICK pos : WordsStand(s, words, n, pos)
  BY <1>3, <1>4, <1>5, LineOfWords
<1>7. pos[1] = 1
  BY <1>6, Zenon DEF WordsStand
<1>8. Scan(s, 1).v = v /\ Scan(s, 1).ok = TRUE
  <2>1. 1 \in 1..n
    BY <1>5
  <2>2. Scan(s, pos[1]) = [v |-> v, next |-> pos[1 + 1] - 1, ok |-> TRUE]
    BY <1>1, <1>2, <1>3, <1>6, <2>1, TextWord
  <2> QED
    BY <1>7, <2>2
<1>9. ValueOK("text", s, 1) = TextOK(s, 1)
  BY DEF ValueOK
<1>10. TextOK(s, 1) = Gives({Response(v, Nil)})
  BY <1>8, Zenon DEF TextOK, ErrorOf
<1> QED
  BY <1>4, <1>9, <1>10 DEF AsSent

LEMMA NumberReply ==
  ASSUME NEW answer, answer.ok, NEW v, v = answer.v, v \in UInt32
  PROVE  AsSent("number", v, ReplyLine("number", answer))
<1>1. v \in Nat
  BY WireAssumption DEF UInt32
<1>2. PICK w \in Texts : w = Decimal[v]
  BY <1>1, DecimalInTexts
<1>3. PICK words \in Seq(Texts) : words = <<w>> /\ 1 = Len(words) /\ words[1] = w
  BY OneWord
<1>4. PICK s : s = ReplyLine("number", answer) /\ s = LineOf(words)
  BY <1>2, <1>3, ValueLines, OneWord, Zenon
<1>5. PICK n \in Nat \ {0} : n = 1
  OBVIOUS
<1>6. PICK pos : WordsStand(s, words, n, pos)
  BY <1>3, <1>4, <1>5, LineOfWords
<1>7. pos[1] = 1
  BY <1>6, Zenon DEF WordsStand
<1>8. ReadUInt32(s, 1).v = v
  <2>1. 1 \in 1..n
    BY <1>5
  <2>2. ReadUInt32(s, pos[1]) = Value(v, pos[1 + 1])
    BY <1>2, <1>3, <1>6, <2>1, NumberWord
  <2> QED
    BY <1>7, <2>2, ValueParts
<1>9. ValueOK("number", s, 1) = NumberOK(s, 1)
  BY DEF ValueOK
<1>10. NumberOK(s, 1) = Gives({Response(v, Nil)})
  BY <1>8, Zenon DEF NumberOK
<1> QED
  BY <1>4, <1>9, <1>10 DEF AsSent

LEMMA VersionReply ==
  ASSUME NEW answer, answer.ok, NEW v, v = answer.v, Sent("version", v)
  PROVE  AsSent("version", v, ReplyLine("version", answer))
<1>1. v \in UInt32 \X Seq(STRING) \X Seq(STRING) /\ Typed("text", v[2]) /\ Typed("text", v[3])
  BY DEF Sent, Lists
<1>2. PICK a \in UInt32, b \in Seq(STRING), c \in Seq(STRING) :
        a = v[1] /\ b = v[2] /\ c = v[3] /\ v = <<a, b, c>>
  BY <1>1
<1>3. b \in Texts /\ Len(b) < Word /\ c \in Texts /\ Len(c) < Word
  BY <1>1, <1>2, StringsAreTexts DEF Typed, Lookups
<1>4. PICK wa \in Texts, wb \in Texts, wc \in Texts :
        wa = Decimal[a] /\ wb = Sprint(b) /\ wc = Sprint(c)
  <2>1. a \in Nat
    BY WireAssumption DEF UInt32
  <2> QED
    BY <1>3, <2>1, DecimalInTexts, SprintText
<1>5. PICK words \in Seq(Texts), n \in Nat \ {0} :
        /\ words = <<wa, wb, wc>> /\ n = 3 /\ n = Len(words)
        /\ words[1] = wa /\ words[2] = wb /\ words[3] = wc
  <2>1. <<wa, wb, wc>> \in Seq(Texts) /\ 3 = Len(<<wa, wb, wc>>)
    OBVIOUS
  <2>2. <<wa, wb, wc>>[1] = wa /\ <<wa, wb, wc>>[2] = wb /\ <<wa, wb, wc>>[3] = wc
    OBVIOUS
  <2>3. 3 \in Nat \ {0}
    OBVIOUS
  <2> QED
    BY <2>1, <2>2, <2>3, Zenon
<1>6. PICK s : s = ReplyLine("version", answer) /\ s = LineOf(words)
  BY <1>2, <1>4, <1>5, ValueLines, Zenon
<1>7. PICK pos : WordsStand(s, words, n, pos)
  BY <1>5, <1>6, LineOfWords
<1>8. 1 \in 1..n /\ 2 \in 1..n /\ 3 \in 1..n /\ 1 + 1 = 2 /\ 2 + 1 = 3 /\ 3 + 1 = 4 /\ 3 # 1
  BY <1>5
<1>9. pos[1] = 1
  BY <1>7, Zenon DEF WordsStand
<1>10. ReadUInt32(s, 1).v = a /\ ReadUInt32(s, 1).next = pos[2]
  <2>1. ReadUInt32(s, pos[1]) = Value(a, pos[1 + 1])
    BY <1>4, <1>5, <1>7, <1>8, NumberWord
  <2> QED
    BY <1>8, <1>9, <2>1, ValueParts
<1>11. Scan(s, pos[2]).v = b /\ Scan(s, pos[2]).next = pos[3] - 1 /\ Scan(s, pos[2]).ok = TRUE
  <2>1. Scan(s, pos[2]) = [v |-> b, next |-> pos[2 + 1] - 1, ok |-> TRUE]
    BY <1>3, <1>4, <1>5, <1>7, <1>8, TextWord
  <2> QED
    BY <1>8, <2>1
<1>12. Scan(s, pos[3] - 1).v = c /\ Scan(s, pos[3] - 1).ok = TRUE
  <2>1. Scan(s, pos[3] - 1) = [v |-> c, next |-> pos[3 + 1] - 1, ok |-> TRUE]
    BY <1>3, <1>4, <1>5, <1>7, <1>8, TextWord
  <2> QED
    BY <2>1
<1>13. ValueOK("version", s, 1) = VersionOK(s, 1)
  BY DEF ValueOK
<1>14. VersionOK(s, 1) = Gives({Response(<<a, b, c>>, Nil)})
  BY <1>10, <1>11, <1>12, Zenon DEF VersionOK, ErrorOf
<1> QED
  BY <1>2, <1>6, <1>13, <1>14 DEF AsSent

LEMMA UConfReply ==
  ASSUME NEW answer, answer.ok, NEW v, v = answer.v, Sent("uconf", v)
  PROVE  AsSent("uconf", v, ReplyLine("uconf", answer))
<1>1. v \in Seq(STRING) \X FlagsOf(ExtendedFlags) \X UInt32 \X UInt32 /\ Typed("text", v[1])
  BY DEF Sent, Lists
<1>2. PICK a \in Seq(STRING), flags \in FlagsOf(ExtendedFlags), c \in UInt32, d \in UInt32 :
        a = v[1] /\ flags = v[2] /\ c = v[3] /\ d = v[4] /\ v = <<a, flags, c, d>>
  <2>1. v[1] \in Seq(STRING) /\ v[2] \in FlagsOf(ExtendedFlags) /\ v[3] \in UInt32 /\ v[4] \in UInt32
    BY <1>1
  <2>2. v = <<v[1], v[2], v[3], v[4]>>
    BY <1>1
  <2> QED
    BY <2>1, <2>2, Zenon
<1>3. a \in Texts /\ Len(a) < Word
  BY <1>1, <1>2, StringsAreTexts DEF Typed, Lookups
<1>4. PICK bits \in Nat \ {0} : bits = 8
  OBVIOUS
<1>5. PICK wa \in Texts, wb \in Texts, wc \in Texts, wd \in Texts :
        /\ wa = Sprint(a) /\ wb = ExtendedRepr(flags) /\ wc = Decimal[c] /\ wd = Decimal[d]
        /\ wb = BitsOf(flags, ExtendedFlags, bits) /\ BitText(wb, bits)
  <2>1. c \in Nat /\ d \in Nat
    BY WireAssumption DEF UInt32
  <2>2. ExtendedRepr(flags) = BitsOf(flags, ExtendedFlags, bits)
    BY <1>4 DEF ExtendedRepr
  <2>3. BitText(ExtendedRepr(flags), bits)
    BY <2>2, BitsOfText
  <2>4. ExtendedRepr(flags) \in Texts
    BY <2>3 DEF BitText
  <2> QED
    BY <1>3, <2>1, <2>2, <2>3, <2>4, DecimalInTexts, SprintText
<1>6. PICK words \in Seq(Texts), n \in Nat \ {0} :
        /\ words = <<wa, wb, wc, wd>> /\ n = 4 /\ n = Len(words)
        /\ words[1] = wa /\ words[2] = wb /\ words[3] = wc /\ words[4] = wd
  <2>1. <<wa, wb, wc, wd>> \in Seq(Texts) /\ 4 = Len(<<wa, wb, wc, wd>>)
    BY FourOf
  <2>2. /\ <<wa, wb, wc, wd>>[1] = wa /\ <<wa, wb, wc, wd>>[2] = wb
        /\ <<wa, wb, wc, wd>>[3] = wc /\ <<wa, wb, wc, wd>>[4] = wd
    OBVIOUS
  <2>3. 4 \in Nat \ {0}
    OBVIOUS
  <2> QED
    BY <2>1, <2>2, <2>3, Zenon
<1>7. PICK s : s = ReplyLine("uconf", answer) /\ s = LineOf(words)
  <2>1. ReplyLine("uconf", answer) =
          LineOf(<<Sprint(v[1]), ExtendedRepr(v[2]), Decimal[v[3]], Decimal[v[4]]>>)
    BY ValueLines
  <2>2. words = <<Sprint(v[1]), ExtendedRepr(v[2]), Decimal[v[3]], Decimal[v[4]]>>
    BY <1>2, <1>5, <1>6
  <2> QED
    BY <2>1, <2>2, Zenon
<1>8. PICK pos : WordsStand(s, words, n, pos)
  BY <1>6, <1>7, LineOfWords
<1>9. /\ 1 \in 1..n /\ 2 \in 1..n /\ 3 \in 1..n /\ 4 \in 1..n /\ 1 < n
      /\ 1 + 1 = 2 /\ 2 + 1 = 3 /\ 3 + 1 = 4
  BY <1>6
<1>10. pos[1] = 1
  BY <1>8, Zenon DEF WordsStand
<1>11. Scan(s, 1).v = a /\ Scan(s, 1).next = pos[2] - 1 /\ Scan(s, 1).ok = TRUE
  <2>1. Scan(s, pos[1]) = [v |-> a, next |-> pos[1 + 1] - 1, ok |-> TRUE]
    BY <1>3, <1>5, <1>6, <1>8, <1>9, TextWord
  <2> QED
    BY <1>9, <1>10, <2>1
<1>12. PICK o, q : o = pos[2] /\ q = pos[3] - 1
  OBVIOUS
<1>13. /\ s \in Texts /\ Holds(s, o, wb) /\ q = o + bits /\ Ends(s, q)
       /\ o \in Nat \ {0} /\ o - 1 \in Nat \ {0} /\ q \in Nat /\ Blanks(s, o - 1, o)
       /\ pos[3] = q + 1
  <2>1. /\ s \in Texts /\ Blanks(s, pos[1 + 1] - 1, pos[1 + 1])
        /\ pos[1 + 1] - 1 \in Nat \ {0}
    BY <1>8, <1>9, Zenon DEF WordsStand
  <2>2. /\ Holds(s, pos[2], wb) /\ pos[2 + 1] = pos[2] + Len(wb) + 1
        /\ Ends(s, pos[2 + 1] - 1) /\ pos[2] \in Nat \ {0} /\ pos[2 + 1] \in Nat \ {0}
        /\ pos[2 + 1] - 1 \in Nat \ {0}
    BY <1>6, <1>8, <1>9 DEF WordsStand
  <2>3. Len(wb) = bits
    BY <1>5 DEF BitText
  <2> QED
    BY <1>9, <1>12, <2>1, <2>2, <2>3, SMTT(20)
<1>14. /\ Len(ExtendedFlags) \in Nat /\ Len(ExtendedFlags) <= bits
       /\ DOMAIN ExtendedFlags = 1..Len(ExtendedFlags) /\ DOMAIN ExtendedFlags \subseteq 1..bits
  BY <1>4, ExtendedList
<1>15. Marked(ExtendedFlags, wb) = flags
  <2>1. \A f \in flags : \E i \in 1..Len(ExtendedFlags) : ExtendedFlags[i] = f
    BY <1>14 DEF FlagsOf
  <2> QED
    <3>1. Marked(ExtendedFlags, BitsOf(flags, ExtendedFlags, bits)) = flags
      BY <1>14, <2>1, FlagsOfBits
    <3> QED
      BY <1>5, <3>1, Zenon
<1>16. ReadFlags(s, o - 1, ExtendedFlags, bits) = Value(flags, q)
  <2>1. q <= Len(s) => s[q] \notin Bits
    BY <1>13, EndsNoDigit, BitsAreDigits
  <2>2. o - 1 <= o
    BY <1>13
  <2> QED
    BY <1>5, <1>13, <1>14, <1>15, <2>1, <2>2, ReadFlagsReads, SMTT(20)
<1>17. /\ ReadExtendedConfType(s, pos[2] - 1).v = flags
       /\ ReadExtendedConfType(s, pos[2] - 1).next + 1 = pos[3]
  <2>1. ReadExtendedConfType(s, o - 1) = ReadFlags(s, o - 1, ExtendedFlags, bits)
    BY <1>4 DEF ReadExtendedConfType
  <2> QED
    BY <1>12, <1>13, <1>16, <2>1, ValueParts
<1>18. ReadUInt32(s, pos[3]).v = c /\ ReadUInt32(s, pos[3]).next = pos[4]
  <2>1. ReadUInt32(s, pos[3]) = Value(c, pos[3 + 1])
    BY <1>5, <1>6, <1>8, <1>9, NumberWord
  <2> QED
    BY <1>9, <2>1, ValueParts
<1>19. ReadUInt32(s, pos[4]).v = d
  <2>1. ReadUInt32(s, pos[4]) = Value(d, pos[4 + 1])
    BY <1>5, <1>6, <1>8, <1>9, NumberWord
  <2> QED
    BY <2>1, ValueParts
<1>20. ValueOK("uconf", s, 1) = UConfOK(s, 1)
  BY DEF ValueOK
<1>21. UConfOK(s, 1) = Gives({Response(<<a, flags, c, d>>, Nil)})
  BY <1>11, <1>17, <1>18, <1>19, Zenon DEF UConfOK, ErrorOf
<1> QED
  BY <1>2, <1>7, <1>20, <1>21 DEF AsSent

-----------------------------------------------------------------------------
(* What Split makes of a list. *)

SomeWords == Seq(Texts) \ {<<>>}

\* One more character of a text that is split.
NextWords(x, c) ==
  IF c = " " THEN Append(x, <<>>) ELSE [x EXCEPT ![Len(x)] = Append(@, c)]

LEMMA MoreOf == ASSUME NEW S, NEW x \in Seq(S), NEW e \in S
                PROVE  Append(x, e) \in Seq(S) \ {<<>>}
<1>1. Append(x, e) \in Seq(S) /\ Len(Append(x, e)) = Len(x) + 1 /\ Len(x) \in Nat
  OBVIOUS
<1>2. Append(x, e) # <<>>
  <2>1. Len(Append(x, e)) # 0 /\ Len(<<>>) = 0
    BY <1>1
  <2> QED
    BY <2>1, Zenon
<1> QED
  BY <1>1, <1>2

\* Another last element.
OtherLast(x, e, S) ==
  /\ [x EXCEPT ![Len(x)] = e] \in Seq(S) \ {<<>>}
  /\ \A u \in Seq(S) : \A w \in S : x = Append(u, w) => [x EXCEPT ![Len(x)] = e] = Append(u, e)

LEMMA LastOther ==
  ASSUME NEW S, NEW x \in Seq(S), x # <<>>, NEW e \in S PROVE OtherLast(x, e, S)
<1>1. PICK n \in Nat \ {0} : n = Len(x)
  <2>1. Len(x) \in Nat \ {0}
    OBVIOUS
  <2> QED
    BY <2>1
<1>2. PICK y : y = [x EXCEPT ![n] = e]
  OBVIOUS
<1>3. y \in Seq(S) /\ Len(y) = n /\ y[n] = e /\ \A i \in 1..n : i # n => y[i] = x[i]
  BY <1>1, <1>2
<1>4. y # <<>>
  BY <1>3
<1>5. ASSUME NEW u \in Seq(S), NEW w \in S, x = Append(u, w) PROVE y = Append(u, e)
  <2>1. PICK k \in Nat : k = Len(u)
    OBVIOUS
  <2>2. Len(Append(u, w)) = k + 1 /\ \A i \in 1..k : Append(u, w)[i] = u[i]
    BY <2>1
  <2>3. PICK z \in Seq(S) : z = Append(u, e) /\ Len(z) = k + 1 /\ z[k + 1] = e /\ \A i \in 1..k : z[i] = u[i]
    <3>1. /\ Append(u, e) \in Seq(S) /\ Len(Append(u, e)) = k + 1 /\ Append(u, e)[k + 1] = e
          /\ \A i \in 1..k : Append(u, e)[i] = u[i]
      BY <2>1
    <3> QED
      BY <3>1
  <2>4. n = k + 1
    BY <1>1, <1>5, <2>2
  <2>5. \A i \in 1..n : (i \in 1..k /\ i # n) \/ i = n
    BY <2>4
  <2>6. \A i \in 1..n : y[i] = z[i]
    BY <1>3, <1>5, <2>2, <2>3, <2>4, <2>5
  <2>7. Len(y) = Len(z) /\ DOMAIN y = 1..n
    BY <1>3, <2>3, <2>4
  <2>8. y = z
    BY <1>3, <2>6, <2>7, SameSeq
  <2> QED
    BY <2>3, <2>8
<1> QED
  BY <1>1, <1>2, <1>3, <1>4, <1>5 DEF OtherLast

LEMMA NextWordsType ==
  ASSUME NEW x \in SomeWords, NEW c \in Chars PROVE NextWords(x, c) \in SomeWords
<1>1. x \in Seq(Texts) /\ x # <<>> /\ <<>> \in Texts
  BY DEF SomeWords, Texts
<1>2. Append(x, <<>>) \in SomeWords
  BY <1>1, MoreOf DEF SomeWords
<1>3. [x EXCEPT ![Len(x)] = Append(@, c)] \in SomeWords
  <2>1. PICK e : e = Append(x[Len(x)], c)
    OBVIOUS
  <2>2. x[Len(x)] \in Texts
    BY <1>1
  <2>3. e \in Texts
    BY <2>1, <2>2 DEF Texts
  <2>4. [x EXCEPT ![Len(x)] = e] \in SomeWords
    BY <1>1, <2>3, LastOther DEF SomeWords, OtherLast
  <2>5. [x EXCEPT ![Len(x)] = Append(@, c)] = [x EXCEPT ![Len(x)] = e]
    BY <2>1, Zenon
  <2> QED
    BY <2>4, <2>5, Zenon
<1> QED
  BY <1>2, <1>3, Zenon DEF NextWords

\* The text is split character by character.
LEMMA SplitGrows ==
  ASSUME NEW s \in Texts
  PROVE  \E f : /\ Split(s) = f[Len(s)] /\ f[0] = << <<>> >>
                /\ \A i \in 1..Len(s) : f[i] = NextWords(f[i - 1], s[i])
<1> DEFINE n == Len(s)
<1>1. n \in Nat /\ \A i \in 1..n : s[i] \in Chars
  BY DEF Texts
<1> HIDE DEF n
<1>2. PICK step \in [1..n -> [SomeWords -> SomeWords]] :
        \A i \in 1..n : \A x \in SomeWords : step[i][x] = NextWords(x, s[i])
  <2> DEFINE h == [i \in 1..n |-> [x \in SomeWords |-> NextWords(x, s[i])]]
  <2>1. \A i \in 1..n : \A x \in SomeWords : NextWords(x, s[i]) \in SomeWords
    BY <1>1, NextWordsType
  <2>2. h \in [1..n -> [SomeWords -> SomeWords]]
        /\ \A i \in 1..n : \A x \in SomeWords : h[i][x] = NextWords(x, s[i])
    BY <2>1
  <2> HIDE DEF h
  <2> QED
    BY <2>2
<1>3. PICK start : start = << <<>> >>
  OBVIOUS
<1>4. start \in SomeWords
  <2>1. <<>> \in Texts
    BY DEF Texts
  <2> QED
    BY <1>3, <2>1 DEF SomeWords
<1>5. PICK f : Follows(f, SomeWords, n, start, step)
  <2>1. Steps(SomeWords, n, start, step)
    BY <1>1, <1>4 DEF Steps
  <2> QED
    BY <2>1, FiniteRecursion
<1> DEFINE blank(i) == s[i] = " "
           Body(g) ==
      [i \in 0..n |->
        CASE i = 0 -> << <<>> >>
          [] i > 0 /\ blank(i) -> Append(g[i - 1], <<>>)
          [] OTHER -> [g[i - 1] EXCEPT ![Len(g[i - 1])] = Append(@, s[i])]]
           read == CHOOSE g : g = Body(g)
<1> HIDE DEF blank
<1>6. ASSUME NEW g, NEW i \in 1..n PROVE Body(g)[i] = NextWords(g[i - 1], s[i])
  <2>1. i > 0 /\ i # 0 /\ i \in 0..n
    BY <1>1
  <2>2. Body(g)[i] = IF blank(i) THEN Append(g[i - 1], <<>>)
                     ELSE [g[i - 1] EXCEPT ![Len(g[i - 1])] = Append(@, s[i])]
    BY <2>1
  <2> QED
    BY <2>2, Zenon DEF NextWords, blank
<1>7. ASSUME NEW g PROVE Body(g)[0] = start
  <2>1. 0 \in 0..n
    BY <1>1
  <2> QED
    BY <1>3, <2>1
<1>8. \A g : Body(g) = [i \in 0..n |-> Body(g)[i]]
  OBVIOUS
<1> HIDE DEF Body
<1>9. \A i \in 1..n : i - 1 \in 0..n /\ i \in 0..n
  BY <1>1
<1>10. \A i \in 1..n : f[i] = NextWords(f[i - 1], s[i])
  BY <1>2, <1>5, <1>9 DEF Follows
<1>11. \A i \in 0..n : i = 0 \/ i \in 1..n
  BY <1>1
<1>12. \A i \in 0..n : f[i] = Body(f)[i]
  BY <1>5, <1>6, <1>7, <1>10, <1>11, Zenon DEF Follows
<1>13. f = Body(f)
  <2>1. f \in [0..n -> SomeWords]
    BY <1>5 DEF Follows
  <2>2. f = [i \in 0..n |-> f[i]]
    BY <2>1
  <2> QED
    BY <1>8, <1>12, <2>2, Zenon
<1>14. read = Body(read)
  BY <1>13
<1>15. Split(s) = read[n]
  BY Zenon DEF Split, read, Body, blank, n
<1> HIDE DEF read
<1>16. read[0] = start
  BY <1>7, <1>14
<1>17. \A i \in 1..n : read[i] = NextWords(read[i - 1], s[i])
  BY <1>6, <1>14
<1> QED
  BY <1>3, <1>15, <1>16, <1>17, Zenon DEF n

\* No character of the text is a blank.
Unbroken(w) == \A i \in 1..Len(w) : w[i] # " "

\* What stands between blanks are the words.
LEMMA SplitWords ==
  ASSUME NEW s \in Texts, NEW words \in Seq(Texts), NEW n \in Nat \ {0}, n = Len(words),
         NEW pos, WordsAt(s, words, pos), pos[1] = 1, pos[n + 1] = Len(s) + 2,
         \A i \in 1..n : Unbroken(words[i])
  PROVE  Split(s) = words
<1>1. PICK f : /\ Split(s) = f[Len(s)] /\ f[0] = << <<>> >>
               /\ \A i \in 1..Len(s) : f[i] = NextWords(f[i - 1], s[i])
  BY SplitGrows
<1>2. \A i \in 1..n : /\ Holds(s, pos[i], words[i]) /\ pos[i + 1] = pos[i] + Len(words[i]) + 1
                      /\ i < n => At(s, pos[i + 1] - 1, {" "})
  BY Zenon DEF WordsAt
<1>3. \A i \in 1..n : words[i] \in Texts
  OBVIOUS
<1>4. \A i \in 0..n : First(words, i) \in Seq(Texts)
  BY <1>3 DEF First
<1>5. First(words, 0) = <<>> /\ First(words, n) = words /\ \A w : First(w, 0) = <<>>
  BY DEF First
<1>6. \A i \in 1..n : First(words[i], Len(words[i])) = words[i]
  <2>1. \A w \in Texts : First(w, Len(w)) = w
    BY DEF First, Texts
  <2> QED
    BY <1>3, <2>1
\* The words up to character k of word i.
<1> DEFINE Up(i, k) == Append(First(words, i - 1), First(words[i], k))
<1>7. ASSUME NEW i \in 1..n, f[pos[i] - 1] = Up(i, 0)
      PROVE  f[pos[i] + Len(words[i]) - 1] = First(words, i)
  <2>1. PICK w \in Texts, p \in Nat \ {0}, m \in Nat, u \in Seq(Texts) :
          w = words[i] /\ p = pos[i] /\ m = Len(w) /\ u = First(words, i - 1)
    <3>1. words[i] \in Texts /\ i - 1 \in 0..n
      BY <1>3
    <3>2. pos[i] \in Nat \ {0}
      BY <1>2, Zenon DEF Holds
    <3> QED
      BY <1>4, <3>1, <3>2, TextLen
  <2>2. Holds(s, p, w) /\ Unbroken(w)
    BY <1>2, <2>1
  <2>3. \A k \in 0..m : First(w, k) \in Texts
    BY <2>1 DEF First, Texts
  <2> DEFINE T == {k \in Nat : k <= m => f[p + k - 1] = Append(u, First(w, k))}
  <2>4. 0 \in T
    <3>1. p + 0 - 1 = p - 1
      OBVIOUS
    <3> QED
      BY <1>7, <2>1, <3>1
  <2>5. ASSUME NEW k \in Nat, k \in T PROVE k + 1 \in T
    <3> SUFFICES ASSUME k + 1 <= m PROVE f[p + (k + 1) - 1] = Append(u, First(w, k + 1))
      OBVIOUS
    <3>1. PICK x, c, j : x = Append(u, First(w, k)) /\ c = w[k + 1] /\ j = p + k
      OBVIOUS
    <3>2. /\ k + 1 \in 1..m /\ k \in 0..m /\ (k + 1) - 1 = k /\ p + (k + 1) - 1 = j /\ j - 1 = p + k - 1
      BY <2>5, <3>1
    <3>3. f[j - 1] = x
      BY <2>5, <3>1, <3>2
    <3>4. j \in 1..Len(s) /\ s[j] = c /\ c \in Chars
      <4>1. p + m <= Len(s) + 1 /\ Len(s) \in Nat
        BY <2>1, <2>2, HoldsChars, TextLen
      <4>2. w[k + 1] \in Chars
        BY <2>1, <3>2, SMTT(20) DEF Texts
      <4>3. j \in p..(p + m - 1) /\ j - p + 1 = k + 1 /\ j \in 1..Len(s)
        BY <3>1, <3>2, <4>1
      <4>4. s[j] = w[j - p + 1]
        <5>1. \A r \in p..(p + Len(w) - 1) : r - p + 1 \in 1..Len(w) /\ s[r] = w[r - p + 1]
          BY <2>2, HoldsChars, ZenonT(30)
        <5>2. j \in p..(p + Len(w) - 1)
          BY <2>1, <4>3
        <5> QED
          BY <5>1, <5>2
      <4> QED
        BY <3>1, <4>2, <4>3, <4>4
    <3>5. f[j] = NextWords(x, c)
      BY <1>1, <3>3, <3>4
    <3>6. c # " "
      BY <2>1, <2>2, <3>1, <3>2, Zenon DEF Unbroken
    <3>7. x[Len(x)] = First(w, k) /\ x \in Seq(Texts) /\ x # <<>>
      <4>1. First(w, k) \in Texts
        BY <2>3, <3>2
      <4>2. Append(u, First(w, k)) \in Seq(Texts) \ {<<>>}
        BY <4>1, MoreOf
      <4>3. x[Len(x)] = First(w, k)
        BY <3>1, <4>1
      <4> QED
        BY <3>1, <4>2, <4>3
    <3>8. Append(First(w, k), c) = First(w, k + 1)
      BY <2>1, <3>1, <3>2, FirstGrows
    <3>9. NextWords(x, c) = [x EXCEPT ![Len(x)] = First(w, k + 1)]
      <4>1. [x EXCEPT ![Len(x)] = Append(@, c)] = [x EXCEPT ![Len(x)] = Append(x[Len(x)], c)]
        BY Zenon
      <4>2. NextWords(x, c) = [x EXCEPT ![Len(x)] = Append(@, c)]
        BY <3>6, Zenon DEF NextWords
      <4> QED
        BY <3>7, <3>8, <4>1, <4>2, Zenon
    <3>10. [x EXCEPT ![Len(x)] = First(w, k + 1)] = Append(u, First(w, k + 1))
      <4>1. First(w, k) \in Texts /\ First(w, k + 1) \in Texts
        BY <2>3, <3>2
      <4>2. PICK e \in Texts : e = First(w, k + 1)
        BY <4>1
      <4>3. x \in Seq(Texts) /\ x # <<>>
        BY <3>7
      <4>4. \A y \in Seq(Texts) : \A z \in Texts :
              x = Append(y, z) => [x EXCEPT ![Len(x)] = e] = Append(y, e)
        <5>1. \A d \in Texts : OtherLast(x, d, Texts)
          BY <4>3, LastOther, Zenon
        <5> QED
          BY <4>2, <5>1, Zenon DEF OtherLast
      <4> QED
        BY <2>1, <3>1, <4>1, <4>2, <4>4, Zenon
    <3> QED
      BY <3>2, <3>5, <3>9, <3>10
  <2>6. \A k \in Nat : k \in T
    <3> HIDE DEF T
    <3> QED
      BY <2>4, <2>5, Induction
  <2>7. f[p + m - 1] = Append(u, First(w, m))
    <3>1. m \in T
      BY <2>6
    <3> QED
      BY <3>1
  <2>8. First(w, m) = words[i]
    BY <1>6, <2>1
  <2>9. First(words, i) = Append(First(words, i - 1), words[i])
    BY FirstGrows
  <2> QED
    BY <2>1, <2>7, <2>8, <2>9
<1> DEFINE Q == {i \in Nat : i + 1 <= n => f[pos[i + 1] - 1] = Up(i + 1, 0)}
<1>8. 0 \in Q
  <2>1. pos[1] - 1 = 0 /\ 0 + 1 = 1 /\ 1 - 1 = 0
    OBVIOUS
  <2>2. Append(<<>>, <<>>) = << <<>> >>
    OBVIOUS
  <2>3. Up(1, 0) = << <<>> >>
    BY <1>5, <2>1, <2>2
  <2>4. f[pos[1] - 1] = Up(1, 0)
    BY <1>1, <2>1, <2>3
  <2> HIDE DEF Up
  <2> QED
    BY <2>1, <2>4
<1>9. ASSUME NEW i \in Nat, i \in Q PROVE i + 1 \in Q
  <2> SUFFICES ASSUME i + 1 + 1 <= n PROVE f[pos[i + 1 + 1] - 1] = Up(i + 1 + 1, 0)
    OBVIOUS
  <2>1. PICK j \in 1..n : j = i + 1 /\ j < n /\ j + 1 \in 1..n /\ (j + 1) - 1 = j
    <3>1. i + 1 \in 1..n /\ i + 1 < n /\ i + 1 + 1 \in 1..n /\ (i + 1 + 1) - 1 = i + 1
      OBVIOUS
    <3> QED
      BY <3>1
  <2>2. f[pos[j] - 1] = Up(j, 0)
    BY <1>9, <2>1
  <2>3. f[pos[j] + Len(words[j]) - 1] = First(words, j)
    BY <1>7, <2>2
  <2>4. PICK q : q = pos[j] + Len(words[j])
    OBVIOUS
  <2>5. PICK p \in Nat \ {0}, l \in Nat : p = pos[j] /\ l = Len(words[j])
    <3>1. pos[j] \in Nat \ {0}
      BY <1>2, Zenon DEF Holds
    <3>2. Len(words[j]) \in Nat
      BY <1>3, TextLen
    <3> QED
      BY <3>1, <3>2
  <2>6. pos[j + 1] - 1 = q /\ q \in Nat
    <3>1. pos[j + 1] = p + l + 1 /\ q = p + l
      BY <1>2, <2>4, <2>5
    <3> QED
      BY <3>1
  <2>7. At(s, q, {" "})
    BY <1>2, <2>1, <2>6
  <2>8. q \in DOMAIN s /\ s[q] = " "
    BY <2>7, Zenon DEF At
  <2>9. q \in 1..Len(s)
    BY <2>8, TextLen
  <2>10. f[q] = NextWords(f[q - 1], s[q])
    BY <1>1, <2>9
  <2>11. f[q] = Append(First(words, j), <<>>)
    <3>1. f[q - 1] = First(words, j)
      <4>1. p + l = q => p + l - 1 = q - 1
        OBVIOUS
      <4>2. pos[j] + Len(words[j]) - 1 = q - 1
        BY <2>4, <2>5, <4>1, Zenon
      <4> QED
        BY <2>3, <4>2, Zenon
    <3> QED
      BY <2>8, <2>10, <3>1, Zenon DEF NextWords
  <2>12. Up(j + 1, 0) = Append(First(words, j), <<>>)
    BY <1>5, <2>1
  <2> HIDE DEF Up
  <2> QED
    BY <2>1, <2>6, <2>11, <2>12
<1>10. \A i \in Nat : i \in Q
  <2> HIDE DEF Q
  <2> QED
    BY <1>8, <1>9, Induction
<1>11. f[pos[n] - 1] = Up(n, 0)
  <2>1. n - 1 \in Nat /\ n - 1 + 1 = n
    OBVIOUS
  <2>2. n - 1 \in Q
    BY <1>10, <2>1
  <2> HIDE DEF Up
  <2> QED
    BY <2>1, <2>2
<1>12. n \in 1..n
  OBVIOUS
<1>13. f[pos[n] + Len(words[n]) - 1] = words
  BY <1>5, <1>7, <1>11, <1>12
<1>14. pos[n] + Len(words[n]) - 1 = Len(s)
  <2>1. PICK p \in Nat \ {0}, l \in Nat : p = pos[n] /\ l = Len(words[n])
    <3>1. pos[n] \in Nat \ {0}
      BY <1>2, <1>12, Zenon DEF Holds
    <3>2. Len(words[n]) \in Nat
      BY <1>3, <1>12, TextLen
    <3> QED
      BY <3>1, <3>2
  <2>2. Len(s) + 2 = p + l + 1 /\ Len(s) \in Nat
    BY <1>2, <1>12, <2>1, TextLen
  <2>3. p + l - 1 = Len(s)
    BY <2>2
  <2> QED
    BY <2>1, <2>3
<1> QED
  BY <1>1, <1>13, <1>14

-----------------------------------------------------------------------------
(* A list's line, and where a delimited list ends. *)

Brace == {"}"}
Unbraced(w) == \A j \in 1..Len(w) : w[j] \notin Brace

\* The words of a list and of its count.
IsListOf(words, count, items, m) ==
  /\ words \in Seq(Texts) /\ Len(words) = m + 3 /\ words[1] = Decimal[count]
  /\ words[2] = <<"{">> /\ words[m + 3] = <<"}">>
  /\ \A i \in 1..m : words[i + 2] = items[i]

LEMMA ListLine ==
  ASSUME NEW items \in Seq(Texts), NEW m \in Nat, m = Len(items), NEW count \in UInt32
  PROVE  \E words, pos : /\ IsListOf(words, count, items, m)
                         /\ WordsStand(ListOf(count, items) \o <<"LF">>, words, m + 3, pos)
<1>1. PICK a, o, c : a = Decimal[count] /\ o = <<"{">> /\ c = <<"}">>
  OBVIOUS
<1>2. a \in Texts /\ o \in Texts /\ c \in Texts
  <2>1. PICK x \in Chars, y \in Chars : x = "{" /\ y = "}"
    BY MoreChars, Zenon
  <2>2. <<x>> \in Texts /\ <<y>> \in Texts
    BY DEF Texts
  <2>3. count \in Nat
    BY WordSize DEF UInt32
  <2>4. a \in Texts
    BY <1>1, <2>3, DecimalInTexts, Zenon
  <2> QED
    BY <1>1, <2>1, <2>2, <2>4, Zenon
<1>3. PICK words : words = <<a, o>> \o items \o <<c>>
  OBVIOUS
<1>4. /\ words \in Seq(Texts) /\ Len(words) = m + 3 /\ words[1] = a /\ words[2] = o
      /\ \A i \in 1..m : words[i + 2] = items[i]
      /\ words[m + 3] = c
  BY <1>2, <1>3, ListWords
<1>5. m + 3 \in Nat \ {0}
  OBVIOUS
<1>6. LineOf(words) = ListOf(count, items) \o <<"LF">>
  BY <1>1, <1>3, Zenon DEF LineOf, ListOf
<1>7. PICK pos : WordsStand(LineOf(words), words, m + 3, pos)
  BY <1>4, <1>5, LineOfWords, Zenon
<1>8. IsListOf(words, count, items, m)
  BY <1>1, <1>4, Zenon DEF IsListOf
<1> QED
  BY <1>6, <1>7, <1>8, Zenon

\* Words stand one after the other.
LEMMA WordsInOrder ==
  ASSUME NEW s, NEW words, NEW n \in Nat, NEW pos, WordsStand(s, words, n, pos),
         NEW i \in 1..(n + 1), NEW k \in Nat, i + k <= n + 1
  PROVE  pos[i] + k <= pos[i + k]
<1> DEFINE T == {j \in Nat : i + j <= n + 1 => pos[i] + j <= pos[i + j]}
<1>1. \A j \in 1..(n + 1) : pos[j] \in Nat
  BY DEF WordsStand
<1>2. \A j \in 1..n : pos[j + 1] = pos[j] + Len(words[j]) + 1 /\ Len(words[j]) \in Nat
  BY Zenon DEF WordsStand
<1>3. 0 \in T
  BY <1>1
<1>4. ASSUME NEW j \in Nat, j \in T PROVE j + 1 \in T
  <2> SUFFICES ASSUME i + (j + 1) <= n + 1 PROVE pos[i] + (j + 1) <= pos[i + (j + 1)]
    OBVIOUS
  <2>1. PICK h \in 1..n : h = i + j
    <3>1. i + j \in 1..n
      OBVIOUS
    <3> QED
      BY <3>1
  <2>2. i + (j + 1) = h + 1 /\ h \in 1..(n + 1) /\ h + 1 \in 1..(n + 1)
    BY <2>1
  <2>3. PICK a \in Nat, b \in Nat, l \in Nat, d \in Nat :
          a = pos[i] /\ b = pos[h] /\ l = Len(words[h]) /\ d = pos[h + 1]
    BY <1>1, <1>2, <2>2
  <2>4. a + j <= b
    BY <1>4, <2>1, <2>2, <2>3
  <2>5. d = b + l + 1
    BY <1>2, <2>3
  <2>6. a + (j + 1) <= d
    BY <2>4, <2>5
  <2> QED
    BY <2>2, <2>3, <2>6
<1>5. \A j \in Nat : j \in T
  <2> HIDE DEF T
  <2> QED
    BY <1>3, <1>4, Induction
<1> QED
  BY <1>5

NoBlankIn(C) == " " \notin C
OpensAt(s, p) == Holds(s, p, <<"{">>)

\* A word, with the blank after it, in which no character is one of some.
LEMMA WordWithout ==
  ASSUME NEW s, NEW words, NEW n \in Nat, NEW pos, WordsStand(s, words, n, pos),
         NEW i \in 1..n, i < n, NEW C, NoBlankIn(C), \A j \in 1..Len(words[i]) : words[i][j] \notin C
  PROVE  \A r \in pos[i]..(pos[i + 1] - 1) : s[r] \notin C
<1>1. /\ Holds(s, pos[i], words[i]) /\ pos[i + 1] = pos[i] + Len(words[i]) + 1
      /\ Len(words[i]) \in Nat /\ pos[i] \in Nat \ {0} /\ pos[i + 1] \in Nat \ {0}
      /\ Blanks(s, pos[i + 1] - 1, pos[i + 1])
  BY Zenon DEF WordsStand
<1>2. PICK w : w = words[i]
  OBVIOUS
<1>3. PICK p \in Nat \ {0}, l \in Nat, q \in Nat \ {0} : p = pos[i] /\ l = Len(w) /\ q = pos[i + 1]
  BY <1>1, <1>2
<1>4. q = p + l + 1
  BY <1>1, <1>2, <1>3, Zenon
<1>5. \A j \in 1..l : s[p + j - 1] = w[j]
  BY <1>1, <1>2, <1>3, Zenon DEF Holds
<1>6. s[q - 1] \notin C
  <2>1. q - 1 \in (q - 1)..(q - 1)
    OBVIOUS
  <2>2. s[q - 1] = " "
    BY <1>1, <1>3, <2>1, Zenon DEF Blanks
  <2> QED
    BY <2>2, Zenon DEF NoBlankIn
<1>7. ASSUME NEW r \in p..(q - 1) PROVE s[r] \notin C
  <2>1. r = q - 1 \/ (r - p + 1 \in 1..l /\ p + (r - p + 1) - 1 = r)
    BY <1>4
  <2>2. CASE r = q - 1
    BY <1>6, <2>2, Zenon
  <2>3. CASE r # q - 1
    <3>1. PICK j \in 1..l : j = r - p + 1 /\ p + j - 1 = r
      BY <2>1, <2>3
    <3>2. s[r] = w[j]
      BY <1>5, <3>1
    <3>3. w[j] \notin C
      BY <1>2, <1>3, Zenon
    <3> QED
      BY <3>2, <3>3, Zenon
  <2> QED
    BY <2>2, <2>3
<1> QED
  BY <1>7, <1>3, Zenon

LEMMA BraceIs == NoBlankIn(Brace) /\ "{" \notin Brace /\ "H" \notin Brace /\ "}" \in Brace
  BY DEF Brace, NoBlankIn

LEMMA DigitsUnbraced == \A c \in DigitChars : c \notin Brace
  BY NoDigits, Zenon DEF Brace

\* No brace closes before word k.
LEMMA NoBraceBefore ==
  ASSUME NEW s, NEW words, NEW n \in Nat, NEW pos, WordsStand(s, words, n, pos),
         NEW k \in 1..n, \A i \in 1..(k - 1) : i >= 2 => Unbraced(words[i])
  PROVE  \A r \in pos[2]..(pos[k] - 1) : s[r] \notin Brace
<1> DEFINE Clear(j) == \A r \in pos[2]..(pos[j] - 1) : s[r] \notin Brace
           T == {j \in Nat : j + 2 <= k => Clear(j + 2)}
<1>1. \A j \in 1..n : pos[j] \in Nat /\ pos[j + 1] \in Nat
  BY DEF WordsStand
<1>2. 0 \in T
  <2>1. 0 + 2 <= k => Clear(0 + 2)
    <3> SUFFICES ASSUME 0 + 2 <= k PROVE Clear(0 + 2)
      OBVIOUS
    <3>1. 2 \in 1..n /\ 0 + 2 = 2
      OBVIOUS
    <3>2. pos[2] \in Nat
      BY <1>1, <3>1
    <3>3. \A r \in pos[2]..(pos[2] - 1) : FALSE
      BY <3>2
    <3> QED
      BY <3>1, <3>3
  <2> HIDE DEF Clear
  <2> QED
    BY <2>1
<1>3. ASSUME NEW j \in Nat, j \in T PROVE j + 1 \in T
  <2>1. ASSUME j + 1 + 2 <= k PROVE Clear(j + 1 + 2)
    <3>1. PICK h \in 1..n : h = j + 2 /\ h < n /\ h \in 1..(k - 1) /\ h >= 2 /\ h + 1 = j + 1 + 2
      <4>1. /\ j + 2 \in 1..n /\ j + 2 < n /\ j + 2 \in 1..(k - 1) /\ j + 2 >= 2
            /\ (j + 2) + 1 = j + 1 + 2
        BY <2>1
      <4> QED
        BY <4>1
    <3>2. Clear(h)
      <4> HIDE DEF Clear
      <4> QED
        BY <1>3, <2>1, <3>1
    <3>3. \A c \in 1..Len(words[h]) : words[h][c] \notin Brace
      BY <3>1, Zenon DEF Unbraced
    <3>4. \A r \in pos[h]..(pos[h + 1] - 1) : s[r] \notin Brace
      BY <3>1, <3>3, BraceIs, WordWithout, Zenon
    <3>5. PICK a \in Nat, b \in Nat : a = pos[h] /\ b = pos[h + 1]
      BY <1>1
    <3>6. PICK o \in Nat : o = pos[2]
      <4>1. 2 \in 1..n
        BY <3>1
      <4> QED
        BY <1>1, <4>1
    <3>7. ASSUME NEW r \in o..(b - 1) PROVE s[r] \notin Brace
      <4>1. r \in o..(a - 1) \/ r \in a..(b - 1)
        BY <3>5
      <4> QED
        BY <3>2, <3>4, <3>5, <3>6, <4>1
    <3>8. \A r \in pos[2]..(pos[h + 1] - 1) : s[r] \notin Brace
      BY <3>5, <3>6, <3>7, Zenon
    <3> QED
      BY <3>1, <3>8
  <2> HIDE DEF Clear
  <2> QED
    BY <2>1
<1>4. \A j \in Nat : j \in T
  <2> HIDE DEF T
  <2> QED
    BY <1>2, <1>3, Induction
<1>5. CASE k >= 2
  <2>1. k - 2 \in Nat /\ k - 2 + 2 = k
    BY <1>5
  <2>2. k - 2 \in T
    BY <1>4, <2>1
  <2>3. Clear(k)
    <3> HIDE DEF Clear
    <3> QED
      BY <2>1, <2>2
  <2> QED
    BY <2>3
<1>6. CASE k = 1
  <2>1. pos[1] = 1 /\ 1 \in 1..n
    BY <1>6 DEF WordsStand
  <2>2. PICK o \in Nat : o = pos[2]
    <3>1. pos[1 + 1] \in Nat
      BY <1>1, <2>1
    <3> QED
      BY <3>1
  <2>3. ASSUME NEW r \in o..(1 - 1) PROVE FALSE
    <3>1. pos[1] + 1 <= pos[1 + 1]
      <4>1. 1 \in 1..(n + 1) /\ 1 + 1 <= n + 1
        BY <2>1
      <4> QED
        BY <4>1, WordsInOrder
    <3> QED
      BY <2>1, <2>2, <3>1
  <2> QED
    BY <1>6, <2>1, <2>2, <2>3
<1> QED
  BY <1>5, <1>6

\* A part of a line has the words that stand in it.
LEMMA CutHolds ==
  ASSUME NEW s \in Texts, NEW w, Len(w) \in Nat, NEW a \in Nat \ {0}, NEW b \in Nat, a <= b,
         b <= Len(s) + 1, NEW p \in Nat, a <= p, p + Len(w) <= b, Holds(s, p, w),
         NEW q \in Nat, q = p - a + 1
  PROVE  Holds(Cut(s, a, b), q, w)
<1>1. PICK l, x : l \in Nat /\ l = Len(w) /\ x = Cut(s, a, b)
  OBVIOUS
<1>2. Len(x) = b - a /\ \A i \in 1..(b - a) : x[i] = s[a + i - 1]
  BY <1>1, CutText, ZenonT(30)
<1>3. \A i \in 1..l : s[p + i - 1] = w[i]
  BY <1>1, Zenon DEF Holds
<1>4. q \in Nat \ {0} /\ q + l <= Len(x) + 1
  BY <1>1, <1>2
<1>5. ASSUME NEW i \in 1..l PROVE x[q + i - 1] = w[i]
  <2>1. q + i - 1 \in 1..(b - a) /\ a + (q + i - 1) - 1 = p + i - 1
    BY <1>1
  <2>2. x[q + i - 1] = s[p + i - 1]
    BY <1>2, <2>1
  <2> QED
    BY <1>3, <2>2
<1> QED
  BY <1>1, <1>4, <1>5, Zenon DEF Holds

\* What readDelimitedList takes up to the first brace.
LEMMA DelimitedReads ==
  ASSUME NEW s \in Texts, NEW p \in Nat \ {0}, OpensAt(s, p),
         NEW e \in Nat, p < e, e <= Len(s), s[e] \in Brace,
         \A r \in p..(e - 1) : s[r] \notin Brace
  PROVE  ReadDelimitedList(s, p) = [v |-> Cut(s, p, e + 1), next |-> e + 1, ok |-> TRUE]
<1>1. Find(s, p + 1, Brace) = e
  <2>1. /\ p + 1 \in Nat /\ p + 1 <= e /\ e <= Len(s) + 1
        /\ \A r \in (p + 1)..(e - 1) : r \in p..(e - 1)
    BY TextLen
  <2>2. \A r \in (p + 1)..(e - 1) : s[r] \notin Brace
    BY <2>1
  <2> QED
    BY <2>1, <2>2, FindAt
<1>2. At(s, p, {"{"})
  <2>1. p \in DOMAIN s /\ s[p] = "{"
    BY MoreChars, HoldsOne, Zenon DEF OpensAt
  <2> QED
    BY <2>1, Zenon DEF At
<1>3. SubSeq(s, p, e) = Cut(s, p, e + 1)
  <2>1. e + 1 - 1 = e
    OBVIOUS
  <2> QED
    BY <2>1 DEF Cut
<1>4. e <= Len(s) <=> TRUE
  OBVIOUS
<1>5. Find(s, p + 1, {"}"}) = e
  BY <1>1, Zenon DEF Brace
<1> QED
  BY <1>2, <1>3, <1>4, <1>5, Zenon DEF ReadDelimitedList

\* Where a list begins and ends.
ListBounds(s, count, m, pos) ==
  /\ s \in Texts /\ ReadUInt32(s, 1) = Value(count, pos[2]) /\ OpensAt(s, pos[2])
  /\ \A i \in 1..(m + 4) : pos[i] \in Nat \ {0}
  /\ pos[3] = pos[2] + 2 /\ pos[2] < pos[m + 3] /\ pos[m + 3] + 2 = pos[m + 4]
  /\ pos[m + 4] = Len(s) + 1 /\ s[pos[m + 3]] \in Brace

LEMMA ListBegins ==
  ASSUME NEW s, NEW words, NEW count \in UInt32, NEW items, NEW m \in Nat, NEW pos,
         IsListOf(words, count, items, m), WordsStand(s, words, m + 3, pos)
  PROVE  ListBounds(s, count, m, pos)
<1>1. m + 3 \in Nat /\ 1 \in 1..(m + 3) /\ 2 \in 1..(m + 3) /\ m + 3 \in 1..(m + 3)
      /\ m + 3 + 1 = m + 4 /\ 2 + 1 = 3 /\ 1 + 1 = 2
  OBVIOUS
<1>2. s \in Texts /\ pos[1] = 1 /\ pos[m + 4] = Len(s) + 1
  BY <1>1, Zenon DEF WordsStand
<1>3. \A i \in 1..(m + 3) : /\ pos[i] \in Nat \ {0} /\ pos[i + 1] \in Nat \ {0}
                            /\ Holds(s, pos[i], words[i]) /\ pos[i + 1] = pos[i] + Len(words[i]) + 1
  BY Zenon DEF WordsStand
<1>4. ReadUInt32(s, 1) = Value(count, pos[2])
  <2>1. words[1] = Decimal[count]
    BY Zenon DEF IsListOf
  <2>2. ReadUInt32(s, pos[1]) = Value(count, pos[1 + 1])
    BY <1>1, <2>1, NumberWord
  <2> QED
    BY <1>1, <1>2, <2>2, Zenon
<1>5. words[2] = <<"{">> /\ words[m + 3] = <<"}">> /\ Len(words[2]) = 1 /\ Len(words[m + 3]) = 1
  <2>1. words[2] = <<"{">> /\ words[m + 3] = <<"}">>
    BY Zenon DEF IsListOf
  <2> QED
    BY <2>1, Len1, Zenon
<1>6. OpensAt(s, pos[2])
  BY <1>1, <1>3, <1>5, Zenon DEF OpensAt
<1>7. \A i \in 1..(m + 4) : pos[i] \in Nat \ {0}
  <2>1. \A i \in 1..(m + 4) : i \in 1..(m + 3) \/ i = m + 4
    OBVIOUS
  <2> QED
    BY <1>1, <1>3, <2>1, Zenon
<1>8. s[pos[m + 3]] \in Brace
  <2>1. Holds(s, pos[m + 3], <<"}">>)
    BY <1>1, <1>3, <1>5, ZenonT(30)
  <2>2. s[pos[m + 3]] = "}"
    BY <1>2, <2>1, HoldsOne, MoreChars, ZenonT(30)
  <2> QED
    BY <2>2, BraceIs, Zenon
<1>9. PICK a, b, l \in Nat : l = 1 /\ a = Len(words[2]) /\ b = Len(words[m + 3]) /\ a = l /\ b = l
  <2>1. 1 \in Nat
    OBVIOUS
  <2> QED
    BY <1>5, <2>1, Zenon
<1>10. pos[2 + 1] = pos[2] + a + 1 /\ pos[m + 3 + 1] = pos[m + 3] + b + 1
  BY <1>1, <1>3, <1>9, Zenon
<1>11. pos[3] = pos[2] + 2 /\ pos[m + 3] + 2 = pos[m + 4]
  <2>1. pos[2] \in Nat /\ pos[m + 3] \in Nat
    BY <1>1, <1>3
  <2>2. pos[3] = pos[2] + a + 1 /\ pos[m + 4] = pos[m + 3] + b + 1
    BY <1>1, <1>10, Zenon
  <2> QED
    BY <1>9, <2>1, <2>2
<1>12. pos[2] < pos[m + 3]
  <2>1. /\ 2 \in 1..(m + 3 + 1) /\ m + 1 \in Nat /\ 2 + (m + 1) <= m + 3 + 1 /\ 2 + (m + 1) = m + 3
    OBVIOUS
  <2>2. pos[2] + (m + 1) <= pos[2 + (m + 1)]
    BY <1>1, <2>1, WordsInOrder, Zenon
  <2>3. pos[2] \in Nat /\ pos[m + 3] \in Nat
    BY <1>1, <1>3
  <2>4. pos[2] + (m + 1) <= pos[m + 3]
    BY <2>1, <2>2, Zenon
  <2> QED
    BY <2>3, <2>4
<1> QED
  BY <1>2, <1>4, <1>6, <1>7, <1>8, <1>11, <1>12 DEF ListBounds

ReadsWhole(s, m, pos) ==
  LET e == pos[m + 3]
  IN  ReadDelimitedList(s, pos[2]) = [v |-> Cut(s, pos[2], e + 1), next |-> e + 1, ok |-> TRUE]

\* A list without a brace in an item is read up to its end.
LEMMA WholeList ==
  ASSUME NEW s, NEW words, NEW count \in UInt32, NEW items, NEW m \in Nat, NEW pos,
         IsListOf(words, count, items, m), WordsStand(s, words, m + 3, pos),
         \A i \in 1..m : Unbraced(items[i])
  PROVE  ReadsWhole(s, m, pos)
<1>1. ListBounds(s, count, m, pos)
  BY ListBegins
<1>2. PICK e \in Nat \ {0}, p \in Nat \ {0} : e = pos[m + 3] /\ p = pos[2]
  <2>1. m + 3 \in 1..(m + 4) /\ 2 \in 1..(m + 4)
    OBVIOUS
  <2> QED
    BY <1>1, <2>1 DEF ListBounds
<1>3. s \in Texts /\ OpensAt(s, p) /\ p < e /\ e <= Len(s) /\ s[e] \in Brace
  <2>1. s \in Texts /\ OpensAt(s, p) /\ p < e /\ e + 2 = Len(s) + 1 /\ s[e] \in Brace
    BY <1>1, <1>2 DEF ListBounds
  <2>2. Len(s) \in Nat
    BY <2>1, TextLen
  <2> QED
    BY <2>1, <2>2
<1>4. \A r \in p..(e - 1) : s[r] \notin Brace
  <2>1. m + 3 \in Nat /\ m + 3 \in 1..(m + 3) /\ m + 3 - 1 = m + 2
    OBVIOUS
  <2>2. \A i \in 1..(m + 2) : i >= 2 => i = 2 \/ (i - 2 \in 1..m /\ i = (i - 2) + 2)
    OBVIOUS
  <2>3. Unbraced(words[2])
    <3>1. words[2] = <<"{">>
      BY Zenon DEF IsListOf
    <3>2. PICK c : c = "{"
      OBVIOUS
    <3>3. words[2] = <<c>> /\ c \notin Brace
      BY <3>1, <3>2, BraceIs, Zenon
    <3> QED
      BY <3>3 DEF Unbraced
  <2>4. \A i \in 1..m : words[i + 2] = items[i]
    BY Zenon DEF IsListOf
  <2>5. \A i \in 1..(m + 2) : i >= 2 => Unbraced(words[i])
    BY <2>2, <2>3, <2>4, Zenon
  <2>6. \A i \in 1..(m + 3 - 1) : i >= 2 => Unbraced(words[i])
    BY <2>1, <2>5
  <2>7. \A r \in pos[2]..(pos[m + 3] - 1) : s[r] \notin Brace
    BY <2>1, <2>6, NoBraceBefore
  <2> QED
    BY <1>2, <2>7
<1>5. ReadDelimitedList(s, p) = [v |-> Cut(s, p, e + 1), next |-> e + 1, ok |-> TRUE]
  BY <1>3, <1>4, DelimitedReads
<1> QED
  BY <1>2, <1>5, Zenon DEF ReadsWhole

BlankAt(s, q) == At(s, q, {" "})

WordsInList(s, words, m, pos) ==
  LET ar == Cut(s, pos[2], pos[m + 3] + 1)
  IN  /\ ar \in Texts
      /\ \A i \in 2..(m + 3) : /\ Holds(ar, pos[i] - pos[2] + 1, words[i])
                               /\ pos[i] - pos[2] + 1 \in Nat \ {0}
                               /\ pos[i] - pos[2] + 1 + Len(words[i]) <= Len(ar) + 1
                               /\ i < m + 3 => BlankAt(ar, pos[i + 1] - pos[2])
      /\ Len(ar) = pos[m + 3] - pos[2] + 1

\* The words of a list that was read to its end.
LEMMA WordsOfList ==
  ASSUME NEW s, NEW words, NEW count \in UInt32, NEW items, NEW m \in Nat, NEW pos,
         IsListOf(words, count, items, m), WordsStand(s, words, m + 3, pos)
  PROVE  WordsInList(s, words, m, pos)
<1>1. ListBounds(s, count, m, pos)
  BY ListBegins
<1>2. PICK e \in Nat \ {0}, p \in Nat \ {0} : e = pos[m + 3] /\ p = pos[2]
  <2>1. m + 3 \in 1..(m + 4) /\ 2 \in 1..(m + 4)
    OBVIOUS
  <2> QED
    BY <1>1, <2>1 DEF ListBounds
<1>3. s \in Texts /\ p < e /\ e + 2 = Len(s) + 1 /\ e + 2 = pos[m + 4] /\ Len(s) \in Nat
  BY <1>1, <1>2, TextLen DEF ListBounds
<1>4. PICK ar : ar = Cut(s, p, e + 1)
  OBVIOUS
<1>5. ar \in Texts /\ Len(ar) = e - p + 1 /\ \A i \in 1..(e + 1 - p) : ar[i] = s[p + i - 1]
  <2>1. e + 1 \in Nat /\ p <= e + 1 /\ e + 1 <= Len(s) + 1 /\ e + 1 - p = e - p + 1
    BY <1>3
  <2>2. ar \in Texts /\ Len(ar) = e + 1 - p /\ \A i \in 1..(e + 1 - p) : ar[i] = s[p + i - 1]
    <3>1. PICK q \in Nat : q = e + 1 /\ p <= q /\ q <= Len(s) + 1
      BY <2>1
    <3>2. ar = Cut(s, p, q)
      BY <1>4, <3>1, Zenon
    <3>3. ar \in Texts /\ Len(ar) = q - p /\ \A i \in 1..(q - p) : ar[i] = s[p + i - 1]
      BY <1>3, <3>1, <3>2, CutText, ZenonT(30)
    <3>4. q - p = e + 1 - p
      BY <3>1
    <3> QED
      BY <3>3, <3>4
  <2> QED
    BY <2>1, <2>2
<1>6. ASSUME NEW i \in 2..(m + 3)
      PROVE  /\ Holds(ar, pos[i] - p + 1, words[i]) /\ pos[i] - p + 1 \in Nat \ {0}
             /\ pos[i] - p + 1 + Len(words[i]) <= Len(ar) + 1
             /\ i < m + 3 => BlankAt(ar, pos[i + 1] - p)
  <2>1. i \in 1..(m + 3) /\ m + 3 \in Nat
    OBVIOUS
  <2>2. /\ Holds(s, pos[i], words[i]) /\ pos[i + 1] = pos[i] + Len(words[i]) + 1
        /\ Len(words[i]) \in Nat /\ pos[i] \in Nat \ {0} /\ pos[i + 1] \in Nat \ {0}
        /\ i < m + 3 => Blanks(s, pos[i + 1] - 1, pos[i + 1])
    BY <2>1, Zenon DEF WordsStand
  <2>3. PICK a \in Nat \ {0}, l \in Nat, b \in Nat \ {0} :
          a = pos[i] /\ l = Len(words[i]) /\ b = pos[i + 1]
    BY <2>2
  <2>4. b = a + l + 1
    BY <2>2, <2>3, Zenon
  <2>5. p <= a /\ a + l + 1 <= e + 2
    <3>1. pos[2] + (i - 2) <= pos[2 + (i - 2)]
      <4>1. 2 \in 1..(m + 3 + 1) /\ i - 2 \in Nat /\ 2 + (i - 2) <= m + 3 + 1
        OBVIOUS
      <4> QED
        BY <2>1, <4>1, WordsInOrder
    <3>2. pos[i + 1] + (m + 3 - i) <= pos[i + 1 + (m + 3 - i)]
      <4>1. i + 1 \in 1..(m + 3 + 1) /\ m + 3 - i \in Nat /\ i + 1 + (m + 3 - i) <= m + 3 + 1
        OBVIOUS
      <4> QED
        BY <2>1, <4>1, WordsInOrder
    <3>3. 2 + (i - 2) = i /\ i + 1 + (m + 3 - i) = m + 4
      OBVIOUS
    <3>4. p + (i - 2) <= a /\ b + (m + 3 - i) <= e + 2
      BY <1>2, <1>3, <2>3, <3>1, <3>2, <3>3
    <3> QED
      BY <2>4, <3>4
  <2>6. Holds(ar, a - p + 1, words[i])
    <3>1. /\ e + 1 \in Nat /\ p <= e + 1 /\ e + 1 <= Len(s) + 1 /\ a + l <= e + 1
          /\ a - p + 1 \in Nat
      BY <1>3, <2>5
    <3>2. Holds(s, a, words[i])
      BY <2>2, <2>3, Zenon
    <3> QED
      BY <1>3, <1>4, <2>3, <2>5, <3>1, <3>2, CutHolds
  <2>7. a - p + 1 \in Nat \ {0} /\ a - p + 1 + l <= e - p + 1 + 1
    BY <2>5
  <2>8. ASSUME i < m + 3 PROVE BlankAt(ar, b - p)
    <3>1. b <= e /\ p < b
      <4>1. pos[i + 1] + (m + 3 - (i + 1)) <= pos[i + 1 + (m + 3 - (i + 1))]
        <5>1. /\ i + 1 \in 1..(m + 3 + 1) /\ m + 3 - (i + 1) \in Nat
              /\ i + 1 + (m + 3 - (i + 1)) <= m + 3 + 1
          BY <2>8
        <5> QED
          BY <2>1, <5>1, WordsInOrder
      <4>2. i + 1 + (m + 3 - (i + 1)) = m + 3
        OBVIOUS
      <4>3. b + (m + 3 - (i + 1)) <= e
        BY <1>2, <2>3, <4>1, <4>2
      <4> QED
        BY <2>4, <2>5, <2>8, <4>3
    <3>2. b - 1 \in (b - 1)..(b - 1) /\ b - p \in 1..(e + 1 - p) /\ p + (b - p) - 1 = b - 1
          /\ b - p \in 1..(e - p + 1)
      BY <3>1
    <3>3. s[b - 1] = " "
      BY <2>2, <2>3, <2>8, <3>2, Zenon DEF Blanks
    <3>4. ar[b - p] = s[b - 1] /\ b - p \in DOMAIN ar
      <4>1. DOMAIN ar = 1..Len(ar)
        BY <1>5, TextLen
      <4>2. ar[b - p] = s[p + (b - p) - 1]
        BY <1>5, <3>2
      <4> QED
        BY <1>5, <3>2, <4>1, <4>2
    <3> QED
      BY <3>3, <3>4, Zenon DEF BlankAt, At
  <2> QED
    BY <1>5, <2>3, <2>6, <2>7, <2>8, Zenon
<1> QED
  BY <1>2, <1>4, <1>5, <1>6, Zenon DEF WordsInList

-----------------------------------------------------------------------------
(* Lists of numbers, as get-marks and get-unread-confs see them. *)

\* The words of a list, without its count.
Listed(words, m) == [i \in 1..(m + 2) |-> words[i + 1]]

LEMMA BracesUnbroken == Unbroken(<<"{">>) /\ Unbroken(<<"}">>)
<1>1. PICK c, d : c = "{" /\ d = "}"
  OBVIOUS
<1>2. c # " " /\ d # " "
  BY <1>1
<1>3. \A x : Len(<<x>>) = 1 /\ <<x>>[1] = x
  OBVIOUS
<1>4. \A x : \A i \in 1..Len(<<x>>) : <<x>>[i] = x
  BY <1>3
<1> QED
  BY <1>1, <1>2, <1>4, Zenon DEF Unbroken

SplitsAs(s, m, pos, ws) == Split(Cut(s, pos[2], pos[m + 3] + 1)) = ws

LEMMA SplitList ==
  ASSUME NEW s, NEW words, NEW count \in UInt32, NEW items, NEW m \in Nat, NEW pos,
         IsListOf(words, count, items, m), WordsStand(s, words, m + 3, pos),
         \A i \in 1..m : Unbroken(items[i])
  PROVE  SplitsAs(s, m, pos, Listed(words, m))
<1>1. ListBounds(s, count, m, pos)
  BY ListBegins
<1>2. PICK e \in Nat \ {0}, p \in Nat \ {0} : e = pos[m + 3] /\ p = pos[2]
  <2>1. m + 3 \in 1..(m + 4) /\ 2 \in 1..(m + 4)
    OBVIOUS
  <2> QED
    BY <1>1, <2>1 DEF ListBounds
<1>3. p < e /\ pos[m + 4] = e + 2
  BY <1>1, <1>2 DEF ListBounds
<1>4. PICK ar : ar = Cut(s, p, e + 1)
  OBVIOUS
<1>5. /\ ar \in Texts /\ Len(ar) = e - p + 1
      /\ \A i \in 2..(m + 3) : /\ Holds(ar, pos[i] - p + 1, words[i]) /\ pos[i] - p + 1 \in Nat \ {0}
                               /\ i < m + 3 => BlankAt(ar, pos[i + 1] - p)
  <2>1. WordsInList(s, words, m, pos)
    BY WordsOfList
  <2> QED
    BY <1>2, <1>4, <2>1, Zenon DEF WordsInList
<1>6. \A i \in 1..(m + 3) : /\ words[i] \in Texts /\ pos[i] \in Nat /\ pos[i + 1] \in Nat
                            /\ pos[i + 1] = pos[i] + Len(words[i]) + 1 /\ Len(words[i]) \in Nat
  <2>1. \A i \in 1..(m + 3) : /\ pos[i] \in Nat \ {0} /\ pos[i + 1] \in Nat \ {0}
                              /\ pos[i + 1] = pos[i] + Len(words[i]) + 1 /\ Len(words[i]) \in Nat
    BY Zenon DEF WordsStand
  <2>2. words \in Seq(Texts) /\ Len(words) = m + 3
    BY Zenon DEF IsListOf
  <2>3. \A i \in 1..(m + 3) : words[i] \in Texts
    BY <2>2
  <2> QED
    BY <2>1, <2>3
<1>7. PICK ws : ws = Listed(words, m)
  OBVIOUS
<1>8. ws \in Seq(Texts) /\ Len(ws) = m + 2 /\ \A i \in 1..(m + 2) : ws[i] = words[i + 1]
  <2>1. \A i \in 1..(m + 2) : i + 1 \in 1..(m + 3)
    OBVIOUS
  <2> QED
    BY <1>6, <1>7, <2>1 DEF Listed
<1>9. PICK place : place = [i \in 1..(m + 3) |-> pos[i + 1] - p + 1]
  OBVIOUS
<1>10. place[1] = 1 /\ place[m + 3] = Len(ar) + 2
  <2>1. 1 \in 1..(m + 3) /\ m + 3 \in 1..(m + 3) /\ m + 3 + 1 = m + 4 /\ 1 + 1 = 2
    OBVIOUS
  <2>2. place[1] = pos[2] - p + 1 /\ place[m + 3] = pos[m + 4] - p + 1
    BY <1>9, <2>1
  <2>3. Len(ar) = e - p + 1
    BY <1>5
  <2>4. place[1] = p - p + 1 /\ place[m + 3] = (e + 2) - p + 1
    BY <1>2, <1>3, <2>2, Zenon
  <2> QED
    BY <1>3, <2>3, <2>4
<1>11. WordsAt(ar, ws, place)
  <2>1. \A i \in 1..(m + 3) : pos[i + 1] - p + 1 \in Nat
    <3>1. ASSUME NEW i \in 1..(m + 3) PROVE pos[i + 1] - p + 1 \in Nat
      <4>1. i + 1 \in 2..(m + 3) \/ i + 1 = m + 4
        OBVIOUS
      <4>2. CASE i + 1 \in 2..(m + 3)
        BY <1>5, <4>2
      <4>3. CASE i + 1 = m + 4
        BY <1>3, <4>3
      <4> QED
        BY <4>1, <4>2, <4>3
    <3> QED
      BY <3>1
  <2>2. place \in [1..(Len(ws) + 1) -> Nat]
    BY <1>8, <1>9, <2>1
  <2>3. ASSUME NEW i \in 1..(m + 2)
        PROVE  /\ Holds(ar, place[i], ws[i]) /\ place[i + 1] = place[i] + Len(ws[i]) + 1
               /\ i < m + 2 => BlankAt(ar, place[i + 1] - 1)
    <3>1. PICK j \in 2..(m + 3) : j = i + 1 /\ i \in 1..(m + 3) /\ j \in 1..(m + 3) /\ (i < m + 2 <=> j < m + 3)
      <4>1. i + 1 \in 2..(m + 3) /\ i \in 1..(m + 3) /\ i + 1 \in 1..(m + 3) /\ (i < m + 2 <=> i + 1 < m + 3)
        OBVIOUS
      <4> QED
        BY <4>1
    <3>2. place[i] = pos[j] - p + 1 /\ place[i + 1] = pos[j + 1] - p + 1 /\ ws[i] = words[j]
      BY <1>8, <1>9, <3>1
    <3>3. PICK a \in Nat, b \in Nat, l \in Nat : a = pos[j] /\ b = pos[j + 1] /\ l = Len(words[j])
      BY <1>6, <3>1
    <3>4. b = a + l + 1 /\ a - p + 1 \in Nat
      BY <1>5, <1>6, <3>1, <3>3
    <3>5. place[i + 1] = place[i] + Len(ws[i]) + 1 /\ place[i + 1] - 1 = pos[j + 1] - p
      <4>1. place[i] = a - p + 1 /\ place[i + 1] = b - p + 1 /\ Len(ws[i]) = l
        BY <3>2, <3>3, Zenon
      <4>2. place[i + 1] = place[i] + Len(ws[i]) + 1 /\ place[i + 1] - 1 = b - p
        BY <3>4, <4>1
      <4> QED
        BY <3>3, <4>2, Zenon
    <3>6. Holds(ar, place[i], ws[i])
      BY <1>5, <3>1, <3>2, Zenon
    <3>7. i < m + 2 => BlankAt(ar, place[i + 1] - 1)
      BY <1>5, <3>1, <3>5, Zenon
    <3> QED
      BY <3>5, <3>6, <3>7
  <2> QED
    BY <1>8, <2>2, <2>3, Zenon DEF WordsAt, BlankAt
<1>12. \A i \in 1..(m + 2) : Unbroken(ws[i])
  <2>1. \A i \in 1..(m + 2) : \/ i + 1 = 2 \/ i + 1 = m + 3
                              \/ i - 1 \in 1..m /\ i + 1 = (i - 1) + 2
    OBVIOUS
  <2>2. words[2] = <<"{">> /\ words[m + 3] = <<"}">> /\ \A i \in 1..m : words[i + 2] = items[i]
    BY Zenon DEF IsListOf
  <2>3. Unbroken(words[2]) /\ Unbroken(words[m + 3])
    BY <2>2, BracesUnbroken, Zenon
  <2>4. \A i \in 1..m : Unbroken(words[i + 2])
    BY <2>2, Zenon
  <2>5. \A i \in 1..(m + 2) : ws[i] = words[i + 1]
    BY <1>8
  <2> HIDE <1>5, <2>2
  <2> QED
    BY <2>1, <2>3, <2>4, <2>5
<1>13. Split(ar) = ws
  <2>1. PICK n \in Nat \ {0} : n = m + 2 /\ n + 1 = m + 3
    <3>1. m + 2 \in Nat \ {0} /\ m + 2 + 1 = m + 3
      OBVIOUS
    <3> QED
      BY <3>1
  <2>2. n = Len(ws) /\ place[n + 1] = Len(ar) + 2 /\ \A i \in 1..n : Unbroken(ws[i])
    BY <1>8, <1>10, <1>12, <2>1
  <2> QED
    BY <1>5, <1>8, <1>10, <1>11, <2>1, <2>2, SplitWords
<1> QED
  BY <1>2, <1>4, <1>7, <1>13, Zenon DEF SplitsAs

LEMMA BraceNoNumber == ~IsNumber(<<"}">>)
<1>1. PICK c : c = "}"
  OBVIOUS
<1>2. 1 \in DOMAIN <<c>> /\ <<c>>[1] = c
  OBVIOUS
<1>3. c \notin DigitChars
  BY <1>1, NoDigits, Zenon
<1> QED
  BY <1>1, <1>2, <1>3, Zenon DEF IsNumber

LEMMA DecimalNumber ==
  ASSUME NEW n \in UInt32
  PROVE  /\ IsNumber(Decimal[n]) /\ Atoi(Decimal[n]) = n
         /\ Unbroken(Decimal[n]) /\ Unbraced(Decimal[n]) /\ Decimal[n] \in Texts
<1>1. n \in Nat /\ n < Word /\ Word \in Nat \ {0}
  BY WordSize DEF UInt32
<1>2. /\ Decimal[n] \in Texts /\ Decimal[n] # <<>>
      /\ \A i \in 1..Len(Decimal[n]) : Decimal[n][i] \in DigitChars
  BY <1>1, DecimalInTexts, DecimalText, Zenon
<1>3. DOMAIN Decimal[n] = 1..Len(Decimal[n])
  BY <1>2, TextLen, Zenon
<1>4. IsNumber(Decimal[n])
  BY <1>2, <1>3, Zenon DEF IsNumber
<1>5. Atoi(Decimal[n]) = n
  <2>1. Unsigned(Decimal[n], Word) = n
    BY <1>1, DecimalReadsAlone
  <2> QED
    BY <2>1, Zenon DEF Atoi
<1>6. Unbraced(Decimal[n])
  BY <1>2, DigitsUnbraced, Zenon DEF Unbraced
<1>7. Unbroken(Decimal[n])
  BY <1>2, NoDigits, Zenon DEF Unbroken
<1> QED
  BY <1>2, <1>4, <1>5, <1>6, <1>7

\* A list of numbers, as CountedList sees it.
CountsAs(s, count, nums) == CountedList(s, 1) = [count |-> count, ok |-> TRUE, numbers |-> nums]

LEMMA CountedReads ==
  ASSUME NEW s, NEW words, NEW count \in UInt32, NEW nums \in Seq(UInt32), NEW k \in Nat,
         k = Len(nums), NEW items, NEW pos,
         IsListOf(words, count, items, k), WordsStand(s, words, k + 3, pos),
         \A i \in 1..k : items[i] = Decimal[nums[i]]
  PROVE  CountsAs(s, count, nums)
<1>1. \A i \in 1..k : nums[i] \in UInt32
  OBVIOUS
<1>2. \A i \in 1..k : Unbroken(items[i]) /\ Unbraced(items[i])
  BY <1>1, DecimalNumber, Zenon
<1>3. ReadUInt32(s, 1) = Value(count, pos[2])
  BY ListBegins DEF ListBounds
<1>4. PICK ar, next : /\ ReadDelimitedList(s, pos[2]) = [v |-> ar, next |-> next, ok |-> TRUE]
                      /\ ar = Cut(s, pos[2], pos[k + 3] + 1)
  <2>1. ReadsWhole(s, k, pos)
    BY <1>2, WholeList
  <2> QED
    BY <2>1, Zenon DEF ReadsWhole
<1>5. PICK ws : ws = Listed(words, k)
  OBVIOUS
<1>6. Split(ar) = ws
  <2>1. SplitsAs(s, k, pos, Listed(words, k))
    BY <1>2, SplitList
  <2> QED
    BY <1>4, <1>5, <2>1, Zenon DEF SplitsAs
<1>7. /\ Len(ws) = k + 2 /\ ws[1] = words[2] /\ ws[k + 2] = words[k + 3]
      /\ \A i \in 1..k : ws[1 + i] = words[i + 2]
  BY <1>5 DEF Listed
<1>8. /\ ws[1] = <<"{">> /\ ~IsNumber(ws[k + 2])
      /\ \A i \in 1..k : ws[1 + i] = Decimal[nums[i]]
  BY <1>7, BraceNoNumber, Zenon DEF IsListOf
<1>9. \A i \in 1..k : IsNumber(ws[1 + i]) /\ Atoi(ws[1 + i]) = nums[i]
  BY <1>1, <1>8, DecimalNumber, Zenon
<1> DEFINE open == IF ws[1] = <<"{">> THEN 1 ELSE 0
           leading == {n \in 0..(Len(ws) - open) : \A i \in 1..n : IsNumber(ws[open + i])}
           read == CHOOSE n \in leading : \A j \in leading : j <= n
<1>10. open = 1
  BY <1>8, Zenon
<1> HIDE DEF open
<1>11. k \in leading /\ \A j \in leading : j \in Nat /\ j <= k
  <2>1. k \in 0..(Len(ws) - open) /\ \A i \in 1..k : IsNumber(ws[open + i])
    BY <1>7, <1>9, <1>10
  <2>2. ASSUME NEW j \in leading PROVE j \in Nat /\ j <= k
    <3>1. j \in 0..(k + 1) /\ \A i \in 1..j : IsNumber(ws[1 + i])
      BY <1>7, <1>10
    <3>2. j # k + 1
      <4>1. ASSUME j = k + 1 PROVE FALSE
        <5>1. k + 1 \in 1..j /\ 1 + (k + 1) = k + 2
          BY <4>1
        <5> QED
          BY <1>8, <3>1, <5>1
      <4> QED
        BY <4>1
    <3> QED
      BY <3>1, <3>2
  <2> QED
    BY <2>1, <2>2
<1> HIDE DEF leading
<1>12. read = k
  <2>1. \A n \in leading : (\A j \in leading : j <= n) => n = k
    BY <1>11
  <2>2. k \in leading /\ \A j \in leading : j <= k
    BY <1>11
  <2> QED
    BY <2>1, <2>2
<1>13. [i \in 1..read |-> Atoi(ws[open + i])] = nums
  <2>1. nums = [i \in 1..k |-> nums[i]]
    OBVIOUS
  <2> HIDE DEF read
  <2> QED
    BY <1>9, <1>10, <1>12, <2>1
<1>14. CountedList(s, 1) =
         [count |-> count, ok |-> TRUE, numbers |-> [i \in 1..read |-> Atoi(ws[open + i])]]
  <2>1. PICK c, d : c = ReadUInt32(s, 1) /\ d = ReadDelimitedList(s, pos[2])
    OBVIOUS
  <2>2. c.v = count /\ c.next = pos[2]
    <3>1. c = Value(count, pos[2])
      BY <1>3, <2>1, Zenon
    <3> QED
      BY <3>1, ValueParts
  <2>3. d.v = ar /\ d.ok = TRUE
    BY <1>4, <2>1
  <2> QED
    BY <1>6, <2>1, <2>2, <2>3, ZenonT(30) DEF CountedList, read, leading, open
<1> QED
  BY <1>13, <1>14, Zenon DEF CountsAs

\* What the results of a callback are.
LEMMA RunsAre ==
  /\ Panics.responses = {}
  /\ \A x : Gives(x).responses = x /\ Gives(x).senders = 1 /\ ~Gives(x).panics
  /\ \A x : GivesTwice(x).responses = x /\ ~GivesTwice(x).panics
  /\ \A x : GivesAndPanics(x).responses = x
BY DEF Panics, Gives, GivesTwice, GivesAndPanics

\* Every response is an error and begins with the elements that were sent.
Told(run, v) ==
  \A response \in run.responses :
    /\ response.err = ReadFailed
    /\ \A i \in DOMAIN v : i \in DOMAIN response.v /\ response.v[i] = v[i]

LEMMA ListLines ==
  ASSUME NEW answer, answer.ok, NEW v, v = answer.v, NEW count, count = answer.count
  PROVE  /\ ReplyLine("marks", answer) = ListOf(count, [i \in DOMAIN v |-> Numbers(v[i])]) \o <<"LF">>
         /\ ReplyLine("unread", answer) = ListOf(count, [i \in DOMAIN v |-> Decimal[v[i]]]) \o <<"LF">>
         /\ ReplyLine("zconf", answer) = ListOf(count, [i \in DOMAIN v |-> ZItem(v[i])]) \o <<"LF">>
<1>1. /\ "unread" # "marks" /\ "zconf" # "marks" /\ "zconf" # "unread"
  OBVIOUS
<1>2. DataOf("marks", answer) = ListOf(count, [i \in DOMAIN v |-> Numbers(v[i])])
  BY Zenon DEF DataOf
<1>3. DataOf("unread", answer) = ListOf(count, [i \in DOMAIN v |-> Decimal[v[i]]])
  BY Zenon, <1>1 DEF DataOf
<1>4. DataOf("zconf", answer) = ListOf(count, [i \in DOMAIN v |-> ZItem(v[i])])
  BY Zenon, <1>1 DEF DataOf
<1> QED
  BY <1>2, <1>3, <1>4, Zenon DEF ReplyLine

LEMMA ListValues ==
  ASSUME NEW s
  PROVE  /\ ValueOK("marks", s, 1) = MarksOK(s, 1) /\ ValueOK("unread", s, 1) = UnreadOK(s, 1)
         /\ ValueOK("zconf", s, 1) = ZConfOK(s, 1)
<1>1. "unread" # "marks" /\ "zconf" # "marks" /\ "zconf" # "unread"
  OBVIOUS
<1> QED
  BY <1>1, Zenon DEF ValueOK

LEMMA SmallMod == \A w \in Nat \ {0} : \A n \in 0..(w - 1) : n % w = n
  OBVIOUS

-----------------------------------------------------------------------------
(* Unread conferences. *)

LEMMA UnreadReply ==
  ASSUME NEW answer, answer.ok, NEW v, v = answer.v, NEW count \in UInt32, count = answer.count,
         v \in Seq(Items("unread")), count >= Len(v)
  PROVE  LET s == ReplyLine("unread", answer)
         IN  /\ count = Len(v) => AsSent("unread", v, s)
             /\ count > Len(v) => Told(ValueOK("unread", s, 1), v)
             /\ ValueOK("unread", s, 1).panics => count > Len(v) + 1
<1>1. PICK U : U = Items("unread")
  OBVIOUS
<1>2. U \subseteq UInt32 /\ U \subseteq 0..(ConfWord - 1)
  <2>1. "unread" # "marks"
    OBVIOUS
  <2>2. U = UInt32 \cap 0..(ConfWord - 1)
    BY <1>1, <2>1, Zenon DEF Items
  <2> QED
    BY <2>2
<1>3. PICK m \in Nat : m = Len(v)
  BY <1>1
<1>4. v \in Seq(UInt32) /\ \A i \in 1..m : v[i] \in UInt32 /\ v[i] \in 0..(ConfWord - 1)
  BY <1>1, <1>2, <1>3
<1>5. PICK items : items = [i \in DOMAIN v |-> Decimal[v[i]]]
  OBVIOUS
<1>6. items \in Seq(Texts) /\ m = Len(items) /\ \A i \in 1..m : items[i] = Decimal[v[i]]
  <2>1. \A i \in 1..m : Decimal[v[i]] \in Texts
    BY <1>4, DecimalNumber, Zenon
  <2>2. DOMAIN v = 1..m
    BY <1>3, <1>4
  <2> QED
    BY <1>5, <2>1, <2>2
<1>7. PICK s : s = ReplyLine("unread", answer)
  OBVIOUS
<1>8. s = ListOf(count, items) \o <<"LF">>
  BY <1>5, <1>7, ListLines, Zenon
<1>9. PICK words, pos : IsListOf(words, count, items, m) /\ WordsStand(s, words, m + 3, pos)
  <2>1. \E words, pos : /\ IsListOf(words, count, items, m)
                        /\ WordsStand(ListOf(count, items) \o <<"LF">>, words, m + 3, pos)
    BY <1>6, ListLine, Zenon
  <2> QED
    BY <1>8, <2>1, Zenon
<1>10. CountsAs(s, count, v)
  BY <1>3, <1>4, <1>6, <1>9, CountedReads
<1>11. PICK list : /\ list = CountedList(s, 1) /\ list.count = count /\ list.ok = TRUE
                   /\ list.numbers = v
  <2>1. [count |-> count, ok |-> TRUE, numbers |-> v].count = count
        /\ [count |-> count, ok |-> TRUE, numbers |-> v].ok = TRUE
        /\ [count |-> count, ok |-> TRUE, numbers |-> v].numbers = v
    OBVIOUS
  <2> QED
    BY <1>10, <2>1, Zenon DEF CountsAs
<1>12. ConfNos(v) = v
  <2>1. DOMAIN v = 1..m /\ v = [i \in 1..m |-> v[i]]
    BY <1>3, <1>4
  <2>2. \A i \in 1..m : v[i] % ConfWord = v[i]
    BY <1>4, WireAssumption, SmallMod
  <2>3. ConfNos(v) = [i \in 1..m |-> v[i] % ConfWord]
    BY <2>1, Zenon DEF ConfNos
  <2> QED
    BY <2>1, <2>2, <2>3, Zenon
<1>13. SubSeq(v, 1, m) = v
  BY <1>3, <1>4
<1>14. count \in Nat
  BY WordSize DEF UInt32
<1>15. ASSUME count = m PROVE UnreadOK(s, 1) = Gives({Response(v, Nil)})
  <2>1. m >= count
    BY <1>15
  <2> QED
    BY <1>3, <1>11, <1>12, <1>13, <1>15, <2>1, Zenon DEF UnreadOK
<1>16. ASSUME count = m + 1
       PROVE  UnreadOK(s, 1) = GivesTwice({Response(v, ReadFailed), Response(Append(v, 0), ReadFailed)})
  <2>1. ~(m >= count)
    BY <1>16
  <2> QED
    BY <1>3, <1>11, <1>12, <1>16, <2>1, Zenon DEF UnreadOK
<1>17. ASSUME count > m, count # m + 1
       PROVE  UnreadOK(s, 1) = GivesAndPanics({Response(v, ReadFailed)})
  <2>1. ~(m >= count) /\ ~(m + 1 = count)
    BY <1>14, <1>17
  <2> QED
    BY <1>3, <1>11, <1>12, <1>17, <2>1, Zenon DEF UnreadOK
<1>18. ValueOK("unread", s, 1) = UnreadOK(s, 1)
  BY ListValues
<1>19. count = Len(v) => AsSent("unread", v, s)
  BY <1>3, <1>15, <1>18, Zenon DEF AsSent
<1>20. PICK x, y : x = Response(v, ReadFailed) /\ y = Response(Append(v, 0), ReadFailed)
  OBVIOUS
<1>21. x.err = ReadFailed /\ y.err = ReadFailed /\ x.v = v /\ y.v = Append(v, 0)
  BY <1>20 DEF Response
<1>22. \A i \in DOMAIN v : i \in DOMAIN Append(v, 0) /\ Append(v, 0)[i] = v[i]
  <2>1. 0 \in UInt32
    BY WordSize DEF UInt32
  <2> QED
    BY <1>4, <2>1
<1>23. ASSUME count > m PROVE Told(UnreadOK(s, 1), v)
  <2>1. UnreadOK(s, 1).responses \subseteq {x, y}
    <3>1. CASE count = m + 1
      <4>1. UnreadOK(s, 1).responses = {x, y}
        BY <1>16, <1>20, <3>1, RunsAre, Zenon
      <4> QED
        BY <4>1
    <3>2. CASE count # m + 1
      <4>1. UnreadOK(s, 1).responses = {x}
        BY <1>17, <1>20, <1>23, <3>2, RunsAre, Zenon
      <4> QED
        BY <4>1
    <3> QED
      BY <3>1, <3>2
  <2>2. ASSUME NEW response \in {x, y}
        PROVE  /\ response.err = ReadFailed
               /\ \A i \in DOMAIN v : i \in DOMAIN response.v /\ response.v[i] = v[i]
    <3>1. CASE response = x
      BY <1>21, <3>1, Zenon
    <3>2. CASE response = y
      BY <1>21, <1>22, <3>2, Zenon
    <3> QED
      BY <3>1, <3>2
  <2> QED
    BY <2>1, <2>2, Zenon DEF Told
<1>24. ASSUME UnreadOK(s, 1).panics PROVE count > m + 1
  <2>1. count # m
    BY <1>15, <1>24, RunsAre, Zenon
  <2>2. count # m + 1
    BY <1>16, <1>24, RunsAre, Zenon
  <2> QED
    BY <1>3, <1>14, <2>1, <2>2
<1> QED
  BY <1>3, <1>7, <1>18, <1>19, <1>23, <1>24, Zenon

-----------------------------------------------------------------------------
(* Marks. *)

\* One word of a line, from position a to the blank before b.
WordStands(s, w, a, b, last) ==
  /\ Holds(s, a, w) /\ b = a + Len(w) + 1 /\ Ends(s, b - 1) /\ Len(w) \in Nat
  /\ a \in Nat \ {0} /\ b \in Nat \ {0} /\ b - 1 \in Nat \ {0} /\ (~last => Blanks(s, b - 1, b))

LEMMA WordsOneByOne ==
  ASSUME NEW s, NEW words, NEW n \in Nat, NEW pos
  PROVE  WordsStand(s, words, n, pos) <=>
           /\ s \in Texts /\ pos \in [1..(n + 1) -> Nat] /\ pos[1] = 1 /\ pos[n + 1] = Len(s) + 1
           /\ \A i \in 1..n : WordStands(s, words[i], pos[i], pos[i + 1], ~(i < n))
  BY Zenon DEF WordsStand, WordStands

LEMMA PairStands ==
  ASSUME NEW s \in Texts, NEW x \in UInt32, NEW y \in UInt32, NEW p, NEW q,
         WordStands(s, Numbers(<<x, y>>), p, q, FALSE)
  PROVE  LET r == p + Len(Decimal[x]) + 1
         IN  WordStands(s, Decimal[x], p, r, FALSE) /\ WordStands(s, Decimal[y], r, q, FALSE)
<1>1. PICK a \in Texts, b \in Texts : a = Decimal[x] /\ b = Decimal[y]
  BY DecimalNumber, Zenon
<1>2. PICK ws \in Seq(Texts) : ws = <<a, b>> /\ Len(ws) = 2 /\ ws[1] = a /\ ws[2] = b
  <2>1. <<a, b>> \in Seq(Texts) /\ Len(<<a, b>>) = 2 /\ <<a, b>>[1] = a /\ <<a, b>>[2] = b
    OBVIOUS
  <2> QED
    BY <2>1
<1>3. Numbers(<<x, y>>) = Spaced(ws)
  <2>1. [i \in DOMAIN <<x, y>> |-> Decimal[<<x, y>>[i]]] = <<Decimal[x], Decimal[y]>>
    OBVIOUS
  <2> QED
    BY <1>1, <1>2, <2>1, Zenon DEF Numbers
<1>4. PICK w \in Texts : w = Spaced(ws)
  BY SpacedText
<1>5. WordStands(s, w, p, q, FALSE)
  BY <1>3, <1>4, Zenon
<1>6. Holds(s, p, w) /\ q = p + Len(w) + 1 /\ p \in Nat \ {0} /\ q \in Nat \ {0} /\ Ends(s, q - 1)
      /\ Blanks(s, q - 1, q) /\ q - 1 \in Nat \ {0}
  BY <1>5, Zenon DEF WordStands
<1>7. PICK place : WordsAt(s, ws, place) /\ place[1] = p /\ place[3] = p + Len(w) + 1
  <2>1. Len(ws) > 0 /\ p \in Nat /\ Len(ws) + 1 = 3 /\ Holds(s, p, Spaced(ws))
    BY <1>2, <1>4, <1>6
  <2>2. \E place : /\ WordsAt(s, ws, place) /\ place[1] = p
                   /\ place[Len(ws) + 1] = p + Len(Spaced(ws)) + 1
    BY <2>1, SpacedWords
  <2> QED
    BY <1>4, <2>1, <2>2, Zenon
<1>8. /\ Holds(s, place[1], ws[1]) /\ place[1 + 1] = place[1] + Len(ws[1]) + 1
      /\ BlankAt(s, place[1 + 1] - 1) /\ Holds(s, place[2], ws[2])
      /\ place[2 + 1] = place[2] + Len(ws[2]) + 1
  <2>1. 1 \in 1..Len(ws) /\ 2 \in 1..Len(ws) /\ 1 < Len(ws)
    BY <1>2
  <2>2. Holds(s, place[1], ws[1]) /\ place[1 + 1] = place[1] + Len(ws[1]) + 1
    BY <1>7, <2>1, Zenon DEF WordsAt
  <2>3. BlankAt(s, place[1 + 1] - 1)
    BY <1>7, <2>1, Zenon DEF WordsAt, BlankAt
  <2>4. Holds(s, place[2], ws[2]) /\ place[2 + 1] = place[2] + Len(ws[2]) + 1
    BY <1>7, <2>1, Zenon DEF WordsAt
  <2> QED
    BY <2>2, <2>3, <2>4
<1>9. PICK l \in Nat, k \in Nat, r \in Nat \ {0} : l = Len(a) /\ k = Len(b) /\ r = p + l + 1
  <2>1. Len(a) \in Nat /\ Len(b) \in Nat
    BY TextLen
  <2>2. p + Len(a) + 1 \in Nat \ {0}
    BY <1>6, <2>1
  <2> QED
    BY <2>1, <2>2
<1>10. place[2] = r /\ q = r + k + 1
  <2>1. 1 + 1 = 2 /\ 2 + 1 = 3
    OBVIOUS
  <2> QED
    BY <1>2, <1>6, <1>7, <1>8, <1>9, <2>1, Zenon
<1>11. r - 1 \in Nat \ {0} /\ \A i \in (r - 1)..(r - 1) : i = r - 1
  BY <1>6, <1>9
<1>12. BlankAt(s, r - 1)
  <2>1. 1 + 1 = 2
    OBVIOUS
  <2> QED
    BY <1>8, <1>10, <2>1, Zenon
<1>13. s[r - 1] = " "
  BY <1>12, Zenon DEF BlankAt, At
<1>14. Blanks(s, r - 1, r) /\ Ends(s, r - 1)
  BY <1>11, <1>13, Zenon DEF Blanks, Ends
<1>15. WordStands(s, a, p, r, FALSE)
  BY <1>2, <1>6, <1>7, <1>8, <1>9, <1>11, <1>14, Zenon DEF WordStands
<1>16. WordStands(s, b, r, q, FALSE)
  BY <1>2, <1>6, <1>8, <1>9, <1>10, Zenon DEF WordStands
<1> QED
  BY <1>1, <1>9, <1>15, <1>16, Zenon

LEMMA Halves ==
  /\ \A h \in Nat : /\ (2 * h + 1) \div 2 = h /\ (2 * h) \div 2 = h
                    /\ (2 * h + 1) % 2 = 1 /\ (2 * h) % 2 = 0
  /\ \A m \in Nat : \A j \in 1..(2 * m) : \E h \in 1..m : j = 2 * h - 1 \/ j = 2 * h
<1>1. \A h \in Nat : /\ (2 * h + 1) \div 2 = h /\ (2 * h) \div 2 = h
                     /\ (2 * h + 1) % 2 = 1 /\ (2 * h) % 2 = 0
  OBVIOUS
<1>2. ASSUME NEW m \in Nat, NEW j \in 1..(2 * m) PROVE \E h \in 1..m : j = 2 * h - 1 \/ j = 2 * h
  <2>1. PICK h \in Nat : h = (j + 1) \div 2
    OBVIOUS
  <2>2. h \in 1..m /\ (j = 2 * h - 1 \/ j = 2 * h)
    BY <2>1
  <2> QED
    BY <2>2
<1> QED
  BY <1>1, <1>2

\* The numbers of the pairs, one after the other.
FlatOf(nums, xs, ys, m) ==
  /\ nums \in Seq(UInt32) /\ Len(nums) = 2 * m
  /\ \A h \in 1..m : nums[2 * h - 1] = xs[h] /\ nums[2 * h] = ys[h]

\* Where the words of a list of pairs stand, if its pairs stand at pos.
FlatPlaces(pos, xs, m) ==
  [j \in 1..(2 * m + 4) |->
     IF j = 1 THEN pos[1]
     ELSE IF j % 2 = 0 THEN IF j = 2 THEN pos[2]
                            ELSE IF j = 2 * m + 4 THEN pos[m + 4]
                            ELSE pos[j \div 2 + 1] + Len(Decimal[xs[j \div 2 - 1]]) + 1
     ELSE pos[j \div 2 + 2]]

FlatPlacesOf(place, pos, xs, m) ==
  /\ place[1] = pos[1] /\ place[2] = pos[2] /\ place[2 * m + 4] = pos[m + 4]
  /\ \A h \in 1..m : place[2 * h + 2] = pos[h + 2] + Len(Decimal[xs[h]]) + 1
  /\ \A h \in 1..(m + 1) : place[2 * h + 1] = pos[h + 2]
  /\ \A j \in 1..(2 * m + 4) : \/ j \in {1, 2, 2 * m + 4} \/ \E h \in 1..m : j = 2 * h + 2
                               \/ \E h \in 1..(m + 1) : j = 2 * h + 1

LEMMA FlatPlacesAre ==
  ASSUME NEW pos, NEW xs, NEW m \in Nat PROVE FlatPlacesOf(FlatPlaces(pos, xs, m), pos, xs, m)
<1>1. PICK place : place = FlatPlaces(pos, xs, m)
  OBVIOUS
<1>2. place[1] = pos[1]
  BY <1>1 DEF FlatPlaces
<1>3. place[2] = pos[2]
  <2>1. 2 \in 1..(2 * m + 4) /\ 2 # 1 /\ 2 % 2 = 0
    OBVIOUS
  <2> QED
    BY <1>1, <2>1 DEF FlatPlaces
<1>4. place[2 * m + 4] = pos[m + 4]
  <2>1. PICK j : j = 2 * m + 4
    OBVIOUS
  <2>2. j \in 1..(2 * m + 4) /\ j # 1 /\ j % 2 = 0 /\ j # 2
    BY <2>1
  <2>3. place[j] = pos[m + 4]
    BY <1>1, <2>1, <2>2 DEF FlatPlaces
  <2> QED
    BY <2>1, <2>3
<1>5. ASSUME NEW h \in 1..m PROVE place[2 * h + 2] = pos[h + 2] + Len(Decimal[xs[h]]) + 1
  <2>1. PICK j \in Nat, k \in Nat : j = 2 * h + 2 /\ k = j \div 2 /\ k = h + 1
    <3>1. (2 * h + 2) \div 2 = h + 1
      OBVIOUS
    <3> QED
      BY <3>1
  <2>2. j \in 1..(2 * m + 4) /\ j # 1 /\ j % 2 = 0 /\ j # 2 /\ j # 2 * m + 4 /\ k + 1 = h + 2 /\ k - 1 = h
    BY <2>1
  <2>3. place[j] = pos[k + 1] + Len(Decimal[xs[k - 1]]) + 1
    BY <1>1, <2>1, <2>2 DEF FlatPlaces
  <2> QED
    BY <2>1, <2>2, <2>3
<1>6. ASSUME NEW h \in 1..(m + 1) PROVE place[2 * h + 1] = pos[h + 2]
  <2>1. PICK j \in Nat, k \in Nat : j = 2 * h + 1 /\ k = j \div 2 /\ k = h
    <3>1. (2 * h + 1) \div 2 = h
      OBVIOUS
    <3> QED
      BY <3>1
  <2>2. j \in 1..(2 * m + 4) /\ j # 1 /\ j % 2 # 0
    BY <2>1
  <2>3. place[j] = pos[k + 2]
    BY <1>1, <2>1, <2>2 DEF FlatPlaces
  <2> QED
    BY <2>1, <2>3
<1>7. ASSUME NEW j \in 1..(2 * m + 4)
      PROVE  \/ j \in {1, 2, 2 * m + 4} \/ \E h \in 1..m : j = 2 * h + 2
             \/ \E h \in 1..(m + 1) : j = 2 * h + 1
  <2>1. CASE j \in {1, 2, 2 * m + 4}
    BY <2>1
  <2>2. CASE j \notin {1, 2, 2 * m + 4}
    <3>1. j - 2 \in 1..(2 * (m + 1)) /\ j - 2 # 2 * (m + 1)
      BY <2>2
    <3>2. PICK h \in 1..(m + 1) : j - 2 = 2 * h - 1 \/ j - 2 = 2 * h
      <4>1. PICK n \in Nat : n = m + 1
        OBVIOUS
      <4>2. PICK i \in 1..(2 * n) : i = j - 2
        BY <3>1, <4>1
      <4>3. \E h \in 1..n : i = 2 * h - 1 \/ i = 2 * h
        BY <4>1, Halves
      <4> QED
        BY <4>1, <4>2, <4>3
    <3>3. j = 2 * h + 1 \/ (j = 2 * h + 2 /\ h \in 1..m)
      BY <3>1, <3>2
    <3> QED
      BY <3>3
  <2> QED
    BY <2>1, <2>2
<1> QED
  BY <1>1, <1>2, <1>3, <1>4, <1>5, <1>6, <1>7, Zenon DEF FlatPlacesOf

LEMMA Flattened ==
  ASSUME NEW s, NEW words, NEW count \in UInt32, NEW items, NEW m \in Nat, NEW pos,
         IsListOf(words, count, items, m), WordsStand(s, words, m + 3, pos),
         NEW xs, NEW ys, \A h \in 1..m : xs[h] \in UInt32 /\ ys[h] \in UInt32,
         \A h \in 1..m : items[h] = Numbers(<<xs[h], ys[h]>>),
         NEW nums, FlatOf(nums, xs, ys, m), NEW flat, NEW singles,
         IsListOf(flat, count, singles, 2 * m),
         \A i \in 1..(2 * m) : singles[i] = Decimal[nums[i]]
  PROVE  WordsStand(s, flat, 2 * m + 3, FlatPlaces(pos, xs, m))
<1>1. PICK place : place = FlatPlaces(pos, xs, m)
  OBVIOUS
<1>2. /\ place[1] = pos[1] /\ place[2] = pos[2] /\ place[2 * m + 4] = pos[m + 4]
      /\ \A h \in 1..m : place[2 * h + 2] = pos[h + 2] + Len(Decimal[xs[h]]) + 1
      /\ \A h \in 1..(m + 1) : place[2 * h + 1] = pos[h + 2]
      /\ \A j \in 1..(2 * m + 4) :
           \/ j \in {1, 2, 2 * m + 4} \/ \E h \in 1..m : j = 2 * h + 2
           \/ \E h \in 1..(m + 1) : j = 2 * h + 1
  <2>1. FlatPlacesOf(place, pos, xs, m)
    BY <1>1, FlatPlacesAre
  <2> QED
    BY <2>1, Zenon DEF FlatPlacesOf
<1>3. PICK n \in Nat : n = m + 3 /\ n + 1 = m + 4
  <2>1. m + 3 \in Nat /\ m + 3 + 1 = m + 4
    OBVIOUS
  <2> QED
    BY <2>1
<1>4. /\ s \in Texts /\ pos[1] = 1 /\ pos[m + 4] = Len(s) + 1
      /\ \A i \in 1..(m + 3) : WordStands(s, words[i], pos[i], pos[i + 1], ~(i < m + 3))
  <2>1. WordsStand(s, words, n, pos)
    BY <1>3
  <2>2. /\ s \in Texts /\ pos[1] = 1 /\ pos[n + 1] = Len(s) + 1
        /\ \A i \in 1..n : WordStands(s, words[i], pos[i], pos[i + 1], ~(i < n))
    BY <2>1, WordsOneByOne, ZenonT(30)
  <2> QED
    BY <1>3, <2>2
<1>5. ASSUME NEW h \in 1..m
      PROVE  /\ WordStands(s, flat[2 * h + 1], place[2 * h + 1], place[2 * h + 2], FALSE)
             /\ WordStands(s, flat[2 * h + 2], place[2 * h + 2], place[2 * h + 3], FALSE)
  <2>1. /\ flat[2 * h + 1] = Decimal[xs[h]] /\ flat[2 * h + 2] = Decimal[ys[h]]
    <3>1. /\ 2 * h - 1 \in 1..(2 * m) /\ 2 * h \in 1..(2 * m)
          /\ 2 * h - 1 + 2 = 2 * h + 1
      OBVIOUS
    <3>2. \A i \in 1..(2 * m) : flat[i + 2] = singles[i]
      BY Zenon DEF IsListOf
    <3>3. nums[2 * h - 1] = xs[h] /\ nums[2 * h] = ys[h]
      BY Zenon DEF FlatOf
    <3>4. flat[2 * h - 1 + 2] = Decimal[nums[2 * h - 1]] /\ flat[2 * h + 2] = Decimal[nums[2 * h]]
      BY <3>1, <3>2
    <3> QED
      BY <3>1, <3>3, <3>4
  <2>2. /\ h + 2 \in 1..(m + 3) /\ h + 2 < m + 3 /\ h + 2 + 1 = (h + 1) + 2 /\ h + 1 \in 1..(m + 1)
        /\ 2 * (h + 1) + 1 = 2 * h + 3 /\ h \in 1..(m + 1)
    OBVIOUS
  <2>3. WordStands(s, words[h + 2], pos[h + 2], pos[h + 2 + 1], ~(h + 2 < m + 3))
    BY <1>4, <2>2
  <2>4. words[h + 2] = Numbers(<<xs[h], ys[h]>>)
    <3>1. words[h + 2] = items[h]
      BY Zenon DEF IsListOf
    <3> QED
      BY <3>1, Zenon
  <2>5. WordStands(s, Numbers(<<xs[h], ys[h]>>), pos[h + 2], pos[h + 2 + 1], FALSE)
    BY <2>2, <2>3, <2>4
  <2>6. PICK r : r = pos[h + 2] + Len(Decimal[xs[h]]) + 1
    OBVIOUS
  <2>7. xs[h] \in UInt32 /\ ys[h] \in UInt32
    OBVIOUS
  <2>8. /\ WordStands(s, Decimal[xs[h]], pos[h + 2], r, FALSE)
        /\ WordStands(s, Decimal[ys[h]], r, pos[h + 2 + 1], FALSE)
    BY <1>4, <2>5, <2>6, <2>7, PairStands, Zenon
  <2>9. place[2 * h + 1] = pos[h + 2] /\ place[2 * h + 2] = r /\ place[2 * h + 3] = pos[h + 2 + 1]
    <3>1. place[2 * (h + 1) + 1] = pos[(h + 1) + 2]
      BY <1>2, <2>2
    <3> QED
      BY <1>2, <2>2, <2>6, <3>1
  <2> QED
    BY <2>1, <2>8, <2>9, Zenon
<1>6. WordStands(s, flat[1], place[1], place[2], FALSE)
  <2>1. 1 \in 1..(m + 3) /\ 1 < m + 3 /\ 1 + 1 = 2
    OBVIOUS
  <2>2. WordStands(s, words[1], pos[1], pos[2], FALSE)
    BY <1>4, <2>1
  <2>3. flat[1] = words[1]
    BY Zenon DEF IsListOf
  <2> QED
    BY <1>2, <2>2, <2>3
<1>7. place[3] = pos[3] /\ place[2 * m + 3] = pos[m + 3]
  <2>1. /\ 1 \in 1..(m + 1) /\ m + 1 \in 1..(m + 1) /\ 2 * 1 + 1 = 3 /\ 1 + 2 = 3
        /\ 2 * (m + 1) + 1 = 2 * m + 3 /\ m + 1 + 2 = m + 3
    OBVIOUS
  <2>2. place[2 * 1 + 1] = pos[1 + 2] /\ place[2 * (m + 1) + 1] = pos[m + 1 + 2]
    BY <1>2, <2>1
  <2> QED
    BY <2>1, <2>2
<1>8. WordStands(s, flat[2], place[2], place[3], FALSE)
  <2>1. 2 \in 1..(m + 3) /\ 2 < m + 3 /\ 2 + 1 = 3
    OBVIOUS
  <2>2. WordStands(s, words[2], pos[2], pos[3], FALSE)
    BY <1>4, <2>1
  <2>3. flat[2] = words[2]
    BY Zenon DEF IsListOf
  <2> QED
    BY <1>2, <1>7, <2>2, <2>3
<1>9. WordStands(s, flat[2 * m + 3], place[2 * m + 3], place[2 * m + 4], TRUE)
  <2>1. m + 3 \in 1..(m + 3) /\ ~(m + 3 < m + 3) /\ m + 3 + 1 = m + 4
    OBVIOUS
  <2>2. WordStands(s, words[m + 3], pos[m + 3], pos[m + 4], TRUE)
    BY <1>4, <2>1
  <2>3. flat[2 * m + 3] = words[m + 3]
    BY Zenon DEF IsListOf
  <2> QED
    BY <1>2, <1>7, <2>2, <2>3
<1>10. ASSUME NEW j \in 1..(2 * m + 3)
       PROVE  WordStands(s, flat[j], place[j], place[j + 1], ~(j < 2 * m + 3))
  <2>1. CASE j = 1
    <3>1. j < 2 * m + 3 /\ j + 1 = 2
      BY <2>1
    <3> QED
      BY <1>6, <2>1, <3>1
  <2>2. CASE j = 2
    <3>1. j < 2 * m + 3 /\ j + 1 = 3
      BY <2>2
    <3> QED
      BY <1>8, <2>2, <3>1
  <2>3. CASE j = 2 * m + 3
    <3>1. ~(j < 2 * m + 3) /\ j + 1 = 2 * m + 4
      BY <2>3
    <3> QED
      BY <1>9, <2>3, <3>1
  <2>4. ASSUME NEW h \in 1..m, j = 2 * h + 1 \/ j = 2 * h + 2
        PROVE  WordStands(s, flat[j], place[j], place[j + 1], ~(j < 2 * m + 3))
    <3>1. j < 2 * m + 3 /\ 2 * h + 1 + 1 = 2 * h + 2 /\ 2 * h + 2 + 1 = 2 * h + 3
      BY <2>4
    <3> QED
      BY <1>5, <2>4, <3>1
  <2>5. j \in {1, 2, 2 * m + 3} \/ \E h \in 1..m : j = 2 * h + 1 \/ j = 2 * h + 2
    <3>1. j \in 1..(2 * m + 4) /\ j # 2 * m + 4
      OBVIOUS
    <3>2. CASE \E h \in 1..(m + 1) : j = 2 * h + 1
      <4>1. PICK h \in 1..(m + 1) : j = 2 * h + 1
        BY <3>2
      <4>2. h = m + 1 \/ h \in 1..m
        OBVIOUS
      <4> QED
        BY <4>1, <4>2
    <3> QED
      BY <1>2, <3>1, <3>2
  <2> QED
    BY <2>1, <2>2, <2>3, <2>4, <2>5
<1>11. PICK k \in Nat : k = 2 * m + 3 /\ k + 1 = 2 * m + 4
  <2>1. 2 * m + 3 \in Nat /\ 2 * m + 3 + 1 = 2 * m + 4
    OBVIOUS
  <2> QED
    BY <2>1
<1>12. place \in [1..(2 * m + 4) -> Nat]
  <2>1. place = [j \in 1..(2 * m + 4) |-> place[j]]
    BY <1>1 DEF FlatPlaces
  <2>2. ASSUME NEW j \in 1..(2 * m + 4) PROVE place[j] \in Nat
    <3>1. CASE j \in 1..(2 * m + 3)
      <4>1. place[j] \in Nat \ {0}
        BY <1>10, <3>1, Zenon DEF WordStands
      <4> QED
        BY <4>1
    <3>2. CASE j = 2 * m + 4
      <4>1. Len(s) \in Nat
        BY <1>4, TextLen
      <4> QED
        BY <1>2, <1>4, <3>2, <4>1
    <3> QED
      BY <3>1, <3>2
  <2> QED
    BY <2>1, <2>2
<1>13. WordsStand(s, flat, k, place)
  <2>1. place \in [1..(k + 1) -> Nat] /\ place[1] = 1 /\ place[k + 1] = Len(s) + 1
    BY <1>2, <1>4, <1>11, <1>12, Zenon
  <2>2. \A i \in 1..k : WordStands(s, flat[i], place[i], place[i + 1], ~(i < k))
    BY <1>10, <1>11, Zenon
  <2> QED
    BY <1>4, <2>1, <2>2, WordsOneByOne
<1> QED
  BY <1>1, <1>11, <1>13, Zenon

LEMMA FlatExists ==
  ASSUME NEW m \in Nat, NEW xs, NEW ys, \A h \in 1..m : xs[h] \in UInt32 /\ ys[h] \in UInt32
  PROVE  \E nums : FlatOf(nums, xs, ys, m)
<1> DEFINE nums == [j \in 1..(2 * m) |-> IF j % 2 = 1 THEN xs[(j + 1) \div 2] ELSE ys[j \div 2]]
<1>1. ASSUME NEW h \in 1..m PROVE nums[2 * h - 1] = xs[h] /\ nums[2 * h] = ys[h]
  <2>1. PICK j, k : j = 2 * h - 1 /\ k = 2 * h
    OBVIOUS
  <2>2. /\ j \in 1..(2 * m) /\ j % 2 = 1 /\ (j + 1) \div 2 = h
        /\ k \in 1..(2 * m) /\ k % 2 # 1 /\ k \div 2 = h
    BY <2>1
  <2>3. nums[j] = xs[h] /\ nums[k] = ys[h]
    BY <2>2
  <2> QED
    BY <2>1, <2>3
<1>2. \A j \in 1..(2 * m) : nums[j] \in UInt32
  <2>1. ASSUME NEW j \in 1..(2 * m) PROVE nums[j] \in UInt32
    <3>1. PICK h \in 1..m : j = 2 * h - 1 \/ j = 2 * h
      BY Halves
    <3> HIDE DEF nums
    <3> QED
      BY <1>1, <3>1
  <2> QED
    BY <2>1
<1>3. nums \in Seq(UInt32) /\ Len(nums) = 2 * m
  <2>1. nums = [j \in 1..(2 * m) |-> nums[j]]
    OBVIOUS
  <2>2. 2 * m \in Nat
    OBVIOUS
  <2> HIDE DEF nums
  <2> QED
    BY <1>2, <2>1, <2>2
<1> HIDE DEF nums
<1>4. FlatOf(nums, xs, ys, m)
  BY <1>1, <1>3, Zenon DEF FlatOf
<1> QED
  BY <1>4

\* The marks that the numbers say are the pairs.
LEMMA MarksOfFlat ==
  ASSUME NEW m \in Nat, NEW v, v \in Seq(Items("marks")), m = Len(v), NEW nums,
         FlatOf(nums, [h \in 1..m |-> v[h][1]], [h \in 1..m |-> v[h][2]], m)
  PROVE  Marks(nums, m) = v
<1>1. \A h \in 1..m : v[h] \in UInt32 \X (UInt32 \cap 0..(ByteWord - 1))
  BY DEF Items
<1>2. ASSUME NEW h \in 1..m PROVE <<nums[2 * h - 1], nums[2 * h] % ByteWord>> = v[h]
  <2>1. nums[2 * h - 1] = v[h][1] /\ nums[2 * h] = v[h][2]
    BY DEF FlatOf
  <2>2. v[h][2] % ByteWord = v[h][2]
    <3>1. v[h][2] \in 0..(ByteWord - 1)
      BY <1>1
    <3> QED
      BY <3>1, SmallMod, WireAssumption
  <2>3. v[h] = <<v[h][1], v[h][2]>>
    BY <1>1
  <2> QED
    BY <2>1, <2>2, <2>3, Zenon
<1>3. v = [h \in 1..m |-> v[h]]
  OBVIOUS
<1> QED
  BY <1>2, <1>3, Zenon DEF Marks

LEMMA MarksReply ==
  ASSUME NEW answer, answer.ok, NEW v, v = answer.v, NEW count \in UInt32, count = answer.count,
         v \in Seq(Items("marks")), count >= Len(v)
  PROVE  LET s == ReplyLine("marks", answer)
         IN  /\ count = Len(v) => AsSent("marks", v, s)
             /\ count > Len(v) => Told(ValueOK("marks", s, 1), v)
             /\ ~ValueOK("marks", s, 1).panics /\ ValueOK("marks", s, 1).senders = 1
<1>1. PICK m \in Nat : m = Len(v) /\ DOMAIN v = 1..m
  OBVIOUS
<1>2. PICK xs, ys : xs = [h \in 1..m |-> v[h][1]] /\ ys = [h \in 1..m |-> v[h][2]]
  OBVIOUS
<1>3. \A h \in 1..m : xs[h] \in UInt32 /\ ys[h] \in UInt32 /\ v[h] = <<xs[h], ys[h]>>
  <2>1. \A h \in 1..m : v[h] \in UInt32 \X (UInt32 \cap 0..(ByteWord - 1))
    BY <1>1 DEF Items
  <2> QED
    BY <1>2, <2>1
<1>4. PICK nums : FlatOf(nums, xs, ys, m)
  BY <1>3, FlatExists
<1>5. nums \in Seq(UInt32) /\ Len(nums) = 2 * m /\ 2 * m \in Nat
  BY <1>4 DEF FlatOf
<1>6. PICK items : items = [h \in DOMAIN v |-> Numbers(v[h])]
  OBVIOUS
<1>7. items \in Seq(Texts) /\ m = Len(items) /\ \A h \in 1..m : items[h] = Numbers(<<xs[h], ys[h]>>)
  <2>1. ASSUME NEW h \in 1..m PROVE Numbers(v[h]) \in Texts /\ Numbers(v[h]) = Numbers(<<xs[h], ys[h]>>)
    <3>1. <<xs[h], ys[h]>> \in Seq(UInt32)
      BY <1>3
    <3>2. Numbers(<<xs[h], ys[h]>>) \in Texts
      BY <3>1, NumbersText
    <3> QED
      BY <1>3, <3>2, Zenon
  <2>2. items = [h \in 1..m |-> Numbers(v[h])]
    BY <1>1, <1>6, Zenon
  <2>3. \A h \in 1..m : Numbers(v[h]) \in Texts
    BY <2>1
  <2>4. items \in Seq(Texts) /\ m = Len(items) /\ \A h \in 1..m : items[h] = Numbers(v[h])
    BY <2>2, <2>3
  <2> QED
    BY <2>1, <2>4, Zenon
<1>8. PICK s : s = ReplyLine("marks", answer)
  OBVIOUS
<1>9. s = ListOf(count, items) \o <<"LF">>
  BY <1>6, <1>8, ListLines, Zenon
<1>10. PICK words, pos : IsListOf(words, count, items, m) /\ WordsStand(s, words, m + 3, pos)
  <2>1. \E words, pos : /\ IsListOf(words, count, items, m)
                        /\ WordsStand(ListOf(count, items) \o <<"LF">>, words, m + 3, pos)
    BY <1>7, ListLine, Zenon
  <2> QED
    BY <1>9, <2>1, Zenon
<1>11. PICK k \in Nat : k = 2 * m
  BY <1>5
<1>12. PICK singles : singles = [i \in 1..k |-> Decimal[nums[i]]]
  OBVIOUS
<1>13. singles \in Seq(Texts) /\ k = Len(singles) /\ \A i \in 1..k : singles[i] = Decimal[nums[i]]
  <2>1. \A i \in 1..k : nums[i] \in UInt32
    BY <1>5, <1>11, <1>12
  <2>2. \A i \in 1..k : Decimal[nums[i]] \in Texts
    BY <2>1, DecimalNumber, Zenon
  <2> QED
    BY <1>11, <1>12, <2>2
<1>14. PICK flat : IsListOf(flat, count, singles, k)
  BY <1>13, ListLine, Zenon
<1>15. WordsStand(s, flat, k + 3, FlatPlaces(pos, xs, m))
  <2>1. WordsStand(s, flat, 2 * m + 3, FlatPlaces(pos, xs, m))
    <3>1. IsListOf(flat, count, singles, 2 * m)
      BY <1>11, <1>12, <1>14, Zenon
    <3>2. \A i \in 1..(2 * m) : singles[i] = Decimal[nums[i]]
      BY <1>11, <1>12, <1>13, Zenon
    <3>3. \A h \in 1..m : xs[h] \in UInt32 /\ ys[h] \in UInt32
      BY <1>3, Zenon
    <3>4. \A h \in 1..m : items[h] = Numbers(<<xs[h], ys[h]>>)
      BY <1>7, Zenon
    <3> QED
      BY <1>4, <1>10, <3>1, <3>2, <3>3, <3>4, Flattened
  <2> QED
    BY <1>11, <1>12, <2>1
<1>16. CountsAs(s, count, nums)
  BY <1>5, <1>11, <1>12, <1>13, <1>14, <1>15, CountedReads
<1>17. PICK list : /\ list = CountedList(s, 1) /\ list.count = count /\ list.ok = TRUE
                   /\ list.numbers = nums
  <2>1. [count |-> count, ok |-> TRUE, numbers |-> nums].count = count
        /\ [count |-> count, ok |-> TRUE, numbers |-> nums].ok = TRUE
        /\ [count |-> count, ok |-> TRUE, numbers |-> nums].numbers = nums
    OBVIOUS
  <2> QED
    BY <1>16, <2>1, Zenon DEF CountsAs
<1>18. Marks(nums, m) = v
  BY <1>1, <1>2, <1>4, MarksOfFlat, Zenon
<1>19. count \in Nat
  BY WordSize DEF UInt32
<1>20. ASSUME count = m PROVE MarksOK(s, 1) = Gives({Response(v, Nil)})
  <2>1. ~(2 * m < 2 * count)
    BY <1>20
  <2> QED
    BY <1>5, <1>17, <1>18, <1>20, <2>1, Zenon DEF MarksOK
<1>21. ASSUME count > m PROVE MarksOK(s, 1) = Gives({Response(v, ReadFailed)})
  <2>1. 2 * m < 2 * count /\ (2 * m) \div 2 = m
    BY <1>19, <1>21
  <2> QED
    BY <1>5, <1>17, <1>18, <2>1, Zenon DEF MarksOK
<1>22. ValueOK("marks", s, 1) = MarksOK(s, 1)
  BY ListValues
<1>23. count = m \/ count > m
  BY <1>1, <1>19
<1>24. ~MarksOK(s, 1).panics /\ MarksOK(s, 1).senders = 1
  BY <1>20, <1>21, <1>23, RunsAre, Zenon
<1>25. ASSUME count > m PROVE Told(MarksOK(s, 1), v)
  <2>1. PICK x : x = Response(v, ReadFailed)
    OBVIOUS
  <2>2. x = Response(v, ReadFailed) /\ x.err = ReadFailed /\ x.v = v
    BY <2>1 DEF Response
  <2>3. MarksOK(s, 1).responses = {x}
    BY <1>21, <1>25, <2>2 DEF Gives
  <2> QED
    BY <2>2, <2>3, Zenon DEF Told
<1>26. count = Len(v) => AsSent("marks", v, s)
  BY <1>1, <1>20, <1>22, Zenon DEF AsSent
<1> QED
  BY <1>1, <1>8, <1>22, <1>24, <1>25, <1>26, Zenon

-----------------------------------------------------------------------------
(* The items of a list of conferences. *)

\* From p up to q there is neither a digit nor an H.
NameStart == DigitChars \cup {"H"}
Gap(s, p, q) == \A r \in p..(q - 1) : s[r] \notin NameStart
HAt(s, h) == At(s, h, {"H"})

LEMMA NameStarts ==
  /\ "H" \in NameStart /\ DigitChars \subseteq NameStart
  /\ \A c : c = " " \/ c = "{" => c \notin NameStart
  BY NoDigits DEF NameStart

LEMMA NumberAfter ==
  ASSUME NEW s \in Texts, NEW n \in Nat, n < Word, NEW q \in Nat, Holds(s, q, Decimal[n]),
         NEW p \in Nat \ {0}, p <= q, \A r \in p..(q - 1) : s[r] \notin DigitChars,
         NEW h, h = q + Len(Decimal[n])
  PROVE  Unsigned(SubSeq(s, p, h - 1), Word) = n
<1>1. PICK d \in Texts : d = Decimal[n]
  BY DecimalInTexts
<1>2. Holds(s, q, d) /\ h = q + Len(d) /\ q <= Len(s) + 1
  <2>1. Holds(s, q, d)
    BY <1>1
  <2>2. Len(d) \in Nat /\ q + Len(d) <= Len(s) + 1
    BY <2>1, HoldsChars
  <2>3. Len(s) \in Nat
    BY TextLen
  <2> QED
    BY <1>1, <2>1, <2>2, <2>3
<1>3. PICK u : u = Cut(s, p, q)
  OBVIOUS
<1>4. u \in Texts /\ \A i \in 1..Len(u) : u[i] \notin DigitChars
  <2>1. u \in Texts /\ Len(u) = q - p /\ \A i \in 1..(q - p) : u[i] = s[p + i - 1]
    BY <1>2, <1>3, CutText
  <2>2. \A i \in 1..(q - p) : p + i - 1 \in p..(q - 1)
    OBVIOUS
  <2> QED
    BY <2>1, <2>2
<1>5. SubSeq(s, p, h - 1) = u \o d
  <2>1. Cut(s, p, q + Len(d)) = Cut(s, p, q) \o d
    BY <1>2, CutBefore
  <2> QED
    BY <1>2, <1>3, <2>1 DEF Cut
<1>6. Unsigned(u \o d, Word) = n
  BY <1>1, <1>4, DecimalReads, WireAssumption
<1> QED
  BY <1>5, <1>6

HeadRead(s, p, h, n) ==
  /\ FromString(s, p).v = SubSeq(s, h + 1, h + n) /\ FromString(s, p).next = h + n + 1
  /\ FromString(s, p).panics = (h + n > Len(s))

\* The beginning of a name: its length and the H.
LEMMA NameBegins ==
  ASSUME NEW s \in Texts, NEW n \in Nat, n < Word, NEW q \in Nat, Holds(s, q, Decimal[n]),
         NEW p \in Nat \ {0}, p <= q, Gap(s, p, q), NEW h \in Nat, h = q + Len(Decimal[n]),
         HAt(s, h)
  PROVE  HeadRead(s, p, h, n)
<1>1. PICK H : H = {"H"}
  OBVIOUS
<1>2. h \in DOMAIN s /\ s[h] \in H
  BY <1>1, Zenon DEF HAt, At
<1>3. h <= Len(s) /\ Len(s) \in Nat
  BY <1>2, TextLen
<1>4. H \subseteq NameStart /\ \A c \in DigitChars : c \notin H
  BY <1>1, NameStarts, NoDigits, Zenon
<1>5. PICK d \in Texts : d = Decimal[n] /\ \A i \in 1..Len(d) : d[i] \in DigitChars
  BY DecimalInTexts
<1>6. p <= h /\ \A r \in p..(h - 1) : s[r] \notin H
  <2>1. q <= h /\ \A r \in q..(h - 1) : s[r] \in DigitChars
    <3>1. Holds(s, q, d) /\ h = q + Len(d)
      BY <1>5
    <3> QED
      BY <1>5, <3>1, HoldsIn
  <2>2. \A r \in p..(q - 1) : s[r] \notin H
    BY <1>4, Zenon DEF Gap
  <2>3. \A r \in q..(h - 1) : s[r] \notin H
    BY <1>4, <2>1, Zenon
  <2>4. \A r \in p..(h - 1) : r \in p..(q - 1) \/ r \in q..(h - 1)
    OBVIOUS
  <2> QED
    BY <2>1, <2>2, <2>3, <2>4
<1>7. Find(s, p, H) = h
  <2>1. p \in Nat /\ h <= Len(s) + 1 /\ (h <= Len(s) => s[h] \in H)
    BY <1>2, <1>3
  <2> QED
    BY <1>6, <2>1, FindAt
<1>8. Unsigned(SubSeq(s, p, h - 1), Word) = n
  <2>1. \A r \in p..(q - 1) : s[r] \notin DigitChars
    BY NameStarts, Zenon DEF Gap
  <2> QED
    BY <2>1, NumberAfter
<1>9. ~(h > Len(s))
  BY <1>3
<1>10. Find(s, p, {"H"}) = h
  BY <1>1, <1>7, Zenon
<1>11. (h > Len(s) \/ h + n > Len(s)) = (h + n > Len(s))
  BY <1>9
<1>12. PICK x, y, z : x = SubSeq(s, h + 1, h + n) /\ y = h + n + 1 /\ z = (h + n > Len(s))
  OBVIOUS
<1>13. FromString(s, p) = [v |-> x, next |-> y, panics |-> z]
  BY <1>8, <1>10, <1>11, <1>12, Zenon DEF FromString
<1>14. FromString(s, p).v = x /\ FromString(s, p).next = y /\ FromString(s, p).panics = z
  BY <1>13
<1> QED
  BY <1>12, <1>14, Zenon DEF HeadRead

LEMMA NumberFromString ==
  ASSUME NEW s \in Texts, NEW n \in UInt32, NEW q \in Nat, Holds(s, q, Decimal[n]),
         NEW p \in Nat \ {0}, p <= q, \A r \in p..(q - 1) : s[r] \notin DigitChars,
         NEW e \in Nat, e = q + Len(Decimal[n]), e <= Len(s) => s[e] \notin DigitChars
  PROVE  ReadUInt32FromString(s, p) = Value(n, e)
<1>1. n \in Nat /\ n < Word /\ Word \in Nat \ {0}
  BY WordSize DEF UInt32
<1>2. PICK d \in Texts : /\ d = Decimal[n] /\ Len(d) \in Nat \ {0}
                         /\ \A i \in 1..Len(d) : d[i] \in DigitChars
  BY <1>1, DecimalInTexts
<1>3. Holds(s, q, d) /\ e = q + Len(d)
  BY <1>2
<1>4. q < e /\ e <= Len(s) + 1 /\ \A r \in q..(e - 1) : s[r] \in DigitChars
  BY <1>2, <1>3, HoldsIn
<1>5. Find(s, p, DigitChars) = q
  <2>1. p \in Nat /\ q <= Len(s) + 1 /\ (q <= Len(s) => s[q] \in DigitChars)
    <3>1. Len(s) \in Nat /\ q \in q..(e - 1)
      BY <1>4, TextLen
    <3> QED
      BY <1>4, <3>1
  <2> QED
    BY <2>1, FindAt
<1>6. SkipOver(s, q, DigitChars) = e
  BY <1>4, SkipOverAt
<1>7. Unsigned(SubSeq(s, q, e - 1), Word) = n
  <2>1. SubSeq(s, q, q + Len(d) - 1) = d
    BY <1>3, HoldsSub
  <2>2. Unsigned(d, Word) = n
    BY <1>1, <1>2, DecimalReadsAlone
  <2>3. q + Len(d) - 1 = e - 1
    BY <1>2, <1>3
  <2>4. SubSeq(s, q, e - 1) = d
    BY <2>1, <2>3, Zenon
  <2> QED
    BY <2>2, <2>4, Zenon
<1> QED
  BY <1>5, <1>6, <1>7, Zenon DEF ReadUInt32FromString

LEMMA ConfTypeParsed ==
  ASSUME NEW s \in Texts, NEW flags \in FlagsOf(ConfFlags), NEW o,
         Holds(s, o, ConfBitField(flags))
  PROVE  ParseConfType(s, o) = flags
<1>1. PICK n \in Nat \ {0} : n = 4
  OBVIOUS
<1>2. PICK b : b = BitsOf(flags, ConfFlags, n) /\ BitText(b, n) /\ b = ConfBitField(flags)
  BY <1>1, BitsOfText DEF ConfBitField
<1>3. Len(ConfFlags) = n /\ DOMAIN ConfFlags = 1..n /\ Len(ConfFlags) \in Nat
  BY <1>1 DEF ConfFlags
<1>4. Marked(ConfFlags, b) = flags
  <2>1. \A f \in flags : \E i \in 1..Len(ConfFlags) : ConfFlags[i] = f
    BY <1>3 DEF FlagsOf
  <2>2. Len(ConfFlags) <= n /\ DOMAIN ConfFlags = 1..Len(ConfFlags)
    BY <1>3
  <2>3. Marked(ConfFlags, BitsOf(flags, ConfFlags, n)) = flags
    BY <1>3, <2>1, <2>2, FlagsOfBits
  <2> QED
    BY <1>2, <2>3, Zenon
<1>5. Len(b) = n
  BY <1>2 DEF BitText
<1>6. \A j \in 1..n : s[o + j - 1] = b[j]
  BY <1>2, <1>5, Zenon DEF Holds
<1>7. ParseConfType(s, o) = Marked(ConfFlags, b)
  BY <1>3, <1>6, Zenon DEF ParseConfType, Marked
<1> QED
  BY <1>4, <1>7

\* A conference's name, bits and number stand from q up to e, the H at h, a blank at b.
ItemStands(s, name, flags, no, q, h, b, e) ==
  /\ Holds(s, q, Decimal[Len(name)]) /\ h = q + Len(Decimal[Len(name)]) /\ HAt(s, h)
  /\ Holds(s, h + 1, name) /\ b = h + Len(name) + 1 /\ BlankAt(s, b)
  /\ Holds(s, b + 1, ConfBitField(flags)) /\ BlankAt(s, b + 5)
  /\ Holds(s, b + 6, Decimal[no]) /\ e = b + 6 + Len(Decimal[no])
  /\ q \in Nat \ {0} /\ h \in Nat /\ b \in Nat /\ e \in Nat

IsItem(item, name, flags, no) ==
  /\ item = <<name, flags, no>> /\ name \in Texts /\ flags \in FlagsOf(ConfFlags)
  /\ Len(name) \in Nat /\ Len(name) < Word
  /\ no \in UInt32 /\ no \in 0..(ConfWord - 1)

LEMMA ItemParts ==
  ASSUME NEW item \in Items("zconf") PROVE \E name, flags, no : IsItem(item, name, flags, no)
<1>1. "zconf" # "marks" /\ "zconf" # "unread"
  OBVIOUS
<1>2. item \in Seq(STRING) \X FlagsOf(ConfFlags) \X (UInt32 \cap 0..(ConfWord - 1))
      /\ Len(item[1]) < Word
  BY <1>1 DEF Items
<1>3. PICK name \in Seq(STRING), flags \in FlagsOf(ConfFlags), no \in UInt32 \cap 0..(ConfWord - 1) :
        name = item[1] /\ item = <<name, flags, no>>
  <2>1. item[1] \in Seq(STRING) /\ item[2] \in FlagsOf(ConfFlags)
        /\ item[3] \in UInt32 \cap 0..(ConfWord - 1)
    BY <1>2
  <2>2. item = <<item[1], item[2], item[3]>>
    BY <1>2
  <2> QED
    BY <2>1, <2>2, Zenon
<1>4. name \in Texts
  BY StringsAreTexts
<1> QED
  BY <1>2, <1>3, <1>4, TextLen DEF IsItem

LEMMA BitField ==
  ASSUME NEW flags \in FlagsOf(ConfFlags)
  PROVE  /\ ConfBitField(flags) \in Texts /\ Len(ConfBitField(flags)) = 4
         /\ \A i \in 1..4 : ConfBitField(flags)[i] \in DigitChars
<1>1. PICK n \in Nat : n = 4
  OBVIOUS
<1>2. BitText(ConfBitField(flags), n)
  BY <1>1, BitsOfText DEF ConfBitField
<1>3. Bits \subseteq DigitChars
  BY BitsAreDigits
<1> QED
  BY <1>1, <1>2, <1>3, Zenon DEF BitText

LEMMA ItemText ==
  ASSUME NEW item, NEW name, NEW flags, NEW no, IsItem(item, name, flags, no)
  PROVE  \E ws \in Seq(Texts) : /\ ws = <<Sprint(name), ConfBitField(flags), Decimal[no]>>
                                /\ ZItem(item) = Spaced(ws) /\ ZItem(item) \in Texts /\ Len(ws) = 3
                                /\ ws[1] = Sprint(name) /\ ws[2] = ConfBitField(flags)
                                /\ ws[3] = Decimal[no]
<1>1. item = <<name, flags, no>> /\ name \in Texts /\ flags \in FlagsOf(ConfFlags) /\ no \in UInt32
  BY DEF IsItem
<1>2. PICK x \in Texts, y \in Texts, z \in Texts :
        x = Sprint(name) /\ y = ConfBitField(flags) /\ z = Decimal[no]
  BY <1>1, SprintText, BitField, DecimalNumber
<1>3. PICK ws \in Seq(Texts) : ws = <<x, y, z>> /\ Len(ws) = 3 /\ ws[1] = x /\ ws[2] = y /\ ws[3] = z
  <2>1. /\ <<x, y, z>> \in Seq(Texts) /\ Len(<<x, y, z>>) = 3 /\ <<x, y, z>>[1] = x
        /\ <<x, y, z>>[2] = y /\ <<x, y, z>>[3] = z
    OBVIOUS
  <2> QED
    BY <2>1
<1>4. item[1] = name /\ item[2] = flags /\ item[3] = no
  BY <1>1
<1>5. ZItem(item) = Spaced(ws)
  BY <1>2, <1>3, <1>4, Zenon DEF ZItem
<1>6. Spaced(ws) \in Texts
  BY SpacedText
<1> QED
  BY <1>2, <1>3, <1>5, <1>6, Zenon

LEMMA ItemHolds ==
  ASSUME NEW s \in Texts, NEW item, NEW name, NEW flags, NEW no, IsItem(item, name, flags, no),
         NEW q, Holds(s, q, ZItem(item)), NEW e, e = q + Len(ZItem(item))
  PROVE  \E h, b : ItemStands(s, name, flags, no, q, h, b, e)
<1>1. /\ item = <<name, flags, no>> /\ name \in Texts /\ flags \in FlagsOf(ConfFlags) /\ no \in UInt32
      /\ Len(name) \in Nat
  BY DEF IsItem
<1>2. PICK ws \in Seq(Texts) : /\ ZItem(item) = Spaced(ws) /\ ZItem(item) \in Texts /\ Len(ws) = 3
                               /\ ws[1] = Sprint(name) /\ ws[2] = ConfBitField(flags)
                               /\ ws[3] = Decimal[no]
  BY ItemText
<1>3. q \in Nat \ {0} /\ Len(ZItem(item)) \in Nat /\ e \in Nat
  <2>1. q \in Nat \ {0} /\ Len(ZItem(item)) \in Nat
    BY <1>2, HoldsChars
  <2> QED
    BY <2>1
<1>4. PICK place : WordsAt(s, ws, place) /\ place[1] = q /\ place[4] = e + 1
  <2>1. Len(ws) > 0 /\ q \in Nat /\ Len(ws) + 1 = 4 /\ Holds(s, q, Spaced(ws))
    BY <1>2, <1>3
  <2>2. PICK place : /\ WordsAt(s, ws, place) /\ place[1] = q
                     /\ place[Len(ws) + 1] = q + Len(Spaced(ws)) + 1
    BY <2>1, SpacedWords
  <2>3. place[4] = e + 1
    BY <1>2, <2>1, <2>2, Zenon
  <2> QED
    BY <2>2, <2>3
<1>5. 1 \in 1..Len(ws) /\ 2 \in 1..Len(ws) /\ 3 \in 1..Len(ws) /\ 1 < Len(ws) /\ 2 < Len(ws)
      /\ 1 + 1 = 2 /\ 2 + 1 = 3 /\ 3 + 1 = 4
  BY <1>2
<1>6. Holds(s, q, Sprint(name)) /\ place[2] = q + Len(Sprint(name)) + 1 /\ BlankAt(s, place[2] - 1)
  <2>1. Holds(s, place[1], ws[1]) /\ place[1 + 1] = place[1] + Len(ws[1]) + 1
    BY <1>4, <1>5, Zenon DEF WordsAt
  <2>2. BlankAt(s, place[1 + 1] - 1)
    BY <1>4, <1>5, Zenon DEF WordsAt, BlankAt
  <2> QED
    BY <1>2, <1>4, <1>5, <2>1, <2>2, Zenon
<1>7. /\ Holds(s, place[2], ConfBitField(flags)) /\ BlankAt(s, place[3] - 1)
      /\ place[3] = place[2] + Len(ConfBitField(flags)) + 1
  <2>1. Holds(s, place[2], ws[2]) /\ place[2 + 1] = place[2] + Len(ws[2]) + 1
    BY <1>4, <1>5, Zenon DEF WordsAt
  <2>2. BlankAt(s, place[2 + 1] - 1)
    BY <1>4, <1>5, Zenon DEF WordsAt, BlankAt
  <2> QED
    BY <1>2, <1>4, <1>5, <2>1, <2>2, Zenon
<1>8. Holds(s, place[3], Decimal[no]) /\ place[4] = place[3] + Len(Decimal[no]) + 1
  <2>1. Holds(s, place[3], ws[3]) /\ place[3 + 1] = place[3] + Len(ws[3]) + 1
    BY <1>4, <1>5, Zenon DEF WordsAt
  <2> QED
    BY <1>2, <1>5, <2>1, Zenon
<1>9. PICK h \in Nat : /\ h = q + Len(Decimal[Len(name)]) /\ Holds(s, q, Decimal[Len(name)])
                       /\ HAt(s, h) /\ Holds(s, h + 1, name)
                       /\ h + Len(name) + 1 = q + Len(Sprint(name))
  <2>1. \E h \in Nat : /\ h = q + Len(Decimal[Len(name)]) /\ q <= h
                       /\ Holds(s, q, Decimal[Len(name)])
                       /\ At(s, h, {"H"}) /\ Holds(s, h + 1, name) /\ h + Len(name) <= Len(s)
                       /\ h + Len(name) + 1 = q + Len(Sprint(name))
    BY <1>1, <1>6, SprintHolds, Zenon
  <2> QED
    BY <2>1, Zenon DEF HAt
<1>10. PICK b \in Nat, l \in Nat, c, d, u \in Nat : /\ b = h + Len(name) + 1 /\ l = Len(Decimal[no])
                                            /\ c = place[2] /\ d = place[3] /\ u = Len(Sprint(name))
  <2>1. Len(Decimal[no]) \in Nat /\ Len(Sprint(name)) \in Nat
    <3>1. Decimal[no] \in Texts /\ Sprint(name) \in Texts
      BY <1>1, DecimalNumber, SprintText
    <3> QED
      BY <3>1, TextLen
  <2>2. h + Len(name) + 1 \in Nat
    BY <1>1
  <2>3. place[2] \in Nat /\ place[3] \in Nat
    <3>1. place \in [1..(Len(ws) + 1) -> Nat]
      BY <1>4, Zenon DEF WordsAt
    <3> QED
      BY <1>2, <3>1
  <2> QED
    BY <2>1, <2>2, <2>3
<1>11. c = b + 1 /\ d = b + 6 /\ e = b + 6 + l /\ c - 1 = b /\ d - 1 = b + 5
  <2>1. b = q + u
    BY <1>9, <1>10, Zenon
  <2>2. c = q + u + 1
    BY <1>6, <1>10, Zenon
  <2>3. c = b + 1
    BY <1>3, <2>1, <2>2
  <2>4. d = c + 4 + 1
    BY <1>1, <1>7, <1>10, BitField, Zenon
  <2>5. e + 1 = d + l + 1
    BY <1>4, <1>8, <1>10, Zenon
  <2> QED
    BY <1>3, <2>3, <2>4, <2>5
<1>12. ItemStands(s, name, flags, no, q, h, b, e)
  <2>1. /\ BlankAt(s, b) /\ BlankAt(s, b + 5) /\ Holds(s, b + 1, ConfBitField(flags))
        /\ Holds(s, b + 6, Decimal[no]) /\ e = b + 6 + Len(Decimal[no])
    BY <1>6, <1>7, <1>8, <1>10, <1>11, Zenon
  <2> QED
    BY <1>3, <1>9, <1>10, <2>1, Zenon DEF ItemStands
<1> QED
  BY <1>12

LEMMA BlankNoDigit ==
  ASSUME NEW s \in Texts, NEW q, BlankAt(s, q)
  PROVE  q \in 1..Len(s) /\ s[q] \notin DigitChars /\ s[q] \notin NameStart /\ s[q] \notin Brace
<1>1. q \in DOMAIN s /\ s[q] = " "
  BY Zenon DEF BlankAt, At
<1>2. q \in 1..Len(s)
  BY <1>1, TextLen
<1>3. s[q] \notin DigitChars /\ s[q] \notin NameStart
  BY <1>1, NoDigits, NameStarts, Zenon
<1>4. s[q] \notin Brace
  BY <1>1, BraceIs, Zenon DEF NoBlankIn
<1> QED
  BY <1>2, <1>3, <1>4

LEMMA ItemReads ==
  ASSUME NEW s \in Texts, NEW item, NEW name, NEW flags, NEW no, IsItem(item, name, flags, no),
         NEW a \in Nat \ {0}, NEW q, a < q, Gap(s, a, q), NEW h, NEW b, NEW e,
         ItemStands(s, name, flags, no, q, h, b, e), BlankAt(s, e)
  PROVE  ZConf(s, a) = [v |-> item, next |-> e] /\ ~ZConfPanics(s, a)
<1>1. /\ item = <<name, flags, no>> /\ name \in Texts /\ flags \in FlagsOf(ConfFlags) /\ no \in UInt32
      /\ Len(name) \in Nat /\ Len(name) < Word /\ no \in 0..(ConfWord - 1)
  BY DEF IsItem
<1>2. /\ Holds(s, q, Decimal[Len(name)]) /\ h = q + Len(Decimal[Len(name)]) /\ HAt(s, h)
      /\ Holds(s, h + 1, name) /\ b = h + Len(name) + 1 /\ BlankAt(s, b)
      /\ Holds(s, b + 1, ConfBitField(flags)) /\ BlankAt(s, b + 5)
      /\ Holds(s, b + 6, Decimal[no]) /\ e = b + 6 + Len(Decimal[no])
      /\ q \in Nat \ {0} /\ h \in Nat /\ b \in Nat /\ e \in Nat
  BY Zenon DEF ItemStands
<1>3. PICK n \in Nat, l \in Nat, k \in Nat, m \in Nat :
        n = Len(name) /\ l = Len(Decimal[no]) /\ k = Len(Decimal[n]) /\ m = Len(s) /\ l > 0 /\ k > 0
  <2>1. Len(Decimal[no]) \in Nat \ {0} /\ Len(Decimal[Len(name)]) \in Nat \ {0}
    <3>1. no \in Nat
      BY <1>1, WordSize DEF UInt32
    <3> QED
      BY <1>1, <3>1, DecimalInTexts
  <2>2. Len(s) \in Nat
    BY TextLen
  <2> QED
    BY <1>1, <2>1, <2>2
<1>4. h = q + k /\ b = h + n + 1 /\ e = b + 6 + l /\ e <= m
  <2>1. e \in 1..Len(s)
    BY BlankNoDigit
  <2>2. h = q + k /\ b = h + n + 1 /\ e = b + 6 + l /\ e \in 1..m
    BY <1>2, <1>3, <2>1, Zenon
  <2> QED
    BY <2>2
<1>5. /\ FromString(s, a).v = SubSeq(s, h + 1, h + n) /\ FromString(s, a).next = h + n + 1
      /\ FromString(s, a).panics = (h + n > Len(s))
  <2>1. n < Word /\ Holds(s, q, Decimal[n]) /\ h = q + Len(Decimal[n]) /\ HAt(s, h)
    BY <1>1, <1>2, <1>3, Zenon
  <2>2. q \in Nat /\ a <= q /\ h \in Nat
    BY <1>2
  <2>3. HeadRead(s, a, h, n)
    BY <2>1, <2>2, NameBegins
  <2> QED
    BY <2>3, Zenon DEF HeadRead
<1>6. PICK from : from = FromString(s, a) /\ from.v = name /\ from.next = b /\ ~from.panics
  <2>1. SubSeq(s, h + 1, h + 1 + Len(name) - 1) = name
    BY <1>1, <1>2, HoldsSub
  <2>2. h + 1 + Len(name) - 1 = h + n
    BY <1>2, <1>3
  <2>3. ~(h + n > Len(s))
    BY <1>3, <1>4, SMTT(20)
  <2> QED
    BY <1>4, <1>5, <2>1, <2>2, <2>3
<1>7. ParseConfType(s, b + 1) = flags
  BY <1>1, <1>2, ConfTypeParsed
<1>8. ReadUInt32FromString(s, b + 5) = Value(no, e)
  <2>1. /\ b + 6 \in Nat /\ b + 5 \in Nat \ {0} /\ b + 5 <= b + 6
        /\ \A r \in (b + 5)..(b + 6 - 1) : r = b + 5
    BY <1>2
  <2>2. s[b + 5] \notin DigitChars /\ s[e] \notin DigitChars
    BY <1>2, BlankNoDigit
  <2>3. \A r \in (b + 5)..(b + 6 - 1) : s[r] \notin DigitChars
    BY <2>1, <2>2
  <2>4. PICK f \in Nat \ {0}, g \in Nat : f = b + 5 /\ g = b + 6 /\ f <= g
    BY <2>1
  <2>5. Holds(s, g, Decimal[no]) /\ e = g + Len(Decimal[no]) /\ e \in Nat
    BY <1>2, <2>4, Zenon
  <2>6. \A r \in f..(g - 1) : s[r] \notin DigitChars
    <3>1. \A r \in f..(g - 1) : r = f
      <4>1. b \in Nat
        BY <1>2, Zenon
      <4> QED
        BY <2>4, <4>1
    <3>2. s[f] \notin DigitChars
      BY <2>2, <2>4, Zenon
    <3> QED
      BY <3>1, <3>2
  <2>7. ReadUInt32FromString(s, f) = Value(no, e)
    <3>1. no \in UInt32 /\ (e <= Len(s) => s[e] \notin DigitChars) /\ f <= g
      BY <1>1, <2>2, <2>4
    <3> QED
      BY <2>5, <2>6, <3>1, NumberFromString
  <2> QED
    BY <2>4, <2>7, Zenon
<1>9. no % ConfWord = no
  BY <1>1, SmallMod, WireAssumption
<1>10. PICK read : read = ReadUInt32FromString(s, b + 5) /\ read.v = no /\ read.next = e
  <2>1. Value(no, e).v = no /\ Value(no, e).next = e
    BY ValueParts
  <2> QED
    BY <1>8, <2>1, Zenon
<1>11. ZConf(s, a) = [v |-> item, next |-> e]
  BY <1>1, <1>6, <1>7, <1>9, <1>10, Zenon DEF ZConf
<1>12. ~(a + 9 > Len(s)) /\ ~(b + 6 > Len(s))
  <2>1. ~(a + 9 > m) /\ ~(b + 6 > m)
    <3>1. q \in Nat /\ h \in Nat /\ b \in Nat /\ e \in Nat
      BY <1>2, Zenon
    <3>2. k > 0 /\ l > 0
      BY <1>3
    <3>3. a < q
      OBVIOUS
    <3> QED
      BY <1>4, <3>1, <3>2, <3>3
  <2> QED
    BY <1>3, <2>1, Zenon
<1> QED
  BY <1>6, <1>11, <1>12, Zenon DEF ZConfPanics

\* A list that is cut within a name.
LEMMA ItemBroken ==
  ASSUME NEW s \in Texts, NEW n \in Nat, n < Word, NEW q \in Nat, Holds(s, q, Decimal[n]),
         NEW p \in Nat \ {0}, p <= q, Gap(s, p, q), NEW h \in Nat, h = q + Len(Decimal[n]),
         HAt(s, h), Len(s) <= h + n
  PROVE  ZConfPanics(s, p)
<1>1. FromString(s, p).next = h + n + 1
  <2>1. HeadRead(s, p, h, n)
    BY NameBegins
  <2> QED
    BY <2>1, Zenon DEF HeadRead
<1>2. FromString(s, p).next + 6 > Len(s)
  BY <1>1, TextLen
<1> QED
  BY <1>2, Zenon DEF ZConfPanics

LEMMA NoItem == ASSUME NEW s, NEW p, p + 9 > Len(s) PROVE ZConfPanics(s, p)
  BY Zenon DEF ZConfPanics

LEMMA SameUnbraced ==
  ASSUME NEW s \in Texts, NEW w \in Texts, NEW p, Holds(s, p, w), Unbraced(w)
  PROVE  \A r \in p..(p + Len(w) - 1) : s[r] \notin Brace
<1>1. \A r \in p..(p + Len(w) - 1) : r - p + 1 \in 1..Len(w) /\ s[r] = w[r - p + 1]
  BY HoldsChars
<1> QED
  BY <1>1, Zenon DEF Unbraced

LEMMA DigitWord ==
  ASSUME NEW w, \A i \in 1..Len(w) : w[i] \in DigitChars PROVE Unbraced(w)
  BY DigitsUnbraced, Zenon DEF Unbraced

\* Only a name can bring a brace into an item.
LEMMA ZItemUnbraced ==
  ASSUME NEW item, NEW name, NEW flags, NEW no, IsItem(item, name, flags, no), Unbraced(name)
  PROVE  Unbraced(ZItem(item))
<1>1. PICK s \in Texts : s = ZItem(item)
  BY ItemText
<1>2. PICK m \in Nat, q \in Nat, e \in Nat : m = Len(s) /\ q = 1 /\ e = m + 1
  BY TextLen
<1>3. PICK h, b : ItemStands(s, name, flags, no, q, h, b, e)
  <2>1. Holds(s, q, ZItem(item))
    BY <1>1, <1>2, HoldsAll
  <2>2. e = q + Len(ZItem(item))
    BY <1>1, <1>2
  <2> QED
    BY <2>1, <2>2, ItemHolds
<1>4. /\ name \in Texts /\ flags \in FlagsOf(ConfFlags) /\ no \in UInt32
      /\ Len(name) \in Nat /\ Len(name) < Word
  BY DEF IsItem
<1>5. /\ Holds(s, q, Decimal[Len(name)]) /\ h = q + Len(Decimal[Len(name)]) /\ HAt(s, h)
      /\ Holds(s, h + 1, name) /\ b = h + Len(name) + 1 /\ BlankAt(s, b)
      /\ Holds(s, b + 1, ConfBitField(flags)) /\ BlankAt(s, b + 5)
      /\ Holds(s, b + 6, Decimal[no]) /\ e = b + 6 + Len(Decimal[no])
      /\ h \in Nat /\ b \in Nat
  BY <1>3, Zenon DEF ItemStands
<1>6. PICK x \in Texts, y \in Texts, z \in Texts :
        /\ x = Decimal[Len(name)] /\ y = ConfBitField(flags) /\ z = Decimal[no]
        /\ Unbraced(x) /\ Unbraced(y) /\ Unbraced(z) /\ Len(y) = 4
  <2>1. Len(name) \in UInt32
    BY <1>4, WordSize DEF UInt32
  <2>2. /\ Decimal[Len(name)] \in Texts /\ Unbraced(Decimal[Len(name)])
        /\ Decimal[no] \in Texts /\ Unbraced(Decimal[no])
    BY <1>4, <2>1, DecimalNumber
  <2>3. ConfBitField(flags) \in Texts /\ Len(ConfBitField(flags)) = 4 /\ Unbraced(ConfBitField(flags))
    BY <1>4, BitField, DigitWord
  <2> QED
    BY <2>2, <2>3
<1>7. PICK i \in Nat, j \in Nat, l \in Nat : i = Len(x) /\ j = Len(name) /\ l = Len(z)
  BY <1>4, TextLen
<1>8. h = q + i /\ b = h + j + 1 /\ e = b + 6 + l
  BY <1>5, <1>6, <1>7
<1>9. \A r \in q..(q + i - 1) : s[r] \notin Brace
  BY <1>5, <1>6, <1>7, SameUnbraced
<1>10. s[h] \notin Brace
  BY <1>5, BraceIs, Zenon DEF HAt, At
<1>11. \A r \in (h + 1)..(h + 1 + j - 1) : s[r] \notin Brace
  BY <1>4, <1>5, <1>7, SameUnbraced
<1>12. \A r \in (b + 1)..(b + 1 + 4 - 1) : s[r] \notin Brace
  BY <1>5, <1>6, SameUnbraced
<1>13. \A r \in (b + 6)..(b + 6 + l - 1) : s[r] \notin Brace
  BY <1>5, <1>6, <1>7, SameUnbraced
<1>14. s[b] \notin Brace /\ s[b + 5] \notin Brace
  BY <1>5, BlankNoDigit
<1>15. ASSUME NEW r \in 1..m PROVE s[r] \notin Brace
  <2>1. \/ r \in q..(q + i - 1) \/ r = h \/ r \in (h + 1)..(h + 1 + j - 1) \/ r = b
        \/ r \in (b + 1)..(b + 1 + 4 - 1) \/ r = b + 5 \/ r \in (b + 6)..(b + 6 + l - 1)
    <3>1. h \in Nat /\ b \in Nat
      BY <1>5, Zenon
    <3> QED
      BY <1>2, <1>8, <3>1
  <2> QED
    BY <1>9, <1>10, <1>11, <1>12, <1>13, <1>14, <2>1
<1> QED
  BY <1>1, <1>2, <1>15, Zenon DEF Unbraced

-----------------------------------------------------------------------------
(* The loop over a list of conferences. *)

\* The loop of zConfArrayResponseCallback.OK over a list ar whose first k - 1 items, from the
\* places next on, are those of v, and whose k-th cannot be read.
ItemsRead(ar, v, k, next) ==
  /\ next[0] = 1 /\ ZConfPanics(ar, next[k - 1])
  /\ \A i \in 1..(k - 1) : /\ ZConf(ar, next[i - 1]) = [v |-> v[i], next |-> next[i]]
                           /\ ~ZConfPanics(ar, next[i - 1])

\* The loop: one turn, all of them, what is read.
Turn(ar, before) ==
  IF before.panics \/ ZConfPanics(ar, before.next)
  THEN [before EXCEPT !.panics = TRUE]
  ELSE LET item == ZConf(ar, before.next)
       IN  [confs |-> Append(before.confs, item.v), next |-> item.next, panics |-> FALSE]
Turns(ar, n, g) ==
  [i \in 0..n |-> IF i = 0 THEN [confs |-> <<>>, next |-> 1, panics |-> FALSE]
                  ELSE Turn(ar, g[i - 1])]
AllTurns(ar, n) == CHOOSE g : g = Turns(ar, n, g)

LEMMA TurnsTaken ==
  ASSUME NEW s
  PROVE  LET c == ReadUInt32(s, 1)
             list == ReadDelimitedList(s, c.next)
             all == AllTurns(list.v, c.v)[c.v]
         IN  ZConfOK(s, 1) = IF all.panics THEN Panics
                             ELSE Gives({Response(all.confs, IF list.ok THEN Nil ELSE ReadFailed)})
  BY Zenon DEF ZConfOK, AllTurns, Turns, Turn

LEMMA Panicked ==
  \A x, y, z : [[confs |-> x, next |-> y, panics |-> z] EXCEPT !.panics = TRUE] =
                 [confs |-> x, next |-> y, panics |-> TRUE]
<1> SUFFICES ASSUME NEW x, NEW y, NEW z
             PROVE  [[confs |-> x, next |-> y, panics |-> z] EXCEPT !.panics = TRUE] =
                      [confs |-> x, next |-> y, panics |-> TRUE]
  OBVIOUS
<1>1. PICK q : q = [confs |-> x, next |-> y, panics |-> z]
  OBVIOUS
<1>2. PICK r : r = [q EXCEPT !.panics = TRUE]
  OBVIOUS
<1>3. DOMAIN q = {"confs", "next", "panics"} /\ q.confs = x /\ q.next = y
  BY <1>1
<1>4. /\ DOMAIN r = {"confs", "next", "panics"} /\ r.confs = x /\ r.next = y /\ r.panics = TRUE
      /\ r = [i \in DOMAIN r |-> r[i]]
  BY <1>2, <1>3
<1>5. r = [confs |-> x, next |-> y, panics |-> TRUE]
  BY <1>4
<1> QED
  BY <1>1, <1>2, <1>5, Zenon

LEMMA ZConfRuns ==
  ASSUME NEW s, NEW count \in Nat, NEW p, ReadUInt32(s, 1) = Value(count, p),
         NEW list, list = ReadDelimitedList(s, p), NEW ar, ar = list.v, list.ok = TRUE,
         NEW v, NEW k \in Nat \ {0}, NEW next, ItemsRead(ar, v, k, next)
  PROVE  /\ count >= k => ZConfOK(s, 1) = Panics
         /\ count < k => ZConfOK(s, 1) = Gives({Response(First(v, count), Nil)})
<1>1. PICK c : c = ReadUInt32(s, 1) /\ c.v = count /\ c.next = p
  <2>1. Value(count, p).v = count /\ Value(count, p).next = p
    BY ValueParts
  <2> QED
    BY <2>1, Zenon
<1> DEFINE Body(g) == Turns(ar, count, g)
           items == AllTurns(ar, count)
           Good(i) == [confs |-> First(v, i), next |-> next[i], panics |-> FALSE]
           Bad == [confs |-> First(v, k - 1), next |-> next[k - 1], panics |-> TRUE]
           f == [i \in 0..count |-> IF i < k THEN Good(i) ELSE Bad]
<1>2. ZConfOK(s, 1) = IF items[count].panics THEN Panics
                      ELSE Gives({Response(items[count].confs, Nil)})
  <2>1. ZConfOK(s, 1) = IF items[count].panics THEN Panics
                        ELSE Gives({Response(items[count].confs,
                                             IF list.ok THEN Nil ELSE ReadFailed)})
    BY <1>1, TurnsTaken, Zenon
  <2> HIDE DEF items, Body
  <2> QED
    BY <2>1, Zenon
<1>3. First(v, 0) = <<>>
  BY DEF First
<1>4. ASSUME NEW i \in 0..count PROVE Body(f)[i] = f[i]
  <2>1. CASE i = 0
    <3>1. f[0] = Good(0)
      BY <2>1
    <3>2. Body(f)[0] = [confs |-> <<>>, next |-> 1, panics |-> FALSE]
      BY <2>1 DEF Turns
    <3>3. Good(0) = [confs |-> <<>>, next |-> 1, panics |-> FALSE]
      BY <1>3, Zenon DEF ItemsRead
    <3> HIDE DEF f, Body, Good
    <3> QED
      BY <2>1, <3>1, <3>2, <3>3
  <2>2. CASE i # 0
    <3>1. i - 1 \in 0..count /\ i \in 1..count
      BY <2>2
    <3>2. PICK before : before = f[i - 1]
      OBVIOUS
    <3>3. Body(f)[i] = IF before.panics \/ ZConfPanics(ar, before.next)
                       THEN [before EXCEPT !.panics = TRUE]
                       ELSE [confs |-> Append(before.confs, ZConf(ar, before.next).v),
                             next |-> ZConf(ar, before.next).next, panics |-> FALSE]
      <4> HIDE DEF f
      <4> QED
        BY <2>2, <3>2, Zenon DEF Turns, Turn
    <3>4. f[i - 1] = IF i - 1 < k THEN Good(i - 1) ELSE Bad
      BY <3>1
    <3>5. f[i] = IF i < k THEN Good(i) ELSE Bad
      OBVIOUS
    <3> HIDE DEF f, Body
    <3>6. CASE i < k
      <4>1. before = Good(i - 1) /\ i \in 1..(k - 1)
        BY <3>1, <3>2, <3>4, <3>6
      <4>2. before.confs = First(v, i - 1) /\ before.next = next[i - 1] /\ before.panics = FALSE
        BY <4>1
      <4>3. ZConf(ar, next[i - 1]) = [v |-> v[i], next |-> next[i]] /\ ~ZConfPanics(ar, next[i - 1])
        BY <4>1, Zenon DEF ItemsRead
      <4>4. PICK item : item = ZConf(ar, before.next) /\ item.v = v[i] /\ item.next = next[i]
        BY <4>2, <4>3
      <4>5. Append(First(v, i - 1), v[i]) = First(v, i)
        <5>1. PICK n \in Nat : n = k - 1
          OBVIOUS
        <5>2. i \in 1..n
          BY <4>1, <5>1
        <5> QED
          BY <5>1, <5>2, FirstGrows
      <4>6. Body(f)[i] = [confs |-> Append(before.confs, item.v), next |-> item.next, panics |-> FALSE]
        BY <3>3, <4>2, <4>3, <4>4, Zenon
      <4>7. Body(f)[i] = Good(i)
        BY <4>2, <4>4, <4>5, <4>6, Zenon
      <4> QED
        BY <3>5, <3>6, <4>7, Zenon
    <3>7. CASE i = k
      <4>1. before = Good(k - 1)
        BY <3>1, <3>2, <3>4, <3>7
      <4>2. before.next = next[k - 1]
        BY <4>1
      <4>3. ZConfPanics(ar, before.next)
        BY <4>2, Zenon DEF ItemsRead
      <4>4. Body(f)[i] = [before EXCEPT !.panics = TRUE]
        BY <3>3, <4>3, Zenon
      <4>5. [before EXCEPT !.panics = TRUE] = Bad
        BY <4>1, Panicked, Zenon
      <4>6. ~(i < k)
        BY <3>7
      <4> QED
        BY <3>5, <4>4, <4>5, <4>6, Zenon
    <3>8. CASE i > k
      <4>1. before = Bad
        BY <3>1, <3>2, <3>4, <3>8
      <4>2. [before EXCEPT !.panics = TRUE] = Bad
        BY <4>1, Panicked, Zenon
      <4>3. before.panics = TRUE
        BY <4>1
      <4>4. before.panics = TRUE /\ [before EXCEPT !.panics = TRUE] = Bad
        BY <4>2, <4>3
      <4>5. Body(f)[i] = [before EXCEPT !.panics = TRUE]
        BY <3>3, <4>4, Zenon
      <4>6. ~(i < k)
        BY <3>8
      <4> QED
        BY <3>5, <4>4, <4>5, <4>6, Zenon
    <3> QED
      BY <3>1, <3>6, <3>7, <3>8
  <2> QED
    BY <2>1, <2>2
<1>5. f = Body(f)
  <2>1. f = [i \in 0..count |-> f[i]]
    OBVIOUS
  <2>2. Body(f) = [i \in 0..count |-> Body(f)[i]]
    BY DEF Turns
  <2> HIDE DEF f, Body
  <2> QED
    BY <1>4, <2>1, <2>2, Zenon
<1>6. items = Body(items)
  <2> HIDE DEF f
  <2> QED
    BY <1>5 DEF AllTurns
<1>7. \A g, i : i \in 1..count => Body(g)[i] = Turn(ar, g[i - 1])
  <2>1. \A i : i \in 1..count => i \in 0..count /\ i # 0
    OBVIOUS
  <2> QED
    BY <2>1, Zenon DEF Turns
<1>8. \A g : Body(g)[0] = [confs |-> <<>>, next |-> 1, panics |-> FALSE]
  <2>1. 0 \in 0..count
    OBVIOUS
  <2> QED
    BY <2>1, Zenon DEF Turns
<1>9. items[count] = f[count]
  <2> HIDE DEF f, Body, items
  <2>1. f[0] = items[0]
    BY <1>5, <1>6, <1>8, Zenon
  <2>2. ASSUME NEW i \in 1..count, f[i - 1] = items[i - 1] PROVE f[i] = items[i]
    <3>1. Body(f)[i] = Body(items)[i]
      BY <1>7, <2>2, Zenon
    <3> QED
      BY <1>5, <1>6, <3>1, Zenon
  <2>3. GoOnAlike(f, items, count)
    BY <2>1, <2>2, Zenon DEF GoOnAlike
  <2>4. \A i \in 0..count : f[i] = items[i]
    BY <2>3, SameRecursion
  <2>5. count \in 0..count
    OBVIOUS
  <2> QED
    BY <2>4, <2>5, Zenon
<1>10. count \in 0..count
  OBVIOUS
<1>11. ASSUME count >= k PROVE ZConfOK(s, 1) = Panics
  <2>1. f[count] = Bad
    BY <1>11
  <2>2. f[count].panics = TRUE
    <3> HIDE DEF f
    <3> QED
      BY <2>1
  <2> HIDE DEF f, items, Body
  <2> QED
    BY <1>2, <1>9, <2>2, Zenon
<1>12. ASSUME count < k PROVE ZConfOK(s, 1) = Gives({Response(First(v, count), Nil)})
  <2>1. f[count] = Good(count)
    BY <1>12
  <2>2. f[count].panics = FALSE /\ f[count].confs = First(v, count)
    <3> HIDE DEF f
    <3> QED
      BY <2>1
  <2> HIDE DEF f, items, Body
  <2> QED
    BY <1>2, <1>9, <2>2, Zenon
<1> QED
  BY <1>11, <1>12

\* A list of conferences in a line.
ConfList(s, words, count, items, m, pos, v) ==
  /\ IsListOf(words, count, items, m) /\ WordsStand(s, words, m + 3, pos)
  /\ count \in UInt32 /\ m \in Nat
  /\ \A i \in 1..m : v[i] \in Items("zconf") /\ items[i] = ZItem(v[i])

\* Where its items are.
PlacesOf(s, count, m, pos, v) ==
  /\ m \in Nat /\ ListBounds(s, count, m, pos) /\ pos[2] \in Nat \ {0} /\ s \in Texts
  /\ Len(s) \in Nat /\ pos[3] = pos[2] + 2 /\ pos[m + 3] + 1 = Len(s)
  /\ \A i \in 1..(m + 1) : pos[i + 2] \in Nat \ {0} /\ pos[2] + 2 <= pos[i + 2]
                           /\ BlankAt(s, pos[i + 2] - 1)
  /\ \A i \in 1..m : /\ Holds(s, pos[i + 2], ZItem(v[i])) /\ pos[i + 3] \in Nat \ {0}
                     /\ pos[i + 3] = pos[i + 2] + Len(ZItem(v[i])) + 1
                     /\ Len(ZItem(v[i])) \in Nat

LEMMA ConfListPlaces ==
  ASSUME NEW s, NEW words, NEW count, NEW items, NEW m, NEW pos, NEW v,
         ConfList(s, words, count, items, m, pos, v)
  PROVE  PlacesOf(s, count, m, pos, v)
<1>1. /\ IsListOf(words, count, items, m) /\ WordsStand(s, words, m + 3, pos)
      /\ count \in UInt32 /\ m \in Nat /\ \A i \in 1..m : items[i] = ZItem(v[i])
  BY Zenon DEF ConfList
<1>2. ListBounds(s, count, m, pos)
  BY <1>1, ListBegins
<1>3. pos[2] \in Nat \ {0} /\ pos[3] = pos[2] + 2
  <2>1. 2 \in 1..(m + 4)
    BY <1>1
  <2> QED
    BY <1>2, <2>1, Zenon DEF ListBounds
<1>4. s \in Texts /\ Len(s) \in Nat /\ pos[m + 3] + 1 = Len(s)
  <2>1. s \in Texts /\ pos[m + 3] + 2 = pos[m + 4] /\ pos[m + 4] = Len(s) + 1
    BY <1>2, Zenon DEF ListBounds
  <2>2. m + 3 \in 1..(m + 4)
    BY <1>1
  <2>3. pos[m + 3] \in Nat \ {0}
    BY <1>2, <2>2, Zenon DEF ListBounds
  <2>4. Len(s) \in Nat
    BY <2>1, TextLen
  <2> QED
    BY <2>1, <2>3, <2>4
<1>5. \A i \in 1..(m + 3) : /\ Holds(s, pos[i], words[i]) /\ pos[i + 1] = pos[i] + Len(words[i]) + 1
                            /\ Len(words[i]) \in Nat /\ pos[i] \in Nat \ {0} /\ pos[i + 1] \in Nat \ {0}
                            /\ i < m + 3 => Blanks(s, pos[i + 1] - 1, pos[i + 1])
  BY <1>1, Zenon DEF WordsStand
<1>6. ASSUME NEW i \in 1..(m + 1)
      PROVE  /\ pos[i + 2] \in Nat \ {0} /\ pos[2] + 2 <= pos[i + 2]
             /\ BlankAt(s, pos[i + 2] - 1)
  <2>1. i + 1 \in 1..(m + 3) /\ i + 1 < m + 3 /\ i + 1 + 1 = i + 2 /\ i + 2 \in 1..(m + 3)
    BY <1>1
  <2>2. PICK a \in Nat \ {0} : a = pos[i + 2]
    BY <1>5, <2>1
  <2>3. Blanks(s, a - 1, a)
    BY <1>5, <2>1, <2>2
  <2>4. pos[2] + 2 <= a
    <3>1. pos[3] + (i - 1) <= pos[3 + (i - 1)]
      <4>1. m + 3 \in Nat /\ 3 \in 1..(m + 3 + 1) /\ i - 1 \in Nat /\ 3 + (i - 1) <= m + 3 + 1
        BY <1>1
      <4> QED
        BY <1>1, <4>1, WordsInOrder
    <3>2. 3 + (i - 1) = i + 2
      OBVIOUS
    <3> QED
      BY <1>3, <2>2, <3>1, <3>2
  <2>5. a - 1 \in (a - 1)..(a - 1) /\ a - 1 \in Nat \ {0}
    BY <1>3, <2>2, <2>4
  <2>6. s[a - 1] = " "
    BY <2>3, <2>5, Zenon DEF Blanks
  <2>7. a - 1 \in DOMAIN s
    <3>1. a <= Len(s) + 1
      <4>1. Holds(s, a, words[i + 2]) /\ Len(words[i + 2]) \in Nat
        BY <1>5, <2>1, <2>2
      <4>2. a + Len(words[i + 2]) <= Len(s) + 1
        BY <4>1, Zenon DEF Holds
      <4> QED
        BY <1>4, <4>1, <4>2
    <3> QED
      BY <1>4, <2>5, <3>1, TextLen
  <2>8. BlankAt(s, a - 1)
    BY <2>6, <2>7, Zenon DEF BlankAt, At
  <2> QED
    BY <2>2, <2>4, <2>8, Zenon
<1>7. ASSUME NEW i \in 1..m
      PROVE  /\ Holds(s, pos[i + 2], ZItem(v[i])) /\ pos[i + 3] \in Nat \ {0}
             /\ pos[i + 3] = pos[i + 2] + Len(ZItem(v[i])) + 1 /\ Len(ZItem(v[i])) \in Nat
  <2>1. i + 2 \in 1..(m + 3) /\ i + 2 + 1 = i + 3
    BY <1>1
  <2>2. words[i + 2] = ZItem(v[i])
    <3>1. words[i + 2] = items[i]
      BY <1>1, Zenon DEF IsListOf
    <3> QED
      BY <1>1, <3>1, Zenon
  <2>3. /\ Holds(s, pos[i + 2], words[i + 2]) /\ pos[i + 2 + 1] = pos[i + 2] + Len(words[i + 2]) + 1
        /\ Len(words[i + 2]) \in Nat /\ pos[i + 2 + 1] \in Nat \ {0}
    BY <1>5, <2>1, Zenon
  <2> QED
    BY <2>1, <2>2, <2>3, Zenon
<1> QED
  BY <1>1, <1>2, <1>3, <1>4, <1>6, <1>7, Zenon DEF PlacesOf

\* Where the loop is before item i, in the list cut off at its first brace.
Before(pos, i) == IF i = 1 THEN 1 ELSE pos[i + 2] - pos[2]

\* What is between that place and the item.
GapAt(ar, pos, i) ==
  LET a == Before(pos, i)
      q == pos[i + 2] - pos[2] + 1
  IN  a \in Nat \ {0} /\ q \in Nat \ {0} /\ a < q /\ Gap(ar, a, q)

LEMMA GapBefore ==
  ASSUME NEW s, NEW words, NEW count, NEW items, NEW m, NEW pos, NEW v,
         ConfList(s, words, count, items, m, pos, v),
         NEW i \in 1..(m + 1), NEW e \in Nat, pos[i + 2] <= e, e <= Len(s)
  PROVE  GapAt(Cut(s, pos[2], e + 1), pos, i)
<1>1. /\ m \in Nat /\ ListBounds(s, count, m, pos) /\ pos[2] \in Nat \ {0} /\ s \in Texts
      /\ Len(s) \in Nat /\ pos[3] = pos[2] + 2
      /\ pos[i + 2] \in Nat \ {0} /\ pos[2] + 2 <= pos[i + 2] /\ BlankAt(s, pos[i + 2] - 1)
  <2>1. PlacesOf(s, count, m, pos, v)
    BY ConfListPlaces
  <2> QED
    BY <2>1, Zenon DEF PlacesOf
<1>2. PICK p \in Nat \ {0}, x \in Nat \ {0} : p = pos[2] /\ x = pos[i + 2]
  BY <1>1
<1>3. PICK f \in Nat : f = e + 1
  OBVIOUS
<1>4. PICK ar : ar = Cut(s, p, f)
  OBVIOUS
<1>5. p + 2 <= x /\ x <= e /\ f <= Len(s) + 1
  BY <1>1, <1>2, <1>4, <1>3
<1>6. ar \in Texts /\ Len(ar) = f - p /\ \A j \in 1..(f - p) : ar[j] = s[p + j - 1]
  <2>1. s \in Texts /\ p <= f /\ f <= Len(s) + 1
    BY <1>1, <1>3, <1>5
  <2>2. /\ Cut(s, p, f) \in Texts /\ Len(Cut(s, p, f)) = f - p
        /\ \A j \in 1..(f - p) : Cut(s, p, f)[j] = s[p + j - 1]
    BY <2>1, CutText
  <2> QED
    BY <1>4, <2>2, Zenon
<1>7. ar[x - p] \notin NameStart
  <2>1. x - p \in 1..(f - p) /\ p + (x - p) - 1 = x - 1
    BY <1>4, <1>3, <1>5
  <2>2. s[x - 1] \notin NameStart
    BY <1>1, <1>2, BlankNoDigit
  <2> QED
    BY <1>6, <2>1, <2>2
<1>8. ar[1] \notin NameStart
  <2>1. 1 \in 1..(f - p) /\ p + 1 - 1 = p
    BY <1>4, <1>3, <1>5
  <2>2. s[p] = "{"
    <3>1. OpensAt(s, p)
      BY <1>1, <1>2, Zenon DEF ListBounds
    <3> QED
      BY <1>1, <3>1, MoreChars, HoldsOne, Zenon DEF OpensAt
  <2>3. s[p] \notin NameStart
    BY <2>2, NameStarts, Zenon
  <2>4. ar[1] = s[p + 1 - 1]
    BY <1>6, <2>1
  <2> QED
    BY <2>1, <2>3, <2>4
<1>9. CASE i = 1
  <2>1. x = p + 2 /\ i + 2 = 3
    BY <1>1, <1>2, <1>9
  <2>2. PICK q \in Nat : q = x - p + 1
    BY <1>5
  <2>3. \A r \in 1..(q - 1) : r = 1 \/ r = x - p
    BY <2>1, <2>2
  <2>4. \A r \in 1..(q - 1) : ar[r] \notin NameStart
    BY <1>7, <1>8, <2>3, Zenon
  <2>5. Gap(ar, 1, x - p + 1)
    BY <2>2, <2>4, Zenon DEF Gap
  <2>6. Before(pos, i) = 1 /\ 1 \in Nat \ {0} /\ x - p + 1 \in Nat \ {0} /\ 1 < x - p + 1
    BY <1>5, <1>9 DEF Before
  <2> QED
    BY <1>2, <1>4, <1>3, <2>5, <2>6, Zenon DEF GapAt
<1>10. CASE i # 1
  <2>1. Before(pos, i) = x - p
    BY <1>2, <1>10, Zenon DEF Before
  <2>2. /\ x - p \in Nat \ {0} /\ x - p + 1 \in Nat \ {0} /\ x - p < x - p + 1
    BY <1>5
  <2>3. PICK z \in Nat, q \in Nat : z = x - p /\ q = x - p + 1
    BY <2>2
  <2>4. \A r \in z..(q - 1) : r = z
    BY <2>3
  <2>5. \A r \in z..(q - 1) : ar[r] \notin NameStart
    BY <1>7, <2>3, <2>4, Zenon
  <2>6. Gap(ar, x - p, x - p + 1)
    BY <2>3, <2>5, Zenon DEF Gap
  <2> QED
    BY <1>2, <1>4, <1>3, <2>1, <2>2, <2>6, Zenon DEF GapAt
<1> QED
  BY <1>9, <1>10

\* One item that the list has whole.
LEMMA ItemTurn ==
  ASSUME NEW s, NEW words, NEW count, NEW items, NEW m, NEW pos, NEW v,
         ConfList(s, words, count, items, m, pos, v),
         NEW i \in 1..m, NEW e \in Nat, pos[i + 3] <= e, e <= Len(s)
  PROVE  LET ar == Cut(s, pos[2], e + 1)
         IN  /\ ZConf(ar, Before(pos, i)) = [v |-> v[i], next |-> Before(pos, i + 1)]
             /\ ~ZConfPanics(ar, Before(pos, i))
<1>1. /\ m \in Nat /\ pos[2] \in Nat \ {0} /\ s \in Texts /\ Len(s) \in Nat
      /\ \A j \in 1..(m + 1) : pos[j + 2] \in Nat \ {0} /\ pos[2] + 2 <= pos[j + 2]
                               /\ BlankAt(s, pos[j + 2] - 1)
      /\ Holds(s, pos[i + 2], ZItem(v[i])) /\ pos[i + 3] \in Nat \ {0}
      /\ pos[i + 3] = pos[i + 2] + Len(ZItem(v[i])) + 1 /\ Len(ZItem(v[i])) \in Nat
  <2>1. PlacesOf(s, count, m, pos, v)
    BY ConfListPlaces
  <2> QED
    BY <2>1, Zenon DEF PlacesOf
<1>2. i \in 1..(m + 1) /\ i + 1 \in 1..(m + 1) /\ i + 1 + 2 = i + 3 /\ i + 1 # 1
  BY <1>1
<1>3. PICK p \in Nat \ {0}, x \in Nat \ {0}, y \in Nat \ {0}, l \in Nat :
        p = pos[2] /\ x = pos[i + 2] /\ y = pos[i + 3] /\ l = Len(ZItem(v[i]))
  BY <1>1, <1>2
<1>4. p + 2 <= x /\ y = x + l + 1 /\ y <= e
  BY <1>1, <1>2, <1>3
<1>5. PICK f \in Nat : f = e + 1
  OBVIOUS
<1>6. PICK ar : ar = Cut(s, p, f)
  OBVIOUS
<1>7. f <= Len(s) + 1 /\ p <= f
  BY <1>1, <1>4, <1>6, <1>5
<1>8. ar \in Texts /\ Len(ar) = f - p /\ \A j \in 1..(f - p) : ar[j] = s[p + j - 1]
  <2>1. s \in Texts /\ p <= f /\ f <= Len(s) + 1
    BY <1>1, <1>5, <1>7, <1>4
  <2>2. /\ Cut(s, p, f) \in Texts /\ Len(Cut(s, p, f)) = f - p
        /\ \A j \in 1..(f - p) : Cut(s, p, f)[j] = s[p + j - 1]
    BY <2>1, CutText
  <2> QED
    BY <1>6, <2>2, Zenon
<1>9. GapAt(ar, pos, i)
  <2>1. pos[i + 2] <= e
    BY <1>3, <1>4
  <2>2. GapAt(Cut(s, pos[2], e + 1), pos, i)
    BY <1>2, <2>1, GapBefore
  <2> QED
    BY <1>3, <1>6, <1>5, <2>2, Zenon
<1>10. PICK a \in Nat \ {0}, q \in Nat \ {0} :
        a = Before(pos, i) /\ q = x - p + 1 /\ a < q /\ Gap(ar, a, q)
  BY <1>3, <1>9, Zenon DEF GapAt
<1>11. Holds(ar, q, ZItem(v[i]))
  <2>1. p <= x /\ x + l <= f /\ q \in Nat
    BY <1>4, <1>6, <1>5, <1>10
  <2>2. Holds(s, x, ZItem(v[i]))
    BY <1>1, <1>3, Zenon
  <2> QED
    BY <1>1, <1>3, <1>6, <1>5, <1>7, <1>10, <2>1, <2>2, CutHolds
<1>12. PICK name, flags, no : IsItem(v[i], name, flags, no)
  <2>1. v[i] \in Items("zconf")
    BY Zenon DEF ConfList
  <2> QED
    BY <2>1, ItemParts
<1>13. PICK z \in Nat : z = y - p /\ z = q + l
  <2>1. y - p \in Nat /\ y - p = q + l
    BY <1>4, <1>10
  <2> QED
    BY <2>1
<1>14. PICK h, b : ItemStands(ar, name, flags, no, q, h, b, z)
  <2>1. z = q + Len(ZItem(v[i]))
    BY <1>3, <1>13
  <2> QED
    BY <1>8, <1>11, <1>12, <2>1, ItemHolds
<1>15. BlankAt(ar, z)
  <2>1. BlankAt(s, y - 1)
    BY <1>1, <1>2, <1>3
  <2>2. z \in 1..(f - p) /\ p + z - 1 = y - 1
    BY <1>4, <1>6, <1>5, <1>13
  <2>3. ar[z] = s[y - 1]
    BY <1>8, <2>2
  <2>4. z \in DOMAIN ar
    BY <1>8, <2>2, TextLen
  <2> QED
    BY <2>1, <2>3, <2>4, Zenon DEF BlankAt, At
<1>16. ZConf(ar, a) = [v |-> v[i], next |-> z] /\ ~ZConfPanics(ar, a)
  BY <1>8, <1>10, <1>12, <1>14, <1>15, ItemReads
<1>17. Before(pos, i + 1) = z
  BY <1>2, <1>3, <1>13 DEF Before
<1> QED
  BY <1>3, <1>6, <1>5, <1>10, <1>16, <1>17, Zenon

\* The list is cut off at e, and there zConfArrayResponseCallback.OK cannot read item k.
StopsAt(s, m, pos, k, e) ==
  /\ k \in 1..(m + 1) /\ e \in Nat /\ pos[k + 2] <= e /\ e <= Len(s)
  /\ ReadDelimitedList(s, pos[2]) = [v |-> Cut(s, pos[2], e + 1), next |-> e + 1, ok |-> TRUE]
  /\ ZConfPanics(Cut(s, pos[2], e + 1), Before(pos, k))

\* A list without a brace in an item ends after the last one.
LEMMA WholeStops ==
  ASSUME NEW s, NEW words, NEW count, NEW items, NEW m, NEW pos, NEW v,
         ConfList(s, words, count, items, m, pos, v), \A i \in 1..m : Unbraced(items[i])
  PROVE  StopsAt(s, m, pos, m + 1, pos[m + 3])
<1>1. PlacesOf(s, count, m, pos, v)
  BY ConfListPlaces
<1>2. /\ m \in Nat /\ ListBounds(s, count, m, pos) /\ pos[2] \in Nat \ {0} /\ s \in Texts
      /\ Len(s) \in Nat /\ pos[3] = pos[2] + 2 /\ pos[m + 3] + 1 = Len(s)
      /\ \A i \in 1..(m + 1) : pos[i + 2] \in Nat \ {0} /\ pos[2] + 2 <= pos[i + 2]
  BY <1>1, Zenon DEF PlacesOf
<1>3. m + 1 \in 1..(m + 1) /\ m + 1 + 2 = m + 3
  BY <1>2
<1>4. PICK e \in Nat \ {0} : e = pos[m + 3] /\ pos[2] + 2 <= e /\ e <= Len(s)
  <2>1. pos[m + 3] \in Nat \ {0} /\ pos[2] + 2 <= pos[m + 3]
    BY <1>2, <1>3
  <2>2. pos[m + 3] <= Len(s)
    BY <1>2, <2>1
  <2> QED
    BY <2>1, <2>2
<1>5. ReadDelimitedList(s, pos[2]) = [v |-> Cut(s, pos[2], e + 1), next |-> e + 1, ok |-> TRUE]
  <2>1. IsListOf(words, count, items, m) /\ WordsStand(s, words, m + 3, pos) /\ count \in UInt32
    BY Zenon DEF ConfList
  <2>2. ReadsWhole(s, m, pos)
    BY <1>2, <2>1, WholeList
  <2> QED
    BY <1>4, <2>2, Zenon DEF ReadsWhole
<1>6. ZConfPanics(Cut(s, pos[2], e + 1), Before(pos, m + 1))
  <2>1. PICK p \in Nat \ {0}, f \in Nat : p = pos[2] /\ f = e + 1
    BY <1>2, <1>4
  <2>2. Len(Cut(s, p, f)) = f - p
    <3>1. s \in Texts /\ p <= f /\ f <= Len(s) + 1
      BY <1>2, <1>4, <2>1, SMTT(20)
    <3> QED
      BY <2>1, <3>1, CutText
  <2>3. PICK a : a = Before(pos, m + 1)
    OBVIOUS
  <2>4. (m + 1 = 1 => a = 1 /\ e = p + 2) /\ (m + 1 # 1 => a = e - p)
    <3>1. m + 1 = 1 => m + 3 = 3
      BY <1>2
    <3>2. a = IF m + 1 = 1 THEN 1 ELSE e - p
      BY <1>3, <1>4, <2>1, <2>3, Zenon DEF Before
    <3> QED
      BY <1>2, <1>4, <2>1, <3>1, <3>2
  <2>5. a + 9 > f - p
    BY <1>4, <2>1, <2>4, SMTT(20)
  <2>6. Before(pos, m + 1) + 9 > Len(Cut(s, pos[2], e + 1))
    BY <2>1, <2>2, <2>3, <2>5, Zenon
  <2> QED
    BY <2>6, NoItem
<1>7. e \in Nat /\ pos[m + 1 + 2] <= e
  BY <1>3, <1>4
<1> QED
  BY <1>3, <1>4, <1>5, <1>6, <1>7, Zenon DEF StopsAt

\* A list with a brace in a name ends there.
LEMMA CutStops ==
  ASSUME NEW s, NEW words, NEW count, NEW items, NEW m, NEW pos, NEW v,
         ConfList(s, words, count, items, m, pos, v), NEW k \in 1..m,
         \A i \in 1..(k - 1) : Unbraced(items[i]), ~Unbraced(v[k][1])
  PROVE  \E e : StopsAt(s, m, pos, k, e)
<1>1. PlacesOf(s, count, m, pos, v)
  BY ConfListPlaces
<1>2. /\ m \in Nat /\ ListBounds(s, count, m, pos) /\ pos[2] \in Nat \ {0} /\ s \in Texts
      /\ Len(s) \in Nat
      /\ \A i \in 1..(m + 1) : pos[i + 2] \in Nat \ {0} /\ pos[2] + 2 <= pos[i + 2]
      /\ Holds(s, pos[k + 2], ZItem(v[k]))
  BY <1>1, Zenon DEF PlacesOf
<1>3. PICK name, flags, no : IsItem(v[k], name, flags, no)
  <2>1. v[k] \in Items("zconf")
    BY Zenon DEF ConfList
  <2> QED
    BY <2>1, ItemParts
<1>4. k \in 1..(m + 1) /\ k \in Nat
  BY <1>2
<1>5. PICK p \in Nat \ {0}, x \in Nat \ {0} : p = pos[2] /\ x = pos[k + 2] /\ p + 2 <= x
  BY <1>2, <1>4
<1>6. PICK h, b, z : ItemStands(s, name, flags, no, x, h, b, z)
  <2>1. PICK z : z = x + Len(ZItem(v[k]))
    OBVIOUS
  <2>2. Holds(s, x, ZItem(v[k]))
    BY <1>2, <1>5, Zenon
  <2> QED
    BY <1>2, <1>3, <2>1, <2>2, ItemHolds
<1>7. PICK n \in Nat : n = Len(name) /\ n < Word /\ name \in Texts /\ v[k][1] = name
  <2>1. v[k] = <<name, flags, no>> /\ name \in Texts /\ Len(name) \in Nat /\ Len(name) < Word
    BY <1>3, Zenon DEF IsItem
  <2>2. <<name, flags, no>>[1] = name
    OBVIOUS
  <2>3. v[k][1] = name
    BY <2>1, <2>2, Zenon
  <2> QED
    BY <2>1, <2>3
<1>8. PICK l \in Nat \ {0}, d \in Texts : l = Len(d) /\ d = Decimal[n]
  BY <1>7, DecimalInTexts
<1>9. Holds(s, x, d) /\ h = x + l /\ HAt(s, h) /\ Holds(s, h + 1, name) /\ h \in Nat
  BY <1>6, <1>7, <1>8, Zenon DEF ItemStands
<1>10. h \in Nat /\ h = x + l
  BY <1>9, Zenon
<1>11. p + 2 <= x /\ p \in Nat /\ x \in Nat
  BY <1>5, Zenon
<1>12. PICK j \in 1..n : name[j] \in Brace /\ \A i \in 1..(j - 1) : name[i] \notin Brace
  <2> DEFINE T == {i \in 1..n : name[i] \in Brace}
  <2>1. PICK r \in 1..n : name[r] \in Brace
    BY <1>7, Zenon DEF Unbraced
  <2>2. T \in SUBSET Nat /\ T # {}
    BY <2>1
  <2>3. PICK j \in T : \A i \in T : j <= i
    BY <2>2, LeastNumber
  <2>4. \A i \in 1..(j - 1) : i \in 1..n /\ ~(j <= i)
    BY <2>3
  <2> QED
    BY <2>3, <2>4
<1>13. PICK e \in Nat : e = h + j
  BY <1>9
<1>14. h + n <= Len(s) /\ e <= Len(s) /\ x < h /\ h < e
  <2>1. h + 1 + n <= Len(s) + 1
    BY <1>7, <1>9, Zenon DEF Holds
  <2> QED
    BY <1>2, <1>9, <1>13, <2>1
<1>15. x < h /\ h < e
  BY <1>14, Zenon
<1>16. \A i \in 1..n : s[h + i] = name[i]
  <2>1. \A i \in 1..n : s[h + 1 + i - 1] = name[i]
    BY <1>7, <1>9, Zenon DEF Holds
  <2>2. \A i \in 1..n : h + 1 + i - 1 = h + i
    BY <1>9
  <2> QED
    BY <2>1, <2>2
<1>17. s[e] \in Brace
  BY <1>12, <1>13, <1>16
<1>18. \A r \in p..(x - 1) : s[r] \notin Brace
  <2>1. m + 3 \in Nat /\ k + 2 \in 1..(m + 3)
    BY <1>2, <1>4
  <2>2. IsListOf(words, count, items, m) /\ WordsStand(s, words, m + 3, pos)
    BY Zenon DEF ConfList
  <2>3. ASSUME NEW i \in 1..(k + 2 - 1), i >= 2 PROVE Unbraced(words[i])
    <3>1. CASE i = 2
      <4>1. words[2] = <<"{">>
        BY <2>2, Zenon DEF IsListOf
      <4>2. Unbraced(<<"{">>)
        <5>1. PICK c : c = "{"
          OBVIOUS
        <5>2. c \notin Brace
          BY <5>1 DEF Brace
        <5>3. \A r \in 1..Len(<<c>>) : <<c>>[r] = c
          OBVIOUS
        <5> QED
          BY <5>1, <5>2, <5>3, Zenon DEF Unbraced
      <4> QED
        BY <3>1, <4>1, <4>2, Zenon
    <3>2. CASE i # 2
      <4>1. i - 2 \in 1..(k - 1) /\ i - 2 \in 1..m /\ i - 2 + 2 = i
        <5>1. i \in 1..(k + 1) /\ i >= 2
          BY <1>4, <2>3
        <5> QED
          BY <1>2, <1>4, <3>2, <5>1
      <4>2. words[i - 2 + 2] = items[i - 2]
        BY <2>2, <4>1, Zenon DEF IsListOf
      <4> QED
        BY <4>1, <4>2, Zenon
    <3> QED
      BY <3>1, <3>2
  <2>4. \A r \in pos[2]..(pos[k + 2] - 1) : s[r] \notin Brace
    BY <2>1, <2>2, <2>3, NoBraceBefore
  <2> QED
    BY <1>5, <2>4
<1>19. \A r \in x..(h - 1) : s[r] \notin Brace
  <2>1. \A i \in 1..Len(d) : d[i] \in DigitChars
    BY <1>7, <1>8, DecimalInTexts
  <2>2. Unbraced(d)
    BY <2>1, DigitWord
  <2>3. \A r \in x..(x + Len(d) - 1) : s[r] \notin Brace
    BY <1>2, <1>9, <2>2, SameUnbraced
  <2> QED
    BY <1>8, <1>9, <2>3
<1>20. s[h] \notin Brace
  <2>1. s[h] = "H"
    BY <1>9, Zenon DEF HAt, At
  <2>2. "H" \notin Brace
    BY DEF Brace
  <2> QED
    BY <2>1, <2>2, Zenon
<1>21. \A r \in p..(e - 1) : s[r] \notin Brace
  <2> SUFFICES ASSUME NEW r \in p..(e - 1) PROVE s[r] \notin Brace
    OBVIOUS
  <2>1. CASE r > h
    <3>1. r - h \in 1..(j - 1) /\ r - h \in 1..n /\ h + (r - h) = r
      BY <1>5, <1>9, <1>13, <2>1
    <3> QED
      BY <1>12, <1>16, <3>1
  <2>2. CASE r <= h
    <3>1. r \in p..(x - 1) \/ r \in x..(h - 1) \/ r = h
      BY <1>5, <1>9, <2>2
    <3> QED
      BY <1>18, <1>19, <1>20, <3>1
  <2> QED
    BY <1>5, <1>9, <2>1, <2>2
<1>22. p < e /\ x <= e
  BY <1>11, <1>10, <1>13, <1>15
<1>23. ReadDelimitedList(s, p) = [v |-> Cut(s, p, e + 1), next |-> e + 1, ok |-> TRUE]
  <2>1. OpensAt(s, p)
    BY <1>2, <1>5, Zenon DEF ListBounds
  <2> QED
    BY <1>2, <1>14, <1>17, <1>21, <1>22, <2>1, DelimitedReads
<1>24. PICK f \in Nat : f = e + 1 /\ p <= f /\ f <= Len(s) + 1
  BY <1>2, <1>14, <1>22
<1>25. PICK ar : ar = Cut(s, p, f)
  OBVIOUS
<1>26. ar \in Texts /\ Len(ar) = f - p /\ \A i \in 1..(f - p) : ar[i] = s[p + i - 1]
  <2>1. /\ Cut(s, p, f) \in Texts /\ Len(Cut(s, p, f)) = f - p
        /\ \A i \in 1..(f - p) : Cut(s, p, f)[i] = s[p + i - 1]
    <3>1. s \in Texts /\ p \in Nat \ {0} /\ f \in Nat /\ p <= f /\ f <= Len(s) + 1
      BY <1>2, <1>5, <1>24
    <3> QED
      BY <3>1, CutText, ZenonT(30)
  <2> QED
    BY <1>25, <2>1, Zenon
<1>27. GapAt(ar, pos, k)
  <2>1. pos[k + 2] <= e
    BY <1>5, <1>22
  <2>2. GapAt(Cut(s, pos[2], e + 1), pos, k)
    BY <1>4, <1>14, <2>1, GapBefore
  <2> QED
    BY <1>5, <1>24, <1>25, <2>2, Zenon
<1>28. PICK a \in Nat \ {0}, q \in Nat \ {0} :
         a = Before(pos, k) /\ q = x - p + 1 /\ a < q /\ Gap(ar, a, q)
  BY <1>5, <1>27, Zenon DEF GapAt
<1>29. q = x - p + 1 /\ q \in Nat /\ f = e + 1 /\ e = h + j /\ j \in 1..n /\ n \in Nat
  BY <1>12, <1>13, <1>24, <1>28, Zenon
<1>30. PICK g \in Nat : g = q + l /\ g = h - p + 1
  BY <1>5, <1>9, <1>28
<1>31. Holds(ar, q, d)
  <2>1. p <= x /\ x + l <= f /\ q \in Nat
    BY <1>10, <1>11, <1>15, <1>29
  <2>2. Len(d) \in Nat /\ x + Len(d) <= f
    BY <1>8, <2>1
  <2>3. Holds(Cut(s, p, f), q, d)
    BY <1>2, <1>9, <1>24, <1>28, <2>1, <2>2, CutHolds
  <2> QED
    BY <1>25, <2>3, Zenon
<1>32. HAt(ar, g)
  <2>1. g \in 1..(f - p) /\ p + g - 1 = h
    BY <1>30, <1>10, <1>11, <1>15, <1>29
  <2>2. ar[g] = s[h]
    BY <1>26, <2>1
  <2>3. g \in DOMAIN ar
    BY <1>26, <2>1, TextLen
  <2> QED
    BY <1>9, <2>2, <2>3, Zenon DEF HAt, At
<1>33. Len(ar) <= g + n
  <2>1. f - p <= g + n
    BY <1>30, <1>10, <1>11, <1>15, <1>29
  <2> QED
    BY <1>26, <2>1, Zenon
<1>34. ZConfPanics(ar, a)
  <2>1. Holds(ar, q, Decimal[n]) /\ g = q + Len(Decimal[n])
    BY <1>8, <1>30, <1>31, Zenon
  <2>2. a <= q /\ q \in Nat
    BY <1>28
  <2> QED
    BY <1>7, <1>26, <1>28, <1>30, <1>32, <1>33, <2>1, <2>2, ItemBroken
<1>35. pos[k + 2] <= e /\ e \in Nat
  BY <1>5, <1>22
<1> QED
  <2>1. ZConfPanics(Cut(s, pos[2], e + 1), Before(pos, k))
    BY <1>5, <1>24, <1>25, <1>28, <1>34, Zenon
  <2>2. ReadDelimitedList(s, pos[2]) = [v |-> Cut(s, pos[2], e + 1), next |-> e + 1, ok |-> TRUE]
    BY <1>5, <1>23, Zenon
  <2>3. StopsAt(s, m, pos, k, e)
    BY <1>4, <1>14, <1>35, <2>1, <2>2, Zenon DEF StopsAt
  <2> QED
    BY <2>3

\* What the loop makes of a list that is cut off there.
ZConfMakes(s, v, count, k) ==
  /\ count >= k => ZConfOK(s, 1) = Panics
  /\ count < k => ZConfOK(s, 1) = Gives({Response(First(v, count), Nil)})

LEMMA ListStops ==
  ASSUME NEW s, NEW words, NEW count, NEW items, NEW m, NEW pos, NEW v,
         ConfList(s, words, count, items, m, pos, v), NEW k, NEW e, StopsAt(s, m, pos, k, e)
  PROVE  ZConfMakes(s, v, count, k)
<1>1. /\ k \in 1..(m + 1) /\ e \in Nat /\ pos[k + 2] <= e /\ e <= Len(s)
      /\ ReadDelimitedList(s, pos[2]) = [v |-> Cut(s, pos[2], e + 1), next |-> e + 1, ok |-> TRUE]
      /\ ZConfPanics(Cut(s, pos[2], e + 1), Before(pos, k))
  BY Zenon DEF StopsAt
<1>2. PlacesOf(s, count, m, pos, v)
  BY ConfListPlaces
<1>3. /\ m \in Nat /\ ListBounds(s, count, m, pos) /\ pos[2] \in Nat \ {0} /\ s \in Texts
      /\ \A i \in 1..(m + 1) : pos[i + 2] \in Nat \ {0}
  BY <1>2, Zenon DEF PlacesOf
<1>4. /\ WordsStand(s, words, m + 3, pos) /\ count \in UInt32
  BY Zenon DEF ConfList
<1>5. PICK ar : ar = Cut(s, pos[2], e + 1)
  OBVIOUS
<1>6. PICK list : list = ReadDelimitedList(s, pos[2]) /\ ar = list.v /\ list.ok = TRUE
  <2>1. PICK f : f = e + 1
    OBVIOUS
  <2>2. ReadDelimitedList(s, pos[2]) = [v |-> ar, next |-> f, ok |-> TRUE]
    BY <1>1, <1>5, <2>1, Zenon
  <2>3. [v |-> ar, next |-> f, ok |-> TRUE].v = ar /\ [v |-> ar, next |-> f, ok |-> TRUE].ok = TRUE
    OBVIOUS
  <2> QED
    BY <2>2, <2>3, Zenon
<1>7. ASSUME NEW i \in 1..(k - 1)
      PROVE  /\ ZConf(ar, Before(pos, i)) = [v |-> v[i], next |-> Before(pos, i + 1)]
             /\ ~ZConfPanics(ar, Before(pos, i))
  <2>1. i \in 1..m /\ i + 2 + 1 = i + 3 /\ i + 1 \in 1..(m + 1) /\ i + 1 + 2 = i + 3
    BY <1>1, <1>3
  <2>2. PICK n \in Nat : n = k - 1 - i
    BY <1>1, <1>3
  <2>3. m + 3 \in Nat /\ i + 3 \in 1..(m + 3 + 1) /\ i + 3 + n <= m + 3 + 1 /\ i + 3 + n = k + 2
    BY <1>1, <1>3, <2>1, <2>2
  <2>4. pos[i + 3] + n <= pos[i + 3 + n]
    BY <1>4, <2>3, WordsInOrder
  <2>5. pos[i + 3] \in Nat /\ pos[k + 2] \in Nat
    BY <1>1, <1>3, <2>1
  <2>6. pos[i + 3] <= e
    BY <1>1, <2>2, <2>3, <2>4, <2>5
  <2> QED
    BY <1>1, <1>5, <2>1, <2>6, ItemTurn
<1>8. PICK next : next = [i \in 0..(k - 1) |-> Before(pos, i + 1)]
  OBVIOUS
<1>9. /\ next[0] = 1 /\ next[k - 1] = Before(pos, k)
      /\ \A i \in 1..(k - 1) : next[i - 1] = Before(pos, i) /\ next[i] = Before(pos, i + 1)
  <2>1. \A i \in 0..(k - 1) : next[i] = Before(pos, i + 1)
    BY <1>8
  <2>2. 0 \in 0..(k - 1) /\ k - 1 \in 0..(k - 1) /\ 0 + 1 = 1 /\ k - 1 + 1 = k
    BY <1>1, <1>3
  <2>3. \A i \in 1..(k - 1) : i - 1 \in 0..(k - 1) /\ i \in 0..(k - 1) /\ i - 1 + 1 = i
    BY <1>1, <1>3
  <2>4. Before(pos, 1) = 1
    BY Zenon DEF Before
  <2> QED
    BY <2>1, <2>2, <2>3, <2>4, Zenon
<1>10. ItemsRead(ar, v, k, next)
  BY <1>1, <1>5, <1>7, <1>9, Zenon DEF ItemsRead
<1>11. count \in Nat /\ k \in Nat \ {0}
  BY <1>1, <1>3, <1>4, WordSize DEF UInt32
<1>12. ReadUInt32(s, 1) = Value(count, pos[2])
  BY <1>3, Zenon DEF ListBounds
<1> QED
  BY <1>6, <1>10, <1>11, <1>12, ZConfRuns DEF ZConfMakes

-----------------------------------------------------------------------------
(* What the caller is told. *)

\* A name with a brace in it.
LEMMA BracedIs ==
  ASSUME NEW answer, answer.ok, NEW v, v = answer.v, v \in Seq(Items("zconf"))
  PROVE  BracedName("zconf", answer) <=> \E i \in 1..Len(v) : ~Unbraced(v[i][1])
<1>1. DOMAIN v = 1..Len(v)
  OBVIOUS
<1>2. ASSUME NEW i \in 1..Len(v)
      PROVE  Unbraced(v[i][1]) <=> ~\E k \in DOMAIN v[i][1] : v[i][1][k] = "}"
  <2>1. v[i] \in Items("zconf")
    OBVIOUS
  <2>2. PICK name, flags, no : IsItem(v[i], name, flags, no)
    BY <2>1, ItemParts
  <2>3. v[i] = <<name, flags, no>> /\ name \in Texts
    BY <2>2, Zenon DEF IsItem
  <2>4. <<name, flags, no>>[1] = name
    OBVIOUS
  <2>5. DOMAIN name = 1..Len(name)
    BY <2>3, TextLen
  <2>6. \A c : c \in Brace <=> c = "}"
    BY DEF Brace
  <2>7. v[i][1] = name
    BY <2>3, <2>4, Zenon
  <2>8. Unbraced(name) <=> ~\E k \in DOMAIN name : name[k] = "}"
    <3>1. Unbraced(name) <=> \A k \in DOMAIN name : name[k] \notin Brace
      BY <2>5, Zenon DEF Unbraced
    <3>2. ASSUME NEW k \in DOMAIN name PROVE name[k] \in Brace <=> name[k] = "}"
      <4>1. PICK c : c = name[k]
        OBVIOUS
      <4>2. c \in Brace <=> c = "}"
        BY <2>6, Zenon
      <4> QED
        BY <4>1, <4>2, Zenon
    <3>3. ASSUME Unbraced(name) PROVE ~\E k \in DOMAIN name : name[k] = "}"
      BY <3>1, <3>2, <3>3, Zenon
    <3>4. ASSUME ~Unbraced(name) PROVE \E k \in DOMAIN name : name[k] = "}"
      BY <3>1, <3>2, <3>4, Zenon
    <3> QED
      BY <3>3, <3>4, Zenon
  <2> QED
    BY <2>7, <2>8, Zenon
<1> QED
  BY <1>1, <1>2, Zenon DEF BracedName

LEMMA ZConfReply ==
  ASSUME NEW answer, answer.ok, NEW v, v = answer.v, NEW count \in UInt32, count = answer.count,
         v \in Seq(Items("zconf")), count >= Len(v)
  PROVE  LET s == ReplyLine("zconf", answer)
             braced == BracedName("zconf", answer)
         IN  /\ count = Len(v) /\ ~braced => AsSent("zconf", v, s)
             /\ count > Len(v) \/ braced => ValueOK("zconf", s, 1) = Panics
<1>1. PICK m \in Nat : m = Len(v) /\ DOMAIN v = 1..m
  OBVIOUS
<1>2. \A i \in 1..m : v[i] \in Items("zconf")
  BY <1>1
<1>3. PICK items : items = [i \in DOMAIN v |-> ZItem(v[i])]
  OBVIOUS
<1>4. items \in Seq(Texts) /\ m = Len(items) /\ \A i \in 1..m : items[i] = ZItem(v[i])
  <2>1. ASSUME NEW i \in 1..m PROVE ZItem(v[i]) \in Texts
    <3>1. PICK name, flags, no : IsItem(v[i], name, flags, no)
      BY <1>2, ItemParts
    <3> QED
      BY <3>1, ItemText
  <2>2. items = [i \in 1..m |-> ZItem(v[i])]
    BY <1>1, <1>3, Zenon
  <2> QED
    BY <2>1, <2>2
<1>5. PICK s : s = ReplyLine("zconf", answer)
  OBVIOUS
<1>6. s = ListOf(count, items) \o <<"LF">>
  BY <1>3, <1>5, ListLines, Zenon
<1>7. PICK words, pos : IsListOf(words, count, items, m) /\ WordsStand(s, words, m + 3, pos)
  <2>1. \E words, pos : /\ IsListOf(words, count, items, m)
                        /\ WordsStand(ListOf(count, items) \o <<"LF">>, words, m + 3, pos)
    BY <1>4, ListLine, Zenon
  <2> QED
    BY <1>6, <2>1, Zenon
<1>8. ConfList(s, words, count, items, m, pos, v)
  BY <1>2, <1>4, <1>7, Zenon DEF ConfList
<1>9. count \in Nat /\ count >= m
  BY <1>1, WordSize DEF UInt32
<1>10. BracedName("zconf", answer) <=> \E i \in 1..m : ~Unbraced(v[i][1])
  BY <1>1, BracedIs, Zenon
<1>11. ASSUME NEW i \in 1..m, Unbraced(v[i][1]) PROVE Unbraced(items[i])
  <2>1. PICK name, flags, no : IsItem(v[i], name, flags, no)
    BY <1>2, ItemParts
  <2>2. v[i] = <<name, flags, no>>
    BY <2>1, Zenon DEF IsItem
  <2>3. <<name, flags, no>>[1] = name
    OBVIOUS
  <2>4. Unbraced(ZItem(v[i]))
    <3>1. Unbraced(name)
      BY <1>11, <2>2, <2>3, Zenon
    <3> QED
      BY <2>1, <3>1, ZItemUnbraced
  <2> QED
    BY <1>4, <2>4, Zenon
<1>12. ValueOK("zconf", s, 1) = ZConfOK(s, 1)
  BY ListValues
<1>13. ASSUME ~BracedName("zconf", answer)
       PROVE  /\ count = m => ZConfOK(s, 1) = Gives({Response(v, Nil)})
              /\ count > m => ZConfOK(s, 1) = Panics
  <2>1. \A i \in 1..m : Unbraced(items[i])
    BY <1>10, <1>11, <1>13
  <2>2. StopsAt(s, m, pos, m + 1, pos[m + 3])
    BY <1>8, <2>1, WholeStops
  <2>3. PICK k, e : k = m + 1 /\ StopsAt(s, m, pos, k, e)
    BY <2>2, Zenon
  <2>4. ZConfMakes(s, v, count, k)
    <3>1. StopsAt(s, m, pos, k, e)
      BY <2>3, Zenon
    <3> QED
      BY <1>8, <3>1, ListStops
  <2>5. /\ count >= m + 1 => ZConfOK(s, 1) = Panics
        /\ count < m + 1 => ZConfOK(s, 1) = Gives({Response(First(v, count), Nil)})
    BY <2>3, <2>4, Zenon DEF ZConfMakes
  <2>6. First(v, m) = v
    <3>1. v = [i \in 1..m |-> v[i]]
      BY <1>1
    <3> QED
      BY <3>1, Zenon DEF First
  <2>7. (count = m => count < m + 1) /\ (count > m => count >= m + 1)
    BY <1>9
  <2> QED
    BY <2>5, <2>6, <2>7, Zenon
<1>14. ASSUME BracedName("zconf", answer) PROVE ZConfOK(s, 1) = Panics
  <2> DEFINE T == {i \in 1..m : ~Unbraced(v[i][1])}
  <2>1. T # {} /\ T \in SUBSET Nat
    BY <1>10, <1>14
  <2>2. PICK k \in T : \A i \in T : k <= i
    BY <2>1, LeastNumber
  <2>3. k \in 1..m /\ ~Unbraced(v[k][1])
    BY <2>2
  <2>4. \A i \in 1..(k - 1) : i \in 1..m /\ ~(k <= i)
    BY <2>3
  <2>5. \A i \in 1..(k - 1) : Unbraced(items[i])
    <3>1. \A i \in 1..(k - 1) : Unbraced(v[i][1])
      BY <2>2, <2>4
    <3> QED
      BY <1>11, <2>4, <3>1
  <2>6. PICK e : StopsAt(s, m, pos, k, e)
    BY <1>8, <2>3, <2>5, CutStops
  <2>7. count >= k
    BY <1>9, <2>3
  <2>8. count >= k => ZConfOK(s, 1) = Panics
    <3>1. ZConfMakes(s, v, count, k)
      BY <1>8, <2>6, ListStops
    <3> QED
      BY <3>1, Zenon DEF ZConfMakes
  <2> QED
    BY <2>7, <2>8, Zenon
<1> QED
  BY <1>1, <1>5, <1>12, <1>13, <1>14, Zenon DEF AsSent

LEMMA GenericReply ==
  ASSUME NEW answer, NEW v, Sent("generic", v)
  PROVE  AsSent("generic", v, ReplyLine("generic", answer))
<1>1. v = <<0, 0>>
  BY DEF Sent, Lists
<1>2. \A s : ValueOK("generic", s, 1) = Gives({Response(<<0, 0>>, Nil)})
  BY DEF ValueOK
<1> QED
  BY <1>1, <1>2, Zenon DEF AsSent

\* What a callback makes of a successful answer.  The responses of one that can end the
\* program are those of get-unread-confs.
ReadsReply(callback, answer) ==
  LET v == answer.v
      run == ValueOK(callback, ReplyLine(callback, answer), 1)
      short == Short(callback, answer)
      braced == BracedName(callback, answer)
  IN  /\ ~short /\ ~braced => AsSent(callback, v, ReplyLine(callback, answer))
      /\ short => Told(run, v)
      /\ run.panics => \/ callback = "zconf" /\ short
                       \/ callback = "unread" /\ answer.count > Len(v) + 1
                       \/ braced
      /\ run.responses # {} /\ (run.panics \/ run.senders # 1) => callback = "unread" /\ short

LEMMA SentNeverPanics ==
  ASSUME NEW callback, NEW v, NEW s, AsSent(callback, v, s)
  PROVE  ~ValueOK(callback, s, 1).panics /\ ValueOK(callback, s, 1).senders = 1
  BY RunsAre, Zenon DEF AsSent

LEMMA RepliesRead ==
  ASSUME NEW callback, NEW answer, answer.ok,
         callback \in Lists \cup {"text", "number", "version", "uconf", "generic"},
         Sent(callback, answer.v),
         callback \in Lists => answer.count \in UInt32 /\ answer.count >= Len(answer.v)
  PROVE  ReadsReply(callback, answer)
<1>1. PICK v, s : v = answer.v /\ s = ReplyLine(callback, answer)
  OBVIOUS
<1>2. CASE callback \in {"text", "number", "version", "uconf", "generic"}
  <2>1. AsSent(callback, v, s)
    <3>1. CASE callback = "text"
      <4>1. Typed("text", v)
        BY <1>1, <3>1 DEF Sent, Lists
      <4> QED
        BY <1>1, <3>1, <4>1, TextReply
    <3>2. CASE callback = "number"
      <4>1. v \in UInt32
        BY <1>1, <3>2 DEF Sent, Lists
      <4> QED
        BY <1>1, <3>2, <4>1, NumberReply
    <3>3. CASE callback = "version"
      BY <1>1, <3>3, VersionReply
    <3>4. CASE callback = "uconf"
      BY <1>1, <3>4, UConfReply
    <3>5. CASE callback = "generic"
      BY <1>1, <3>5, GenericReply
    <3> QED
      BY <1>2, <3>1, <3>2, <3>3, <3>4, <3>5
  <2>2. callback \notin Lists /\ callback # "zconf"
    BY <1>2 DEF Lists
  <2>3. ~Short(callback, answer) /\ ~BracedName(callback, answer)
    BY <2>2, Zenon DEF Short, BracedName
  <2>4. ~ValueOK(callback, s, 1).panics /\ ValueOK(callback, s, 1).senders = 1
    BY <2>1, SentNeverPanics
  <2> QED
    BY <1>1, <2>1, <2>3, <2>4, Zenon DEF ReadsReply
<1>3. CASE callback \in Lists
  <2>1. PICK count \in UInt32 : count = answer.count /\ count >= Len(v)
    BY <1>1, <1>3
  <2>2. v \in Seq(Items(callback))
    BY <1>1, <1>3 DEF Sent, Lists
  <2>3. Len(v) \in Nat /\ count \in Nat
    BY <2>1, <2>2, WordSize DEF UInt32
  <2>4. (count = Len(v) <=> ~Short(callback, answer)) /\ (count > Len(v) <=> Short(callback, answer))
    <3>1. Short(callback, answer) <=> count > Len(v)
      BY <1>1, <1>3, <2>1, Zenon DEF Short
    <3>2. count = Len(v) <=> ~(count > Len(v))
      BY <2>1, <2>3
    <3> QED
      BY <3>1, <3>2, Zenon
  <2>5. CASE callback = "marks"
    <3>1. /\ count = Len(v) => AsSent("marks", v, ReplyLine("marks", answer))
          /\ count > Len(v) => Told(ValueOK("marks", ReplyLine("marks", answer), 1), v)
          /\ ~ValueOK("marks", ReplyLine("marks", answer), 1).panics
          /\ ValueOK("marks", ReplyLine("marks", answer), 1).senders = 1
      <4>1. v \in Seq(Items("marks"))
        BY <2>2, <2>5
      <4> QED
        BY <1>1, <2>1, <4>1, MarksReply
    <3> QED
      BY <1>1, <2>4, <2>5, <3>1, Zenon DEF ReadsReply
  <2>6. CASE callback = "unread"
    <3>1. /\ count = Len(v) => AsSent("unread", v, ReplyLine("unread", answer))
          /\ count > Len(v) => Told(ValueOK("unread", ReplyLine("unread", answer), 1), v)
          /\ ValueOK("unread", ReplyLine("unread", answer), 1).panics => count > Len(v) + 1
      <4>1. v \in Seq(Items("unread"))
        BY <2>2, <2>6
      <4> QED
        BY <1>1, <2>1, <4>1, UnreadReply
    <3>2. /\ ~Short(callback, answer) => AsSent(callback, v, s)
          /\ Short(callback, answer) => Told(ValueOK(callback, s, 1), v)
          /\ ValueOK(callback, s, 1).panics => answer.count > Len(answer.v) + 1
      BY <1>1, <2>1, <2>4, <2>6, <3>1, Zenon
    <3>3. AsSent(callback, v, s) =>
            ~ValueOK(callback, s, 1).panics /\ ValueOK(callback, s, 1).senders = 1
      BY SentNeverPanics
    <3> QED
      BY <1>1, <2>6, <3>2, <3>3, Zenon DEF ReadsReply
  <2>7. CASE callback = "zconf"
    <3>1. /\ count = Len(v) /\ ~BracedName("zconf", answer) => AsSent("zconf", v, ReplyLine("zconf", answer))
          /\ count > Len(v) \/ BracedName("zconf", answer) =>
               ValueOK("zconf", ReplyLine("zconf", answer), 1) = Panics
      <4>1. v \in Seq(Items("zconf"))
        BY <2>2, <2>7
      <4> QED
        BY <1>1, <2>1, <4>1, ZConfReply
    <3>2. /\ ~Short(callback, answer) /\ ~BracedName(callback, answer) => AsSent(callback, v, s)
          /\ Short(callback, answer) \/ BracedName(callback, answer) => ValueOK(callback, s, 1) = Panics
      BY <1>1, <2>4, <2>7, <3>1, Zenon
    <3>3. AsSent(callback, v, s) =>
            ~ValueOK(callback, s, 1).panics /\ ValueOK(callback, s, 1).senders = 1
      BY SentNeverPanics
    <3>4. ValueOK(callback, s, 1) = Panics =>
            Told(ValueOK(callback, s, 1), v) /\ ValueOK(callback, s, 1).responses = {}
      BY RunsAre, Zenon DEF Told
    <3> QED
      BY <1>1, <2>7, <3>2, <3>3, <3>4, Zenon DEF ReadsReply
  <2> QED
    BY <1>3, <2>5, <2>6, <2>7 DEF Lists
<1> QED
  BY <1>2, <1>3

\* What the callback of an answer's request makes of it.
LEMMA AnswersRead ==
  ASSUME NEW callback, NEW answer, IsAnswer(callback, answer), answer.ok
  PROVE  ReadsReply(callback, answer)
<1>1. /\ callback \in Lists \cup {"text", "number", "version", "uconf", "generic"}
      /\ Sent(callback, answer.v)
      /\ callback \in Lists => answer.count \in UInt32 /\ answer.count >= Len(answer.v)
  BY AnswersAssumption, Zenon DEF IsAnswer
<1> QED
  BY <1>1, RepliesRead

LEMMA ReturnedReply ==
  ASSUME ExchangeInv, NEW c \in Clients, Returned(c)
  PROVE  LET e == exchange[c]
             callback == CallbackOf(c)
             run == ValueOK(callback, ReplyLine(callback, e.answer), 1)
         IN  IF e.answer.ok
             THEN /\ ReadsReply(callback, e.answer)
                  /\ e.got \in run.responses /\ e.senders = run.senders - 1 /\ e.panics = run.panics
             ELSE e.senders = 0 /\ ~e.panics
<1>1. IsReturned(exchange[c])
  BY Zenon DEF ExchangeInv, InStep, Returned
<1>2. PICK e, callback, answer, s :
        /\ e = exchange[c] /\ callback = CallbackOf(c) /\ answer = e.answer
        /\ s = ReplyLine(callback, answer)
  OBVIOUS
<1>3. PICK run : run = RunOf(callback, answer, s)
  OBVIOUS
<1>4. /\ IsAnswer(callback, answer)
      /\ e.got \in run.responses /\ e.senders = run.senders - 1 /\ e.panics = run.panics
  BY <1>1, <1>2, <1>3, Zenon DEF IsReturned, CallbackOf
<1>5. ASSUME answer.ok PROVE ReadsReply(callback, answer) /\ run = ValueOK(callback, s, 1)
  <2>1. ReadsReply(callback, answer)
    BY <1>4, <1>5, AnswersRead
  <2> QED
    BY <1>3, <1>5, <2>1, Zenon DEF RunOf
<1>6. ASSUME ~answer.ok PROVE e.senders = 0 /\ ~e.panics
  <2>1. run.senders = 1 /\ ~run.panics
    BY <1>3, <1>6, RunsAre, Zenon DEF RunOf
  <2> QED
    BY <1>4, <2>1
<1> QED
  BY <1>2, <1>4, <1>5, <1>6, Zenon

\* A caller gets exactly the value the server sent, with no error, unless the answer is an
\* error or a list that is cut short or has a brace in a name, whatever the answers are that
\* the Go types can hold (the OK methods and the readers they call).
THEOREM RepliesAsSentHolds == SessionSpec => []RepliesAsSent
<1>1. ExchangeInv => RepliesAsSent
  <2> SUFFICES ASSUME ExchangeInv, NEW c \in Clients, Returned(c)
               PROVE  LET answer == exchange[c].answer
                          callback == CallbackOf(c)
                      IN  answer.ok /\ ~Short(callback, answer) /\ ~BracedName(callback, answer) =>
                            exchange[c].got = Response(answer.v, Nil)
    BY Zenon DEF RepliesAsSent
  <2>1. PICK callback, answer, s, got :
          /\ callback = CallbackOf(c) /\ answer = exchange[c].answer
          /\ s = ReplyLine(callback, answer) /\ got = exchange[c].got
    OBVIOUS
  <2>2. ASSUME answer.ok, ~Short(callback, answer), ~BracedName(callback, answer)
        PROVE  got = Response(answer.v, Nil)
    <3>1. ReadsReply(callback, answer) /\ got \in ValueOK(callback, s, 1).responses
      BY <2>1, <2>2, ReturnedReply, Zenon
    <3>2. ValueOK(callback, s, 1) = Gives({Response(answer.v, Nil)})
      BY <2>1, <2>2, <3>1, Zenon DEF ReadsReply, AsSent
    <3>3. PICK x : x = Response(answer.v, Nil)
      OBVIOUS
    <3>4. Gives({x}).responses = {x}
      BY RunsAre, Zenon
    <3>5. got \in {x}
      BY <3>1, <3>2, <3>3, <3>4, Zenon
    <3> QED
      BY <3>3, <3>5
  <2> QED
    BY <2>1, <2>2, Zenon
<1> QED
  BY <1>1, ExchangeInvHolds, PTL

\* The caller of get-marks, get-unread-confs or lookup-z-name is told of every list that has
\* fewer elements than its count says, and gets the elements it has (the OK methods of
\* getMarksCallback, unreadConfsCallback and zConfArrayResponseCallback).
THEOREM ShortListsReportedHolds == SessionSpec => []ShortListsReported
<1>1. ExchangeInv => ShortListsReported
  <2> SUFFICES ASSUME ExchangeInv, NEW c \in Clients, Returned(c)
               PROVE  LET answer == exchange[c].answer
                      IN  Short(CallbackOf(c), answer) =>
                            /\ exchange[c].got.err = ReadFailed
                            /\ \A i \in DOMAIN answer.v :
                                 i \in DOMAIN exchange[c].got.v /\ exchange[c].got.v[i] = answer.v[i]
    BY Zenon DEF ShortListsReported
  <2>1. PICK callback, answer, s, got, v :
          /\ callback = CallbackOf(c) /\ answer = exchange[c].answer /\ v = answer.v
          /\ s = ReplyLine(callback, answer) /\ got = exchange[c].got
    OBVIOUS
  <2>2. ASSUME Short(callback, answer)
        PROVE  got.err = ReadFailed /\ \A i \in DOMAIN v : i \in DOMAIN got.v /\ got.v[i] = v[i]
    <3>1. answer.ok
      BY <2>2, Zenon DEF Short
    <3>2. ReadsReply(callback, answer) /\ got \in ValueOK(callback, s, 1).responses
      BY <2>1, <3>1, ReturnedReply, Zenon
    <3>3. Told(ValueOK(callback, s, 1), v)
      BY <2>1, <2>2, <3>2, Zenon DEF ReadsReply
    <3> QED
      BY <3>2, <3>3, Zenon DEF Told
  <2> QED
    BY <2>1, <2>2, Zenon
<1> QED
  BY <1>1, ExchangeInvHolds, PTL

\* Only a list of conferences whose end is not where its count says ends the program, for
\* any answers but to query-async, which is not answered: the slices of
\* zConfArrayResponseCallback.OK stay inside a whole list, and only unreadConfsCallback.OK
\* sends twice on its channel or runs off its list after an error.
THEOREM PanicsOnBrokenListsHolds == SessionSpec => []PanicsOnBrokenLists
<1>1. ExchangeInv => PanicsOnBrokenLists
  <2> SUFFICES ASSUME ExchangeInv, ~running PROVE PanicsOnBrokenLists
    BY Zenon DEF PanicsOnBrokenLists
  <2>1. PICK c \in Clients : Fatal(c)
    BY Zenon DEF ExchangeInv
  <2>2. PICK e, callback, answer, s :
          /\ e = exchange[c] /\ callback = CallbackOf(c) /\ answer = e.answer
          /\ s = ReplyLine(callback, answer)
    OBVIOUS
  <2>3. PICK run : run = ValueOK(callback, s, 1)
    OBVIOUS
  <2>4. CASE e.step = "answered" /\ Run(c).panics
    <3>1. IsAnswer(callback, answer) /\ e.line = s
      BY <2>2, <2>4, Zenon DEF ExchangeInv, InStep, IsAnswered, CallbackOf
    <3>2. answer.ok /\ run.panics
      BY <2>2, <2>3, <2>4, <3>1, RunsAre, Zenon DEF Run
    <3>3. \/ callback = "zconf" /\ Short(callback, answer)
          \/ callback = "unread" /\ answer.count > Len(answer.v) + 1
          \/ BracedName(callback, answer)
      BY <2>2, <2>3, <3>1, <3>2, AnswersRead, Zenon DEF ReadsReply
    <3> QED
      BY <2>2, <2>4, <3>2, <3>3, Zenon DEF PanicsOnBrokenLists
  <2>5. CASE e.step = "returned" /\ (e.senders > 0 \/ e.panics)
    <3>1. IF answer.ok
          THEN /\ ReadsReply(callback, answer)
               /\ e.got \in run.responses /\ e.senders = run.senders - 1 /\ e.panics = run.panics
          ELSE e.senders = 0 /\ ~e.panics
      BY <2>2, <2>3, <2>5, ReturnedReply, Zenon DEF Returned
    <3>2. answer.ok
      BY <2>5, <3>1
    <3>3. run.senders # 1 \/ run.panics
      BY <2>5, <3>1, <3>2
    <3>4. run.responses # {}
      BY <3>1, <3>2
    <3>5. callback = "unread" /\ Short(callback, answer)
      BY <2>2, <2>3, <3>1, <3>2, <3>3, <3>4, Zenon DEF ReadsReply
    <3> QED
      BY <2>2, <2>5, <3>5, Zenon DEF PanicsOnBrokenLists
  <2> QED
    BY <2>1, <2>2, <2>4, <2>5, Zenon DEF Fatal
<1> QED
  BY <1>1, ExchangeInvHolds, PTL
=============================================================================
