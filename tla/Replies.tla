------------------------------ MODULE Replies ------------------------------
(***************************************************************************)
(* The bytes of a Protocol A reply and what the client's callbacks read of *)
(* them.  The stream from the server is a sequence of tokens, one token a  *)
(* byte: every number has a single digit, and the only longer runs of      *)
(* digits are the bit fields, all of whose digits are 0 here.              *)
(*                                                                         *)
(* A reading operator takes the stream s and the position p it starts at   *)
(* and returns the position just past what it reads.  A read that runs out *)
(* of stream returns a position beyond Len(s) + 1: nothing is left, and    *)
(* the reader has met the end of a broken connection.                      *)
(***************************************************************************)
EXTENDS Naturals, Sequences, FiniteSets

CONSTANTS
  Calls,    \* the invocations of the client's async* methods
  Rewinds,  \* can the socket take back a rune?  net.Conn cannot, a bytes.Buffer can
  TextLen   \* the length of every Hollerith string the server sends

ASSUME RepliesAssumption ==
  /\ Rewinds \in BOOLEAN
  /\ TextLen \in Nat

(***************************************************************************)
(* Tokens.  A reply starts with "=" or "%", an asynchronous message of the *)
(* server with ":".  The value of a "=" or "%" names the call the server   *)
(* answers; it is there for the properties and the client never reads it.  *)
(***************************************************************************)
AnswerSigns == {"=", "%"}
TokenTypes == AnswerSigns \cup {":", "num", "sp", "nl", "H", "x", "{", "}"}
Token == [t : AnswerSigns, v : Calls] \cup [t : TokenTypes \ AnswerSigns, v : Nat]

Num(n)    == [t |-> "num", v |-> n]
Space     == [t |-> "sp", v |-> 0]
Newline   == [t |-> "nl", v |-> 0]
Brace(b)  == [t |-> b, v |-> 0]
Sign(s, c) == [t |-> s, v |-> c]

-----------------------------------------------------------------------------
(***************************************************************************)
(* What the server sends.                                                  *)
(***************************************************************************)
Kinds ==
  {"generic", "number", "marks", "unread", "text", "zconf",
   "version", "time", "person", "uconf", "async"}

Then(s, t)   == s \o <<Space>> \o t
Zeros(n)     == [i \in 1..n |-> Num(0)]
Numbers(n)   == [i \in 1..(2 * n - 1) |-> IF i % 2 = 1 THEN Num(1) ELSE Space]
Hollerith    == <<Num(TextLen), [t |-> "H", v |-> 0]>>
                  \o [i \in 1..TextLen |-> [t |-> "x", v |-> 0]]
Braced(s)    == Then(Then(<<Brace("{")>>, s), <<Brace("}")>>)
List(s)      == Then(<<Num(1)>>, Braced(s))

(***************************************************************************)
(* The data of a successful reply, by the callback that is to read it: the *)
(* fields that its OK method parses and the tests of the repository spell  *)
(* out.  A generic reply has none.                                         *)
(***************************************************************************)
Data(k) ==
  CASE k = "generic" -> <<>>
    [] k = "number"  -> Numbers(1)
    [] k = "marks"   -> List(Numbers(2))
    [] k = "unread"  -> List(Numbers(1))
    [] k = "text"    -> Hollerith
    [] k = "zconf"   -> List(Then(Then(Hollerith, Zeros(4)), <<Num(1)>>))
    [] k = "version" -> Then(Then(<<Num(1)>>, Hollerith), Hollerith)
    [] k = "time"    -> Numbers(9)
    [] k = "person"  -> Then(Then(Then(Hollerith, Zeros(16)), Zeros(8)), Numbers(22))
    [] k = "uconf"   -> Then(Then(Hollerith, Zeros(8)), Numbers(2))
    [] k = "async"   -> List(Numbers(1))

(***************************************************************************)
(* A line of the stream: the sign, the request's number and the data, or   *)
(* the error code and status of a failed request.                          *)
(***************************************************************************)
Line(sign, id, data) ==
  IF data = <<>> THEN <<sign, Num(id), Newline>>
                 ELSE Then(<<sign, Num(id)>>, data) \o <<Newline>>

Reply(s, c, id, k) == Line(Sign(s, c), id, IF s = "=" THEN Data(k) ELSE Numbers(2))

\* An asynchronous message: the number of its parameters, its own number, a parameter.
Notice(n) == Line([t |-> ":", v |-> 0], n, Numbers(2))

-----------------------------------------------------------------------------
(***************************************************************************)
(* The reading primitives.                                                 *)
(***************************************************************************)

\* The positions from p on of the tokens whose type is in stop.
Stops(s, p, stop) == {q \in p..Len(s) : s[q].t \in stop}

\* Just past the k-th token, from p on, whose type is in stop, if there are so many.
Past(s, p, stop, k) ==
  LET kth == {q \in Stops(s, p, stop) : Cardinality(Stops(SubSeq(s, 1, q), p, stop)) = k}
  IN  IF kth = {} THEN Len(s) + 2 ELSE 1 + CHOOSE q \in kth : TRUE

NonDigits == TokenTypes \ {"num"}

\* readUInt32 and readUInt16: the digits up to a byte that is none, which is read
\* too; no digit at all reads as 0.
ReadUInt(s, p) == IF p \in DOMAIN s /\ s[p].t = "num" THEN s[p].v ELSE 0

\* Where k calls of readUInt32 in a row end: each stops just past a byte that is no digit.
AfterUInts(s, p, k) == Past(s, p, NonDigits, k)

SkipToNewline(s, p) == Past(s, p, {"nl"}, 1)

\* readDelimitedList('{', '}'): an unexpected first byte is read and is an error.
ReadDelimitedList(s, p) ==
  IF p \in DOMAIN s /\ s[p].t = "{" THEN Past(s, p, {"}"}, 1) ELSE p + 1

\* hollerith.Scan: spaces, the length, the H and as many bytes as the length says.
Scan(s, p) ==
  LET h == Past(s, p, {"num"}, 1) IN h + 1 + ReadUInt(s, h - 1)

\* Fscanf("%0nb"): leading spaces and n binary digits.  The width ends the read, so
\* it needs no look-ahead.
ReadBits(s, p, n) == Past(s, p, {"num"}, n)

\* Mutant: a tenth number is read.
ReadTimeTen(s, p) == AfterUInts(s, p, 10)

ReadTime(s, p) == AfterUInts(s, p, 9)

\* ReadUInt32Array, of a list as long as its count says.  Without a look-ahead that is given
\* back, each "%d " takes the byte after its blank, so that every second number is lost: the
\* last read that finds a number takes the brace, and then the Fscanf that wants the brace
\* takes the newline; a read that finds the brace takes that and returns; and with no read
\* at all the brace stays, for the Fscanf that wants it takes the blank before it.
ReadUInt32Array(s, p) ==
  LET list == Past(s, p, {"}"}, 1)
      len  == ReadUInt(s, p)
  IN  CASE ~Rewinds /\ len = 0 /\ list <= Len(s) + 1 -> list - 1
        [] ~Rewinds /\ len % 2 = 1                   -> list + 1
        [] OTHER                                     -> list

-----------------------------------------------------------------------------
(***************************************************************************)
(* The OK methods: where each leaves the stream, which starts just past    *)
(* the byte that ended the request's number.                               *)
(***************************************************************************)
\* An array is a count and a list in braces.
ListEnd(s) == ReadDelimitedList(s, AfterUInts(s, 1, 1))

\* Mutant: the rest of the line is not skipped.
MarksOKNoSkip(s) == ListEnd(s)

MarksOK(s)   == SkipToNewline(s, ListEnd(s))
UnreadOK(s)  == SkipToNewline(s, ListEnd(s))
TextOK(s)    == Scan(s, 1)
ZConfOK(s)   == ListEnd(s)
VersionOK(s) == Scan(s, Scan(s, AfterUInts(s, 1, 1)))
TimeOK(s)    == ReadTime(s, 1)
\* The bits are not followed by a skip of the blank after them: readTime's first
\* number is the empty one before that blank, and the last of the reply stays.
PersonOK(s)  == AfterUInts(s, ReadTime(s, ReadBits(s, ReadBits(s, Scan(s, 1), 16), 8)), 13)
NumberOK(s)  == AfterUInts(s, 1, 1)
UConfOK(s)   == AfterUInts(s, ReadBits(s, Scan(s, 1), 8) + 1, 2)
AsyncOK(s)   == ReadUInt32Array(s, 1)

OKEnd(k, s) ==
  CASE k = "generic" -> 1
    [] k = "number"  -> NumberOK(s)
    [] k = "marks"   -> MarksOK(s)
    [] k = "unread"  -> UnreadOK(s)
    [] k = "text"    -> TextOK(s)
    [] k = "zconf"   -> ZConfOK(s)
    [] k = "version" -> VersionOK(s)
    [] k = "time"    -> TimeOK(s)
    [] k = "person"  -> PersonOK(s)
    [] k = "uconf"   -> UConfOK(s)
    [] k = "async"   -> AsyncOK(s)

(***************************************************************************)
(* The Error methods: Fscanf("%d %d") stops at the newline after the       *)
(* status, and skipToNewline follows.  A socket that cannot take a rune    *)
(* back has lost that newline by then, and the next line is skipped.       *)
(* timeResponseCallback's Error reads nothing.                             *)
(***************************************************************************)
LinesSkipped == IF Rewinds THEN 1 ELSE 2

\* Mutant: skipToNewline is called once more.
ReadErrorEndTwice(s) == Past(s, 1, {"nl"}, LinesSkipped + 1)

\* Mutant: no skipToNewline after the Fscanf.
ReadErrorEndNoSkip(s) == Past(s, 1, {"nl"}, LinesSkipped) - 1

ReadErrorEnd(s) == Past(s, 1, {"nl"}, LinesSkipped)
ErrorEnd(k, s) == IF k = "time" THEN 1 ELSE ReadErrorEnd(s)

\* Are the bytes there that Error waits for?
ErrorReady(k, s) == k = "time" \/ Cardinality(Stops(s, 1, {"nl"})) >= LinesSkipped

(***************************************************************************)
(* What a callback leaves on its channel: how many goroutines it starts to *)
(* send a response, which responses those are, and whether they close the  *)
(* channel afterwards.  A response is "ok", an error ("err"), or a value   *)
(* with a nil error that is not the one the server sent ("bad").           *)
(***************************************************************************)
Responses == {"ok", "err", "bad"}

\* The stream ends before the value does: skipToNewline is no part of an array's.
ValueEnd(k, s) == IF k \in {"marks", "unread"} THEN ListEnd(s) ELSE OKEnd(k, s)
IsCut(k, s) == ValueEnd(k, s) > Len(s) + 1

\* Does the OK method see an error?  readUInt32, the bit fields and what follows the
\* name of a conference ignore the end of the stream.
FailsToRead(k, s) ==
  CASE k = "async" -> ~Rewinds \/ IsCut(k, s)
    [] k = "uconf" -> Scan(s, 1) > Len(s) + 1
    [] OTHER       -> k \in {"marks", "unread", "text", "zconf", "version"} /\ IsCut(k, s)

\* zConfArrayResponseCallback.OK parses what it has read of the list even after an error,
\* and its slices panic if an item's length, its four type bits or its number is missing.
OKPanics(k, s) ==
  /\ k = "zconf"
  /\ ReadUInt(s, 1) > 0
  /\ Cardinality(Stops(s, AfterUInts(s, 1, 1), {"num"})) < 6

\* Mutant: every OK method lacks the return that queryAsyncCallback's lacks.
SendersNoReturn(k, sign, s) == 2

\* Mutant: the goroutine is never started, as in timeResponseCallback's Error.
SendersNone(k, sign, s) == 0

\* Those of a list that is short are in Callbacks: the lists here are as long as they say.
Senders(k, sign, s) ==
  CASE k = "time" /\ sign = "%"                      -> 0
    [] k = "async" /\ sign = "=" /\ FailsToRead(k, s) -> 2
    [] OTHER                                          -> 1

\* A cut value, and a person: no blank is skipped after the bits, and all its fields
\* are read one number too early.
IsWrong(k, s) == k = "person" \/ IsCut(k, s)
Value(k, s) == IF IsWrong(k, s) THEN "bad" ELSE "ok"

\* Mutant: the error that was read is not put into the response.
ResultsNoError(k, sign, s) == {"ok"}

\* Mutant: a shadowed err reports a failure for every reply.
ResultsAllErrors(k, sign, s) == {"err"}

\* Mutant: the error of a read is logged and forgotten, as personStatCallback.OK does.
ResultsUnchecked(k, sign, s) == IF sign = "%" THEN {"err"} ELSE {Value(k, s)}

Results(k, sign, s) ==
  CASE sign = "%"                          -> {"err"}
    [] sign = "=" /\ ~FailsToRead(k, s)    -> {Value(k, s)}
    [] sign = "=" /\ FailsToRead(k, s)     -> {"err"} \cup IF k = "async" THEN {Value(k, s)} ELSE {}

\* Mutant: no callback closes its channel.
ClosesNever(k, sign) == FALSE

Closes(k, sign) == ~(k = "zconf" /\ sign = "=")

\* The stream from position p on.
Rest(s, p) == SubSeq(s, p, Len(s))
=============================================================================
