------------------------------ MODULE Session ------------------------------
(***************************************************************************)
(* A whole session: goroutines connect their clients (KomServer), write    *)
(* requests (Requests) and get what the callbacks make of the answers      *)
(* (Callbacks).  KomClient has the calls that are under way on one         *)
(* connection and the bytes they wait for; here a client makes one call, a *)
(* line always arrives whole, and the values count.                        *)
(*                                                                         *)
(* The code starts no receiveLoop of its own: here somebody did.           *)
(***************************************************************************)
EXTENDS KomServer, Requests, Callbacks

CONSTANTS
  Talkers,   \* bound: the clients that use their connection
  Numbering, \* the request numbers a call may get: KomClient has how it gets them
  Arguments, \* the arguments a caller may pass, by the kind of the parameter
  Answers    \* what the server may answer with success, by the callback that reads it

ASSUME SessionAssumption == Talkers \in Nat /\ Numbering \subseteq 0..(Word - 1)

-----------------------------------------------------------------------------
(***************************************************************************)
(* The values that an argument of each kind has: numbers are uint32s, of   *)
(* which a request's number is one, a text is no longer than a uint32      *)
(* says, a ConfType has four of the flags.  A time is not before 1900, so  *)
(* that StringTime writes no negative number.                              *)
(***************************************************************************)
Kinds == Lookups \cup {"number", "flag", "text", "priv", "conftype", "list", "time", "info"}
UInt32 == 0..(Word - 1)
FlagsOf(list) == SUBSET {list[i] : i \in DOMAIN list}
ConfTypes == [extended : {FALSE}, flags : FlagsOf(ConfFlags)]
               \cup [extended : {TRUE}, flags : FlagsOf(ExtendedFlags)]

Typed(kind, arg) ==
  CASE kind \in Lookups  -> TRUE
    [] kind = "number"   -> arg \in UInt32
    [] kind = "flag"     -> arg \in BOOLEAN
    [] kind = "text"     -> arg \in Seq(STRING) /\ Len(arg) < Word
    [] kind = "priv"     -> arg \in FlagsOf(PrivFlags)
    [] kind = "conftype" -> arg \in ConfTypes
    [] kind = "list"     -> arg \in Seq(UInt32) /\ Len(arg) < Word
    [] kind = "info"     -> arg \in Seq(UInt32) /\ Len(arg) = 6
    [] kind = "time"     -> /\ arg \in Seq(UInt32) /\ Len(arg) = 9
                            /\ arg[5] >= 1 /\ arg[6] >= 1900 /\ arg[8] >= 1

ASSUME ArgumentsAssumption ==
  Word > 81 /\ \A kind \in Kinds : \A arg \in Arguments[kind] : Typed(kind, arg)

(***************************************************************************)
(* The values that a successful answer has: what the Go types of the       *)
(* callbacks can hold.  A list's count may be higher than its length.      *)
(***************************************************************************)
Lists == {"marks", "unread", "zconf"}

Items(callback) ==
  CASE callback = "marks"  -> UInt32 \X (UInt32 \cap 0..(ByteWord - 1))
    [] callback = "unread" -> UInt32 \cap 0..(ConfWord - 1)
    [] callback = "zconf"  ->
         {item \in Seq(STRING) \X FlagsOf(ConfFlags) \X (UInt32 \cap 0..(ConfWord - 1)) :
            Len(item[1]) < Word}

Sent(callback, v) ==
  CASE callback \in Lists     -> v \in Seq(Items(callback))
    [] callback = "text"     -> Typed("text", v)
    [] callback = "number"   -> v \in UInt32
    [] callback = "version"  -> /\ v \in UInt32 \X Seq(STRING) \X Seq(STRING)
                                /\ Typed("text", v[2]) /\ Typed("text", v[3])
    [] callback = "uconf"    -> /\ v \in Seq(STRING) \X FlagsOf(ExtendedFlags) \X UInt32 \X UInt32
                                /\ Typed("text", v[1])
    [] callback = "generic"  -> v = <<0, 0>>

ASSUME AnswersAssumption ==
  \A callback \in DOMAIN Answers :
    /\ callback \in Lists \cup {"text", "number", "version", "uconf", "generic"}
    /\ \A answer \in Answers[callback] : answer.ok =>
         /\ Sent(callback, answer.v)
         /\ callback \in Lists => answer.count \in UInt32 /\ answer.count >= Len(answer.v)

VARIABLES
  exchange,  \* how far the last call of each client is, with what is under way
  running    \* FALSE once a panic has ended the program

sessionVars == <<serverVars, exchange, running>>

-----------------------------------------------------------------------------
(***************************************************************************)
(* The server, and the lines it writes: what it answers is a value of the  *)
(* type the callback reads, a list with a count, which is too high if the  *)
(* server breaks off, or an error with its code and status.                *)
(***************************************************************************)
Success(v, count) == [ok |-> TRUE, v |-> v, count |-> count]
Failure(code, status) == [ok |-> FALSE, code |-> code, status |-> status]

ZItem(item) == Spaced(<<Sprint(item[1]), ConfBitField(item[2]), Decimal[item[3]]>>)

ListOf(count, items) == Spaced(<<Decimal[count], <<"{">> >> \o items \o << <<"}">> >>)

\* The data of a successful answer.
DataOf(callback, answer) ==
  LET v == answer.v
  IN  CASE callback = "marks"   -> ListOf(answer.count, [i \in DOMAIN v |-> Numbers(v[i])])
        [] callback = "unread"  -> ListOf(answer.count, [i \in DOMAIN v |-> Decimal[v[i]]])
        [] callback = "zconf"   -> ListOf(answer.count, [i \in DOMAIN v |-> ZItem(v[i])])
        [] callback = "text"    -> Sprint(v)
        [] callback = "number"  -> Decimal[v]
        [] callback = "version" -> Spaced(<<Decimal[v[1]], Sprint(v[2]), Sprint(v[3])>>)
        [] callback = "uconf"   ->
             Spaced(<<Sprint(v[1]), ExtendedRepr(v[2]), Decimal[v[3]], Decimal[v[4]]>>)
        [] callback = "generic" -> <<>>

\* The line past the request's number and the byte after it.
ReplyLine(callback, answer) ==
  IF answer.ok THEN DataOf(callback, answer) \o <<"LF">>
               ELSE Numbers(<<answer.code, answer.status>>) \o <<"LF">>

\* How the server reads a field: the value and the position past the byte that ends it.
Numbered(s, p, n) ==
  LET read[i \in 0..n] ==
        IF i = 0 THEN Value(<<>>, p)
        ELSE LET before == read[i - 1]
                 number == ReadUInt32(s, before.next)
             IN  Value(Append(before.v, number.v), number.next)
  IN  read[n]

FlagAt(s, p) == Value(ReadUInt32(s, p).v = 1, ReadUInt32(s, p).next)
TextAt(s, p) == Value(Scan(s, p).v, Scan(s, p).next + 1)
BitsAt(s, p, list, n) == Value(ReadFlags(s, p, list, n).v, ReadFlags(s, p, list, n).next + 1)

\* Eight bits are an extended type.
ConfTypeAt(s, p) ==
  LET extended == SkipOver(s, p, DigitChars) = p + 8
      read == IF extended THEN BitsAt(s, p, ExtendedFlags, 8) ELSE BitsAt(s, p, ConfFlags, 4)
  IN  Value([extended |-> extended, flags |-> read.v], read.next)

\* A count, and as many numbers between "{ " and "} ".
ListAt(s, p) ==
  LET count  == ReadUInt32(s, p)
      listed == Numbered(s, count.next + 2, count.v)
  IN  Value(IF At(s, count.next, {"{"}) THEN listed.v ELSE <<>>, listed.next + 2)

\* A struct tm.
TimeAt(s, p) ==
  LET tm == Numbered(s, p, 9)
  IN  Value([tm.v EXCEPT ![5] = @ + 1, ![6] = @ + 1900, ![8] = @ + 1], tm.next)

FieldAt(kind, s, p) ==
  CASE kind \in Lookups \cup {"number"} -> ReadUInt32(s, p)
    [] kind = "flag"     -> FlagAt(s, p)
    [] kind = "text"     -> TextAt(s, p)
    [] kind = "priv"     -> BitsAt(s, p, PrivFlags, 16)
    [] kind = "conftype" -> ConfTypeAt(s, p)
    [] kind = "list"     -> ListAt(s, p)
    [] kind = "info"     -> Numbered(s, p, 6)
    [] kind = "time"     -> TimeAt(s, p)

\* The fields of a request.
FieldsAt(r, s, p) ==
  LET read[i \in 0..Len(r.fields)] ==
        IF i = 0 THEN Value(<<>>, p)
        ELSE LET before == read[i - 1]
                 field == FieldAt(r.params[r.fields[i]], s, before.next)
             IN  Value(Append(before.v, field.v), field.next)
  IN  read[Len(r.fields)]

\* What the server understands of a line.
Understood(line) ==
  LET id == ReadUInt32(line, 1)
      no == ReadUInt32(line, id.next)
      fields == FieldsAt(Request[no.v], line, no.next)
  IN  [id |-> id.v, no |-> no.v, fields |-> fields.v, next |-> fields.next]

-----------------------------------------------------------------------------
SessionInit ==
  /\ ServerInit
  /\ exchange = [c \in Clients |-> [step |-> "idle"]]
  /\ running = TRUE

Talking(c) == {d \in Clients \ {c} : exchange[d].step # "idle"}
CallbackOf(c) == Request[exchange[c].no].callback

\* Each of some sequences with each of some elements after it.
Longer(seqs, elements) == {Append(s, e) : s \in seqs, e \in elements}

\* The arguments of a request: one of each parameter's kind.
ArgumentsOf(n) ==
  LET params == Request[n].params
      all[i \in 0..Len(params)] ==
        IF i = 0 THEN {<<>>}
        ELSE Longer(all[i - 1], Arguments[params[i]])
  IN  all[Len(params)]

\* A call of an async* method on a client that NewKomClient returned: the request is written.
Ask(c) ==
  /\ running
  /\ at[c] = "connected"
  /\ exchange[c].step = "idle"
  /\ Cardinality(Talking(c)) < Talkers
  /\ \E id \in Numbering, n \in DOMAIN Request : \E args \in ArgumentsOf(n) :
       exchange' = [exchange EXCEPT ![c] =
         [step |-> "asked", no |-> n, id |-> id, args |-> args, line |-> Line(id, n, args)]]
  /\ UNCHANGED <<serverVars, running>>

\* The server answers: not to get-time, get-person-stat and query-async, whose values are
\* not modelled.
Answer(c) ==
  /\ running
  /\ exchange[c].step = "asked"
  /\ CallbackOf(c) \in DOMAIN Answers
  /\ \E answer \in Answers[CallbackOf(c)] :
       exchange' = [exchange EXCEPT ![c] =
         [step |-> "answered", no |-> exchange[c].no, answer |-> answer,
          line |-> ReplyLine(CallbackOf(c), answer)]]
  /\ UNCHANGED <<serverVars, running>>

\* What the callback makes of the answer that is there.
Run(c) ==
  LET e == exchange[c]
  IN  IF e.answer.ok THEN ValueOK(CallbackOf(c), e.line, 1)
                     ELSE Gives({ValueError(CallbackOf(c), e.line, 1)})

\* receiveLoop calls the callback on the data, and the caller takes a response from one of
\* the goroutines that send.
Return(c) ==
  /\ running
  /\ exchange[c].step = "answered"
  /\ \E response \in Run(c).responses :
       exchange' = [exchange EXCEPT ![c] =
         [step |-> "returned", no |-> @.no, answer |-> @.answer, got |-> response,
          senders |-> Run(c).senders - 1, panics |-> Run(c).panics]]
  /\ UNCHANGED <<serverVars, running>>

\* receiveLoop calls the callback on the data, and that panics.
Panic(c) ==
  /\ running
  /\ exchange[c].step = "answered"
  /\ Run(c).panics
  /\ running' = FALSE
  /\ UNCHANGED <<serverVars, exchange>>

\* The goroutine whose response the caller took closes the channel another one is to send
\* on, or the callback runs off its list after that response.
PanicAfter(c) ==
  /\ running
  /\ exchange[c].step = "returned"
  /\ exchange[c].senders > 0 \/ exchange[c].panics
  /\ running' = FALSE
  /\ UNCHANGED <<serverVars, exchange>>

\* A step of NewKomClient.
BeginConnecting(c) == running /\ CallGetServer(c) /\ UNCHANGED <<exchange, running>>
Connect(c) == running /\ ServerStepOf(c) /\ UNCHANGED <<exchange, running>>

SessionNext ==
  \E c \in Clients :
    \/ BeginConnecting(c) \/ Connect(c)
    \/ Ask(c) \/ Answer(c) \/ Return(c)
    \/ Panic(c) \/ PanicAfter(c)

\* Fairness: a goroutine that connects and can run does run, and a dial comes back, with
\* a connection or with an error.  Nobody has to use a client.
SessionSpec ==
  /\ SessionInit
  /\ [][SessionNext]_sessionVars
  /\ \A c \in Clients : WF_sessionVars(Connect(c))

-----------------------------------------------------------------------------
(***************************************************************************)
(* Properties.                                                             *)
(***************************************************************************)

\* What the bits and the numbers of a field can say: set-conf-type's extended bit field
\* has no reserved flags.
Sayable(kind, arg) ==
  IF kind = "conftype" /\ arg.extended
  THEN [arg EXCEPT !.flags = @ \ {"Reserved2", "Reserved3"}] ELSE arg

\* What was read is the call: its number, its operation and its arguments that are no names.
SaysTheCall(read, e) ==
  LET r == Request[e.no]
  IN  /\ read.id = e.id /\ read.no = e.no /\ read.next = Len(e.line) + 1
      /\ \A i \in DOMAIN r.fields :
           LET kind == r.params[r.fields[i]]
           IN  kind \notin Lookups => read.fields[i] = Sayable(kind, e.args[r.fields[i]])

\* The server reads from the line of a request the number it was given, the operation and
\* every argument that is no name, whatever blanks, digits, braces and H's its texts have,
\* and nothing else (the async* methods with hollerith.Sprint, StringTime and the arrays).
RequestsReadBack ==
  \A c \in Clients : exchange[c].step = "asked" =>
    SaysTheCall(Understood(exchange[c].line), exchange[c])

Returned(c) == exchange[c].step = "returned"

\* A list the server broke off before its count.
Short(callback, answer) ==
  answer.ok /\ callback \in Lists /\ answer.count > Len(answer.v)

\* A list of conferences with a brace in a name.
BracedName(callback, answer) ==
  answer.ok /\ callback = "zconf" /\ \E i \in DOMAIN answer.v :
    LET name == answer.v[i][1] IN \E k \in DOMAIN name : name[k] = "}"

\* A caller gets exactly the value the server sent, with no error, unless the answer is an
\* error or a list that is cut short or has a brace in a name (the OK methods).
RepliesAsSent ==
  \A c \in Clients : Returned(c) =>
    LET answer == exchange[c].answer
        callback == CallbackOf(c)
    IN  answer.ok /\ ~Short(callback, answer) /\ ~BracedName(callback, answer) =>
          exchange[c].got = Response(answer.v, Nil)

\* A caller is told of a list that has fewer elements than its count says, as
\* TestGetMarks wants it, and gets the elements it has, at the start of what it gets.
ShortListsReported ==
  \A c \in Clients : Returned(c) =>
    LET answer == exchange[c].answer
    IN  Short(CallbackOf(c), answer) =>
          /\ exchange[c].got.err = ReadFailed
          /\ \A i \in DOMAIN answer.v :
               i \in DOMAIN exchange[c].got.v /\ exchange[c].got.v[i] = answer.v[i]

\* An answer ends the program only if it is a list of conferences whose end is not where
\* its count says: the slices of zConfArrayResponseCallback.OK stay inside a whole list, and
\* of the callbacks that are answered here only unreadConfsCallback.OK goes on after an
\* error, to run off its list or to have a second goroutine send on the channel that the
\* first one closes.
PanicsOnBrokenLists ==
  ~running => \E c \in Clients :
    LET answer == exchange[c].answer
        callback == CallbackOf(c)
    IN  \/ /\ exchange[c].step = "answered"
           /\ \/ callback = "zconf" /\ Short(callback, answer)
              \/ callback = "unread" /\ answer.ok /\ answer.count > Len(answer.v) + 1
              \/ BracedName(callback, answer)
        \/ exchange[c].step = "returned" /\ callback = "unread" /\ Short(callback, answer)

\* Every call of NewKomClient returns unless a panic ends the program, whosever dial
\* fails with serverLock held.
EveryConnectReturns ==
  \A c \in Clients : at[c] = "locking" ~> at[c] \in {"connected", "failed"} \/ ~running

\* The caller of a request that failed gets the code and the status the server sent
\* (readError and the Error methods).
ErrorCodeReported ==
  \A c \in Clients : Returned(c) =>
    LET answer == exchange[c].answer
    IN  ~answer.ok => exchange[c].got.err = ProtocolError(answer.code, answer.status)
=============================================================================
