------------------------------ MODULE Callbacks ------------------------------
(***************************************************************************)
(* What the client's callbacks make of a whole line: the values and errors *)
(* of their responses.  Replies has the other half, how many bytes they    *)
(* take and what they do to their channels.                                *)
(*                                                                         *)
(* A callback gets the line s and the position p just past the request's   *)
(* number.  It gives the responses of which its caller gets one, how many  *)
(* goroutines send one and then close the channel, and whether an index    *)
(* that runs off a slice ends the program.                                 *)
(***************************************************************************)
EXTENDS Wire

\* An error value is nil, what a reader complains of, or an error of the protocol.
Nil == <<"nil">>
ReadFailed == <<"read">>

Response(v, err) == [v |-> v, err |-> err]
Gives(responses) == [responses |-> responses, senders |-> 1, panics |-> FALSE]
GivesTwice(responses) == [responses |-> responses, senders |-> 2, panics |-> FALSE]
Panics == [responses |-> {}, senders |-> 0, panics |-> TRUE]

\* An OK method that runs off a slice with a goroutine under way: its response may still
\* be taken before that.
GivesAndPanics(responses) == [responses |-> responses, senders |-> 1, panics |-> TRUE]

-----------------------------------------------------------------------------
(***************************************************************************)
(* Lists.                                                                  *)
(***************************************************************************)

\* The numbers at the start of a list, and that list's count, as the callbacks of
\* get-marks and get-unread-confs see them.
CountedList(s, p) ==
  LET count == ReadUInt32(s, p)
      list  == ReadDelimitedList(s, count.next)
      words == Split(list.v)
      open  == IF words[1] = <<"{">> THEN 1 ELSE 0
      leading == {n \in 0..(Len(words) - open) : \A i \in 1..n : IsNumber(words[open + i])}
      read  == CHOOSE n \in leading : \A m \in leading : m <= n
  IN  [count |-> count.v, ok |-> list.ok,
       numbers |-> [i \in 1..read |-> Atoi(words[open + i])]]

\* The first n marks of the numbers: a text and a mark type, cut to a byte.
Marks(numbers, n) ==
  [i \in 1..n |-> <<numbers[2 * i - 1], numbers[2 * i] % ByteWord>>]

\* Mutant: the error of the failed conversion is not put into the response.
MarksOKUnreported(s, p) ==
  LET list == CountedList(s, p)
  IN  IF ~list.ok THEN Gives({Response(<<>>, ReadFailed)})
      ELSE Gives({Response(Marks(list.numbers, Len(list.numbers) \div 2), Nil)})

\* Mutant: no return after the error.
MarksOKNoReturn(s, p) ==
  LET list == CountedList(s, p)
      read == Len(list.numbers)
      marks(n, err) == Response(Marks(list.numbers, n), err)
  IN  IF ~list.ok THEN Gives({Response(<<>>, ReadFailed)})
      ELSE IF read < 2 * list.count THEN GivesTwice({marks(read \div 2, ReadFailed)})
           ELSE Gives({marks(list.count, Nil)})

\* getMarksCallback.OK: the brace that ends a list that is too short is no number.
MarksOK(s, p) ==
  LET list == CountedList(s, p)
      read == Len(list.numbers)
  IN  IF ~list.ok THEN Gives({Response(<<>>, ReadFailed)})
      ELSE IF read < 2 * list.count
           THEN Gives({Response(Marks(list.numbers, read \div 2), ReadFailed)})
           ELSE Gives({Response(Marks(list.numbers, list.count), Nil)})

ConfNos(numbers) == [i \in DOMAIN numbers |-> numbers[i] % ConfWord]

\* unreadConfsCallback.OK: it starts a goroutine at the error and goes on, to take the
\* brace for conference 0 and to start another one.  The two share the response, of which
\* the first may see either value.  If more than that is missing it runs off the list.
UnreadOK(s, p) ==
  LET list == CountedList(s, p)
      read == Len(list.numbers)
      confs == ConfNos(list.numbers)
  IN  IF ~list.ok THEN Gives({Response(<<>>, ReadFailed)})
      ELSE IF read >= list.count
           THEN Gives({Response(ConfNos(SubSeq(list.numbers, 1, list.count)), Nil)})
           ELSE IF read + 1 = list.count
                THEN GivesTwice({Response(confs, ReadFailed), Response(Append(confs, 0), ReadFailed)})
                ELSE GivesAndPanics({Response(confs, ReadFailed)})

\* zConfArrayResponseCallback.OK: one item of the list ar, from index p on.  Its three
\* slices, for the log, want ten, six and two characters.
ZConf(ar, p) ==
  LET name == FromString(ar, p)
      type == name.next
      no   == ReadUInt32FromString(ar, type + 5)
  IN  [v |-> <<name.v, ParseConfType(ar, type + 1), no.v % ConfWord>>, next |-> no.next]

\* Do the slices run off the list?
ZConfPanics(ar, p) ==
  p + 9 > Len(ar) \/ FromString(ar, p).panics \/ FromString(ar, p).next + 6 > Len(ar)

ZConfOK(s, p) ==
  LET count == ReadUInt32(s, p)
      list  == ReadDelimitedList(s, count.next)
      ar    == list.v
      items[i \in 0..count.v] ==
        IF i = 0 THEN [confs |-> <<>>, next |-> 1, panics |-> FALSE]
        ELSE LET before == items[i - 1]
             IN  IF before.panics \/ ZConfPanics(ar, before.next)
                 THEN [before EXCEPT !.panics = TRUE]
                 ELSE LET item == ZConf(ar, before.next)
                      IN  [confs |-> Append(before.confs, item.v), next |-> item.next,
                           panics |-> FALSE]
      all == items[count.v]
  IN  IF all.panics THEN Panics
      ELSE Gives({Response(all.confs, IF list.ok THEN Nil ELSE ReadFailed)})

-----------------------------------------------------------------------------
(***************************************************************************)
(* Single values.                                                          *)
(***************************************************************************)
ErrorOf(scan) == IF scan.ok THEN Nil ELSE ReadFailed

\* getTextCallback.OK and stringResponseCallback.OK
TextOK(s, p) == LET text == Scan(s, p) IN Gives({Response(text.v, ErrorOf(text))})

\* textResponseCallback.OK and whoAmICallback.OK
NumberOK(s, p) == Gives({Response(ReadUInt32(s, p).v, Nil)})

\* versionInfoResponseCallback.OK
VersionOK(s, p) ==
  LET protocol == ReadUInt32(s, p)
      software == Scan(s, protocol.next)
      version  == Scan(s, software.next)
  IN  Gives({Response(<<protocol.v, software.v, version.v>>,
                      IF software.ok THEN ErrorOf(version) ELSE ReadFailed)})

\* Mutant: the blank between the type and the number is not read.
UConfOKNoSkip(s, p) ==
  LET name == Scan(s, p)
      type == ReadExtendedConfType(s, name.next)
      last == ReadUInt32(s, type.next)
      nice == ReadUInt32(s, last.next)
  IN  Gives({Response(<<name.v, type.v, last.v, nice.v>>, ErrorOf(name))})

\* uConfResponseCallback.OK
UConfOK(s, p) ==
  LET name == Scan(s, p)
      type == ReadExtendedConfType(s, name.next)
      last == ReadUInt32(s, type.next + 1)
      nice == ReadUInt32(s, last.next)
  IN  Gives({Response(<<name.v, type.v, last.v, nice.v>>, ErrorOf(name))})

ValueOK(callback, s, p) ==
  CASE callback = "marks"   -> MarksOK(s, p)
    [] callback = "unread"  -> UnreadOK(s, p)
    [] callback = "zconf"   -> ZConfOK(s, p)
    [] callback = "text"    -> TextOK(s, p)
    [] callback = "number"  -> NumberOK(s, p)
    [] callback = "version" -> VersionOK(s, p)
    [] callback = "uconf"   -> UConfOK(s, p)
    [] callback = "generic" -> Gives({Response(<<0, 0>>, Nil)})

-----------------------------------------------------------------------------
(***************************************************************************)
(* Errors.                                                                 *)
(***************************************************************************)

\* protocolError: the codes that have a message of their own, and those whose message
\* shows the status.  It is never nil.
NamedCodes == {0} \cup 2..19
ShowStatus == {0, 5, 9, 10, 11, 12, 13, 14, 16, 19}
ProtocolError(code, status) ==
  IF code \in NamedCodes
  THEN <<"protocol", code, IF code \in ShowStatus THEN status ELSE 0>>
  ELSE <<"generic", code, status>>

\* readError scans "%d %d" into the request's number and the code: the second number
\* of the reply, its status, becomes the code, and the status stays 0.
ReadErrorCode(s, p) == ReadUInt32(s, ReadUInt32(s, p).next).v
ReadErrorStatus(s, p) == 0

\* The Error methods: only genericCallback's response has the code and the status, and
\* getMarksCallback's message is always the generic one.
ValueError(callback, s, p) ==
  LET code   == ReadErrorCode(s, p)
      status == ReadErrorStatus(s, p)
  IN  CASE callback = "marks"   -> Response(<<>>, <<"generic", code, status>>)
        [] callback = "generic" -> Response(<<code, status>>, ProtocolError(code, status))
        [] OTHER                -> Response(<<>>, ProtocolError(code, status))
=============================================================================
