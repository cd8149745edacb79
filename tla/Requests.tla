------------------------------ MODULE Requests ------------------------------
(***************************************************************************)
(* The requests: what each async* method makes of its parameters.  A       *)
(* request is known by its number in Protocol A.  Its entry names the      *)
(* callback that is registered for the reply, the kinds of its parameters  *)
(* in the method's order, and the parameter each field of the line comes   *)
(* from.                                                                   *)
(*                                                                         *)
(* A kind says how the parameter is written: a name is looked up ("person" *)
(* or "conf"), a number, a flag or a text is written as it is, "priv",     *)
(* and "conftype" are bit fields, "list" is an array, "time" and "info"    *)
(* are structs of numbers.                                                 *)
(***************************************************************************)
EXTENDS Wire

Lookups == {"person", "conf"}

\* A request whose fields are its parameters, in their order, and one that reorders them.
Asks(no, callback, params) ==
  [no |-> no, callback |-> callback, params |-> params, fields |-> [i \in DOMAIN params |-> i]]
AsksIn(no, callback, params, fields) ==
  [no |-> no, callback |-> callback, params |-> params, fields |-> fields]
Does(no, params) == Asks(no, "generic", params)

\* 1 logout, 2 change-conference, 3 change-name, 4 change-what-i-am-doing, 7 set-priv-bits,
\* 8 set-passwd, 11 delete-conf, 15 sub-member, 16 set-presentation, 17 set-etc-motd,
\* 18 set-supervisor and 19 set-permitted-submitters, which look up their first name twice.
Requests1to19 ==
  {Does(1, <<>>), Does(2, <<"conf">>), Does(3, <<"conf", "text">>), Does(4, <<"text">>),
   Does(7, <<"number", "priv">>), Does(8, <<"number", "text", "text">>),
   Does(11, <<"conf">>), AsksIn(15, "generic", <<"person", "conf">>, <<2, 1>>),
   Does(16, <<"conf", "number">>), Does(17, <<"conf", "number">>),
   AsksIn(18, "generic", <<"conf", "conf">>, <<1, 1>>),
   AsksIn(19, "generic", <<"conf", "conf">>, <<1, 1>>)}

\* 20 set-super-conf, which looks up its first name twice, 21 set-conf-type, 22 set-garb-nice,
\* 23 get-marks, 25 get-text, 27 mark-as-read, 29 delete-text, 30 add-recipient,
\* 31 sub-recipient, 32 add-comment, 33 sub-comment, 35 get-time.
Requests20to35 ==
  {AsksIn(20, "generic", <<"conf", "conf">>, <<1, 1>>), Does(21, <<"conf", "conftype">>),
   Does(22, <<"conf", "number">>), Asks(23, "marks", <<>>),
   Asks(25, "text", <<"number", "number", "number">>), Does(27, <<"conf", "list">>),
   Does(29, <<"number">>), Does(30, <<"number", "conf", "number">>),
   Does(31, <<"number", "conf">>), Does(32, <<"number", "number">>),
   Does(33, <<"number", "number">>), Asks(35, "time", <<>>)}

\* 37 add-footnote, 38 sub-footnote, 40 set-unread, 41 set-motd-of-lyskom, 42 enable,
\* 43 sync-kom, 44 shutdown-kom, 49 get-person-stat, 52 get-unread-confs, 53 send-message,
\* 55 disconnect, 56 who-am-i, 57 set-user-area, 58 get-last-text.
Requests37to58 ==
  {Does(37, <<"number", "number">>), Does(38, <<"number", "number">>),
   Does(40, <<"conf", "number">>), Does(41, <<"number">>), Does(42, <<"number">>),
   Does(43, <<>>), Does(44, <<"number">>), Asks(49, "person", <<"number">>),
   Asks(52, "unread", <<"number">>), Does(53, <<"number", "text">>), Does(55, <<"number">>),
   Asks(56, "number", <<>>), Does(57, <<"number", "number">>),
   Asks(58, "number", <<"time">>)}

\* 60 find-next-text-no, 61 find-previous-text-no, 62 login, 69 set-client-version,
\* 70 get-client-name, 71 get-client-version, 72 mark-text, 73 unmark-text, 74 re-z-lookup,
\* 75 get-version-info, 76 lookup-z-name, whose flags are written in the other order.
Requests60to76 ==
  {Asks(60, "number", <<"number">>), Asks(61, "number", <<"number">>),
   Does(62, <<"person", "text", "flag">>), Does(69, <<"text", "text">>),
   Asks(70, "text", <<"number">>), Asks(71, "text", <<"number">>),
   Does(72, <<"number", "number">>), Does(73, <<"number">>),
   Asks(74, "zconf", <<"text", "flag", "flag">>), Asks(75, "version", <<>>),
   AsksIn(76, "zconf", <<"text", "flag", "flag">>, <<1, 3, 2>>)}

\* 77 set-last-read, 78 get-uconf-stat, 79 set-info, 80 accept-async, 81 query-async.
Requests77to81 ==
  {Does(77, <<"number", "number">>), Asks(78, "uconf", <<"number">>), Does(79, <<"info">>),
   Does(80, <<"list">>), Asks(81, "async", <<>>)}

\* The request of each number.
Requests ==
  Requests1to19 \cup Requests20to35 \cup Requests37to58 \cup Requests60to76 \cup Requests77to81
Request == [n \in {r.no : r \in Requests} |-> CHOOSE r \in Requests : r.no = n]

-----------------------------------------------------------------------------
(***************************************************************************)
(* Writing a request.                                                      *)
(***************************************************************************)

\* userNameMap is made empty and conferenceMap is nil, and no code stores a name in
\* either: what LookupUser and LookupConference can find.
KnownNames == [name \in {} |-> 0]

\* PersonFromName and ConferenceFromName: a name that is not found is number 0.
NumberOf(name) == IF name \in DOMAIN KnownNames THEN KnownNames[name] ELSE 0

\* The text of a field.
Field(kind, arg) ==
  CASE kind \in Lookups       -> Decimal[NumberOf(arg)]
    [] kind = "number"        -> Decimal[arg]
    [] kind = "flag"          -> Decimal[IF arg THEN 1 ELSE 0]
    [] kind = "text"          -> Sprint(arg)
    [] kind = "priv"          -> PrivRepr(arg)
    [] kind = "conftype"      -> IF arg.extended THEN ExtendedBitField(arg.flags)
                                                 ELSE ConfBitField(arg.flags)
    [] kind = "list"          -> ArrayOf(arg)
    [] kind = "time"          -> StringTime(arg)
    [] kind = "info"          -> Numbers(arg)

\* The line of request n with number id: send adds the line feed.
Line(id, n, args) ==
  LET r == Request[n]
  IN  Spaced(<<Decimal[id], Decimal[n]>>
               \o [i \in DOMAIN r.fields |-> Field(r.params[r.fields[i]], args[r.fields[i]])])
        \o <<"LF">>
=============================================================================
