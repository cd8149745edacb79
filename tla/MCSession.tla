----------------------------- MODULE MCSession -----------------------------
(***************************************************************************)
(* An instance of Session for TLC: arguments and answers that have the     *)
(* characters the codecs look for where they do not mean it.               *)
(***************************************************************************)
EXTENDS Session

\* "", "1H {", "}" and a blank between digits.
MCTexts == {<<>>, <<"1", "H", " ", "{">>, <<"}", "0", " ", "7">>}
MCConfTypes ==
  {[extended |-> FALSE, flags |-> {"Original", "LetterBox"}],
   [extended |-> TRUE, flags |-> {"RdProt", "ForbidSecret", "Reserved3"}]}

\* 17 June 1997, 19:47:23, a Tuesday and the 168th day, and the turn of a year.
MCTimes == {<<23, 47, 19, 17, 6, 1997, 2, 168, 1>>, <<0, 0, 0, 1, 1, 2000, 6, 1, 0>>}

MCArguments ==
  [conf |-> {"a name"}, person |-> {"a person"}, number |-> {0, 10, 65535},
   flag |-> BOOLEAN, text |-> MCTexts,
   priv |-> {{}, {"Wheel", "ChangeName"}, {"CreatePersons"}}, conftype |-> MCConfTypes,
   list |-> {<<>>, <<7>>, <<10, 0, 65536>>}, time |-> MCTimes,
   info |-> {<<11, 1, 2, 3, 4, 1080>>}]

\* Failures: a code with a message of its own, one that shows its status, an unknown one.
MCFailures == {Failure(6, 0), Failure(9, 12), Failure(61, 3)}

\* Lists, whole and short by one or two elements.
MCLists(vs) == {Success(v, Len(v) + missing) : v \in vs, missing \in 0..2}
MCValues(vs) == {Success(v, 0) : v \in vs}

MCAnswers ==
  [marks   |-> MCLists({<<>>, <<<<13020, 100>>>>, <<<<7, 95>>, <<12213, 255>>>>}) \cup MCFailures,
   unread  |-> MCLists({<<>>, <<65535>>, <<6, 10>>}) \cup MCFailures,
   zconf   |-> MCLists({<<>>, <<<<<<"1", "H", " ">>, {"RdProt", "LetterBox"}, 10>>>>,
                        <<<<<<"a">>, {"Secret"}, 65535>>, <<<<>>, {}, 9>>>>,
                        <<<<<<"}">>, {}, 6>>>>}) \cup MCFailures,
   text    |-> MCValues(MCTexts) \cup MCFailures,
   number  |-> MCValues({0, 10, 65536}) \cup MCFailures,
   version |-> MCValues({<<10, <<"H">>, <<"2", ".", "1">>>>}) \cup MCFailures,
   uconf   |-> MCValues({<<<<"0", " ", "1">>, {"Original", "Reserved3"}, 1080, 77>>}) \cup MCFailures,
   generic |-> MCValues({<<0, 0>>}) \cup MCFailures]
=============================================================================
