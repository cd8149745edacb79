---------------------------- MODULE InStepProofs ----------------------------
(***************************************************************************)
(* What keeps both directions of a connection in step.  However callers    *)
(* mix their writes, only requests that are still being sent are on an     *)
(* open line.  Callbacks that read their own reply to its end, and no byte *)
(* of the next one, keep the replies apart: then no answer is lost and     *)
(* receiveLoop never panics.                                               *)
(***************************************************************************)
EXTENDS StreamProofs

-----------------------------------------------------------------------------
(* Requests on the wire. *)

\* Nothing in a stretch of the stream to the server ends its line.
NoLFFrom(stream, i) == \A j \in i..Len(stream) : stream[j] # LF

\* The lines stay as they are, or the connection is gone.
LEMMA SameLines ==
  ASSUME OpenLines, UNCHANGED <<stage, outgoing>>, connected' => connected
  PROVE  OpenLines'
BY DEF OpenLines

\* A caller that enters its async* method has written nothing.
LEMMA RegisterLines ==
  ASSUME TypeOK, OpenLines, NEW c \in Calls, Register(c)
  PROVE  OpenLines'
<1>1. /\ stage \in [Calls -> Stages] /\ stage[c] = "new"
      /\ stage' = [stage EXCEPT ![c] = "registered"]
      /\ UNCHANGED <<outgoing, connected>> /\ outgoing \in Seq(Calls \cup {LF})
  BY DEF TypeOK, Register, netVars
<1> SUFFICES ASSUME connected, NEW i \in DOMAIN outgoing, NoLFFrom(outgoing, i)
             PROVE  stage'[outgoing[i]] = "written"
  BY <1>1 DEF OpenLines, NoLFFrom
<1>2. stage[outgoing[i]] = "written"
  BY DEF OpenLines, NoLFFrom
<1>3. outgoing[i] \in Calls
  <2>1. outgoing[i] # LF
    BY <1>1 DEF NoLFFrom
  <2> QED
    BY <1>1, <2>1
<1> QED
  BY <1>1, <1>2, <1>3

\* A body joins the open line, and its caller is between its two writes.
LEMMA SendBodyLines ==
  ASSUME TypeOK, OpenLines, NEW c \in Calls, SendBody(c)
  PROVE  OpenLines'
<1> SUFFICES ASSUME connected,
                    NEW i \in DOMAIN outgoing', NoLFFrom(outgoing', i)
             PROVE  stage'[outgoing'[i]] = "written"
  BY DEF OpenLines, NoLFFrom, SendBody
<1>1. /\ stage \in [Calls -> Stages] /\ outgoing \in Seq(Calls \cup {LF})
      /\ stage' = [stage EXCEPT ![c] = "written"]
      /\ outgoing' = Append(outgoing, c)
  BY DEF TypeOK, SendBody, Write
<1> DEFINE n == Len(outgoing)
           more == Append(outgoing, c)
<1>2. /\ n \in Nat /\ Len(more) = n + 1 /\ more[n + 1] = c
      /\ \A j \in 1..n : more[j] = outgoing[j]
      /\ DOMAIN more = 1..(n + 1) /\ DOMAIN outgoing = 1..n
  BY <1>1, AppendProperties
<1>3. outgoing' = more
  BY <1>1
<1> HIDE DEF n, more
<1>4. CASE i = n + 1
  BY <1>1, <1>2, <1>3, <1>4
<1>5. CASE i # n + 1
  <2>1. i \in 1..n /\ \A j \in i..n : j \in 1..n /\ j \in i..(n + 1)
    BY <1>2, <1>3, <1>5
  <2>2. NoLFFrom(outgoing, i)
    BY <1>2, <1>3, <2>1 DEF NoLFFrom, n
  <2>3. stage[outgoing[i]] = "written" /\ outgoing[i] # LF
    <3>1. i \in i..n
      BY <1>2, <2>1
    <3> QED
      BY <1>2, <2>1, <2>2, <3>1 DEF OpenLines, NoLFFrom, n
  <2>4. outgoing[i] \in Calls
    BY <1>1, <1>2, <2>1, <2>3
  <2> QED
    BY <1>1, <1>2, <1>3, <2>1, <2>3, <2>4
<1> QED
  BY <1>4, <1>5

\* A line feed leaves no line open.
LEMMA SendLFLines ==
  ASSUME TypeOK, OpenLines, NEW c \in Calls, SendLF(c)
  PROVE  OpenLines'
<1> SUFFICES ASSUME connected,
                    NEW i \in DOMAIN outgoing', NoLFFrom(outgoing', i)
             PROVE  FALSE
  BY DEF OpenLines, NoLFFrom, SendLF
<1>1. outgoing \in Seq(Calls \cup {LF}) /\ outgoing' = Append(outgoing, LF)
  BY DEF TypeOK, SendLF, Write
<1> DEFINE n == Len(outgoing)
<1>2. /\ n \in Nat /\ Len(outgoing') = n + 1 /\ outgoing'[n + 1] = LF
      /\ DOMAIN outgoing' = 1..(n + 1)
  BY <1>1, AppendProperties
<1> HIDE DEF n
<1>3. n + 1 \in i..Len(outgoing')
  BY <1>2
<1> QED
  BY <1>2, <1>3 DEF NoLFFrom

\* What the server leaves of the stream are its last lines.
LEMMA ServerReadLines ==
  ASSUME TypeOK, OpenLines, ServerRead
  PROVE  OpenLines'
<1>1. /\ UNCHANGED <<stage, connected>> /\ connected /\ outgoing \in Seq(Calls \cup {LF})
  BY DEF TypeOK, ServerRead, callVars
<1>2. PICK k \in LineFeeds : outgoing' = Rest(outgoing, k + 1)
  BY DEF ServerRead
<1>3. PICK p \in Positions : p = k + 1
  BY <1>1 DEF LineFeeds, Positions
<1> DEFINE rest == Rest(outgoing, p)
           n == Len(outgoing)
<1>4. /\ rest \in Seq(Calls \cup {LF}) /\ n \in Nat /\ p \in Nat
      /\ Len(rest) = IF p <= n THEN n - p + 1 ELSE 0
      /\ \A j \in 1..Len(rest) : j + p - 1 \in 1..n /\ rest[j] = outgoing[j + p - 1]
      /\ DOMAIN rest = 1..Len(rest) /\ DOMAIN outgoing = 1..n
  BY <1>1, RestOfStream DEF Positions
<1>5. outgoing' = rest
  BY <1>2, <1>3
<1> HIDE DEF rest, n
<1> SUFFICES ASSUME NEW i \in 1..Len(rest), NoLFFrom(rest, i)
             PROVE  stage[rest[i]] = "written"
  BY <1>1, <1>4, <1>5 DEF OpenLines, NoLFFrom
<1>6. i + p - 1 \in 1..n /\ rest[i] = outgoing[i + p - 1] /\ Len(rest) = n - p + 1
  BY <1>4
<1>7. ASSUME NEW j \in (i + p - 1)..n PROVE outgoing[j] # LF
  <2>1. j - p + 1 \in i..Len(rest) /\ j - p + 1 \in 1..Len(rest) /\ (j - p + 1) + p - 1 = j
    BY <1>4, <1>6
  <2>2. rest[j - p + 1] = outgoing[j]
    BY <1>4, <2>1
  <2> QED
    BY <2>1, <2>2 DEF NoLFFrom
<1> QED
  BY <1>1, <1>4, <1>6, <1>7 DEF OpenLines, n

\* A request on a line that has no line feed yet is one whose send has not returned, for
\* any number of callers and however their writes mix: what is glued to a request was sent
\* at the same time.
THEOREM OpenLinesHolds == Spec => []OpenLines
<1>1. Init => OpenLines
  BY DEF Init, OpenLines
<1>2. TypeOK /\ OpenLines /\ [Next]_vars => OpenLines'
  <2> SUFFICES ASSUME TypeOK, OpenLines, [Next]_vars PROVE OpenLines'
    OBVIOUS
  <2>1. ASSUME NEW c \in Calls, CallerStep(c) PROVE OpenLines'
    <3>1. ASSUME Receive(c) \/ CloseChannel(c) PROVE OpenLines'
      BY <3>1, SameLines DEF Receive, CloseChannel, callVars, netVars
    <3> QED
      BY <2>1, <3>1, RegisterLines, SendBodyLines, SendLFLines DEF CallerStep
  <2>2. ASSUME LoopStep PROVE OpenLines'
    <3>1. UNCHANGED <<stage, outgoing, connected>>
      BY <2>2 DEF LoopStep, Poll, ReadHeader, CallOK, CallOKPanics, CallError, CallbackRan,
                  callVars, netVars
    <3> QED
      BY <3>1, SameLines
  <2>3. ASSUME ServerStep PROVE OpenLines'
    <3>1. ASSUME (\E a \in Request : ServerReply(a)) \/ ServerNotice PROVE OpenLines'
      BY <3>1, SameLines DEF ServerReply, ServerNotice, callVars
    <3> QED
      BY <2>3, <3>1, ServerReadLines DEF ServerStep
  <2>4. ASSUME Disconnect \/ ShutDown \/ UNCHANGED vars PROVE OpenLines'
    BY <2>4, SameLines DEF Disconnect, ShutDown, vars, callVars, netVars
  <2> QED
    BY <2>1, <2>2, <2>3, <2>4 DEF Next
<1> QED
  BY <1>1, <1>2, TypeCorrect, PTL DEF Spec

-----------------------------------------------------------------------------
(* Callers that take turns. *)

\* The server gets every request on a line of its own.
WholeRequests == \A a \in accepted : a.whole

OneSender == \A c, d \in Sending : c = d

Writing == \E c \in Calls : stage[c] = "written"

\* Bodies and line feeds take turns in the stream to the server, which starts with a body
\* and ends with one exactly while a caller is between its two writes.
Turns ==
  connected =>
    /\ \A i \in 1..(Len(outgoing) - 1) : outgoing[i] = LF <=> outgoing[i + 1] # LF
    /\ IF outgoing = <<>> THEN ~Writing
       ELSE outgoing[1] # LF /\ (outgoing[Len(outgoing)] = LF <=> ~Writing)

LInv == TypeOK /\ OneSender /\ Turns /\ WholeRequests

\* Only a caller that finds nobody in an async* method enters one.
LEMMA RegisterTurns ==
  ASSUME LInv, Goroutines <= 1, NEW c \in Calls, Register(c)
  PROVE  OneSender' /\ Turns' /\ WholeRequests'
<1>1. /\ stage[c] = "new" /\ stage' = [stage EXCEPT ![c] = "registered"]
      /\ Cardinality(Sending) < Goroutines
      /\ UNCHANGED <<outgoing, accepted, connected>>
      /\ stage \in [Calls -> Stages]
  BY DEF LInv, TypeOK, Register, netVars
<1>2. Sending = {}
  <2> SUFFICES ASSUME NEW d \in Sending PROVE FALSE
    OBVIOUS
  <2>1. Sending = {d}
    BY DEF LInv, OneSender
  <2>2. Cardinality(Sending) = 1
    BY <2>1, FS_Singleton
  <2> QED
    BY <1>1, <2>2, KomClientAssumption
<1>3. Sending' = {c}
  BY <1>1, <1>2 DEF Sending
<1>4. Writing' <=> Writing
  BY <1>1, <1>3 DEF Writing, Sending
<1> QED
  BY <1>1, <1>3, <1>4 DEF LInv, OneSender, Turns, WholeRequests

\* One more write behind the last one.
LEMMA WriteTurns ==
  ASSUME TypeOK, Turns, NEW w \in Calls \cup {LF}, connected, connected' = connected,
         outgoing' = Append(outgoing, w),
         w = LF <=> Writing,
         w = LF <=> ~Writing'
  PROVE  Turns'
<1> DEFINE n == Len(outgoing)
           more == Append(outgoing, w)
<1>1. outgoing \in Seq(Calls \cup {LF}) /\ n \in Nat /\ (outgoing = <<>> <=> n = 0)
  BY DEF TypeOK
<1>2. /\ Len(more) = n + 1 /\ more[n + 1] = w
      /\ \A i \in 1..n : more[i] = outgoing[i]
  BY <1>1, AppendProperties
<1>3. /\ \A i \in 1..(n - 1) : outgoing[i] = LF <=> outgoing[i + 1] # LF
      /\ n = 0 => ~Writing
      /\ n # 0 => outgoing[1] # LF /\ (outgoing[n] = LF <=> ~Writing)
  BY <1>1 DEF Turns
<1>4. outgoing' = more
  OBVIOUS
<1> HIDE DEF n, more
<1>5. more[1] # LF
  <2>1. CASE n = 0
    BY <1>1, <1>2, <1>3, <2>1
  <2>2. CASE n # 0
    BY <1>1, <1>2, <1>3, <2>2
  <2> QED
    BY <2>1, <2>2
<1>6. ASSUME NEW i \in 1..(Len(more) - 1)
      PROVE  more[i] = LF <=> more[i + 1] # LF
  <2>1. i \in 1..n
    BY <1>1, <1>2
  <2>2. CASE i = n
    BY <1>1, <1>2, <1>3, <2>1, <2>2
  <2>3. CASE i # n
    <3>1. i \in 1..(n - 1) /\ i + 1 \in 1..n
      BY <1>1, <2>1, <2>3
    <3> QED
      BY <1>2, <1>3, <2>1, <3>1
  <2> QED
    BY <2>2, <2>3
<1>7. Len(more) # 0 /\ more[Len(more)] = w
  BY <1>1, <1>2
<1> QED
  BY <1>4, <1>5, <1>6, <1>7 DEF Turns

\* A caller's two writes, of which the second one ends its line.
LEMMA SendTurns ==
  ASSUME LInv, NEW c \in Calls, SendBody(c) \/ SendLF(c)
  PROVE  OneSender' /\ Turns' /\ WholeRequests'
<1>1. /\ UNCHANGED <<accepted, connected>>
      /\ stage \in [Calls -> Stages] /\ stage[c] \in {"registered", "written"}
      /\ \A d \in Calls : d # c => stage'[d] = stage[d]
  BY DEF LInv, TypeOK, SendBody, SendLF
<1>2. c \in Sending /\ Sending' \subseteq Sending
  BY <1>1 DEF Sending
<1>3. \A d \in Calls : stage[d] = "written" => d = c
  BY <1>2 DEF LInv, OneSender, Sending
<1>4. ASSUME connected PROVE Turns'
  <2>1. CASE SendBody(c)
    <3>1. outgoing' = Append(outgoing, c) /\ stage' = [stage EXCEPT ![c] = "written"]
      BY <1>4, <2>1 DEF SendBody, Write
    <3>2. ~Writing /\ Writing'
      BY <1>1, <1>3, <2>1, <3>1 DEF SendBody, Writing
    <3>3. c # LF
      BY KomClientAssumption
    <3> QED
      BY <1>1, <1>4, <3>1, <3>2, <3>3, WriteTurns DEF LInv
  <2>2. CASE SendLF(c)
    <3>1. outgoing' = Append(outgoing, LF) /\ stage' = [stage EXCEPT ![c] = "sent"]
      BY <1>4, <2>2 DEF SendLF, Write
    <3>2. Writing /\ ~Writing'
      BY <1>1, <1>3, <2>2, <3>1 DEF SendLF, Writing
    <3> QED
      BY <1>1, <1>4, <3>1, <3>2, WriteTurns DEF LInv
  <2> QED
    BY <2>1, <2>2
<1>5. ~connected => Turns'
  BY <1>1 DEF Turns
<1> QED
  BY <1>1, <1>2, <1>4, <1>5 DEF LInv, OneSender, WholeRequests

\* The first line of the stream to the server is one body and its line feed.
LEMMA ServerReadTurns ==
  ASSUME LInv, ServerRead
  PROVE  OneSender' /\ Turns' /\ WholeRequests'
<1> DEFINE n == Len(outgoing)
<1>1. /\ UNCHANGED <<stage, connected>> /\ connected
      /\ outgoing \in Seq(Calls \cup {LF}) /\ n \in Nat
  BY DEF LInv, TypeOK, ServerRead, callVars
<1>2. PICK i \in LineFeeds :
        /\ \A j \in LineFeeds : i <= j
        /\ outgoing' = Rest(outgoing, i + 1)
        /\ accepted' = IF i = 1 THEN accepted
                       ELSE accepted \cup {[call |-> outgoing[1], whole |-> i = 2]}
  BY DEF ServerRead
<1>3. i \in 1..n /\ outgoing[i] = LF
  BY <1>1, <1>2 DEF LineFeeds
<1>4. /\ \A j \in 1..(n - 1) : outgoing[j] = LF <=> outgoing[j + 1] # LF
      /\ outgoing[1] # LF /\ (outgoing[n] = LF <=> ~Writing)
  BY <1>1, <1>3 DEF LInv, Turns
<1> HIDE DEF n
<1>5. i = 2
  <2>1. n >= 2 /\ 1 \in 1..(n - 1) /\ 2 \in 1..n /\ i # 1
    BY <1>1, <1>3, <1>4
  <2>2. 2 \in LineFeeds
    BY <1>1, <1>4, <2>1 DEF LineFeeds, n
  <2>3. i <= 2
    BY <1>2, <2>2
  <2> QED
    BY <1>3, <2>1, <2>3
<1>6. WholeRequests'
  <2>1. i # 1 /\ (i = 2) = TRUE
    BY <1>5
  <2>2. accepted' = accepted \cup {[call |-> outgoing[1], whole |-> TRUE]}
    BY <1>2, <2>1, Zenon
  <2>3. [call |-> outgoing[1], whole |-> TRUE].whole
    BY Zenon
  <2> QED
    BY <2>2, <2>3, Zenon DEF LInv, WholeRequests
<1> DEFINE rest == Rest(outgoing, 3)
<1>7. /\ Len(rest) = n - 2 /\ n - 2 \in Nat
      /\ \A j \in 1..(n - 2) : rest[j] = outgoing[j + 2]
      /\ (rest = <<>> <=> n = 2)
  <2>1. 3 \in Positions /\ outgoing \in Seq(Calls \cup {LF}) /\ n >= 2
    BY <1>1, <1>3, <1>5 DEF Positions
  <2>2. /\ rest \in Seq(Calls \cup {LF})
        /\ Len(rest) = IF 3 <= Len(outgoing) THEN Len(outgoing) - 3 + 1 ELSE 0
        /\ \A j \in 1..Len(rest) :
             /\ j + 3 - 1 \in 1..Len(outgoing)
             /\ rest[j] = outgoing[j + 3 - 1]
    BY <2>1, RestOfStream
  <2> HIDE DEF rest
  <2>3. Len(rest) = n - 2 /\ n - 2 \in Nat
    <3>1. Len(rest) = IF 3 <= n THEN n - 3 + 1 ELSE 0
      BY <2>2 DEF n
    <3>2. n \in Nat /\ n >= 2
      BY <1>1, <2>1
    <3> QED
      BY <3>1, <3>2
  <2>4. \A j \in 1..(n - 2) : rest[j] = outgoing[j + 2]
    <3>1. \A j \in 1..(n - 2) : j + 3 - 1 = j + 2
      BY <1>1, <2>3
    <3> QED
      BY <2>2, <2>3, <3>1
  <2>5. rest = <<>> <=> n = 2
    BY <1>1, <2>1, <2>2, <2>3
  <2> QED
    BY <2>3, <2>4, <2>5
<1>8. outgoing' = rest
  BY <1>2, <1>5
<1> HIDE DEF rest
<1>9. Writing' <=> Writing
  BY <1>1 DEF Writing
<1>10. ASSUME rest # <<>>
       PROVE  rest[1] # LF /\ (rest[Len(rest)] = LF <=> ~Writing)
  <2>1. /\ n - 2 \in 1..(n - 2) /\ 1 \in 1..(n - 2) /\ 2 \in 1..(n - 1)
        /\ (n - 2) + 2 = n /\ 1 + 2 = 3 /\ 2 + 1 = 3
    BY <1>1, <1>7, <1>10
  <2>2. rest[1] = outgoing[3] /\ rest[n - 2] = outgoing[n]
    BY <1>7, <2>1
  <2>3. outgoing[3] # LF
    BY <1>3, <1>4, <1>5, <2>1
  <2> QED
    BY <1>4, <1>7, <2>2, <2>3
<1>11. ASSUME NEW j \in 1..(Len(rest) - 1)
       PROVE  rest[j] = LF <=> rest[j + 1] # LF
  <2>1. /\ j \in 1..(n - 2) /\ j + 1 \in 1..(n - 2) /\ j + 2 \in 1..(n - 1)
        /\ (j + 1) + 2 = (j + 2) + 1
    BY <1>1, <1>7
  <2>2. rest[j] = outgoing[j + 2] /\ rest[j + 1] = outgoing[(j + 2) + 1]
    BY <1>7, <2>1
  <2> QED
    BY <1>4, <2>1, <2>2
<1>12. ASSUME rest = <<>> PROVE ~Writing
  BY <1>3, <1>4, <1>5, <1>7, <1>12
<1>13. Turns'
  BY <1>8, <1>9, <1>10, <1>11, <1>12 DEF Turns
<1> QED
  BY <1>1, <1>6, <1>13 DEF LInv, OneSender, Sending

\* Every other step leaves the requests as they are, or takes one that is answered.
LEMMA QuietTurns ==
  ASSUME LInv,
         \/ \E c \in Calls : Receive(c) \/ CloseChannel(c)
         \/ LoopStep \/ (\E a \in Request : ServerReply(a)) \/ ServerNotice
         \/ Disconnect \/ ShutDown \/ UNCHANGED vars
  PROVE  OneSender' /\ Turns' /\ WholeRequests'
<1>1. /\ UNCHANGED <<stage, outgoing>> /\ accepted' \subseteq accepted
      /\ connected' => connected
  <2>1. ASSUME NEW c \in Calls, Receive(c) \/ CloseChannel(c)
        PROVE  UNCHANGED <<stage, outgoing, accepted, connected>>
    BY <2>1 DEF Receive, CloseChannel, callVars, netVars
  <2>2. ASSUME LoopStep
        PROVE  UNCHANGED <<stage, outgoing, accepted, connected>>
    BY <2>2 DEF LoopStep, Poll, ReadHeader, CallOK, CallOKPanics, CallError, CallbackRan,
                callVars, netVars
  <2>3. ASSUME NEW a \in Request, ServerReply(a)
        PROVE  UNCHANGED <<stage, outgoing, connected>> /\ accepted' \subseteq accepted
    BY <2>3 DEF ServerReply, callVars
  <2>4. ASSUME ServerNotice \/ Disconnect \/ ShutDown \/ UNCHANGED vars
        PROVE  UNCHANGED <<stage, outgoing, accepted>> /\ (connected' => connected)
    BY <2>4 DEF ServerNotice, Disconnect, ShutDown, vars, callVars, netVars
  <2> QED
    BY <2>1, <2>2, <2>3, <2>4
<1> QED
  BY <1>1 DEF LInv, OneSender, Sending, Turns, Writing, WholeRequests

\* Callers that take turns, so that one at most is inside an async* method, send whole
\* requests.
LEMMA WholeRequestsHolds ==
  ASSUME Goroutines <= 1
  PROVE  Spec => []WholeRequests
<1>1. Init => LInv
  BY InitType DEF Init, LInv, OneSender, Sending, Turns, Writing, WholeRequests
<1>2. LInv /\ [Next]_vars => LInv'
  <2> SUFFICES ASSUME LInv, [Next]_vars PROVE LInv'
    OBVIOUS
  <2>1. TypeOK'
    BY NextType DEF LInv
  <2>2. ASSUME NEW c \in Calls, CallerStep(c)
        PROVE  OneSender' /\ Turns' /\ WholeRequests'
    BY <2>2, RegisterTurns, SendTurns, QuietTurns DEF CallerStep
  <2>3. OneSender' /\ Turns' /\ WholeRequests'
    BY <2>2, ServerReadTurns, QuietTurns DEF Next, ServerStep
  <2> QED
    BY <2>1, <2>3 DEF LInv
<1>3. LInv => WholeRequests
  BY DEF LInv
<1> QED
  BY <1>1, <1>2, <1>3, PTL DEF Spec

-----------------------------------------------------------------------------
(***************************************************************************)
(* Replies in the stream.  A callback is exact for a kind of answer when   *)
(* it reads such a reply to the end of its line.  Over TCP that is said of *)
(* some successes and of no error; with a reader that takes a rune back,   *)
(* of all errors but that of get-time.                                     *)
(***************************************************************************)
Exact(k, sign) ==
  \/ sign = Success /\ k \in ExactKinds
  \/ sign = Failure /\ Rewinds /\ k # "time"

\* Whatever the server answers in such a setting is read exactly: it sends no messages of
\* its own, whose parameters receiveLoop would leave, and where callers may mix their
\* requests, the errors that follow are read exactly too.
ExactSetting ==
  /\ \A k \in KindsUsed, s \in ReplySigns : Exact(k, s)
  /\ Goroutines <= 1 \/ \A k \in KindsUsed : Exact(k, Failure)
  /\ MaxNotices = 0

ExactCalls == \A c \in Calls : Answered(c) => Exact(kind[c], verdict[c])

\* Position n is where the stream ends or the next line starts.
EndsLine(n) == n = Len(incoming) + 1 \/ IsAnswer(n)

\* Behind each answer, and behind what the callback that is dispatched is to read, the
\* stream ends or the next answer starts.
Chained ==
  /\ \A i \in DOMAIN incoming : IsAnswer(i) => EndsLine(i + Len(ReplyOf(incoming[i].v)))
  /\ EndsLine(IF loop = "dispatch" THEN Len(Remainder(kind[head.call], head.sign)) + 1 ELSE 1)

Dispatching(c) == loop = "dispatch" /\ head.call = c

\* A callback that waits is in the map.
InMap == \A c \in Calls : Open(c) /\ ~Dispatching(c) => asyncMap[reqID[c]] = c

Coming(c) == \E i \in DOMAIN incoming : IsAnswer(i) /\ incoming[i].v = c

\* An answer that was sent is in the stream until it is dispatched.
Waits == \A c \in Calls : Answered(c) /\ Open(c) => Coming(c) \/ Dispatching(c)

\* One goroutine at most uses a channel, and none once it is closed.
OneUser ==
  \A c \in Calls :
    /\ chan[c].senders + chan[c].closers <= 1
    /\ chan[c].closed => chan[c].senders = 0 /\ chan[c].closers = 0

Aligned == ExactCalls /\ Chained /\ InMap /\ Waits /\ OneUser /\ Alive

\* A fresh connection is in step.
LEMMA InitAligned == Init => Aligned
<1> SUFFICES ASSUME Init PROVE Aligned
  OBVIOUS
<1>1. /\ incoming = <<>> /\ loop = "top"
      /\ \A c \in Calls : /\ stage[c] = "new" /\ verdict[c] = "none"
                          /\ chan[c] = NoChannel
  BY DEF Init
<1>2. ExactCalls /\ InMap /\ Waits
  BY <1>1 DEF ExactCalls, InMap, Waits, Answered, Open
<1>3. Chained
  <2>1. DOMAIN incoming = {} /\ 1 = Len(incoming) + 1
    BY <1>1
  <2> QED
    BY <1>1, <2>1 DEF Chained, EndsLine
<1>4. OneUser
  BY <1>1 DEF OneUser, NoChannel
<1> QED
  BY <1>1, <1>2, <1>3, <1>4 DEF Aligned, Alive

\* A step that leaves the stream, the answers and the waiting calls as they are.
LEMMA QuietAligned ==
  ASSUME Aligned,
         UNCHANGED <<verdict, kind, reqID, incoming, head, asyncMap>>,
         \A c \in Calls : Open(c) <=> (Open(c))',
         loop' = "dispatch" <=> loop = "dispatch"
  PROVE  ExactCalls' /\ Chained' /\ InMap' /\ Waits'
<1>1. ExactCalls'
  BY DEF Aligned, ExactCalls, Answered
<1>2. Chained'
  BY DEF Aligned, Chained, EndsLine, IsAnswer, ReplyOf
<1>3. InMap'
  BY DEF Aligned, InMap, Dispatching
<1>4. Waits'
  BY DEF Aligned, Waits, Answered, Coming, IsAnswer, Dispatching
<1> QED
  BY <1>1, <1>2, <1>3, <1>4

\* The writes of a request, a poll, the server's reading and a shutdown are such steps, and
\* touch no channel.
LEMMA QuietAlignedSteps ==
  ASSUME IInv, Aligned,
         \/ \E c \in Calls : SendBody(c) \/ SendLF(c)
         \/ Poll \/ ServerRead \/ ShutDown \/ UNCHANGED vars
  PROVE  Aligned'
<1>1. /\ UNCHANGED <<verdict, kind, reqID, incoming, head, asyncMap, chan, ran>>
      /\ loop' = "dispatch" <=> loop = "dispatch"
      /\ loop' # "panicked"
  BY DEF SendBody, SendLF, Poll, ServerRead, ShutDown, Aligned, Alive,
         vars, mapVars, callVars, netVars, loopVars, chanVars
<1>2. \A c \in Calls : stage[c] = "new" <=> stage'[c] = "new"
  BY DEF SendBody, SendLF, Poll, ServerRead, ShutDown, IInv, TypeOK, vars, callVars
<1>3. \A c \in Calls : Open(c) <=> (Open(c))'
  BY <1>1, <1>2 DEF Open
<1>4. OneUser'
  BY <1>1 DEF Aligned, OneUser
<1> QED
  BY <1>1, <1>3, <1>4, QuietAligned DEF Aligned, Alive

\* A response that is taken and a close leave one goroutine at most at the channel.
LEMMA ChannelAligned ==
  ASSUME IInv, Aligned, NEW c \in Calls, Receive(c) \/ CloseChannel(c)
  PROVE  Aligned'
<1>1. /\ UNCHANGED <<verdict, kind, reqID, incoming, head, asyncMap, ran, stage>>
      /\ chan \in [Calls -> Channel]
  BY DEF Receive, CloseChannel, callVars, netVars, mapVars, loopVars, IInv, TypeOK
<1>2. /\ chan[c].senders \in Nat /\ chan[c].closers \in Nat /\ chan[c].closed \in BOOLEAN
      /\ chan[c].senders + chan[c].closers <= 1
      /\ chan[c].closed => chan[c].senders = 0 /\ chan[c].closers = 0
  BY <1>1 DEF Aligned, OneUser, Channel
<1>3. \A d \in Calls : d # c => chan'[d] = chan[d]
  BY <1>1 DEF Receive, CloseChannel
<1>4. CASE Receive(c)
  <2>1. chan[c].senders = 1 /\ chan[c].closers = 0 /\ chan[c].closed = FALSE
    BY <1>2, <1>4 DEF Receive
  <2>2. /\ chan'[c].senders = chan[c].senders - 1
        /\ chan'[c].closers = chan[c].closers \/ chan'[c].closers = chan[c].closers + 1
        /\ chan'[c].closed = chan[c].closed
    BY <1>1, <1>4 DEF Receive, Channel
  <2>3. OneUser'
    BY <1>3, <2>1, <2>2 DEF Aligned, OneUser
  <2>4. loop' = loop
    BY <1>4 DEF Receive, loopVars
  <2> QED
    BY <1>1, <2>3, <2>4, QuietAligned DEF Aligned, Alive, Open
<1>5. CASE CloseChannel(c)
  <2>1. chan[c].senders = 0 /\ chan[c].closers = 1 /\ chan[c].closed = FALSE
    BY <1>2, <1>5 DEF CloseChannel
  <2>2. /\ chan'[c].senders = chan[c].senders
        /\ chan'[c].closers = chan[c].closers - 1
    BY <1>1, <1>5 DEF CloseChannel, Channel
  <2>3. OneUser'
    BY <1>3, <2>1, <2>2 DEF Aligned, OneUser
  <2>4. loop' = loop
    BY <1>5, <2>1 DEF CloseChannel
  <2> QED
    BY <1>1, <2>3, <2>4, QuietAligned DEF Aligned, Alive, Open
<1> QED
  BY <1>4, <1>5

\* A call that is registered waits in the map, and takes the place of no waiting call.
LEMMA RegisterAligned ==
  ASSUME IInv, Aligned, NEW c \in Calls, IdIsFree, Register(c)
  PROVE  Aligned'
<1>1. /\ stage[c] = "new" /\ UNCHANGED <<incoming, verdict, loop, head, chan, ran>>
      /\ \A d \in Calls : d # c =>
           reqID'[d] = reqID[d] /\ kind'[d] = kind[d] /\ stage'[d] = stage[d]
      /\ reqID'[c] = nextRequest /\ asyncMap' = [asyncMap EXCEPT ![nextRequest] = c]
      /\ nextRequest \in Ids /\ asyncMap \in [Ids -> Calls \cup {NoCall}]
      /\ reqID \in [Calls -> Ids]
  BY DEF IInv, TypeOK, Register, RegisterCallback, netVars, loopVars, chanVars
<1>2. ~Open(c) /\ ~Answered(c)
  BY <1>1 DEF Open, Answered, IInv, Correlation, Known
<1>3. \A d \in Calls : d # c => ((Open(d))' <=> Open(d)) /\ ((Answered(d))' <=> Answered(d))
  BY <1>1 DEF Open, Answered
<1>4. loop = "dispatch" => head.call \in Calls /\ head.call # c
  BY <1>2, DispatchedCall
<1>5. ExactCalls'
  BY <1>1, <1>2 DEF Aligned, ExactCalls, Answered
<1>6. Chained'
  <2>1. \A i \in DOMAIN incoming : IsAnswer(i) =>
          (ReplyOf(incoming[i].v))' = ReplyOf(incoming[i].v)
    BY <1>1, <1>2, AnswerCall DEF ReplyOf
  <2>2. loop = "dispatch" => kind'[head.call] = kind[head.call]
    BY <1>1, <1>4
  <2> QED
    BY <1>1, <2>1, <2>2 DEF Aligned, Chained, EndsLine, IsAnswer
<1>7. InMap'
  <2> SUFFICES ASSUME NEW d \in Calls, (Open(d))', ~(Dispatching(d))'
               PROVE  asyncMap'[reqID'[d]] = d
    BY DEF InMap
  <2>1. CASE d = c
    BY <1>1, <2>1
  <2>2. CASE d # c
    <3>1. Open(d) /\ ~Dispatching(d)
      BY <1>1, <1>3, <2>2 DEF Dispatching
    <3>2. asyncMap[reqID[d]] = d /\ reqID[d] # nextRequest /\ reqID[d] \in Ids
      BY <1>1, <3>1 DEF Aligned, InMap, IdIsFree
    <3> QED
      BY <1>1, <2>2, <3>2
  <2> QED
    BY <2>1, <2>2
<1>8. Waits'
  BY <1>1, <1>2, <1>3 DEF Aligned, Waits, Answered, Coming, IsAnswer, Dispatching
<1>9. OneUser' /\ Alive'
  BY <1>1 DEF Aligned, OneUser, Alive
<1> QED
  BY <1>5, <1>6, <1>7, <1>8, <1>9 DEF Aligned

\* What is the end of a line stays one when the stream before it is read.
LEMMA RestEndsLine ==
  ASSUME TypeOK, NEW p \in Positions, p <= Len(incoming) + 1, incoming' = Rest(incoming, p),
         NEW n \in Positions, EndsLine(n + p - 1)
  PROVE  (EndsLine(n))'
<1>1. incoming \in Seq(Token) /\ Len(incoming) \in Nat
  BY DEF TypeOK
<1>2. /\ incoming' \in Seq(Token)
      /\ Len(incoming') = IF p <= Len(incoming) THEN Len(incoming) - p + 1 ELSE 0
      /\ \A i \in 1..Len(incoming') :
           /\ i + p - 1 \in 1..Len(incoming)
           /\ incoming'[i] = incoming[i + p - 1]
  BY <1>1, RestOfStream
<1>3. Len(incoming') = Len(incoming) - p + 1
  <2>1. p \in Nat
    BY DEF Positions
  <2> QED
    BY <1>1, <1>2, <2>1
<1>4. CASE n + p - 1 = Len(incoming) + 1
  <2>1. n = Len(incoming') + 1
    BY <1>1, <1>3, <1>4 DEF Positions
  <2> QED
    BY <2>1 DEF EndsLine
<1>5. CASE IsAnswer(n + p - 1)
  <2>1. n + p - 1 \in 1..Len(incoming) /\ incoming[n + p - 1].t \in AnswerSigns
    BY <1>1, <1>5 DEF IsAnswer
  <2>2. n \in 1..Len(incoming')
    BY <1>1, <1>3, <2>1 DEF Positions
  <2>3. n \in DOMAIN incoming' /\ incoming'[n].t \in AnswerSigns
    BY <1>2, <2>1, <2>2
  <2> QED
    BY <2>3 DEF EndsLine, IsAnswer
<1> QED
  BY <1>4, <1>5 DEF EndsLine

\* The answers that are left have a line each, as they had.
LEMMA RestChained ==
  ASSUME IInv, Chained, NEW p \in Positions, p <= Len(incoming) + 1,
         incoming' = Rest(incoming, p), UNCHANGED <<verdict, reqID, kind, connected>>
  PROVE  \A i \in DOMAIN incoming' :
           (IsAnswer(i))' => (EndsLine(i + Len(ReplyOf(incoming[i].v))))'
<1> SUFFICES ASSUME NEW i \in DOMAIN incoming', (IsAnswer(i))'
             PROVE  (EndsLine(i + Len(ReplyOf(incoming[i].v))))'
  OBVIOUS
<1>1. /\ i \in Positions
      /\ i + p - 1 \in DOMAIN incoming
      /\ IsAnswer(i + p - 1)
      /\ incoming'[i] = incoming[i + p - 1]
  BY RestOfAnswers
<1>2. PICK n \in Nat : n = Len(ReplyOf(incoming[i + p - 1].v))
  BY <1>1, AnswerCall
<1>3. (Len(ReplyOf(incoming[i].v)))' = n
  BY <1>1, <1>2 DEF ReplyOf
<1>4. EndsLine((i + p - 1) + n)
  BY <1>1, <1>2 DEF Chained
<1>5. (i + p - 1) + n = (i + n) + p - 1 /\ i + n \in Positions
  BY <1>1 DEF Positions
<1>6. (EndsLine(i + n))'
  BY <1>4, <1>5, RestEndsLine DEF IInv
<1> QED
  BY <1>3, <1>6 DEF EndsLine, IsAnswer

\* An answer that is in the stream stays in it when nothing but other bytes are read.
LEMMA RestComing ==
  ASSUME TypeOK, NEW p \in Positions, p <= Len(incoming) + 1, incoming' = Rest(incoming, p),
         NEW c, Coming(c),
         \A i \in 1..(p - 1) : IsAnswer(i) => incoming[i].v # c
  PROVE  (Coming(c))'
<1>1. PICK i \in DOMAIN incoming : IsAnswer(i) /\ incoming[i].v = c
  BY DEF Coming
<1>2. incoming \in Seq(Token) /\ Len(incoming) \in Nat /\ i \in 1..Len(incoming)
  BY DEF TypeOK
<1>3. /\ incoming' \in Seq(Token)
      /\ Len(incoming') = IF p <= Len(incoming) THEN Len(incoming) - p + 1 ELSE 0
      /\ \A j \in 1..Len(incoming') :
           /\ j + p - 1 \in 1..Len(incoming)
           /\ incoming'[j] = incoming[j + p - 1]
  BY <1>2, RestOfStream
<1>4. p <= i /\ p \in Nat
  BY <1>1, <1>2 DEF Positions
<1>5. i - p + 1 \in 1..Len(incoming') /\ (i - p + 1) + p - 1 = i
  BY <1>2, <1>3, <1>4 DEF Positions
<1>6. i - p + 1 \in DOMAIN incoming' /\ incoming'[i - p + 1] = incoming[i]
  BY <1>3, <1>5
<1> QED
  BY <1>1, <1>6 DEF Coming, IsAnswer

\* On a living connection that is in step the next byte is the sign of an answer, whose
\* callback is in the map under the number behind it.
LEMMA NextAnswer ==
  ASSUME IInv, Stream, Aligned, connected, ReadHeader, NEW c, c = incoming[1].v
  PROVE  /\ IsAnswer(1) /\ Open(c) /\ c \in Calls
         /\ ReadUInt(incoming, 2) = reqID[c] /\ reqID[c] \in Ids
         /\ loop' = "dispatch" /\ head'.sign = verdict[c] /\ head'.call = c
<1>1. loop = "reading" /\ HeaderReady /\ incoming \in Seq(Token)
  BY DEF ReadHeader, IInv, TypeOK
<1>2. Len(incoming) >= 2
  BY <1>1 DEF HeaderReady, Stops
<1>3. IsAnswer(1)
  BY <1>1, <1>2 DEF Aligned, Chained, EndsLine
<1>4. 1 \in DOMAIN incoming
  BY <1>1, <1>2
<1>5. /\ c \in Calls /\ ReadUInt(incoming, 2) = reqID[c]
  BY <1>3, WholeHeader
<1>6. Open(c) /\ incoming[1].t = verdict[c]
  BY <1>3, <1>4 DEF IInv, Correlation, Answers, Stream, Signs
<1>7. reqID[c] \in Ids /\ asyncMap[reqID[c]] = c
  BY <1>1, <1>5, <1>6 DEF IInv, TypeOK, Aligned, InMap, Dispatching
<1>8. Lookup(ReadUInt(incoming, 2)) = c /\ c # NoCall
  BY <1>5, <1>7, KomClientAssumption DEF Lookup
<1>9. incoming # <<>> /\ incoming[1].t \in AnswerSigns
  BY <1>1, <1>2, <1>3 DEF IsAnswer
<1>10. loop' = "dispatch"
       /\ head' = [sign |-> incoming[1].t, answers |-> incoming[1].v, call |-> c]
  BY <1>8, <1>9 DEF ReadHeader
<1> QED
  BY <1>3, <1>5, <1>6, <1>7, <1>10

\* The header of an answer takes its callback out of the map and leaves its data next.
LEMMA ReadHeaderAligned ==
  ASSUME IInv, Stream, Aligned, connected, ReadHeader
  PROVE  Aligned'
<1>1. PICK c : c = incoming[1].v
  OBVIOUS
<1>2. /\ IsAnswer(1) /\ Open(c) /\ c \in Calls
      /\ ReadUInt(incoming, 2) = reqID[c] /\ reqID[c] \in Ids
      /\ loop' = "dispatch" /\ head'.sign = verdict[c] /\ head'.call = c
  BY <1>1, NextAnswer
<1>3. /\ AfterUInts(incoming, 2, 1) = 4 /\ 4 <= Len(incoming) + 1
      /\ incoming[2].t \notin AnswerSigns /\ incoming[3].t \notin AnswerSigns
      /\ Remainder(kind[c], verdict[c]) \in Seq(Plain)
      /\ Len(ReplyOf(c)) = Len(Remainder(kind[c], verdict[c])) + 3
  BY <1>1, <1>2, WholeHeader
<1>4. /\ UNCHANGED <<verdict, reqID, kind, connected, stage, ran, chan>>
      /\ incoming' = Rest(incoming, 4) /\ loop = "reading"
      /\ asyncMap' = [i \in Ids |-> IF i = reqID[c] THEN NoCall ELSE asyncMap[i]]
  BY <1>2, <1>3 DEF ReadHeader, GetCallback, callVars, netVars, chanVars
<1>5. \A d \in Calls : ((Open(d))' <=> Open(d)) /\ ((Answered(d))' <=> Answered(d))
  BY <1>4 DEF Open, Answered
<1>6. ExactCalls'
  BY <1>4 DEF Aligned, ExactCalls, Answered
<1>7. Chained'
  <2>1. PICK n \in Nat : n = Len(Remainder(kind[c], verdict[c]))
    BY <1>3
  <2>2. EndsLine(1 + (n + 3))
    BY <1>1, <1>2, <1>3, <2>1 DEF Aligned, Chained, IsAnswer
  <2>3. 1 + (n + 3) = (n + 1) + 4 - 1 /\ n + 1 \in Positions /\ 4 \in Positions
    BY DEF Positions
  <2>4. (Len(Remainder(kind[head.call], head.sign)))' = n
    BY <1>2, <1>4, <2>1
  <2>5. TypeOK /\ Chained /\ incoming' = Rest(incoming, 4) /\ 4 <= Len(incoming) + 1
        /\ UNCHANGED <<verdict, reqID, kind, connected>>
    BY <1>3, <1>4 DEF IInv, Aligned
  <2>6. (EndsLine(n + 1))'
    BY <2>2, <2>3, <2>5, RestEndsLine
  <2>7. \A i \in DOMAIN incoming' :
          (IsAnswer(i))' => (EndsLine(i + Len(ReplyOf(incoming[i].v))))'
    BY <2>3, <2>5, RestChained
  <2> QED
    BY <1>2, <2>4, <2>6, <2>7 DEF Chained, EndsLine
<1>8. InMap'
  <2> SUFFICES ASSUME NEW d \in Calls, Open(d), d # c
               PROVE  asyncMap'[reqID[d]] = d
    BY <1>2, <1>4, <1>5 DEF InMap, Dispatching
  <2>1. asyncMap[reqID[d]] = d /\ reqID[d] # reqID[c]
    BY <1>2, <1>4 DEF Aligned, InMap, Dispatching, IInv, Correlation, OpenIds
  <2>2. reqID[d] \in Ids
    BY DEF IInv, TypeOK
  <2> QED
    BY <1>4, <2>1, <2>2
<1>9. Waits'
  <2> SUFFICES ASSUME NEW d \in Calls, Answered(d), Open(d), d # c
               PROVE  (Coming(d))'
    BY <1>2, <1>4, <1>5 DEF Waits, Dispatching
  <2>1. Coming(d)
    BY <1>4 DEF Aligned, Waits, Dispatching
  <2>2. \A i \in 1..(4 - 1) : IsAnswer(i) => i = 1
    BY <1>3 DEF IsAnswer
  <2>3. \A i \in 1..(4 - 1) : IsAnswer(i) => incoming[i].v # d
    BY <1>1, <2>2
  <2> QED
    BY <1>3, <1>4, <2>1, <2>3, RestComing DEF IInv, Positions
<1>10. OneUser' /\ Alive'
  BY <1>2, <1>4 DEF Aligned, OneUser, Alive
<1> QED
  BY <1>6, <1>7, <1>8, <1>9, <1>10 DEF Aligned

\* An exact callback puts one response at most on its channel, and does not panic.
LEMMA ExactCallback ==
  ASSUME NEW k, NEW sign, NEW s, Exact(k, sign)
  PROVE  /\ Senders(k, sign, s) \in {0, 1}
         /\ sign = Success => ~OKPanics(k, s)
<1>1. sign = Success => k \in ExactKinds
  BY AnswerSignsAre DEF Exact
<1>2. k \in ExactKinds => k # "async" /\ k # "zconf"
  BY DEF ExactKinds
<1>3. ~(k = "async" /\ sign = "=" /\ FailsToRead(k, s))
  BY <1>1, <1>2 DEF Success
<1>4. CASE k = "time" /\ sign = "%"
  <2>1. Senders(k, sign, s) = 0
    BY <1>4, Zenon DEF Senders
  <2> QED
    BY <1>1, <1>2, <2>1 DEF OKPanics
<1>5. CASE ~(k = "time" /\ sign = "%")
  <2>1. Senders(k, sign, s) = 1
    BY <1>3, <1>5, Zenon DEF Senders
  <2> QED
    BY <1>1, <1>2, <2>1 DEF OKPanics
<1> QED
  BY <1>4, <1>5
\* An exact callback on a living connection reads the remainder of its reply, no more and
\* no less.
LEMMA ExactRead ==
  ASSUME IInv, Stream, Aligned, connected, CallOK \/ CallError, NEW c, c = head.call
  PROVE  /\ loop = "dispatch" /\ c \in Calls /\ Open(c)
         /\ Exact(kind[c], head.sign) /\ head.sign \in AnswerSigns
         /\ \E p \in Positions :
              /\ p = Len(Remainder(kind[c], head.sign)) + 1
              /\ p <= Len(incoming) + 1
              /\ \A i \in 1..(p - 1) : ~IsAnswer(i)
              /\ CallbackRan(c, p)
<1>1. loop = "dispatch"
  BY DEF CallOK, CallError
<1>2. /\ head.sign \in AnswerSigns /\ c \in Calls /\ kind[c] \in Kinds /\ Open(c)
      /\ c = head.answers /\ verdict[c] # "none"
  BY <1>1, DispatchedCall DEF CutHeader
<1>3. head.sign = verdict[c] /\ Begins(incoming, 1, Remainder(kind[c], head.sign))
  BY <1>1, <1>2 DEF Stream, Signs, WholeReplies
<1>4. Exact(kind[c], head.sign)
  BY <1>2, <1>3 DEF Aligned, ExactCalls, Answered
<1>5. PICK k \in Kinds, sign \in AnswerSigns : k = kind[c] /\ sign = head.sign
  BY <1>2
<1>6. Remainder(k, sign) \in Seq(Plain) /\ Exact(k, sign) /\ Begins(incoming, 1, Remainder(k, sign))
  <2>1. 0 \in Nat
    OBVIOUS
  <2>2. Remainder(k, sign) \in Seq(Plain)
    BY <1>2, <2>1, ReplyParts
  <2> QED
    BY <1>3, <1>4, <1>5, <2>2
<1>7. PICK n \in Nat : n = Len(Remainder(k, sign))
  BY <1>6
<1>8. incoming \in Seq(Token)
  BY DEF IInv, TypeOK
<1>9. \A i \in 1..n : i \in 1..Len(incoming) /\ ~IsAnswer(i)
  <2> SUFFICES ASSUME NEW i \in 1..n PROVE i \in 1..Len(incoming) /\ ~IsAnswer(i)
    OBVIOUS
  <2>1. 1 + i - 1 = i
    OBVIOUS
  <2>2. i \in 1..Len(incoming) /\ incoming[i] = Remainder(k, sign)[i]
    BY <1>6, <1>7, <2>1 DEF Begins
  <2>3. Remainder(k, sign)[i] \in Plain
    BY <1>6, <1>7
  <2> QED
    BY <2>2, <2>3 DEF Plain, IsAnswer
<1>10. n + 1 <= Len(incoming) + 1
  <2>1. Len(incoming) \in Nat
    BY <1>8
  <2>2. CASE n = 0
    BY <2>1, <2>2
  <2>3. CASE n # 0
    <3>1. n \in 1..n
      BY <2>3
    <3>2. n \in 1..Len(incoming)
      BY <1>9, <3>1
    <3> QED
      BY <2>1, <3>2
  <2> QED
    BY <2>2, <2>3
<1>11. ASSUME NEW p, p = n + 1 PROVE CallbackRan(c, p)
  <2>1. CASE CallOK
    <3>1. sign = Success /\ CallbackRan(c, OKEnd(k, incoming))
      BY <1>5, <2>1 DEF CallOK, Success
    <3>2. k \in Kinds \ {"person"} /\ k # "async" /\ k \in ExactKinds
      BY <1>6, <3>1, AnswerSignsAre DEF Exact, ExactKinds
    <3>3. Begins(incoming, 1, Remainder(k, "="))
      BY <1>6, <3>1 DEF Success
    <3>4. OKEnd(k, incoming) = Len(Remainder(k, "=")) + 1
      BY <1>8, <3>2, <3>3, OwnReplyRead
    <3>5. OKEnd(k, incoming) = p
      BY <1>7, <1>11, <3>1, <3>4 DEF Success
    <3> QED
      BY <3>1, <3>5, Zenon
  <2>2. CASE CallError
    <3>1. sign = Failure /\ CallbackRan(c, ErrorEnd(k, incoming))
      BY <1>5, <2>2, Zenon DEF CallError, Failure
    <3>2. Rewinds /\ k # "time"
      BY <1>6, <3>1, AnswerSignsAre DEF Exact
    <3>3. Begins(incoming, 1, Remainder(k, "%"))
      BY <1>6, <3>1, Zenon DEF Failure
    <3>4. ErrorEnd(k, incoming) = Len(Remainder(k, "%")) + 1
      BY <1>8, <3>2, <3>3, OwnErrorRead, Zenon
    <3>5. ErrorEnd(k, incoming) = p
      BY <1>7, <1>11, <3>1, <3>4, Zenon DEF Failure
    <3> QED
      BY <3>1, <3>5, Zenon
  <2> QED
    BY <2>1, <2>2
<1>12. PICK p \in Positions : p = n + 1
  BY DEF Positions
<1>13. p = Len(Remainder(kind[c], head.sign)) + 1
  BY <1>5, <1>7, <1>12
<1>14. \A i \in 1..(p - 1) : ~IsAnswer(i)
  BY <1>9, <1>12
<1>15. p <= Len(incoming) + 1 /\ CallbackRan(c, p)
  BY <1>10, <1>11, <1>12
<1> QED
  BY <1>1, <1>2, <1>4, <1>13, <1>14, <1>15

\* The callback leaves the next line first, and is the only one that waits no more.
LEMMA CallbackAligned ==
  ASSUME IInv, Stream, Outcomes, Aligned, connected, CallOK \/ CallError
  PROVE  Aligned'
<1>1. PICK c : c = head.call
  OBVIOUS
<1>2. /\ loop = "dispatch" /\ c \in Calls /\ Open(c)
      /\ Exact(kind[c], head.sign) /\ head.sign \in AnswerSigns
  BY <1>1, ExactRead
<1>3. PICK p \in Positions :
        /\ p = Len(Remainder(kind[c], head.sign)) + 1
        /\ p <= Len(incoming) + 1
        /\ \A i \in 1..(p - 1) : ~IsAnswer(i)
        /\ CallbackRan(c, p)
  BY <1>1, ExactRead
<1>4. /\ UNCHANGED <<verdict, reqID, kind, connected, stage, asyncMap>>
      /\ incoming' = Rest(incoming, p) /\ loop' = "top"
      /\ ran' = [ran EXCEPT ![c] = head.sign]
  <2>1. CallbackRan(c, p)
    BY <1>3
  <2> QED
    BY <2>1 DEF CallbackRan, mapVars, callVars, netVars
<1>5. /\ head.sign # "no"
      /\ ran \in [Calls -> AnswerSigns \cup {"no"}] /\ chan \in [Calls -> Channel]
  <2>1. "no" \notin AnswerSigns
    BY Zenon DEF AnswerSigns
  <2> QED
    BY <1>2, <2>1 DEF IInv, TypeOK
<1>6. ran'[c] # "no" /\ \A d \in Calls : d # c => ran'[d] = ran[d]
  BY <1>2, <1>4, <1>5
<1>7. /\ ~(Open(c))' /\ \A d \in Calls : d # c => ((Open(d))' <=> Open(d))
      /\ \A d \in Calls : (Answered(d))' <=> Answered(d)
  BY <1>4, <1>6 DEF Open, Answered
<1>8. ExactCalls'
  BY <1>4 DEF Aligned, ExactCalls, Answered
<1>9. 1 \in Positions /\ 1 + p - 1 = p
  BY DEF Positions
<1>10. TypeOK /\ Chained /\ UNCHANGED <<verdict, reqID, kind, connected>>
  BY <1>4 DEF IInv, Aligned
<1>11. Chained'
  <2>1. EndsLine(1 + p - 1)
    BY <1>1, <1>2, <1>3, <1>9, <1>10 DEF Chained
  <2>2. (EndsLine(1))'
    BY <1>3, <1>4, <1>9, <1>10, <2>1, RestEndsLine
  <2>3. \A i \in DOMAIN incoming' :
          (IsAnswer(i))' => (EndsLine(i + Len(ReplyOf(incoming[i].v))))'
    BY <1>3, <1>4, <1>9, <1>10, RestChained
  <2> QED
    BY <1>4, <2>2, <2>3 DEF Chained
<1>12. InMap'
  BY <1>1, <1>4, <1>7 DEF Aligned, InMap, Dispatching
<1>13. Waits'
  <2> SUFFICES ASSUME NEW d \in Calls, Answered(d), Open(d), d # c
               PROVE  (Coming(d))'
    BY <1>4, <1>7 DEF Waits
  <2>1. Coming(d)
    BY <1>1 DEF Aligned, Waits, Dispatching
  <2>2. \A i \in 1..(p - 1) : IsAnswer(i) => incoming[i].v # d
    BY <1>3
  <2>3. TypeOK /\ incoming' = Rest(incoming, p) /\ p <= Len(incoming) + 1
    BY <1>3, <1>4, <1>10
  <2> QED
    BY <2>1, <2>2, <2>3, RestComing
<1>14. OneUser'
  <2>1. PICK m \in {0, 1} : m = Senders(kind[c], head.sign, incoming)
    BY <1>2, ExactCallback
  <2>2. PICK more : chan' = [chan EXCEPT ![c].senders = @ + m, ![c].gives = @ \cup more]
    BY <1>3, <2>1 DEF CallbackRan
  <2>3. chan[c] = NoChannel
    BY <1>2 DEF Outcomes, Silent, Open
  <2>4. /\ chan'[c].senders = m /\ chan'[c].closers = 0 /\ chan'[c].closed = FALSE
        /\ \A d \in Calls : d # c => chan'[d] = chan[d]
    BY <1>2, <1>5, <2>2, <2>3 DEF NoChannel, Channel
  <2> QED
    BY <2>4 DEF Aligned, OneUser
<1> QED
  BY <1>4, <1>8, <1>11, <1>12, <1>13, <1>14 DEF Aligned, Alive
\* A server that keeps to the setting gives an answer its callback reads exactly: a request
\* that is not whole is answered with an error, and then errors are among those.
LEMMA ExactAnswer ==
  ASSUME ExactSetting, TypeOK, Steady, Goroutines <= 1 => WholeRequests,
         NEW a \in Request, ServerReply(a), stage[a.call] # "new"
  PROVE  \E s \in AnswerSigns :
           /\ Exact(kind[a.call], s)
           /\ incoming' = incoming \o Reply(s, a.call, reqID[a.call], kind[a.call])
           /\ verdict' = [verdict EXCEPT ![a.call] = s]
<1>1. a.call \in Calls /\ a \in accepted
  BY DEF Request, ServerReply
<1>2. kind[a.call] \in KindsUsed
  BY <1>1 DEF Steady
<1>3. PICK s \in IF a.whole THEN ReplySigns ELSE {Failure} :
        /\ incoming' = incoming \o Reply(s, a.call, reqID[a.call], kind[a.call])
        /\ verdict' = [verdict EXCEPT ![a.call] = s]
  BY Zenon DEF ServerReply, Failure
<1>4. CASE a.whole
  BY <1>2, <1>3, <1>4, KomClientAssumption DEF ExactSetting
<1>5. CASE ~a.whole
  <2>1. ~(Goroutines <= 1)
    BY <1>1, <1>5 DEF WholeRequests
  <2>2. s = Failure
    BY <1>3, <1>5
  <2> QED
    BY <1>2, <1>3, <2>1, <2>2, AnswerSignsAre DEF ExactSetting
<1> QED
  BY <1>4, <1>5

\* An answer starts a line where the stream ended and ends it with its last byte.
LEMMA ServerReplyAligned ==
  ASSUME ExactSetting, IInv, Steady, Aligned, Goroutines <= 1 => WholeRequests,
         NEW a \in Request, ServerReply(a)
  PROVE  Aligned'
<1>1. PICK c \in Calls : c = a.call
  BY DEF Request
<1>2. /\ UNCHANGED <<reqID, kind, asyncMap, stage, ran, chan, loop, head>>
      /\ connected /\ connected' /\ verdict[c] = "none" /\ stage[c] # "new"
      /\ incoming \in Seq(Token) /\ Len(incoming) \in Nat
      /\ reqID[c] \in Nat /\ kind[c] \in Kinds
      /\ verdict \in [Calls -> AnswerSigns \cup {"none"}]
  BY <1>1 DEF ServerReply, mapVars, callVars, loopVars, chanVars, IInv, TypeOK, Ids,
              Correlation, Known
<1>3. PICK s \in AnswerSigns :
        /\ Exact(kind[c], s)
        /\ incoming' = incoming \o Reply(s, c, reqID[c], kind[c])
        /\ verdict' = [verdict EXCEPT ![c] = s]
  BY <1>1, <1>2, ExactAnswer DEF IInv
<1>4. PICK reply : reply = Reply(s, c, reqID[c], kind[c])
  OBVIOUS
<1>5. /\ reply \in Seq(Token) /\ Len(reply) >= 3 /\ reply[1].t = s /\ reply[1].v = c
      /\ \A i \in 2..Len(reply) : reply[i].t \notin AnswerSigns
  <2>1. PICK id \in Nat, k \in Kinds : id = reqID[c] /\ k = kind[c]
    BY <1>2
  <2>2. /\ Reply(s, c, id, k) \in Seq(Token)
        /\ Len(Reply(s, c, id, k)) >= 3
        /\ Reply(s, c, id, k)[1].t = s /\ Reply(s, c, id, k)[1].v = c
        /\ Reply(s, c, id, k)[2] = Num(id)
        /\ \A i \in 2..Len(Reply(s, c, id, k)) : Reply(s, c, id, k)[i].t \notin AnswerSigns
    BY ReplyShape
  <2>3. reply = Reply(s, c, id, k)
    BY <1>4, <2>1
  <2> QED
    BY <2>2, <2>3, Zenon
<1>6. verdict'[c] = s /\ \A d \in Calls : d # c => verdict'[d] = verdict[d]
  BY <1>2, <1>3
<1>7. /\ Len(incoming') = Len(incoming) + Len(reply)
      /\ \A i \in 1..Len(incoming) : incoming'[i] = incoming[i]
      /\ \A i \in 1..Len(reply) : incoming'[Len(incoming) + i] = reply[i]
      /\ incoming' \in Seq(Token) /\ Len(reply) \in Nat
  <2>1. incoming' = incoming \o reply
    BY <1>3, <1>4
  <2>2. /\ Len(incoming \o reply) = Len(incoming) + Len(reply)
        /\ \A i \in 1..Len(incoming) + Len(reply) : (incoming \o reply)[i] =
             IF i <= Len(incoming) THEN incoming[i] ELSE reply[i - Len(incoming)]
        /\ incoming \o reply \in Seq(Token)
    BY <1>2, <1>5, ConcatProperties
  <2> QED
    BY <1>2, <1>5, <2>1, <2>2
<1>8. PICK n \in Positions : n = Len(incoming) + 1
  BY <1>2 DEF Positions
<1>9. /\ \A i \in DOMAIN incoming : IsAnswer(i) =>
           (IsAnswer(i))' /\ incoming'[i] = incoming[i] /\ i # n
      /\ (IsAnswer(n))' /\ incoming'[n].v = c
  <2>1. 1 \in 1..Len(reply) /\ n \in 1..Len(incoming')
    BY <1>2, <1>5, <1>7, <1>8
  <2>2. incoming'[n] = reply[1]
    BY <1>7, <1>8, <2>1
  <2>3. DOMAIN incoming = 1..Len(incoming) /\ DOMAIN incoming' = 1..Len(incoming')
    BY <1>2, <1>7
  <2>4. ASSUME NEW i \in 1..Len(incoming), IsAnswer(i)
        PROVE  (IsAnswer(i))' /\ incoming'[i] = incoming[i] /\ i # n
    <3>1. i # n /\ i \in 1..Len(incoming')
      BY <1>2, <1>5, <1>7, <1>8
    <3>2. incoming'[i] = incoming[i]
      BY <1>7
    <3> QED
      BY <2>3, <2>4, <3>1, <3>2, Zenon DEF IsAnswer
  <2>5. (IsAnswer(n))' /\ incoming'[n].v = c
    BY <1>5, <2>1, <2>2, <2>3 DEF IsAnswer
  <2> QED
    BY <2>3, <2>4, <2>5, Zenon
<1>10. ASSUME NEW i \in DOMAIN incoming', (IsAnswer(i))'
       PROVE  i = n \/ (IsAnswer(i) /\ i \in DOMAIN incoming)
  <2>1. CASE i \in 1..Len(incoming)
    <3>1. incoming'[i] = incoming[i] /\ DOMAIN incoming = 1..Len(incoming)
      BY <1>2, <1>7, <2>1
    <3> QED
      BY <1>10, <2>1, <3>1, Zenon DEF IsAnswer
  <2>2. CASE i \notin 1..Len(incoming) /\ i # n
    <3>1. i \in 1..(Len(incoming) + Len(reply))
      BY <1>7
    <3>2. i - Len(incoming) \in 2..Len(reply) /\ Len(incoming) + (i - Len(incoming)) = i
      BY <1>2, <1>7, <1>8, <2>2, <3>1
    <3>3. incoming'[i] = reply[i - Len(incoming)]
      <4>1. i - Len(incoming) \in 1..Len(reply)
        BY <1>7, <3>2
      <4> QED
        BY <1>7, <3>2, <4>1
    <3> QED
      BY <1>5, <1>10, <3>2, <3>3 DEF IsAnswer
  <2> QED
    BY <2>1, <2>2
<1>11. \A m \in Nat : EndsLine(m) => (EndsLine(m))'
  BY <1>8, <1>9 DEF EndsLine, IsAnswer
<1>12. ExactCalls'
  BY <1>2, <1>3, <1>6 DEF Aligned, ExactCalls, Answered
<1>13. Chained'
  <2>1. ASSUME NEW i \in DOMAIN incoming', (IsAnswer(i))'
        PROVE  (EndsLine(i + Len(ReplyOf(incoming[i].v))))'
    <3>1. CASE i = n
      <4>1. (ReplyOf(incoming[i].v))' = reply
        <5>1. (ReplyOf(incoming[i].v))' = Reply(verdict'[c], c, reqID'[c], kind'[c])
          BY <1>9, <3>1 DEF ReplyOf
        <5> QED
          BY <1>2, <1>4, <1>6, <5>1
      <4>2. n + Len(reply) = Len(incoming') + 1
        BY <1>2, <1>7, <1>8
      <4> QED
        BY <3>1, <4>1, <4>2 DEF EndsLine
    <3>2. CASE IsAnswer(i) /\ i \in DOMAIN incoming
      <4>1. PICK d \in Calls : d = incoming[i].v /\ d # c
        <5>1. incoming[i].v \in Calls /\ verdict[incoming[i].v] \in AnswerSigns
          BY <3>2, AnswerCall
        <5> QED
          BY <1>2, <5>1, AnswerSignsAre
      <4>2. PICK m \in Nat : m = i + Len(ReplyOf(d))
        <5>1. ReplyOf(d) \in Seq(Token) /\ i \in Positions
          BY <3>2, <4>1, AnswerCall
        <5> QED
          BY <5>1 DEF Positions
      <4>3. (ReplyOf(incoming[i].v))' = ReplyOf(d)
        <5>1. incoming'[i].v = d
          BY <1>9, <3>2, <4>1
        <5> QED
          BY <1>2, <1>6, <4>1, <5>1 DEF ReplyOf
      <4>4. EndsLine(m)
        BY <3>2, <4>1, <4>2 DEF Aligned, Chained
      <4>5. (EndsLine(m))'
        BY <1>11, <4>4
      <4> QED
        BY <4>2, <4>3, <4>5 DEF EndsLine, IsAnswer
    <3> QED
      BY <1>10, <2>1, <3>1, <3>2
  <2>2. (EndsLine(IF loop = "dispatch" THEN Len(Remainder(kind[head.call], head.sign)) + 1 ELSE 1))'
    <3>1. PICK m \in Nat :
            m = IF loop = "dispatch" THEN Len(Remainder(kind[head.call], head.sign)) + 1 ELSE 1
      BY DispatchedCall
    <3>2. EndsLine(m)
      BY <3>1 DEF Aligned, Chained
    <3>3. (EndsLine(m))'
      BY <1>11, <3>2
    <3> QED
      BY <1>2, <3>1, <3>3 DEF EndsLine, IsAnswer
  <2> QED
    BY <2>1, <2>2 DEF Chained
<1>14. InMap'
  BY <1>2 DEF Aligned, InMap, Open, Dispatching
<1>15. Waits'
  <2> SUFFICES ASSUME NEW d \in Calls, (Answered(d))', Open(d)
               PROVE  (Coming(d))' \/ Dispatching(d)
    BY <1>2 DEF Waits, Open, Dispatching
  <2>1. CASE d = c
    BY <1>9, <2>1 DEF Coming, IsAnswer
  <2>2. CASE d # c
    <3>1. Coming(d) \/ Dispatching(d)
      BY <1>6, <2>2 DEF Aligned, Waits, Answered
    <3>2. Coming(d) => (Coming(d))'
      BY <1>9 DEF Coming, IsAnswer
    <3> QED
      BY <3>1, <3>2
  <2> QED
    BY <2>1, <2>2
<1>16. OneUser' /\ Alive'
  BY <1>2 DEF Aligned, OneUser, Alive
<1> QED
  BY <1>12, <1>13, <1>14, <1>15, <1>16 DEF Aligned

-----------------------------------------------------------------------------
(* The invariant, and what it says of the connection. *)

\* No step of a living connection leads out of step.
LEMMA NextAligned ==
  ASSUME ExactSetting, SInv, Steady, Goroutines <= 1 => WholeRequests,
         Aligned, connected, connected', [Next]_vars
  PROVE  Aligned'
<1>1. IInv /\ Stream /\ Outcomes /\ TypeOK
  BY DEF SInv, IInv
<1>2. ASSUME NEW c \in Calls, CallerStep(c) PROVE Aligned'
  BY <1>1, <1>2, RegisterAligned, QuietAlignedSteps, ChannelAligned DEF CallerStep
<1>3. CASE LoopStep
  <2>1. ~CallOKPanics
    <3> SUFFICES ASSUME CallOKPanics PROVE FALSE
      OBVIOUS
    <3>1. /\ loop = "dispatch" /\ head.sign = Success
          /\ OKPanics(kind[head.call], incoming)
      BY DEF CallOKPanics, Success
    <3>2. head.call \in Calls /\ head.call = head.answers /\ verdict[head.call] # "none"
      BY <1>1, <3>1, DispatchedCall DEF CutHeader
    <3>3. Exact(kind[head.call], head.sign)
      BY <1>1, <3>1, <3>2 DEF Aligned, ExactCalls, Answered, Stream, Signs
    <3> QED
      BY <3>1, <3>3, ExactCallback
  <2> QED
    BY <1>1, <1>3, <2>1, QuietAlignedSteps, ReadHeaderAligned, CallbackAligned DEF LoopStep
<1>4. CASE ServerStep
  <2>1. ~ServerNotice
    BY <1>1 DEF ServerNotice, ExactSetting, TypeOK
  <2> QED
    BY <1>1, <1>4, <2>1, QuietAlignedSteps, ServerReplyAligned DEF ServerStep
<1>5. ~Disconnect
  BY DEF Disconnect
<1> QED
  BY <1>1, <1>2, <1>3, <1>4, <1>5, QuietAlignedSteps DEF Next

\* No break is undone.
LEMMA BrokenStays == [Next]_vars => (connected' => connected)
<1> SUFFICES ASSUME [Next]_vars, connected' PROVE connected
  OBVIOUS
<1>1. ASSUME NEW c \in Calls, CallerStep(c) PROVE connected
  BY <1>1 DEF CallerStep, Register, SendBody, SendLF, Receive, CloseChannel, netVars
<1>2. ASSUME LoopStep PROVE connected
  BY <1>2 DEF LoopStep, Poll, ReadHeader, CallOK, CallOKPanics, CallError, CallbackRan, netVars
<1>3. ASSUME ServerStep \/ Disconnect \/ ShutDown \/ UNCHANGED vars PROVE connected
  BY <1>3 DEF ServerStep, ServerRead, ServerReply, ServerNotice, Disconnect, ShutDown,
              vars, netVars
<1> QED
  BY <1>1, <1>2, <1>3 DEF Next

\* Callers that take turns send whole requests.
LEMMA TakingTurns == Spec => [](Goroutines <= 1 => WholeRequests)
<1>1. CASE Goroutines <= 1
  <2>1. Spec => []WholeRequests
    BY <1>1, WholeRequestsHolds
  <2> QED
    BY <2>1, PTL
<1>2. CASE ~(Goroutines <= 1)
  <2>1. Goroutines <= 1 => WholeRequests
    BY <1>2
  <2> QED
    BY <2>1, PTL
<1> QED
  BY <1>1, <1>2

\* In an exact setting a living connection is always in step.
LEMMA AlignedHolds ==
  ASSUME ExactSetting
  PROVE  Spec => [](connected => Aligned)
<1>1. Init => (connected => Aligned)
  BY InitAligned
<1>2. /\ SInv /\ Steady /\ (Goroutines <= 1 => WholeRequests)
      /\ (connected => Aligned) /\ [Next]_vars
      => (connected => Aligned)'
  BY NextAligned, BrokenStays
<1> QED
  BY <1>1, <1>2, SoundInductive, SteadyHolds, TakingTurns, PTL DEF Spec

\* Between two replies the next byte, if there is one, starts a line: in an exact setting
\* without a break every callback reads its own reply to the end and nothing of the next
\* one, for any number of calls and however the server orders its answers.
THEOREM InStepHolds ==
  ASSUME ExactSetting, ~MayDisconnect
  PROVE  Spec => []InStep
<1>1. ASSUME SInv, Steady, connected => Aligned PROVE InStep
  <2> SUFFICES ASSUME loop \in {"top", "reading", "stopped"}, incoming # <<>>
               PROVE  incoming[1].t \in AnswerSigns
    BY DEF InStep
  <2>1. Aligned
    BY <1>1 DEF Steady
  <2>2. 1 # Len(incoming) + 1
    BY <1>1 DEF SInv, IInv, TypeOK
  <2> QED
    BY <2>1, <2>2 DEF Aligned, Chained, EndsLine, IsAnswer
<1> QED
  BY <1>1, SoundInductive, SteadyHolds, AlignedHolds, PTL

\* While the connection lives no answer is lost in an exact setting: it stays in the
\* stream, and its callback in the map, until receiveLoop brings the two together.
THEOREM NoLostReplyHolds ==
  ASSUME ExactSetting
  PROVE  Spec => []NoLostReply
<1>1. ASSUME SInv, connected => Aligned PROVE NoLostReply
  <2> SUFFICES ASSUME NEW c \in Calls, connected, Answered(c), ran[c] = "no",
                      ~Dispatching(c)
               PROVE  /\ \E i \in DOMAIN incoming :
                           incoming[i].t \in AnswerSigns /\ incoming[i].v = c
                      /\ asyncMap[reqID[c]] = c
    BY DEF NoLostReply, Dispatching
  <2>1. Open(c)
    BY <1>1 DEF SInv, IInv, Correlation, Known, Open, Answered
  <2>2. Coming(c) /\ asyncMap[reqID[c]] = c
    BY <1>1, <2>1 DEF Aligned, Waits, InMap
  <2> QED
    BY <2>2 DEF Coming, IsAnswer
<1> QED
  BY <1>1, SoundInductive, AlignedHolds, PTL

\* In an exact setting without a break no reply makes the program panic: receiveLoop finds
\* a callback for each, no list is too short, and no goroutine sends on or closes a channel
\* that is closed.
THEOREM NoPanicHolds ==
  ASSUME ExactSetting, ~MayDisconnect
  PROVE  Spec => []NoPanic
<1>1. Steady /\ (connected => Aligned) => NoPanic
  BY DEF Steady, Aligned, NoPanic
<1> QED
  BY <1>1, SteadyHolds, AlignedHolds, PTL
=============================================================================
